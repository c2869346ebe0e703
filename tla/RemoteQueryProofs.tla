-------------------------- MODULE RemoteQueryProofs --------------------------
(***************************************************************************)
(* Theorems about RemoteQuery, LocationParser and EnvelopeCodec.           *)
(***************************************************************************)
EXTENDS RemoteQuery, WellFoundedInduction, SequenceTheorems, FiniteSetTheorems, TLAPS

(***************************************************************************)
(* Natural numbers                                                         *)
(***************************************************************************)

\* A set of natural numbers has a least element.
LEMMA LeastElement ==
    ASSUME NEW T \in SUBSET Nat, T # {}
    PROVE  \E n \in T : \A m \in T : n <= m
<1>   DEFINE Less == {ss \in Nat \X Nat : ss[1] < ss[2]}
<1>1. Less = OpToRel(<, Nat)
      BY Zenon DEF OpToRel
<1>2. IsWellFoundedOn(Less, Nat)
      BY <1>1, NatLessThanWellFounded, Zenon
<1>3. PICK n \in T : \A m \in T : ~ (<<m, n>> \in Less)
      <2>   HIDE DEF Less
      <2>   QED  BY <1>2, WFMin
<1>4. \A m \in T : n <= m
      <2>   SUFFICES ASSUME NEW m \in T PROVE n <= m  OBVIOUS
      <2>1. ~ (m < n)
            BY <1>3
      <2>   QED  BY <2>1
<1>   QED  BY <1>4

\* What holds for no least counterexample holds for every number up to n.
\* The sets are counterexamples.
LEMMA NoCounterexample ==
    ASSUME NEW T \in SUBSET Nat, 0 \notin T,
           \A n \in Nat : n + 1 \in T => n \in T
    PROVE  T = {}
<1>   SUFFICES ASSUME T # {} PROVE FALSE  OBVIOUS
<1>1. PICK n \in T : \A m \in T : n <= m
      BY LeastElement
<1>2. n \in Nat /\ n # 0 /\ n - 1 \in Nat /\ n = (n - 1) + 1
      BY <1>1
<1>3. n - 1 \in T
      BY <1>2
<1>   QED  BY <1>1, <1>2, <1>3

\* f is what step makes of base, again and again.
Iterates(f, S, base, step) ==
    /\ f \in [Nat -> S]
    /\ f[0] = base
    /\ \A i \in Nat : f[i + 1] = step[<<i, f[i]>>]

\* There is such a function: definitions by recursion have the value they say.
LEMMA RecursionExists ==
    ASSUME NEW S, NEW base \in S, NEW step \in [Nat \X S -> S]
    PROVE  \E f : Iterates(f, S, base, step)
<1>   DEFINE Good(n, f) == /\ f \in [0 .. n -> S] /\ f[0] = base
                           /\ \A i \in 0 .. n - 1 : f[i + 1] = step[<<i, f[i]>>]
             Bad == {n \in Nat : ~ \E f \in [0 .. n -> S] : Good(n, f)}
<1>1. \A n \in Nat : \E f \in [0 .. n -> S] : Good(n, f)
  <2>1. 0 \notin Bad
        <3>1. [i \in 0 .. 0 |-> base] \in [0 .. 0 -> S] /\ Good(0, [i \in 0 .. 0 |-> base])
              OBVIOUS
        <3>   QED  BY <3>1
  <2>2. ASSUME NEW n \in Nat, n + 1 \in Bad PROVE n \in Bad
    <3>   SUFFICES ASSUME NEW f \in [0 .. n -> S], Good(n, f) PROVE FALSE
          BY <2>2
    <3>   DEFINE g == [i \in 0 .. n + 1 |-> IF i = n + 1 THEN step[<<n, f[n]>>] ELSE f[i]]
    <3>1. f[n] \in S /\ step[<<n, f[n]>>] \in S
          OBVIOUS
    <3>2. g \in [0 .. n + 1 -> S] /\ g[0] = base
          BY <3>1
    <3>3. ASSUME NEW i \in 0 .. (n + 1) - 1 PROVE g[i + 1] = step[<<i, g[i]>>]
          <4>1. CASE i = n
                <5>1. g[n + 1] = step[<<n, f[n]>>] /\ g[n] = f[n]
                      OBVIOUS
                <5>   QED  BY <4>1, <5>1
          <4>2. CASE i # n
                <5>1. i \in 0 .. n - 1 /\ i + 1 \in 0 .. n /\ i + 1 # n + 1 /\ i # n + 1
                      BY <4>2
                <5>   QED BY <5>1
          <4>   QED  BY <4>1, <4>2
    <3>   QED  BY <2>2, <3>2, <3>3
  <2>   HIDE DEF Good
  <2>3. Bad = {}
        <3>1. Bad \in SUBSET Nat  OBVIOUS
        <3>   HIDE DEF Bad
        <3>   QED  BY <2>1, <2>2, <3>1, NoCounterexample
  <2>   QED  BY <2>3
<1>2. ASSUME NEW m \in Nat, NEW n \in Nat, m <= n, NEW f, NEW g, Good(m, f), Good(n, g)
      PROVE  \A i \in 0 .. m : f[i] = g[i]
  <2>   DEFINE Differ == {i \in Nat : i \in 0 .. m /\ f[i] # g[i]}
  <2>1. 0 \notin Differ
        BY <1>2
  <2>2. ASSUME NEW i \in Nat, i + 1 \in Differ PROVE i \in Differ
        <3>1. i \in 0 .. m - 1 /\ i \in 0 .. n - 1 /\ i \in 0 .. m
              BY <1>2, <2>2
        <3>2. f[i + 1] = step[<<i, f[i]>>] /\ g[i + 1] = step[<<i, g[i]>>]
              BY <1>2, <3>1
        <3>3. f[i] # g[i]
              BY <2>2, <3>2
        <3>   QED  BY <3>1, <3>3
  <2>3. Differ = {}
        <3>1. Differ \in SUBSET Nat  OBVIOUS
        <3>   HIDE DEF Differ
        <3>   QED  BY <2>1, <2>2, <3>1, NoCounterexample
  <2>   QED  BY <2>3
<1>   DEFINE part(n) == CHOOSE f \in [0 .. n -> S] : Good(n, f)
             h == [n \in Nat |-> part(n)[n]]
<1>3. \A n \in Nat : part(n) \in [0 .. n -> S] /\ Good(n, part(n))
      <2>   HIDE DEF Good
      <2>   QED  BY <1>1
<1>4. h \in [Nat -> S] /\ h[0] = base
      <2>1. \A n \in Nat : part(n)[n] \in S  BY <1>3
      <2>2. part(0)[0] = base  BY <1>3
      <2>   QED  BY <2>1, <2>2
<1>5. ASSUME NEW i \in Nat PROVE h[i + 1] = step[<<i, h[i]>>]
      <2>1. i + 1 \in Nat /\ i \in 0 .. (i + 1) - 1 /\ i <= i + 1 /\ i \in 0 .. i
            OBVIOUS
      <2>2. Good(i, part(i)) /\ Good(i + 1, part(i + 1))
            <3>   HIDE DEF Good, part
            <3>   QED  BY <1>3, <2>1
      <2>   HIDE DEF part
      <2>3. part(i + 1)[i + 1] = step[<<i, part(i + 1)[i]>>]
            BY <2>1, <2>2
      <2>4. part(i)[i] = part(i + 1)[i]
            <3>   HIDE DEF Good
            <3>   QED  BY <2>1, <2>2, <1>2
      <2>5. h[i] = part(i)[i] /\ h[i + 1] = part(i + 1)[i + 1]
            BY <2>1
      <2>   QED  BY <2>3, <2>4, <2>5
<1>   HIDE DEF h
<1>6. Iterates(h, S, base, step)
      BY <1>4, <1>5 DEF Iterates
<1>   QED  BY <1>6

(***************************************************************************)
(* Integers                                                                *)
(***************************************************************************)
LEMMA LimitDef ==
    /\ Limit \in [Nat -> Nat \ {0}]
    /\ Limit[0] = 1
    /\ \A w \in Nat : Limit[w + 1] = Base * Limit[w]
<1>   DEFINE S == Nat \ {0}
             step == [x \in Nat \X S |-> Base * x[2]]
             Is(f) == f = [w \in Nat |-> IF w = 0 THEN 1 ELSE Base * f[w - 1]]
<1>1. step \in [Nat \X S -> S]
      BY CodecAssumption
<1>2. PICK f : Iterates(f, S, 1, step)
      <2>1. 1 \in S  OBVIOUS
      <2>   HIDE DEF S, step
      <2>   QED  BY <1>1, <2>1, RecursionExists
<1>3. Is(f)
      <2>1. f \in [Nat -> S] /\ f[0] = 1
            BY <1>2 DEF Iterates
      <2>2. ASSUME NEW w \in Nat PROVE f[w + 1] = Base * f[w]
            <3>1. f[w + 1] = step[<<w, f[w]>>] /\ <<w, f[w]>> \in Nat \X S
                  BY <1>2, <2>1 DEF Iterates
            <3>   QED  BY <3>1
      <2>3. ASSUME NEW w \in Nat PROVE f[w] = IF w = 0 THEN 1 ELSE Base * f[w - 1]
            <3>1. CASE w = 0  BY <3>1, <2>1
            <3>2. CASE w # 0
                  <4>1. w - 1 \in Nat /\ (w - 1) + 1 = w  BY <3>2
                  <4>   QED  BY <4>1, <2>2, <3>2
            <3>   QED  BY <3>1, <3>2
      <2>   HIDE DEF S, step
      <2>   QED  BY <2>1, <2>3
<1>4. Is(Limit)
      BY <1>3 DEF Limit
<1>   HIDE DEF step
<1>5. Limit[0] = 1 /\ \A w \in Nat : Limit[w + 1] = Base * Limit[w]
      <2>1. Limit[0] = 1  BY <1>4
      <2>2. ASSUME NEW w \in Nat PROVE Limit[w + 1] = Base * Limit[w]
            <3>1. w + 1 \in Nat /\ w + 1 # 0 /\ (w + 1) - 1 = w  OBVIOUS
            <3>   QED  BY <1>4, <3>1
      <2>   QED  BY <2>1, <2>2
<1>6. \A w \in Nat : Limit[w] \in S
      <2>   DEFINE Bad == {w \in Nat : Limit[w] \notin S}
      <2>1. Bad \in SUBSET Nat /\ 0 \notin Bad
            BY <1>5
      <2>2. ASSUME NEW w \in Nat, w + 1 \in Bad PROVE w \in Bad
            BY <1>5, <2>2, CodecAssumption
      <2>3. Bad = {}
            <3>   HIDE DEF Bad
            <3>   QED  BY <2>1, <2>2, NoCounterexample
      <2>   QED  BY <2>3
<1>   QED  BY <1>4, <1>5, <1>6

AllNumbers(s, from, w) == \A i \in 0 .. w - 1 : s[from + i] \in Nat

\* The sums that Number ends with.
LEMMA SumsDef ==
    ASSUME NEW s, NEW from \in Nat, NEW w \in Nat, AllNumbers(s, from, w)
    PROVE  /\ Sums(s, from, w) \in [0 .. w -> Nat]
           /\ Sums(s, from, w)[0] = 0
           /\ \A i \in 0 .. w - 1 :
                Sums(s, from, w)[i + 1] = Sums(s, from, w)[i] + s[from + i] * Limit[i]
<1>   DEFINE step == [x \in Nat \X Nat |->
                        IF x[1] < w THEN x[2] + s[from + x[1]] * Limit[x[1]] ELSE 0]
             Is(f) == f = [i \in 0 .. w |->
                             IF i = 0 THEN 0 ELSE f[i - 1] + s[from + i - 1] * Limit[i - 1]]
             Sum == Sums(s, from, w)
<1>0. \A i \in 0 .. w - 1 : s[from + i] \in Nat
      BY DEF AllNumbers
<1>1. step \in [Nat \X Nat -> Nat]
  <2>1. ASSUME NEW i \in Nat, NEW n \in Nat, i < w PROVE n + s[from + i] * Limit[i] \in Nat
        <3>1. s[from + i] \in Nat /\ Limit[i] \in Nat
              BY <1>0, <2>1, LimitDef
        <3>2. \A a, b \in Nat : n + a * b \in Nat
              OBVIOUS
        <3>   QED  BY <3>1, <3>2, Zenon
  <2>2. ASSUME NEW x \in Nat \X Nat
        PROVE  (IF x[1] < w THEN x[2] + s[from + x[1]] * Limit[x[1]] ELSE 0) \in Nat
        <3>1. x[1] \in Nat /\ x[2] \in Nat
              OBVIOUS
        <3>2. CASE x[1] < w
              <4>1. x[2] + s[from + x[1]] * Limit[x[1]] \in Nat
                    BY <2>1, <3>1, <3>2, Zenon
              <4>   QED  BY <3>2, <4>1
        <3>3. CASE ~ (x[1] < w)
              BY <3>3
        <3>   QED  BY <3>2, <3>3
  <2>   QED  BY <2>2
<1>2. PICK f : Iterates(f, Nat, 0, step)
      <2>   HIDE DEF step
      <2>   QED  BY <1>1, RecursionExists
<1>   DEFINE g == [i \in 0 .. w |-> f[i]]
<1>3. g[0] = 0 /\ g \in [0 .. w -> Nat]
      BY <1>2 DEF Iterates
<1>4. ASSUME NEW i \in 0 .. w - 1 PROVE g[i + 1] = g[i] + s[from + i] * Limit[i]
      <2>1. f[i + 1] = step[<<i, f[i]>>] /\ f[i] \in Nat /\ i \in Nat /\ i < w
            <3>   HIDE DEF step
            <3>   QED  BY <1>2 DEF Iterates
      <2>2. step[<<i, f[i]>>] = f[i] + s[from + i] * Limit[i]
            BY <2>1
      <2>3. g[i] = f[i] /\ g[i + 1] = f[i + 1]
            OBVIOUS
      <2>   HIDE DEF step, g
      <2>   QED  BY <2>1, <2>2, <2>3
<1>5. Is(g)
      <2>1. ASSUME NEW i \in 0 .. w
            PROVE  g[i] = IF i = 0 THEN 0 ELSE g[i - 1] + s[from + i - 1] * Limit[i - 1]
            <3>1. CASE i = 0  BY <3>1, <1>3
            <3>2. CASE i # 0
                  <4>1. i - 1 \in 0 .. w - 1 /\ (i - 1) + 1 = i /\ from + (i - 1) = from + i - 1
                        BY <3>2
                  <4>   HIDE DEF g
                  <4>   QED  BY <4>1, <1>4, <3>2
            <3>   QED  BY <3>1, <3>2
      <2>   HIDE DEF step
      <2>   QED  BY <1>3, <2>1
<1>6. Is(Sum)
      <2>   HIDE DEF g, step
      <2>   QED  BY <1>5 DEF Sums
<1>   HIDE DEF g, step
<1>7. Sum[0] = 0 /\ \A i \in 0 .. w - 1 : Sum[i + 1] = Sum[i] + s[from + i] * Limit[i]
      <2>   HIDE DEF Sum
      <2>1. Sum[0] = 0  BY <1>6
      <2>2. ASSUME NEW i \in 0 .. w - 1 PROVE Sum[i + 1] = Sum[i] + s[from + i] * Limit[i]
            <3>1. i + 1 \in 0 .. w /\ i + 1 # 0 /\ (i + 1) - 1 = i /\ from + (i + 1) - 1 = from + i
                  OBVIOUS
            <3>   QED  BY <1>6, <3>1
      <2>   QED  BY <2>1, <2>2
<1>8. \A i \in 0 .. w : Sum[i] \in Nat
      <2>   DEFINE Bad == {i \in 0 .. w : Sum[i] \notin Nat}
      <2>   HIDE DEF Sum
      <2>1. Bad \in SUBSET Nat /\ 0 \notin Bad
            BY <1>7
      <2>2. ASSUME NEW i \in Nat, i + 1 \in Bad PROVE i \in Bad
            <3>1. i \in 0 .. w - 1 /\ i \in 0 .. w  BY <2>2
            <3>2. Sum[i + 1] = Sum[i] + s[from + i] * Limit[i] /\ Limit[i] \in Nat /\ s[from + i] \in Nat
                  BY <3>1, <1>0, <1>7, LimitDef
            <3>   QED  BY <2>2, <3>1, <3>2
      <2>3. Bad = {}
            <3>   HIDE DEF Bad
            <3>   QED  BY <2>1, <2>2, NoCounterexample
      <2>   QED  BY <2>3
<1>9. Sum \in [0 .. w -> Nat]
      <2>   HIDE DEF Sum
      <2>   QED  BY <1>6, <1>8
<1>   QED  BY <1>7, <1>9

\* Division in two steps.
LEMMA DivDiv ==
    ASSUME NEW n \in Nat, NEW m \in Nat \ {0}, NEW k \in Nat \ {0}
    PROVE  /\ n \div (k * m) = (n \div m) \div k
           /\ n \div m \in Nat
<1>   DEFINE q == n \div m
             r == n % m
             p == q \div k
             t == q % k
<1>1. q \in Nat /\ r \in 0 .. m - 1 /\ n = m * q + r
      OBVIOUS
<1>2. p \in Nat /\ t \in 0 .. k - 1 /\ q = k * p + t
      BY <1>1
<1>   HIDE DEF q, r, p, t
<1>3. n = (k * m) * p + (m * t + r)
      BY <1>1, <1>2
<1>4. m * t + r \in Nat /\ m * t + r < k * m
  <2>1. m * t <= m * (k - 1)
        BY <1>2
  <2>   QED  BY <2>1, <1>1, <1>2
<1>5. k * m \in Nat \ {0}
      OBVIOUS
<1>6. n \div (k * m) = p
  <2>1. \A d \in Nat \ {0}, u \in Nat, v \in Nat : v < d => (d * u + v) \div d = u
        OBVIOUS
  <2>   QED  BY <1>2, <1>3, <1>4, <1>5, <2>1
<1>   QED  BY <1>1, <1>6 DEF q, p

LEMMA NextQuotient ==
    ASSUME NEW n \in Nat, NEW i \in Nat
    PROVE  /\ n \div Limit[i] \in Nat
           /\ n \div Limit[i + 1] = (n \div Limit[i]) \div Base
<1>1. Limit[i] \in Nat \ {0} /\ Limit[i + 1] = Base * Limit[i]
      BY LimitDef
<1>2. Base \in Nat \ {0}
      BY CodecAssumption
<1>3. \A m \in Nat \ {0}, k \in Nat \ {0} :
        n \div (k * m) = (n \div m) \div k /\ n \div m \in Nat
      BY DivDiv
<1>4. n \div (Base * Limit[i]) = (n \div Limit[i]) \div Base /\ n \div Limit[i] \in Nat
      BY <1>1, <1>2, <1>3, Zenon
<1>   QED  BY <1>1, <1>4, Zenon

LEMMA DigitsType ==
    ASSUME NEW n \in Nat, NEW w \in Nat
    PROVE  Digits(n, w) \in Seq(Bytes) /\ Len(Digits(n, w)) = w
<1>1. \A i \in 1 .. w : (n \div Limit[i - 1]) % Base \in Bytes
  <2>   SUFFICES ASSUME NEW i \in 1 .. w PROVE (n \div Limit[i - 1]) % Base \in Bytes
        OBVIOUS
  <2>1. Limit[i - 1] \in Nat \ {0}
        BY LimitDef
  <2>2. n \div Limit[i - 1] \in Nat
        BY <2>1, DivDiv
  <2>   QED  BY <2>2, CodecAssumption DEF Bytes
<1>   QED  BY <1>1 DEF Digits

\* The digits of a number are read as that number, if it fits.
LEMMA NumberOfDigits ==
    ASSUME NEW s, NEW from \in Nat, NEW w \in Nat, NEW n \in 0 .. Limit[w] - 1,
           \A i \in 1 .. w : s[from + i - 1] = Digits(n, w)[i]
    PROVE  Number(s, from, w) = n
<1>   DEFINE Sum == Sums(s, from, w)
             q(i) == n \div Limit[i]
<1>0. n \in Nat
      BY LimitDef
<1>1. \A i \in 0 .. w - 1 : s[from + i] = q(i) % Base /\ s[from + i] \in Nat
  <2>   SUFFICES ASSUME NEW i \in 0 .. w - 1
                 PROVE  s[from + i] = q(i) % Base /\ s[from + i] \in Nat
        OBVIOUS
  <2>1. i + 1 \in 1 .. w /\ from + (i + 1) - 1 = from + i /\ (i + 1) - 1 = i
        OBVIOUS
  <2>2. s[from + i] = Digits(n, w)[i + 1]
        BY <2>1
  <2>3. Digits(n, w)[i + 1] = q(i) % Base
        BY <2>1 DEF Digits
  <2>4. q(i) \in Nat
        <3>1. i \in Nat  OBVIOUS
        <3>   QED  BY <1>0, <3>1, NextQuotient, Zenon
  <2>   QED  BY <2>2, <2>3, <2>4, CodecAssumption
<1>2. /\ Sum \in [0 .. w -> Nat] /\ Sum[0] = 0
      /\ \A i \in 0 .. w - 1 : Sum[i + 1] = Sum[i] + s[from + i] * Limit[i]
  <2>1. AllNumbers(s, from, w)
        <3>   HIDE DEF q
        <3>   QED  BY <1>1 DEF AllNumbers
  <2>   QED  BY <2>1, SumsDef, Zenon
<1>   HIDE DEF Sum
<1>3. \A i \in 0 .. w : Sum[i] + Limit[i] * q(i) = n
  <2>   DEFINE Bad == {i \in 0 .. w : Sum[i] + Limit[i] * q(i) # n}
  <2>1. Bad \in SUBSET Nat /\ 0 \notin Bad
        <3>1. Sum[0] = 0 /\ Limit[0] = 1 /\ q(0) = n
              BY <1>0, <1>2, LimitDef
        <3>   HIDE DEF q
        <3>   QED  BY <1>0, <3>1
  <2>2. ASSUME NEW i \in Nat, i + 1 \in Bad PROVE i \in Bad
    <3>   DEFINE sum == Sum[i]
                 limit == Limit[i]
                 r == q(i) % Base
                 p == Base * q(i + 1)
    <3>1. i \in 0 .. w - 1 /\ i \in 0 .. w
          BY <2>2
    <3>2. sum \in Nat /\ Sum[i + 1] = sum + r * limit
          BY <3>1, <1>1, <1>2
    <3>3. limit \in Nat /\ Limit[i + 1] = Base * limit
          BY <3>1, LimitDef
    <3>4. q(i) \in Nat /\ q(i + 1) = q(i) \div Base
          BY <1>0, NextQuotient
    <3>5. Base \in Nat \ {0}
          BY CodecAssumption
    <3>6. p \in Nat /\ r \in Nat /\ q(i + 1) \in Nat /\ q(i) = p + r
      <4>   HIDE DEF q
      <4>   QED  BY <3>4, <3>5
    <3>7. Limit[i + 1] * q(i + 1) = limit * p
      <4>   HIDE DEF q, limit
      <4>   QED  BY <3>3, <3>5, <3>6
    <3>   HIDE DEF q, sum, limit, r, p
    <3>8. limit * q(i) = limit * p + r * limit
          BY <3>3, <3>6
    <3>9. limit * p \in Nat /\ r * limit \in Nat
          BY <3>3, <3>6
    <3>10. sum + limit * q(i) = Sum[i + 1] + Limit[i + 1] * q(i + 1)
          BY <3>2, <3>7, <3>8, <3>9
    <3>   QED  BY <2>2, <3>1, <3>10 DEF sum, limit
  <2>3. Bad = {}
        <3>   HIDE DEF Bad
        <3>   QED  BY <2>1, <2>2, NoCounterexample
  <2>   QED  BY <2>3
<1>4. q(w) = 0
  <2>1. \A m \in Nat \ {0} : \A k \in 0 .. m - 1 : k \div m = 0
        OBVIOUS
  <2>2. Limit[w] \in Nat \ {0}
        BY LimitDef
  <2>   QED  BY <2>1, <2>2, Zenon
<1>5. Sum[w] = n
      BY <1>2, <1>3, <1>4, LimitDef
<1>   QED  BY <1>5 DEF Number, Sum

\* The digits of n are found in s.
Shows(s, from, w, n) ==
    /\ n \in 0 .. Limit[w] - 1
    /\ \A i \in 1 .. w : s[from + i - 1] = Digits(n, w)[i]

LEMMA ShownNumber ==
    ASSUME NEW s, NEW from \in Nat, NEW w \in Nat, NEW n, Shows(s, from, w, n)
    PROVE  Number(s, from, w) = n
BY NumberOfDigits DEF Shows

\* Bytes that are the same are read as the same number.
Agree(s, t, from, w) ==
    \A i \in 0 .. w - 1 : s[from + i] \in Nat /\ s[from + i] = t[from + i]

LEMMA NumberSame ==
    ASSUME NEW s, NEW t, NEW from \in Nat, NEW w \in Nat, Agree(s, t, from, w)
    PROVE  Number(s, from, w) = Number(t, from, w) /\ Number(s, from, w) \in Nat
<1>   DEFINE Sum(u) == Sums(u, from, w)
             Rec(u) == /\ Sum(u) \in [0 .. w -> Nat] /\ Sum(u)[0] = 0
                       /\ \A i \in 0 .. w - 1 : Sum(u)[i + 1] = Sum(u)[i] + u[from + i] * Limit[i]
<1>1. Rec(s) /\ Rec(t)
  <2>1. ASSUME NEW u, AllNumbers(u, from, w) PROVE Rec(u)
        BY <2>1, SumsDef, Zenon
  <2>2. AllNumbers(s, from, w) /\ AllNumbers(t, from, w)
        BY DEF Agree, AllNumbers
  <2>3. Rec(s) /\ Rec(t)
        <3>   HIDE DEF Rec
        <3>   QED  BY <2>1, <2>2
  <2>   QED  BY <2>3
<1>   HIDE DEF Sum
<1>   DEFINE Bad == {i \in 0 .. w : Sum(s)[i] # Sum(t)[i]}
<1>2. Bad \in SUBSET Nat /\ 0 \notin Bad
      BY <1>1
<1>3. ASSUME NEW i \in Nat, i + 1 \in Bad PROVE i \in Bad
      <2>1. i \in 0 .. w - 1 /\ i \in 0 .. w  BY <1>3
      <2>2. Sum(s)[i + 1] = Sum(s)[i] + s[from + i] * Limit[i]
            /\ Sum(t)[i + 1] = Sum(t)[i] + s[from + i] * Limit[i]
            BY <1>1, <2>1 DEF Agree
      <2>   QED  BY <1>3, <2>1, <2>2
<1>4. Bad = {}
      <2>   HIDE DEF Bad
      <2>   QED  BY <1>2, <1>3, NoCounterexample
<1>5. Sum(s)[w] = Sum(t)[w] /\ Sum(s)[w] \in Nat
      <2>1. w \in 0 .. w  OBVIOUS
      <2>2. Sum(s)[w] = Sum(t)[w]  BY <1>4, <2>1
      <2>3. Sum(s)[w] \in Nat  BY <1>1, <2>1
      <2>   QED  BY <2>2, <2>3
<1>   QED  BY <1>5 DEF Number, Sum

(***************************************************************************)
(* Sequences                                                               *)
(***************************************************************************)
StartsWith(t, s) == Len(s) <= Len(t) /\ \A i \in 1 .. Len(s) : t[i] = s[i]

LEMMA ConcatParts ==
    ASSUME NEW S, NEW s \in Seq(S), NEW t \in Seq(S)
    PROVE  /\ s \o t \in Seq(S)
           /\ Len(s \o t) = Len(s) + Len(t)
           /\ StartsWith(s \o t, s)
           /\ \A i \in 1 .. Len(t) : (s \o t)[Len(s) + i] = t[i]
<1>1. Len(s) \in Nat /\ Len(t) \in Nat
      BY LenProperties
<1>2. /\ s \o t \in Seq(S)
      /\ Len(s \o t) = Len(s) + Len(t)
      /\ \A i \in 1 .. Len(s) + Len(t) :
           (s \o t)[i] = IF i <= Len(s) THEN s[i] ELSE t[i - Len(s)]
      BY ConcatProperties
<1>3. StartsWith(s \o t, s)
      BY <1>1, <1>2 DEF StartsWith
<1>4. ASSUME NEW i \in 1 .. Len(t) PROVE (s \o t)[Len(s) + i] = t[i]
      <2>1. /\ Len(s) + i \in 1 .. Len(s) + Len(t) /\ ~ (Len(s) + i <= Len(s))
            /\ (Len(s) + i) - Len(s) = i
            BY <1>1
      <2>   QED  BY <1>2, <2>1
<1>   QED  BY <1>2, <1>3, <1>4

\* What is found at a place of s is a subsequence of it.
LEMMA Piece ==
    ASSUME NEW S, NEW s \in Seq(S), NEW t \in Seq(S), NEW k \in Nat,
           k + Len(t) <= Len(s), \A i \in 1 .. Len(t) : s[k + i] = t[i]
    PROVE  SubSeq(s, k + 1, k + Len(t)) = t
<1>   DEFINE u == SubSeq(s, k + 1, k + Len(t))
<1>1. Len(s) \in Nat /\ Len(t) \in Nat
      BY LenProperties
<1>2. \A i \in k + 1 .. k + Len(t) : s[i] \in S
      BY <1>1, ElementOfSeq
<1>3. /\ u \in Seq(S)
      /\ Len(u) = IF k + 1 <= k + Len(t) THEN (k + Len(t)) - (k + 1) + 1 ELSE 0
      /\ \A i \in 1 .. (k + Len(t)) - (k + 1) + 1 : u[i] = s[(k + 1) + i - 1]
      BY <1>1, <1>2, SubSeqProperties
<1>   HIDE DEF u
<1>4. Len(u) = Len(t)
      BY <1>1, <1>3
<1>5. ASSUME NEW i \in 1 .. Len(t) PROVE u[i] = t[i]
      <2>1. i \in 1 .. (k + Len(t)) - (k + 1) + 1 /\ (k + 1) + i - 1 = k + i
            BY <1>1
      <2>   QED  BY <1>3, <2>1
<1>   QED  BY <1>3, <1>4, <1>5, SeqEqual DEF u

(***************************************************************************)
(* Encoded tags                                                            *)
(***************************************************************************)
LEMMA EncodeTagParts ==
    ASSUME NEW tag \in Seq(Bytes)
    PROVE  /\ EncodeTag(tag) \in Seq(Bytes)
           /\ Len(EncodeTag(tag)) = U16 + Len(tag)
           /\ \A i \in 1 .. U16 : EncodeTag(tag)[i] = Digits(Len(tag), U16)[i]
           /\ \A i \in 1 .. Len(tag) : EncodeTag(tag)[U16 + i] = tag[i]
<1>1. Len(tag) \in Nat /\ U16 \in Nat
      BY LenProperties, CodecAssumption
<1>   DEFINE d == Digits(Len(tag), U16)
<1>2. d \in Seq(Bytes) /\ Len(d) = U16
      BY <1>1, DigitsType
<1>3. EncodeTag(tag) = d \o tag
      BY DEF EncodeTag
<1>   HIDE DEF d
<1>4. /\ d \o tag \in Seq(Bytes)
      /\ Len(d \o tag) = Len(d) + Len(tag)
      /\ StartsWith(d \o tag, d)
      /\ \A i \in 1 .. Len(tag) : (d \o tag)[Len(d) + i] = tag[i]
      BY <1>2, ConcatParts
<1>   QED  BY <1>2, <1>3, <1>4 DEF StartsWith, d

LEMMA CodedTagsDef ==
    ASSUME NEW tags \in Seq(Seq(Bytes))
    PROVE  /\ CodedTags(tags) \in [0 .. Len(tags) -> Seq(Bytes)]
           /\ CodedTags(tags)[0] = <<>>
           /\ \A i \in 0 .. Len(tags) - 1 :
                CodedTags(tags)[i + 1] = CodedTags(tags)[i] \o EncodeTag(tags[i + 1])
<1>   DEFINE n == Len(tags)
             S == Seq(Bytes)
             step == [x \in Nat \X S |->
                        IF x[1] < n THEN x[2] \o EncodeTag(tags[x[1] + 1]) ELSE x[2]]
             Is(f) == f = [i \in 0 .. n |-> IF i = 0 THEN <<>> ELSE f[i - 1] \o EncodeTag(tags[i])]
             Coded == CodedTags(tags)
<1>1. n \in Nat /\ <<>> \in S
      BY LenProperties, EmptySeq
<1>2. \A i \in 1 .. n : EncodeTag(tags[i]) \in S
      BY ElementOfSeq, EncodeTagParts
<1>3. step \in [Nat \X S -> S]
  <2>   SUFFICES ASSUME NEW i \in Nat, NEW u \in S, i < n PROVE u \o EncodeTag(tags[i + 1]) \in S
        OBVIOUS
  <2>1. i + 1 \in 1 .. n
        BY <1>1
  <2>   QED  BY <1>2, <2>1, ConcatParts
<1>   HIDE DEF n
<1>4. PICK f : Iterates(f, S, <<>>, step)
      <2>   HIDE DEF step, S
      <2>   QED  BY <1>1, <1>3, RecursionExists
<1>   DEFINE g == [i \in 0 .. n |-> f[i]]
<1>5. g[0] = <<>> /\ g \in [0 .. n -> S]
      BY <1>1, <1>4 DEF Iterates
<1>6. ASSUME NEW i \in 0 .. n - 1 PROVE g[i + 1] = g[i] \o EncodeTag(tags[i + 1])
      <2>1. f[i + 1] = step[<<i, f[i]>>] /\ f[i] \in S /\ i \in Nat /\ i < n
            <3>   HIDE DEF step, S
            <3>   QED  BY <1>1, <1>4 DEF Iterates
      <2>2. step[<<i, f[i]>>] = f[i] \o EncodeTag(tags[i + 1])
            BY <2>1
      <2>3. g[i] = f[i] /\ g[i + 1] = f[i + 1]
            BY <1>1
      <2>   HIDE DEF step, g
      <2>   QED  BY <2>1, <2>2, <2>3
<1>   HIDE DEF S
<1>7. Is(g)
      <2>1. ASSUME NEW i \in 0 .. n
            PROVE  g[i] = IF i = 0 THEN <<>> ELSE g[i - 1] \o EncodeTag(tags[i])
            <3>1. CASE i = 0  BY <3>1, <1>5
            <3>2. CASE i # 0
                  <4>1. i - 1 \in 0 .. n - 1 /\ (i - 1) + 1 = i
                        BY <1>1, <3>2
                  <4>   HIDE DEF g
                  <4>   QED  BY <4>1, <1>6, <3>2
            <3>   QED  BY <3>1, <3>2
      <2>   HIDE DEF step
      <2>   QED  BY <1>5, <2>1
<1>8. Is(Coded)
      <2>   HIDE DEF g, step
      <2>   QED  BY <1>7 DEF CodedTags, n
<1>   HIDE DEF g, step, Coded
<1>9. Coded[0] = <<>>
      BY <1>1, <1>8
<1>10. ASSUME NEW i \in 0 .. n - 1 PROVE Coded[i + 1] = Coded[i] \o EncodeTag(tags[i + 1])
      <2>1. i + 1 \in 0 .. n /\ i + 1 # 0 /\ (i + 1) - 1 = i
            BY <1>1
      <2>   QED  BY <1>8, <2>1
<1>11. \A i \in 0 .. n : Coded[i] \in S
      <2>   DEFINE Bad == {i \in 0 .. n : Coded[i] \notin S}
      <2>1. Bad \in SUBSET Nat /\ 0 \notin Bad
            BY <1>1, <1>9
      <2>2. ASSUME NEW i \in Nat, i + 1 \in Bad PROVE i \in Bad
            <3>1. i \in 0 .. n - 1 /\ i \in 0 .. n /\ i + 1 \in 1 .. n  BY <1>1, <2>2
            <3>2. Coded[i] \in S => Coded[i + 1] \in S
                  BY <3>1, <1>2, <1>10, ConcatParts DEF S
            <3>   QED  BY <2>2, <3>1, <3>2
      <2>3. Bad = {}
            <3>   HIDE DEF Bad
            <3>   QED  BY <2>1, <2>2, NoCounterexample
      <2>   QED  BY <2>3
<1>12. Coded \in [0 .. n -> S]
      BY <1>8, <1>11
<1>   QED  BY <1>9, <1>10, <1>12 DEF Coded, n, S

\* The tags encoded so far stay as they are.
LEMMA CodedTagsGrow ==
    ASSUME NEW tags \in Seq(Seq(Bytes)), NEW i \in 0 .. Len(tags)
    PROVE  StartsWith(EncodeTags(tags), CodedTags(tags)[i])
<1>   DEFINE n == Len(tags)
             Coded == CodedTags(tags)
             Bad == {k \in Nat : i + k <= n /\ ~ StartsWith(Coded[i + k], Coded[i])}
<1>1. n \in Nat
      BY LenProperties
<1>2. /\ \A j \in 0 .. n : Coded[j] \in Seq(Bytes) /\ Len(Coded[j]) \in Nat
      /\ \A j \in 0 .. n - 1 : Coded[j + 1] = Coded[j] \o EncodeTag(tags[j + 1])
      BY CodedTagsDef, LenProperties
<1>   HIDE DEF n, Coded
<1>3. Bad \in SUBSET Nat /\ 0 \notin Bad
      BY <1>1, <1>2 DEF StartsWith, n
<1>4. ASSUME NEW k \in Nat, k + 1 \in Bad PROVE k \in Bad
      <2>1. /\ i + k \in 0 .. n - 1 /\ i + k \in 0 .. n /\ i \in 0 .. n
            /\ (i + k) + 1 = i + (k + 1) /\ (i + k) + 1 \in 1 .. n
            BY <1>1, <1>4 DEF n
      <2>2. EncodeTag(tags[(i + k) + 1]) \in Seq(Bytes)
            BY <2>1, ElementOfSeq, EncodeTagParts DEF n
      <2>3. StartsWith(Coded[i + (k + 1)], Coded[i + k])
            <3>   DEFINE c == Coded[i + k]
                         e == EncodeTag(tags[(i + k) + 1])
            <3>1. Coded[i + (k + 1)] = c \o e /\ c \in Seq(Bytes)
                  BY <1>2, <2>1
            <3>   HIDE DEF c
            <3>   QED  BY <2>2, <3>1, ConcatParts DEF c
      <2>4. StartsWith(Coded[i + k], Coded[i]) => StartsWith(Coded[i + (k + 1)], Coded[i])
            BY <1>2, <2>1, <2>3 DEF StartsWith
      <2>   QED  BY <1>4, <2>1, <2>4
<1>5. Bad = {}
      <2>   HIDE DEF Bad
      <2>   QED  BY <1>3, <1>4, NoCounterexample
<1>6. StartsWith(Coded[n], Coded[i])
      <2>1. n - i \in Nat /\ i + (n - i) = n /\ i + (n - i) <= n
            BY <1>1 DEF n
      <2>   QED  BY <1>5, <2>1
<1>   QED  BY <1>6 DEF EncodeTags, Coded, n

(***************************************************************************)
(* Encoded envelopes                                                       *)
(***************************************************************************)
LEMMA EnvelopeType ==
    ASSUME NEW env \in Envelopes, NEW zstd \in BOOLEAN
    PROVE  /\ env = [shareable |-> env.shareable, tags |-> env.tags, payload |-> env.payload]
           /\ env.shareable \in BOOLEAN
           /\ env.tags \in Seq(Seq(Bytes)) /\ Len(env.tags) \in Nat
           /\ \A i \in 1 .. Len(env.tags) :
                /\ env.tags[i] \in Seq(Bytes) /\ Len(env.tags[i]) \in Nat
                /\ \A j \in 1 .. Len(env.tags[i]) : env.tags[i][j] # InvalidUtf8
           /\ env.payload \in Seq(Bytes)
           /\ StoredPayload(env, zstd) \in Seq(Bytes)
           /\ Flags(env, zstd) \in 0 .. 3
           /\ Flags(env, zstd) \div 2 % 2 = 1 <=> zstd
           /\ Flags(env, zstd) % 2 = 1 <=> env.shareable
<1>   DEFINE Text == Bytes \ {InvalidUtf8}
<1>1. env \in [shareable : BOOLEAN, tags : Seq(Seq(Text)), payload : Seq(Bytes)]
      BY InputsAssumption
<1>2. /\ env = [shareable |-> env.shareable, tags |-> env.tags, payload |-> env.payload]
      /\ env.shareable \in BOOLEAN /\ env.tags \in Seq(Seq(Text)) /\ env.payload \in Seq(Bytes)
      <2>   HIDE DEF Text
      <2>   QED  BY <1>1
<1>3. Seq(Text) \subseteq Seq(Bytes)
      BY SeqMonotonic
<1>4. env.tags \in Seq(Seq(Bytes)) /\ Len(env.tags) \in Nat
      <2>   HIDE DEF Text
      <2>   QED  BY <1>2, <1>3, SeqMonotonic, LenProperties
<1>5. ASSUME NEW i \in 1 .. Len(env.tags)
      PROVE  /\ env.tags[i] \in Seq(Bytes) /\ Len(env.tags[i]) \in Nat
             /\ \A j \in 1 .. Len(env.tags[i]) : env.tags[i][j] # InvalidUtf8
      <2>1. env.tags[i] \in Seq(Text)
            <3>   HIDE DEF Text
            <3>   QED  BY <1>2, ElementOfSeq
      <2>2. \A j \in 1 .. Len(env.tags[i]) : env.tags[i][j] \in Text
            <3>   HIDE DEF Text
            <3>   QED  BY <2>1, ElementOfSeq
      <2>3. Len(env.tags[i]) \in Nat
            <3>   HIDE DEF Text
            <3>   QED  BY <2>1, LenProperties
      <2>   QED  BY <1>3, <2>1, <2>2, <2>3
<1>6. StoredPayload(env, zstd) \in Seq(Bytes)
      BY <1>2, ExternalAssumption DEF StoredPayload
<1>7. /\ Flags(env, zstd) \in 0 .. 3
      /\ Flags(env, zstd) \div 2 % 2 = 1 <=> zstd
      /\ Flags(env, zstd) % 2 = 1 <=> env.shareable
      BY <1>2 DEF Flags
<1>   HIDE DEF Text
<1>   QED  BY <1>2, <1>4, <1>5, <1>6, <1>7

\* Where the parts of a body are.
LEMMA BodyParts ==
    ASSUME NEW env \in Envelopes, NEW zstd \in BOOLEAN
    PROVE  LET body == Body(env, zstd)
               tags == EncodeTags(env.tags)
               payload == StoredPayload(env, zstd)
               count == Digits(Len(env.tags), U16)
               size == Digits(Len(payload), U32)
           IN  /\ body \in Seq(Bytes) /\ tags \in Seq(Bytes)
               /\ Len(body) = 2 + U16 + Len(tags) + U32 + Len(payload)
               /\ body[1] = BINARY_MAGIC /\ body[2] = Flags(env, zstd)
               /\ \A i \in 1 .. U16 : body[2 + i] = count[i]
               /\ \A i \in 1 .. Len(tags) : body[2 + U16 + i] = tags[i]
               /\ \A i \in 1 .. U32 : body[2 + U16 + Len(tags) + i] = size[i]
               /\ \A i \in 1 .. Len(payload) : body[2 + U16 + Len(tags) + U32 + i] = payload[i]
<1>   DEFINE head == <<BINARY_MAGIC, Flags(env, zstd)>>
             tags == EncodeTags(env.tags)
             payload == StoredPayload(env, zstd)
             count == Digits(Len(env.tags), U16)
             size == Digits(Len(payload), U32)
             body2 == head \o count
             body3 == body2 \o tags
             body4 == body3 \o size
             body5 == body4 \o payload
<1>0. Body(env, zstd) = body5
      BY DEF Body
<1>1. head \in Seq(Bytes) /\ Len(head) = 2 /\ head[1] = BINARY_MAGIC /\ head[2] = Flags(env, zstd)
      <2>1. BINARY_MAGIC \in Bytes
            BY CodecAssumption DEF Bytes
      <2>2. Flags(env, zstd) \in 0 .. 3
            BY EnvelopeType
      <2>3. Flags(env, zstd) \in Bytes
            BY <2>2, CodecAssumption DEF Bytes
      <2>   QED  BY <2>1, <2>3
<1>2. payload \in Seq(Bytes) /\ Len(payload) \in Nat
      BY EnvelopeType, LenProperties
<1>3. tags \in Seq(Bytes) /\ Len(tags) \in Nat
      <2>1. env.tags \in Seq(Seq(Bytes)) /\ Len(env.tags) \in 0 .. Len(env.tags)
            BY EnvelopeType
      <2>2. EncodeTags(env.tags) \in Seq(Bytes)
            BY <2>1, CodedTagsDef DEF EncodeTags
      <2>   QED  BY <2>2, LenProperties
<1>4. U16 \in Nat /\ U32 \in Nat
      BY CodecAssumption
<1>5. count \in Seq(Bytes) /\ Len(count) = U16
      BY <1>4, EnvelopeType, DigitsType
<1>6. size \in Seq(Bytes) /\ Len(size) = U32
      BY <1>2, <1>4, DigitsType
<1>   HIDE DEF head, tags, payload, count, size, body2, body3, body4, body5
<1>7. /\ body2 \in Seq(Bytes) /\ Len(body2) = Len(head) + Len(count) /\ StartsWith(body2, head)
      /\ \A i \in 1 .. Len(count) : body2[Len(head) + i] = count[i]
      <2>1. head \in Seq(Bytes) /\ count \in Seq(Bytes)
            BY <1>1, <1>5
      <2>   QED  BY <2>1, ConcatParts, Zenon DEF body2
<1>8. /\ body3 \in Seq(Bytes) /\ Len(body3) = Len(body2) + Len(tags) /\ StartsWith(body3, body2)
      /\ \A i \in 1 .. Len(tags) : body3[Len(body2) + i] = tags[i]
      <2>1. body2 \in Seq(Bytes) /\ tags \in Seq(Bytes)
            BY <1>3, <1>7
      <2>   QED  BY <2>1, ConcatParts, Zenon DEF body3
<1>9. /\ body4 \in Seq(Bytes) /\ Len(body4) = Len(body3) + Len(size) /\ StartsWith(body4, body3)
      /\ \A i \in 1 .. Len(size) : body4[Len(body3) + i] = size[i]
      <2>1. body3 \in Seq(Bytes) /\ size \in Seq(Bytes)
            BY <1>6, <1>8
      <2>   QED  BY <2>1, ConcatParts, Zenon DEF body4
<1>10. /\ body5 \in Seq(Bytes) /\ Len(body5) = Len(body4) + Len(payload) /\ StartsWith(body5, body4)
      /\ \A i \in 1 .. Len(payload) : body5[Len(body4) + i] = payload[i]
      <2>1. body4 \in Seq(Bytes) /\ payload \in Seq(Bytes)
            BY <1>2, <1>9
      <2>   QED  BY <2>1, ConcatParts, Zenon DEF body5
<1>a. /\ Len(body2) = 2 + U16 /\ Len(body3) = 2 + U16 + Len(tags)
      /\ Len(body4) = 2 + U16 + Len(tags) + U32
      /\ Len(body5) = 2 + U16 + Len(tags) + U32 + Len(payload)
      BY <1>1, <1>5, <1>6, <1>7, <1>8, <1>9, <1>10
<1>11. \A i \in 1 .. 2 + U16 + Len(tags) + U32 : body5[i] = body4[i]
      BY <1>10, <1>a DEF StartsWith
<1>12. \A i \in 1 .. 2 + U16 + Len(tags) : body5[i] = body3[i]
      <2>1. \A i \in 1 .. 2 + U16 + Len(tags) : body4[i] = body3[i]
            BY <1>9, <1>a DEF StartsWith
      <2>2. \A i \in 1 .. 2 + U16 + Len(tags) : i \in 1 .. 2 + U16 + Len(tags) + U32
            BY <1>3, <1>4
      <2>   QED  BY <1>11, <2>1, <2>2
<1>13. \A i \in 1 .. 2 + U16 : body5[i] = body2[i]
      BY <1>3, <1>4, <1>8, <1>12, <1>a DEF StartsWith
<1>14. body5[1] = BINARY_MAGIC /\ body5[2] = Flags(env, zstd)
      <2>1. body2[1] = head[1] /\ body2[2] = head[2]
            BY <1>1, <1>7 DEF StartsWith
      <2>   QED  BY <1>1, <1>4, <1>13, <2>1
<1>15. ASSUME NEW i \in 1 .. U16 PROVE body5[2 + i] = count[i]
      BY <1>1, <1>4, <1>5, <1>7, <1>13
<1>16. ASSUME NEW i \in 1 .. Len(tags) PROVE body5[2 + U16 + i] = tags[i]
      BY <1>3, <1>4, <1>8, <1>12, <1>a
<1>17. ASSUME NEW i \in 1 .. U32 PROVE body5[2 + U16 + Len(tags) + i] = size[i]
      BY <1>3, <1>4, <1>6, <1>9, <1>11, <1>a
<1>18. ASSUME NEW i \in 1 .. Len(payload)
       PROVE  body5[2 + U16 + Len(tags) + U32 + i] = payload[i]
      BY <1>10, <1>a
<1>   QED  BY <1>0, <1>3, <1>10, <1>14, <1>15, <1>16, <1>17, <1>18, <1>a DEF tags, payload, count, size

LEMMA EncodedParts ==
    ASSUME NEW env \in Envelopes, NEW zstd \in BOOLEAN
    PROVE  LET body == Body(env, zstd)
               s == EncodeInner(env, zstd)
           IN  /\ s \in Seq(Bytes) /\ Len(body) \in Nat
               /\ Len(s) = Len(body) + 4
               /\ StartsWith(s, body)
               /\ \A i \in 1 .. 4 : s[Len(body) + i] = Digits(Crc(body), 4)[i]
<1>   DEFINE body == Body(env, zstd)
             check == Digits(Crc(body), 4)
<1>1. body \in Seq(Bytes) /\ Len(body) \in Nat
      BY BodyParts, LenProperties
<1>2. Crc(body) \in Nat
      BY ExternalAssumption, LimitDef
<1>3. check \in Seq(Bytes) /\ Len(check) = 4
      BY <1>2, DigitsType
<1>4. EncodeInner(env, zstd) = body \o check
      BY DEF EncodeInner
<1>   HIDE DEF body, check
<1>5. /\ body \o check \in Seq(Bytes)
      /\ Len(body \o check) = Len(body) + 4
      /\ StartsWith(body \o check, body)
      /\ \A i \in 1 .. 4 : (body \o check)[Len(body) + i] = check[i]
      <2>1. /\ body \o check \in Seq(Bytes)
            /\ Len(body \o check) = Len(body) + Len(check)
            /\ StartsWith(body \o check, body)
            /\ \A i \in 1 .. Len(check) : (body \o check)[Len(body) + i] = check[i]
            <3>1. body \in Seq(Bytes) /\ check \in Seq(Bytes)
                  BY <1>1, <1>3
            <3>   QED  BY <3>1, ConcatParts, Zenon
      <2>   QED  BY <1>3, <2>1
<1>   QED  BY <1>1, <1>4, <1>5 DEF body, check

(***************************************************************************)
(* Reading tags                                                            *)
(***************************************************************************)
CursorType == [pos : Nat, tags : Seq(Seq(Bytes)), err : {"none", "Truncated", "TagNotUtf8"}]

\* Numbers are read the same from sequences that start the same.
LEMMA ReadSame ==
    ASSUME NEW s \in Seq(Bytes), NEW t \in Seq(Bytes), StartsWith(s, t),
           NEW k \in Nat, NEW w \in Nat, Ensure(t, k, w)
    PROVE  /\ Number(t, k + 1, w) \in Nat
           /\ Number(s, k + 1, w) = Number(t, k + 1, w)
<1>1. Agree(t, s, k + 1, w)
  <2>   SUFFICES ASSUME NEW i \in 0 .. w - 1
                 PROVE  t[(k + 1) + i] \in Nat /\ t[(k + 1) + i] = s[(k + 1) + i]
        BY DEF Agree
  <2>1. (k + 1) + i \in 1 .. Len(t)
        BY LenProperties DEF Ensure
  <2>2. t[(k + 1) + i] \in Bytes
        BY <2>1, ElementOfSeq
  <2>   QED  BY <2>1, <2>2, CodecAssumption DEF StartsWith, Bytes
<1>2. k + 1 \in Nat
      OBVIOUS
<1>3. Number(t, k + 1, w) = Number(s, k + 1, w) /\ Number(t, k + 1, w) \in Nat
      BY <1>1, <1>2, NumberSame
<1>   QED  BY <1>3

LEMMA StartsWithItself ==
    ASSUME NEW S, NEW s \in Seq(S)
    PROVE  StartsWith(s, s) /\ Len(s) \in Nat
BY LenProperties DEF StartsWith

LEMMA ReadTagType ==
    ASSUME NEW s \in Seq(Bytes), NEW c \in CursorType
    PROVE  ReadTag(s, c) \in CursorType
<1>   DEFINE to == c.pos + U16 + Number(s, c.pos + 1, U16)
             tag == SubSeq(s, c.pos + U16 + 1, to)
<1>1. c.pos \in Nat /\ c.tags \in Seq(Seq(Bytes)) /\ U16 \in Nat
      BY CodecAssumption DEF CursorType
<1>2. ASSUME Ensure(s, c.pos, U16), Ensure(s, to, 0)
      PROVE  to \in Nat /\ Append(c.tags, tag) \in Seq(Seq(Bytes))
      <2>1. Number(s, c.pos + 1, U16) \in Nat
            BY <1>1, <1>2, ReadSame, StartsWithItself
      <2>2. \A i \in c.pos + U16 + 1 .. to : s[i] \in Bytes
            <3>   SUFFICES ASSUME NEW i \in c.pos + U16 + 1 .. to PROVE s[i] \in Bytes
                  OBVIOUS
            <3>1. i \in 1 .. Len(s)
                  BY <1>1, <1>2, <2>1, LenProperties DEF Ensure
            <3>   QED  BY <3>1, ElementOfSeq
      <2>3. to \in Nat
            BY <1>1, <2>1
      <2>4. tag \in Seq(Bytes)
            <3>1. c.pos + U16 + 1 \in Int /\ to \in Int
                  BY <1>1, <2>3
            <3>   HIDE DEF to
            <3>   QED  BY <2>2, <3>1, SubSeqProperties
      <2>   HIDE DEF to, tag
      <2>   QED  BY <1>1, <2>3, <2>4, AppendProperties
<1>3. ReadTag(s, c) =
        IF c.err # "none" THEN c
        ELSE IF ~ Ensure(s, c.pos, U16) THEN [c EXCEPT !.err = "Truncated"]
        ELSE IF ~ Ensure(s, to, 0) THEN [c EXCEPT !.err = "Truncated"]
        ELSE IF \E i \in 1 .. Len(tag) : tag[i] = InvalidUtf8 THEN [c EXCEPT !.err = "TagNotUtf8"]
        ELSE [c EXCEPT !.pos = to, !.tags = Append(@, tag)]
      BY DEF ReadTag
<1>   HIDE DEF to, tag
<1>4. [c EXCEPT !.err = "Truncated"] \in CursorType /\ [c EXCEPT !.err = "TagNotUtf8"] \in CursorType
      BY DEF CursorType
<1>5. ASSUME to \in Nat, Append(c.tags, tag) \in Seq(Seq(Bytes))
      PROVE  [c EXCEPT !.pos = to, !.tags = Append(@, tag)] \in CursorType
      BY <1>5 DEF CursorType
<1>   QED  BY <1>2, <1>3, <1>4, <1>5, Zenon

LEMMA CursorsDef ==
    ASSUME NEW s \in Seq(Bytes), NEW count \in Nat
    PROVE  /\ Cursors(s, count) \in [0 .. count -> CursorType]
           /\ Cursors(s, count)[0] = [pos |-> 2 + U16, tags |-> <<>>, err |-> "none"]
           /\ \A i \in 0 .. count - 1 :
                Cursors(s, count)[i + 1] = ReadTag(s, Cursors(s, count)[i])
<1>   DEFINE start == [pos |-> 2 + U16, tags |-> <<>>, err |-> "none"]
             step == [x \in Nat \X CursorType |-> ReadTag(s, x[2])]
             Is(f) == f = [i \in 0 .. count |-> IF i = 0 THEN start ELSE ReadTag(s, f[i - 1])]
             after == Cursors(s, count)
<1>1. start \in CursorType
      <2>1. 2 + U16 \in Nat  BY CodecAssumption
      <2>2. <<>> \in Seq(Seq(Bytes))  BY EmptySeq
      <2>3. \A p \in Nat, tags \in Seq(Seq(Bytes)), e \in {"none", "Truncated", "TagNotUtf8"} :
              [pos |-> p, tags |-> tags, err |-> e] \in CursorType
            BY DEF CursorType
      <2>4. "none" \in {"none", "Truncated", "TagNotUtf8"}  OBVIOUS
      <2>   QED  BY <2>1, <2>2, <2>3, <2>4, Zenon
<1>2. step \in [Nat \X CursorType -> CursorType]
      BY ReadTagType
<1>   HIDE DEF start
<1>4. PICK f : Iterates(f, CursorType, start, step)
      <2>   HIDE DEF step
      <2>   QED  BY <1>1, <1>2, RecursionExists
<1>   DEFINE g == [i \in 0 .. count |-> f[i]]
<1>5. g[0] = start /\ g \in [0 .. count -> CursorType]
      BY <1>4 DEF Iterates
<1>6. ASSUME NEW i \in 0 .. count - 1 PROVE g[i + 1] = ReadTag(s, g[i])
      <2>1. f[i + 1] = step[<<i, f[i]>>] /\ f[i] \in CursorType /\ i \in Nat
            <3>   HIDE DEF step
            <3>   QED  BY <1>4 DEF Iterates
      <2>2. step[<<i, f[i]>>] = ReadTag(s, f[i])
            BY <2>1
      <2>3. g[i] = f[i] /\ g[i + 1] = f[i + 1]
            OBVIOUS
      <2>   HIDE DEF step, g
      <2>   QED  BY <2>1, <2>2, <2>3
<1>7. Is(g)
      <2>1. ASSUME NEW i \in 0 .. count
            PROVE  g[i] = IF i = 0 THEN start ELSE ReadTag(s, g[i - 1])
            <3>1. CASE i = 0  BY <3>1, <1>5
            <3>2. CASE i # 0
                  <4>1. i - 1 \in 0 .. count - 1 /\ (i - 1) + 1 = i
                        BY <3>2
                  <4>   HIDE DEF g
                  <4>   QED  BY <4>1, <1>6, <3>2
            <3>   QED  BY <3>1, <3>2
      <2>   HIDE DEF step
      <2>   QED  BY <1>5, <2>1
<1>8. Is(after)
      <2>   HIDE DEF g, step
      <2>   QED  BY <1>7 DEF Cursors, start
<1>   HIDE DEF g, step, after
<1>9. after[0] = start
      BY <1>8
<1>10. ASSUME NEW i \in 0 .. count - 1 PROVE after[i + 1] = ReadTag(s, after[i])
      <2>1. i + 1 \in 0 .. count /\ i + 1 # 0 /\ (i + 1) - 1 = i
            OBVIOUS
      <2>   QED  BY <1>8, <2>1
<1>11. \A i \in 0 .. count : after[i] \in CursorType
      <2>   DEFINE Bad == {i \in 0 .. count : after[i] \notin CursorType}
      <2>1. Bad \in SUBSET Nat /\ 0 \notin Bad
            BY <1>1, <1>9
      <2>2. ASSUME NEW i \in Nat, i + 1 \in Bad PROVE i \in Bad
            <3>1. i \in 0 .. count - 1 /\ i \in 0 .. count  BY <2>2
            <3>   QED  BY <2>2, <3>1, <1>10, ReadTagType
      <2>3. Bad = {}
            <3>   HIDE DEF Bad
            <3>   QED  BY <2>1, <2>2, NoCounterexample
      <2>   QED  BY <2>3
<1>12. after \in [0 .. count -> CursorType]
      BY <1>8, <1>11
<1>   QED  BY <1>9, <1>10, <1>12 DEF after, start

LEMMA SubSeqAppend ==
    ASSUME NEW S, NEW s \in Seq(S), NEW i \in Nat, i + 1 <= Len(s)
    PROVE  Append(SubSeq(s, 1, i), s[i + 1]) = SubSeq(s, 1, i + 1)
<1>1. Len(s) \in Nat
      BY LenProperties
<1>2. \A j \in 1 .. i + 1 : s[j] \in S
      BY <1>1, ElementOfSeq
<1>3. SubSeq(s, 1, i) \in Seq(S) /\ s[i + 1] \in S
      BY <1>2, SubSeqProperties
<1>4. 1 \in 1 .. Len(s) /\ i + 1 \in 1 .. Len(s) /\ (i + 1) - 1 = i
      BY <1>1
<1>5. SubSeq(s, 1, i + 1) = SubSeq(s, 1, (i + 1) - 1) \o <<s[i + 1]>>
      BY <1>4, SubSeqRecursiveSecond
<1>   QED  BY <1>3, <1>4, <1>5, AppendIsConcat

\* An encoded tag is read as it was.
LEMMA ReadTagBack ==
    ASSUME NEW s \in Seq(Bytes), NEW c \in CursorType, c.err = "none",
           NEW tag \in Seq(Bytes), Len(tag) < Limit[U16],
           \A i \in 1 .. Len(tag) : tag[i] # InvalidUtf8,
           c.pos + U16 + Len(tag) <= Len(s),
           \A i \in 1 .. U16 + Len(tag) : s[c.pos + i] = EncodeTag(tag)[i]
    PROVE  ReadTag(s, c) = [pos |-> c.pos + U16 + Len(tag), tags |-> Append(c.tags, tag), err |-> "none"]
<1>   DEFINE k == c.pos
             to == k + U16 + Number(s, k + 1, U16)
<1>1. k \in Nat /\ U16 \in Nat /\ Len(tag) \in Nat /\ Len(s) \in Nat
      BY LenProperties, CodecAssumption DEF CursorType
<1>2. /\ \A i \in 1 .. U16 : EncodeTag(tag)[i] = Digits(Len(tag), U16)[i]
      /\ \A i \in 1 .. Len(tag) : EncodeTag(tag)[U16 + i] = tag[i]
      BY EncodeTagParts
<1>3. Number(s, k + 1, U16) = Len(tag)
  <2>1. ASSUME NEW i \in 1 .. U16 PROVE s[(k + 1) + i - 1] = Digits(Len(tag), U16)[i]
        <3>1. (k + 1) + i - 1 = k + i /\ i \in 1 .. U16 + Len(tag)
              BY <1>1
        <3>   QED  BY <1>2, <3>1
  <2>2. k + 1 \in Nat /\ Len(tag) \in 0 .. Limit[U16] - 1
        <3>1. Limit[U16] \in Nat  BY <1>1, LimitDef
        <3>   QED  BY <1>1, <3>1
  <2>   HIDE DEF k
  <2>3. Shows(s, k + 1, U16, Len(tag))
        BY <2>1, <2>2 DEF Shows
  <2>   QED  BY <1>1, <2>2, <2>3, ShownNumber
<1>4. to = k + U16 + Len(tag)
      BY <1>3
<1>5. SubSeq(s, k + U16 + 1, to) = tag
  <2>1. ASSUME NEW i \in 1 .. Len(tag) PROVE s[(k + U16) + i] = tag[i]
        <3>1. k + (U16 + i) = (k + U16) + i /\ U16 + i \in 1 .. U16 + Len(tag)
              BY <1>1
        <3>   QED  BY <1>2, <3>1
  <2>2. k + U16 \in Nat /\ (k + U16) + Len(tag) <= Len(s)
        BY <1>1
  <2>   HIDE DEF k, to
  <2>   QED  BY <1>4, <2>1, <2>2, Piece
<1>6. Ensure(s, k, U16) /\ Ensure(s, to, 0)
      BY <1>1, <1>4 DEF Ensure
<1>7. ReadTag(s, c) = [c EXCEPT !.pos = to, !.tags = Append(@, tag)]
      BY <1>5, <1>6 DEF ReadTag
<1>   HIDE DEF to
<1>8. ASSUME NEW q \in Nat, NEW r \in Seq(Seq(Bytes))
      PROVE  [c EXCEPT !.pos = q, !.tags = r] = [pos |-> q, tags |-> r, err |-> "none"]
      <2>   DEFINE d == [c EXCEPT !.pos = q, !.tags = r]
      <2>1. d \in CursorType
            BY DEF CursorType
      <2>2. d.pos = q /\ d.tags = r /\ d.err = "none"
            BY DEF CursorType
      <2>   HIDE DEF d
      <2>   QED  BY <2>1, <2>2 DEF CursorType
<1>9. to \in Nat /\ Append(c.tags, tag) \in Seq(Seq(Bytes))
      <2>1. c.tags \in Seq(Seq(Bytes))
            BY DEF CursorType
      <2>   QED  BY <1>1, <1>4, <2>1, AppendProperties
<1>   QED  BY <1>4, <1>7, <1>8, <1>9

\* What can be read from the first bytes of a sequence is read from the whole.
LEMMA ReadTagLocal ==
    ASSUME NEW s \in Seq(Bytes), NEW t \in Seq(Bytes), StartsWith(s, t),
           NEW c \in CursorType, ReadTag(t, c).err = "none"
    PROVE  c.err = "none" /\ ReadTag(s, c) = ReadTag(t, c)
<1>   DEFINE k == c.pos
             to(u) == k + U16 + Number(u, k + 1, U16)
             tag(u) == SubSeq(u, k + U16 + 1, to(u))
<1>1. k \in Nat /\ U16 \in Nat /\ Len(s) \in Nat /\ Len(t) \in Nat /\ Len(t) <= Len(s)
      BY LenProperties, CodecAssumption DEF CursorType, StartsWith
<1>2. \A u : ReadTag(u, c) =
        IF c.err # "none" THEN c
        ELSE IF ~ Ensure(u, k, U16) THEN [c EXCEPT !.err = "Truncated"]
        ELSE IF ~ Ensure(u, to(u), 0) THEN [c EXCEPT !.err = "Truncated"]
        ELSE IF \E i \in 1 .. Len(tag(u)) : tag(u)[i] = InvalidUtf8 THEN [c EXCEPT !.err = "TagNotUtf8"]
        ELSE [c EXCEPT !.pos = to(u), !.tags = Append(@, tag(u))]
      BY DEF ReadTag
<1>3. [c EXCEPT !.err = "Truncated"].err # "none"
      BY DEF CursorType
<1>   HIDE DEF k, to, tag
<1>4. c.err = "none" /\ Ensure(t, k, U16) /\ Ensure(t, to(t), 0)
      BY <1>2, <1>3
<1>5. to(s) = to(t) /\ to(t) \in Nat
      BY <1>1, <1>4, ReadSame DEF to
<1>6. Ensure(s, k, U16) /\ Ensure(s, to(s), 0)
      BY <1>1, <1>4, <1>5 DEF Ensure
<1>7. tag(s) = tag(t)
  <2>   DEFINE m == k + U16 + 1
               n == to(t)
  <2>1. m \in Nat \ {0} /\ n \in Nat /\ n <= Len(t)
        BY <1>1, <1>4, <1>5 DEF Ensure
  <2>2. tag(s) = SubSeq(s, m, n) /\ tag(t) = SubSeq(t, m, n)
        BY <1>5 DEF tag
  <2>   HIDE DEF m, n
  <2>3. \A i \in m .. n : s[i] = t[i] /\ i \in 1 .. Len(s) /\ i \in 1 .. Len(t)
        BY <1>1, <2>1 DEF StartsWith
  <2>4. \A i \in m .. n : s[i] \in Bytes /\ t[i] \in Bytes
        BY <2>3, ElementOfSeq
  <2>5. /\ SubSeq(s, m, n) \in Seq(Bytes)
        /\ Len(SubSeq(s, m, n)) = IF m <= n THEN n - m + 1 ELSE 0
        /\ \A i \in 1 .. n - m + 1 : SubSeq(s, m, n)[i] = s[m + i - 1]
        BY <2>1, <2>4, SubSeqProperties
  <2>6. /\ SubSeq(t, m, n) \in Seq(Bytes)
        /\ Len(SubSeq(t, m, n)) = IF m <= n THEN n - m + 1 ELSE 0
        /\ \A i \in 1 .. n - m + 1 : SubSeq(t, m, n)[i] = t[m + i - 1]
        BY <2>1, <2>4, SubSeqProperties
  <2>7. \A i \in 1 .. Len(SubSeq(s, m, n)) : SubSeq(s, m, n)[i] = SubSeq(t, m, n)[i]
        BY <2>1, <2>3, <2>5, <2>6
  <2>   QED  BY <2>2, <2>5, <2>6, <2>7, SeqEqual
<1>8. ~ \E i \in 1 .. Len(tag(t)) : tag(t)[i] = InvalidUtf8
  <2>1. [c EXCEPT !.err = "TagNotUtf8"].err # "none"
        BY DEF CursorType
  <2>   QED  BY <1>2, <1>4, <2>1
<1>9. ReadTag(t, c) = [c EXCEPT !.pos = to(t), !.tags = Append(@, tag(t))]
      BY <1>2, <1>4, <1>8
<1>10. ReadTag(s, c) = [c EXCEPT !.pos = to(s), !.tags = Append(@, tag(s))]
      BY <1>2, <1>4, <1>6, <1>7, <1>8
<1>   QED  BY <1>4, <1>5, <1>7, <1>9, <1>10

LEMMA ReadTagsLocal ==
    ASSUME NEW s \in Seq(Bytes), NEW t \in Seq(Bytes), StartsWith(s, t),
           NEW count \in Nat, ReadTags(t, count).err = "none"
    PROVE  ReadTags(s, count) = ReadTags(t, count)
<1>   DEFINE cs == Cursors(s, count)
             ct == Cursors(t, count)
             Bad == {i \in 0 .. count : ct[i].err = "none" /\ cs[i] # ct[i]}
<1>1. /\ cs[0] = ct[0]
      /\ \A i \in 0 .. count : ct[i] \in CursorType
      /\ \A i \in 0 .. count - 1 : cs[i + 1] = ReadTag(s, cs[i]) /\ ct[i + 1] = ReadTag(t, ct[i])
      BY CursorsDef
<1>   HIDE DEF cs, ct
<1>2. Bad \in SUBSET Nat /\ 0 \notin Bad
      BY <1>1
<1>3. ASSUME NEW i \in Nat, i + 1 \in Bad PROVE i \in Bad
      <2>1. i \in 0 .. count - 1 /\ i \in 0 .. count  BY <1>3
      <2>2. ct[i + 1] = ReadTag(t, ct[i]) /\ ct[i + 1].err = "none" /\ ct[i] \in CursorType
            BY <1>1, <1>3, <2>1
      <2>3. ct[i].err = "none" /\ ReadTag(s, ct[i]) = ct[i + 1]
            BY <2>2, ReadTagLocal
      <2>4. cs[i + 1] = ReadTag(s, cs[i])
            BY <1>1, <2>1
      <2>   QED  BY <1>3, <2>1, <2>3, <2>4
<1>4. Bad = {}
      <2>   HIDE DEF Bad
      <2>   QED  BY <1>2, <1>3, NoCounterexample
<1>5. count \in 0 .. count
      OBVIOUS
<1>   QED  BY <1>4, <1>5 DEF ReadTags, cs, ct

\* Where the tags of an encoded envelope end for the decoder.
LEMMA TagsBack ==
    ASSUME NEW env \in Envelopes, NEW zstd \in BOOLEAN, Fits(env, zstd),
           NEW s \in Seq(Bytes), StartsWith(s, Body(env, zstd))
    PROVE  /\ Number(s, 3, U16) = Len(env.tags)
           /\ ReadTags(s, Len(env.tags)) =
                [pos |-> 2 + U16 + Len(EncodeTags(env.tags)), tags |-> env.tags, err |-> "none"]
<1>   DEFINE body == Body(env, zstd)
             tags == env.tags
             n == Len(tags)
             all == EncodeTags(tags)
             coded == CodedTags(tags)
             after == Cursors(s, n)
             cursor(i) == [pos |-> 2 + U16 + Len(coded[i]), tags |-> SubSeq(tags, 1, i), err |-> "none"]
             Bad == {i \in 0 .. n : after[i] # cursor(i)}
<1>1. /\ tags \in Seq(Seq(Bytes)) /\ n \in Nat /\ U16 \in Nat /\ U32 \in Nat
      /\ \A i \in 1 .. n : /\ tags[i] \in Seq(Bytes) /\ Len(tags[i]) \in Nat
                           /\ \A j \in 1 .. Len(tags[i]) : tags[i][j] # InvalidUtf8
      BY EnvelopeType, CodecAssumption
<1>2. /\ all \in Seq(Bytes) /\ Len(all) \in Nat
      /\ \A i \in 1 .. U16 : s[2 + i] = Digits(n, U16)[i]
      /\ \A i \in 1 .. Len(all) : s[2 + U16 + i] = all[i]
      /\ 2 + U16 + Len(all) <= Len(s) /\ Len(s) \in Nat
  <2>   DEFINE payload == StoredPayload(env, zstd)
  <2>1. Len(payload) \in Nat /\ Len(s) \in Nat
        BY EnvelopeType, LenProperties
  <2>2. /\ all \in Seq(Bytes)
        /\ Len(body) = 2 + U16 + Len(all) + U32 + Len(payload)
        /\ \A i \in 1 .. U16 : body[2 + i] = Digits(n, U16)[i]
        /\ \A i \in 1 .. Len(all) : body[2 + U16 + i] = all[i]
        BY BodyParts
  <2>3. Len(all) \in Nat
        BY <2>2, LenProperties
  <2>   HIDE DEF body, all, payload, n, tags
  <2>4. Len(body) <= Len(s) /\ \A i \in 1 .. Len(body) : s[i] = body[i]
        BY DEF StartsWith, body
  <2>5. U16 \in Nat /\ U32 \in Nat
        BY <1>1
  <2>6. ASSUME NEW i \in 1 .. U16 PROVE s[2 + i] = Digits(n, U16)[i]
        <3>1. 2 + i \in 1 .. Len(body)
              BY <2>1, <2>2, <2>3, <2>5
        <3>   QED  BY <2>2, <2>4, <3>1
  <2>7. ASSUME NEW i \in 1 .. Len(all) PROVE s[2 + U16 + i] = all[i]
        <3>1. 2 + U16 + i \in 1 .. Len(body)
              BY <2>1, <2>2, <2>3, <2>5
        <3>   QED  BY <2>2, <2>4, <3>1
  <2>8. 2 + U16 + Len(all) <= Len(s)
        BY <2>1, <2>2, <2>3, <2>4, <2>5
  <2>   QED  BY <2>1, <2>2, <2>3, <2>6, <2>7, <2>8
<1>3. Number(s, 3, U16) = n
  <2>1. n \in 0 .. Limit[U16] - 1
        <3>1. Limit[U16] \in Nat  BY <1>1, LimitDef
        <3>   QED  BY <1>1, <3>1 DEF Fits
  <2>0. U16 \in Nat
        BY <1>1
  <2>   HIDE DEF n
  <2>2. ASSUME NEW from \in Nat, from = 3 PROVE Number(s, from, U16) = n
        <3>1. ASSUME NEW i \in 1 .. U16 PROVE s[from + i - 1] = Digits(n, U16)[i]
              <4>1. from + i - 1 = 2 + i  BY <1>1, <2>2
              <4>   QED  BY <1>2, <4>1
        <3>   QED  BY <2>0, <2>1, <3>1, NumberOfDigits, Zenon
  <2>   QED  BY <2>2
<1>4. /\ after[0] = [pos |-> 2 + U16, tags |-> <<>>, err |-> "none"]
      /\ \A i \in 0 .. n : after[i] \in CursorType
      /\ \A i \in 0 .. n - 1 : after[i + 1] = ReadTag(s, after[i])
      BY <1>1, CursorsDef
<1>5. /\ coded[0] = <<>>
      /\ \A i \in 0 .. n : coded[i] \in Seq(Bytes) /\ Len(coded[i]) \in Nat
      /\ \A i \in 0 .. n - 1 : coded[i + 1] = coded[i] \o EncodeTag(tags[i + 1])
      BY <1>1, CodedTagsDef, LenProperties
<1>6. \A i \in 0 .. n : StartsWith(all, coded[i])
      BY <1>1, CodedTagsGrow
<1>7. coded[n] = all
      BY DEF EncodeTags
<1>   HIDE DEF n, all, coded, after, tags
<1>8. Bad \in SUBSET Nat /\ 0 \notin Bad
  <2>1. SubSeq(tags, 1, 0) = <<>>
        BY SubSeqEmpty
  <2>2. Len(coded[0]) = 0
        BY <1>5, EmptySeq
  <2>3. cursor(0) = after[0]
        BY <1>1, <1>4, <2>1, <2>2
  <2>   HIDE DEF cursor
  <2>   QED  BY <2>3
<1>9. ASSUME NEW i \in Nat, i + 1 \in Bad PROVE i \in Bad
  <2>   DEFINE tag == tags[i + 1]
               c == cursor(i)
  <2>1. i \in 0 .. n - 1 /\ i \in 0 .. n /\ i + 1 \in 0 .. n /\ i + 1 \in 1 .. n
        BY <1>1, <1>9
  <2>2. SUFFICES ASSUME after[i] = c PROVE after[i + 1] = cursor(i + 1)
        BY <1>9, <2>1
  <2>3. tag \in Seq(Bytes) /\ Len(tag) \in Nat /\ \A j \in 1 .. Len(tag) : tag[j] # InvalidUtf8
        BY <1>1, <2>1
  <2>4. Len(tag) < Limit[U16]
        BY <2>1 DEF Fits, n, tags
  <2>5. /\ EncodeTag(tag) \in Seq(Bytes) /\ Len(EncodeTag(tag)) = U16 + Len(tag)
        BY <2>3, EncodeTagParts
  <2>   HIDE DEF tag
  <2>6. /\ Len(coded[i + 1]) = Len(coded[i]) + (U16 + Len(tag))
        /\ \A j \in 1 .. U16 + Len(tag) : coded[i + 1][Len(coded[i]) + j] = EncodeTag(tag)[j]
    <3>   DEFINE e == EncodeTag(tag)
                 d == coded[i]
    <3>1. coded[i + 1] = d \o e /\ d \in Seq(Bytes)
          BY <1>5, <2>1 DEF tag
    <3>2. e \in Seq(Bytes)  BY <2>5
    <3>   HIDE DEF e, d
    <3>3. Len(d \o e) = Len(d) + Len(e) /\ \A j \in 1 .. Len(e) : (d \o e)[Len(d) + j] = e[j]
          BY <3>1, <3>2, ConcatParts
    <3>   QED  BY <2>5, <3>1, <3>3 DEF e, d
  <2>7. /\ Len(coded[i + 1]) <= Len(all)
        /\ \A j \in 1 .. Len(coded[i + 1]) : all[j] = coded[i + 1][j]
        BY <1>6, <2>1 DEF StartsWith
  <2>8. Len(coded[i]) \in Nat /\ U16 \in Nat
        BY <1>1, <1>5, <2>1
  <2>a. c.pos = 2 + U16 + Len(coded[i]) /\ c.tags = SubSeq(tags, 1, i)
        OBVIOUS
  <2>b. Len(all) \in Nat /\ Len(s) \in Nat /\ 2 + U16 + Len(all) <= Len(s)
        BY <1>2
  <2>d. /\ c.pos + U16 + Len(tag) <= Len(s)
        /\ c.pos + U16 + Len(tag) = 2 + U16 + Len(coded[i + 1])
        /\ \A j \in 1 .. U16 + Len(tag) : /\ Len(coded[i]) + j \in 1 .. Len(coded[i + 1])
                                          /\ Len(coded[i]) + j \in 1 .. Len(all)
                                          /\ c.pos + j = 2 + U16 + (Len(coded[i]) + j)
        <3>1. Len(coded[i]) + (U16 + Len(tag)) <= Len(all) /\ Len(tag) \in Nat
              BY <2>3, <2>6, <2>7
        <3>2. c.pos = 2 + U16 + Len(coded[i])
              BY <2>a
        <3>3. Len(coded[i + 1]) = Len(coded[i]) + (U16 + Len(tag))
              BY <2>6
        <3>4. /\ (2 + U16 + Len(coded[i])) + U16 + Len(tag) <= Len(s)
              /\ (2 + U16 + Len(coded[i])) + U16 + Len(tag) = 2 + U16 + (Len(coded[i]) + (U16 + Len(tag)))
              /\ \A j \in 1 .. U16 + Len(tag) :
                   /\ Len(coded[i]) + j \in 1 .. Len(coded[i]) + (U16 + Len(tag))
                   /\ Len(coded[i]) + j \in 1 .. Len(all)
                   /\ (2 + U16 + Len(coded[i])) + j = 2 + U16 + (Len(coded[i]) + j)
              <4>1. Len(coded[i]) \in Nat  BY <2>8
              <4>2. U16 \in Nat  BY <2>8
              <4>3. Len(all) \in Nat /\ Len(s) \in Nat /\ 2 + U16 + Len(all) <= Len(s)  BY <2>b
              <4>4. Len(tag) \in Nat  BY <3>1
              <4>5. Len(coded[i]) + (U16 + Len(tag)) <= Len(all)  BY <3>1
              <4>   DEFINE k == Len(coded[i])
                           x == Len(tag)
                           l == Len(all)
                           m == Len(s)
              <4>   HIDE DEF k, x, l, m
              <4>6. k \in Nat /\ U16 \in Nat /\ x \in Nat /\ l \in Nat /\ m \in Nat
                    BY <4>1, <4>2, <4>3, <4>4 DEF k, x, l, m
              <4>7. k + (U16 + x) <= l /\ 2 + U16 + l <= m
                    BY <4>3, <4>5 DEF k, x, l, m
              <4>8. /\ (2 + U16 + k) + U16 + x <= m
                    /\ (2 + U16 + k) + U16 + x = 2 + U16 + (k + (U16 + x))
                    /\ \A j \in 1 .. U16 + x : /\ k + j \in 1 .. k + (U16 + x)
                                               /\ k + j \in 1 .. l
                                               /\ (2 + U16 + k) + j = 2 + U16 + (k + j)
                    BY <4>6, <4>7
              <4>   QED  BY <4>8, Zenon DEF k, x, l, m
        <3>   HIDE DEF c
        <3>   QED  BY <3>2, <3>3, <3>4, Zenon
  <2>10. ASSUME NEW j \in 1 .. U16 + Len(tag) PROVE s[c.pos + j] = EncodeTag(tag)[j]
        <3>1. s[2 + U16 + (Len(coded[i]) + j)] = all[Len(coded[i]) + j]
              BY <1>2, <2>d
        <3>2. all[Len(coded[i]) + j] = coded[i + 1][Len(coded[i]) + j]
              BY <2>7, <2>d
        <3>3. coded[i + 1][Len(coded[i]) + j] = EncodeTag(tag)[j]
              BY <2>6
        <3>   HIDE DEF c
        <3>   QED  BY <2>d, <3>1, <3>2, <3>3
  <2>11. c \in CursorType /\ c.err = "none"
        BY <1>4, <2>1, <2>2
  <2>12. ReadTag(s, c) = [pos |-> c.pos + U16 + Len(tag), tags |-> Append(c.tags, tag), err |-> "none"]
        <3>1. c.pos + U16 + Len(tag) <= Len(s)
              BY <2>d
        <3>2. c \in CursorType /\ c.err = "none"
              BY <2>11
        <3>   HIDE DEF c
        <3>   QED  BY <2>3, <2>4, <2>10, <3>1, <3>2, ReadTagBack, Zenon
  <2>13. Append(SubSeq(tags, 1, i), tag) = SubSeq(tags, 1, i + 1)
        BY <1>1, <2>1, SubSeqAppend DEF tag, n
  <2>15. after[i + 1] = ReadTag(s, c)
        BY <1>4, <2>1, <2>2
  <2>16. /\ c.pos + U16 + Len(tag) = 2 + U16 + Len(coded[i + 1])
         /\ Append(c.tags, tag) = SubSeq(tags, 1, i + 1)
        BY <2>13, <2>a, <2>d
  <2>   HIDE DEF c
  <2>   QED  BY <2>12, <2>15, <2>16, Zenon
<1>10. Bad = {}
      <2>   HIDE DEF Bad
      <2>   QED  BY <1>8, <1>9, NoCounterexample
<1>11. after[n] = cursor(n)
      <2>1. n \in 0 .. n  BY <1>1
      <2>   HIDE DEF cursor
      <2>   QED  BY <1>10, <2>1
<1>12. SubSeq(tags, 1, n) = tags
      BY <1>1, SubSeqFull DEF n
<1>   QED  BY <1>3, <1>7, <1>11, <1>12 DEF ReadTags, after, n, tags, all

(***************************************************************************)
(* Decoding                                                                *)
(***************************************************************************)
\* What the decoder finds in bytes that start with the body of an envelope.
LEMMA BodyRead ==
    ASSUME NEW env \in Envelopes, NEW zstd \in BOOLEAN, Fits(env, zstd),
           NEW t \in Seq(Bytes), StartsWith(t, Body(env, zstd))
    PROVE  LET body == Body(env, zstd)
               payload == StoredPayload(env, zstd)
               c == ReadTags(t, Number(t, 3, U16))
           IN  /\ body \in Seq(Bytes) /\ Len(body) \in Nat /\ Len(t) \in Nat
               /\ Len(t) >= 4 /\ t[1] = BINARY_MAGIC /\ t[2] = Flags(env, zstd)
               /\ Ensure(t, 2, U16)
               /\ c = [pos |-> 2 + U16 + Len(EncodeTags(env.tags)), tags |-> env.tags, err |-> "none"]
               /\ Ensure(t, c.pos, U32)
               /\ c.pos + U32 + Number(t, c.pos + 1, U32) = Len(body)
               /\ SubSeq(t, c.pos + U32 + 1, Len(body)) = payload
               /\ SubSeq(t, 1, Len(body)) = body
<1>   DEFINE body == Body(env, zstd)
             tags == EncodeTags(env.tags)
             payload == StoredPayload(env, zstd)
             size == Digits(Len(payload), U32)
             k == 2 + U16 + Len(tags)
<1>1. U16 \in Nat \ {0} /\ U32 \in Nat \ {0} /\ Len(t) \in Nat
      BY CodecAssumption, LenProperties
<1>2. payload \in Seq(Bytes) /\ Len(payload) \in Nat
      BY EnvelopeType, LenProperties
<1>3. /\ body \in Seq(Bytes) /\ tags \in Seq(Bytes)
      /\ Len(body) = 2 + U16 + Len(tags) + U32 + Len(payload)
      /\ body[1] = BINARY_MAGIC /\ body[2] = Flags(env, zstd)
      /\ \A i \in 1 .. U32 : body[2 + U16 + Len(tags) + i] = size[i]
      /\ \A i \in 1 .. Len(payload) : body[2 + U16 + Len(tags) + U32 + i] = payload[i]
      BY BodyParts
<1>4. Len(tags) \in Nat /\ Len(body) \in Nat
      BY <1>3, LenProperties
<1>5. Len(body) <= Len(t) /\ \A i \in 1 .. Len(body) : t[i] = body[i]
      BY DEF StartsWith
<1>6. /\ Number(t, 3, U16) = Len(env.tags)
      /\ ReadTags(t, Len(env.tags)) = [pos |-> k, tags |-> env.tags, err |-> "none"]
      BY TagsBack
<1>7. Len(payload) \in 0 .. Limit[U32] - 1
      <2>1. Limit[U32] \in Nat
            BY <1>1, LimitDef
      <2>   QED  BY <1>2, <2>1 DEF Fits
<1>   HIDE DEF body, tags, payload
<1>8. /\ k \in Nat /\ Len(body) = k + U32 + Len(payload)
      /\ 4 <= Len(body) /\ k + U32 <= Len(body)
      BY <1>1, <1>2, <1>3, <1>4
<1>9. /\ \A i \in 1 .. U32 : body[k + i] = size[i]
      /\ \A i \in 1 .. Len(payload) : body[(k + U32) + i] = payload[i]
      BY <1>3
<1>   HIDE DEF k
<1>10. Number(t, k + 1, U32) = Len(payload)
      <2>1. ASSUME NEW i \in 1 .. U32 PROVE t[(k + 1) + i - 1] = size[i]
            <3>1. (k + 1) + i - 1 = k + i /\ k + i \in 1 .. Len(body)
                  BY <1>1, <1>4, <1>8
            <3>   HIDE DEF size
            <3>   QED  BY <1>5, <1>9, <3>1
      <2>2. k + 1 \in Nat /\ U32 \in Nat
            BY <1>1, <1>8
      <2>   QED  BY <1>7, <2>1, <2>2, NumberOfDigits, Zenon
<1>11. SubSeq(t, k + U32 + 1, Len(body)) = payload
      <2>1. ASSUME NEW i \in 1 .. Len(payload) PROVE t[(k + U32) + i] = payload[i]
            <3>1. (k + U32) + i \in 1 .. Len(body)
                  BY <1>1, <1>2, <1>8
            <3>   HIDE DEF size
            <3>   QED  BY <1>5, <1>9, <3>1
      <2>2. k + U32 \in Nat /\ (k + U32) + Len(payload) <= Len(t) /\ Len(body) = (k + U32) + Len(payload)
            BY <1>1, <1>2, <1>5, <1>8
      <2>   QED  BY <1>2, <2>1, <2>2, Piece
<1>12. SubSeq(t, 1, Len(body)) = body
      <2>1. \A z \in Nat : z = 0 => SubSeq(t, z + 1, z + Len(body)) = body
            <3>   SUFFICES ASSUME NEW z \in Nat, z = 0
                           PROVE  SubSeq(t, z + 1, z + Len(body)) = body
                  OBVIOUS
            <3>1. z + Len(body) <= Len(t)
                  BY <1>1, <1>4, <1>5
            <3>2. ASSUME NEW i \in 1 .. Len(body) PROVE t[z + i] = body[i]
                  BY <1>5
            <3>   QED  BY <1>3, <3>1, <3>2, Piece
      <2>2. 0 \in Nat /\ 0 + 1 = 1 /\ 0 + Len(body) = Len(body)
            BY <1>4
      <2>   QED  BY <2>1, <2>2
<1>13. Len(t) >= 4 /\ t[1] = BINARY_MAGIC /\ t[2] = Flags(env, zstd)
      <2>1. 1 \in 1 .. Len(body) /\ 2 \in 1 .. Len(body)
            BY <1>4, <1>8
      <2>   QED  BY <1>1, <1>3, <1>4, <1>5, <1>8, <2>1
<1>14. Ensure(t, 2, U16) /\ Ensure(t, k, U32)
      <2>1. 2 + U16 <= k
            BY <1>1, <1>4 DEF k
      <2>   QED  BY <1>1, <1>4, <1>5, <1>8, <2>1 DEF Ensure
<1>15. Len(body) = k + U32 + Number(t, k + 1, U32)
      BY <1>8, <1>10
<1>   DEFINE c == ReadTags(t, Number(t, 3, U16))
<1>16. c = [pos |-> k, tags |-> env.tags, err |-> "none"]
      BY <1>6 DEF k
<1>17. c.pos = k
      BY <1>16
<1>   HIDE DEF c
<1>18. k = 2 + U16 + Len(tags)
      BY DEF k
<1>19. /\ Ensure(t, c.pos, U32)
       /\ c.pos + U32 + Number(t, c.pos + 1, U32) = Len(body)
       /\ SubSeq(t, c.pos + U32 + 1, Len(body)) = payload
       BY <1>11, <1>14, <1>15, <1>17
<1>20. c = [pos |-> 2 + U16 + Len(tags), tags |-> env.tags, err |-> "none"]
       BY <1>16, <1>18
<1>   QED  BY <1>1, <1>3, <1>4, <1>12, <1>13, <1>14, <1>19, <1>20 DEF body, tags, payload, c

\* Bytes that start with the body of an envelope decode to it, if its checksum
\* follows.
LEMMA DecodeBody ==
    ASSUME NEW env \in Envelopes, NEW zstd \in BOOLEAN, Fits(env, zstd),
           NEW t \in Seq(Bytes), StartsWith(t, Body(env, zstd))
    PROVE  LET body == Body(env, zstd)
           IN  DecodeBinary(t) =
                 IF ~ Ensure(t, Len(body), 4) THEN Err("Truncated")
                 ELSE IF Number(t, Len(body) + 1, 4) # Crc(body) THEN Err("CrcMismatch")
                 ELSE IF zstd /\ Len(env.payload) > ZSTD_MAX_DECOMPRESSED_SIZE THEN Err("ZstdDecompress")
                 ELSE Decoded(env)
<1>   DEFINE body == Body(env, zstd)
             payload == StoredPayload(env, zstd)
             flags == Flags(env, zstd)
             c == ReadTags(t, Number(t, 3, U16))
             end == c.pos + U32 + Number(t, c.pos + 1, U32)
<1>1. /\ Len(body) \in Nat /\ Len(t) \in Nat
      /\ Len(t) >= 4 /\ t[1] = BINARY_MAGIC /\ t[2] = flags
      /\ Ensure(t, 2, U16)
      BY BodyRead
<1>2. /\ Ensure(t, c.pos, U32)
      /\ end = Len(body)
      /\ SubSeq(t, c.pos + U32 + 1, Len(body)) = payload
      /\ SubSeq(t, 1, Len(body)) = body
      BY BodyRead
<1>3. c.tags = env.tags /\ c.err = "none"
      <2>1. c = [pos |-> 2 + U16 + Len(EncodeTags(env.tags)), tags |-> env.tags, err |-> "none"]
            BY BodyRead
      <2>   HIDE DEF c
      <2>   QED  BY <2>1
<1>4. /\ env = [shareable |-> env.shareable, tags |-> env.tags, payload |-> env.payload]
      /\ env.shareable \in BOOLEAN
      /\ flags \in 0 .. 3 /\ ((flags \div 2) % 2 = 1 <=> zstd) /\ (flags % 2 = 1 <=> env.shareable)
      BY EnvelopeType
<1>5. IsFrame(Compress(env.payload)) /\ Inflate(Compress(env.payload)) = env.payload
      BY ExternalAssumption
<1>   HIDE DEF body, flags
<1>6. t # <<>> /\ Len(t) # 1 /\ ~ (t[2] >= 4)
      BY <1>1, <1>4
<1>7. DecodeBinary(t) = DecodeRest(t, c)
      BY <1>1, <1>6 DEF DecodeBinary
<1>8. CrcMatches(t, Len(body)) <=> Number(t, Len(body) + 1, 4) = Crc(body)
      BY <1>2 DEF CrcMatches
<1>   DEFINE p == DecodePayload(payload, zstd, env.shareable, env.tags)
<1>9. DecodeRest(t, c) = IF ~ Ensure(t, Len(body), 4) THEN Err("Truncated")
                         ELSE IF ~ CrcMatches(t, Len(body)) THEN Err("CrcMismatch")
                         ELSE p
      <2>1. DecodeRest(t, c) =
              IF c.err # "none" THEN Err(c.err)
              ELSE IF ~ Ensure(t, c.pos, U32) THEN Err("Truncated")
              ELSE IF ~ Ensure(t, end, 4) THEN Err("Truncated")
              ELSE IF ~ CrcMatches(t, end) THEN Err("CrcMismatch")
              ELSE DecodePayload(SubSeq(t, c.pos + U32 + 1, end), (t[2] \div 2) % 2 = 1,
                                 t[2] % 2 = 1, c.tags)
            BY DEF DecodeRest
      <2>2. DecodePayload(SubSeq(t, c.pos + U32 + 1, end), (t[2] \div 2) % 2 = 1,
                          t[2] % 2 = 1, c.tags) = p
            <3>1. ((t[2] \div 2) % 2 = 1) = zstd /\ (t[2] % 2 = 1) = env.shareable
                  BY <1>1, <1>4
            <3>2. SubSeq(t, c.pos + U32 + 1, end) = payload
                  BY <1>2
            <3>   HIDE DEF c, end, payload
            <3>   QED  BY <1>3, <3>1, <3>2
      <2>   HIDE DEF c, end, p
      <2>   QED  BY <1>2, <1>3, <2>1, <2>2
<1>10. p = IF zstd /\ Len(env.payload) > ZSTD_MAX_DECOMPRESSED_SIZE THEN Err("ZstdDecompress")
           ELSE Decoded(env)
      <2>1. CASE zstd
            BY <1>4, <1>5, <2>1 DEF DecodePayload, StoredPayload
      <2>2. CASE ~ zstd
            BY <1>4, <2>2 DEF DecodePayload, StoredPayload
      <2>   QED  BY <2>1, <2>2
<1>   HIDE DEF c, p
<1>   QED  BY <1>7, <1>8, <1>9, <1>10 DEF body

\* What is encoded is decoded, whatever follows it.
LEMMA DecodeEncoded ==
    ASSUME NEW env \in Envelopes, NEW zstd \in BOOLEAN, Fits(env, zstd),
           NEW t \in Seq(Bytes), StartsWith(t, EncodeInner(env, zstd))
    PROVE  DecodeBinary(t) =
             IF zstd /\ Len(env.payload) > ZSTD_MAX_DECOMPRESSED_SIZE THEN Err("ZstdDecompress")
             ELSE Decoded(env)
<1>   DEFINE body == Body(env, zstd)
             s == EncodeInner(env, zstd)
<1>1. /\ Len(body) \in Nat /\ Len(s) = Len(body) + 4 /\ Len(t) \in Nat
      /\ StartsWith(s, body)
      /\ \A i \in 1 .. 4 : s[Len(body) + i] = Digits(Crc(body), 4)[i]
      BY EncodedParts, LenProperties
<1>2. Crc(body) \in 0 .. Limit[4] - 1
      BY ExternalAssumption
<1>   HIDE DEF body, s
<1>3. Len(s) <= Len(t) /\ \A i \in 1 .. Len(s) : t[i] = s[i]
      BY DEF StartsWith, s
<1>4. StartsWith(t, body)
      BY <1>1, <1>3 DEF StartsWith
<1>5. Ensure(t, Len(body), 4)
      BY <1>1, <1>3 DEF Ensure
<1>6. Number(t, Len(body) + 1, 4) = Crc(body)
      <2>1. ASSUME NEW i \in 1 .. 4 PROVE t[(Len(body) + 1) + i - 1] = Digits(Crc(body), 4)[i]
            <3>1. (Len(body) + 1) + i - 1 = Len(body) + i /\ Len(body) + i \in 1 .. Len(s)
                  BY <1>1
            <3>   QED  BY <1>1, <1>3, <3>1
      <2>2. Len(body) + 1 \in Nat
            BY <1>1
      <2>3. Shows(t, Len(body) + 1, 4, Crc(body))
            BY <1>2, <2>1 DEF Shows
      <2>4. \A from, w \in Nat : Shows(t, from, w, Crc(body)) => Number(t, from, w) = Crc(body)
            BY ShownNumber
      <2>   QED  BY <2>2, <2>3, <2>4
<1>   QED  BY <1>4, <1>5, <1>6, DecodeBody DEF body

\* What the encoders write: the JSON form, or the binary one, compressed or not.
LEMMA EncodedForms ==
    ASSUME NEW env \in Envelopes, NEW encoder \in Encoders
    PROVE  \/ Encode(env, encoder) = Document(<<JSON_MAGIC>>, env)
           \/ \E zstd \in BOOLEAN :
                Encode(env, encoder) = Document(EncodeInner(env, zstd), NoEnvelope)
<1>1. CASE encoder = "encode"
      BY <1>1 DEF Encode
<1>2. CASE encoder = "encode_binary"
      BY <1>2 DEF Encode
<1>3. CASE encoder = "encode_binary_zstd"
      BY <1>3 DEF Encode
<1>4. CASE encoder = "encode_binary_smallest"
      BY <1>4 DEF Encode, EncodeSmallest
<1>   QED  BY <1>1, <1>2, <1>3, <1>4 DEF Encoders

Documents == [bytes : Seq(Bytes), json : Envelopes \cup {NoEnvelope}]

\* The binary form is known by its first byte.
LEMMA BinaryDecode ==
    ASSUME NEW env \in Envelopes, NEW zstd \in BOOLEAN
    PROVE  LET s == EncodeInner(env, zstd)
           IN  /\ Document(s, NoEnvelope) \in Documents
               /\ Len(s) \in Nat /\ Len(s) >= 6
               /\ s[1] = BINARY_MAGIC /\ s[2] = Flags(env, zstd)
               /\ Decode(Document(s, NoEnvelope)) = DecodeBinary(s)
<1>   DEFINE body == Body(env, zstd)
             s == EncodeInner(env, zstd)
<1>1. /\ s \in Seq(Bytes) /\ Len(body) \in Nat /\ Len(s) = Len(body) + 4 /\ StartsWith(s, body)
      BY EncodedParts
<1>2. Len(body) >= 2 /\ body[1] = BINARY_MAGIC /\ body[2] = Flags(env, zstd)
      <2>1. /\ EncodeTags(env.tags) \in Seq(Bytes)
            /\ Len(body) = 2 + U16 + Len(EncodeTags(env.tags)) + U32 + Len(StoredPayload(env, zstd))
            /\ body[1] = BINARY_MAGIC /\ body[2] = Flags(env, zstd)
            BY BodyParts
      <2>2. Len(EncodeTags(env.tags)) \in Nat /\ Len(StoredPayload(env, zstd)) \in Nat
            BY <2>1, EnvelopeType, LenProperties
      <2>   QED  BY <2>1, <2>2, CodecAssumption
<1>   HIDE DEF body, s
<1>3. s[1] = BINARY_MAGIC /\ s[2] = Flags(env, zstd) /\ Len(s) \in Nat /\ Len(s) >= 6
      BY <1>1, <1>2 DEF StartsWith
<1>4. Document(s, NoEnvelope) \in Documents
      BY <1>1 DEF Document, Documents
<1>5. Document(s, NoEnvelope).bytes = s
      BY DEF Document
<1>6. BINARY_MAGIC # JSON_MAGIC
      BY CodecAssumption
<1>7. Decode(Document(s, NoEnvelope)) = DecodeBinary(s)
      BY <1>3, <1>5, <1>6 DEF Decode
<1>   QED  BY <1>3, <1>4, <1>7 DEF s

LEMMA JsonDecode ==
    ASSUME NEW json
    PROVE  Decode(Document(<<JSON_MAGIC>>, json)) =
             IF json = NoEnvelope THEN Err("Json") ELSE Decoded(json)
<1>1. Document(<<JSON_MAGIC>>, json).bytes = <<JSON_MAGIC>> /\ Document(<<JSON_MAGIC>>, json).json = json
      BY DEF Document
<1>2. <<JSON_MAGIC>> # <<>> /\ <<JSON_MAGIC>>[1] = JSON_MAGIC
      OBVIOUS
<1>   QED  BY <1>1, <1>2 DEF Decode

\* encode, encode_binary, encode_binary_zstd and encode_binary_smallest, then
\* decode (envelope.rs:147-302): whichever encoder wrote an envelope, the
\* decoder returns that envelope, if its lengths fit their fields and the
\* payload is not beyond what the reader inflates; whatever the constants are.
THEOREM DecodeEncode ==
    ASSUME NEW env \in Envelopes, NEW encoder \in Encoders,
           \A zstd \in BOOLEAN : Fits(env, zstd),
           Len(env.payload) <= ZSTD_MAX_DECOMPRESSED_SIZE
    PROVE  Decode(Encode(env, encoder)) = Decoded(env)
<1>0. env # NoEnvelope
      BY InputsAssumption
<1>1. CASE Encode(env, encoder) = Document(<<JSON_MAGIC>>, env)
      BY <1>0, <1>1, JsonDecode
<1>2. ASSUME NEW zstd \in BOOLEAN, Encode(env, encoder) = Document(EncodeInner(env, zstd), NoEnvelope)
      PROVE  Decode(Encode(env, encoder)) = Decoded(env)
      <2>   DEFINE s == EncodeInner(env, zstd)
      <2>1. s \in Seq(Bytes) /\ StartsWith(s, s)
            BY EncodedParts, StartsWithItself
      <2>2. Decode(Encode(env, encoder)) = DecodeBinary(s)
            BY <1>2, BinaryDecode
      <2>3. DecodeBinary(s) =
             IF zstd /\ Len(env.payload) > ZSTD_MAX_DECOMPRESSED_SIZE THEN Err("ZstdDecompress")
             ELSE Decoded(env)
            BY <2>1, DecodeEncoded
      <2>4. ~ (Len(env.payload) > ZSTD_MAX_DECOMPRESSED_SIZE)
            <3>1. Len(env.payload) \in Nat
                  BY EnvelopeType, LenProperties
            <3>   QED  BY <3>1, CodecAssumption
      <2>   QED  BY <2>2, <2>3, <2>4
<1>   QED  BY <1>1, <1>2, EncodedForms

(***************************************************************************)
(* Typing                                                                  *)
(***************************************************************************)
IsSequence(s) == \E S : s \in Seq(S)

LEMMA AppendAny ==
    ASSUME NEW s, IsSequence(s), NEW x
    PROVE  /\ IsSequence(Append(s, x)) /\ Append(s, x) # s
           /\ Len(s) \in Nat /\ Len(Append(s, x)) = Len(s) + 1
           /\ \A i \in 1 .. Len(s) : Append(s, x)[i] = s[i]
           /\ Append(s, x)[Len(s) + 1] = x
<1>1. PICK S : s \in Seq(S)
      BY DEF IsSequence
<1>   DEFINE T == S \cup {x}
<1>2. s \in Seq(T) /\ x \in T
      BY <1>1, SeqMonotonic
<1>   HIDE DEF T
<1>3. /\ Append(s, x) \in Seq(T) /\ Len(Append(s, x)) = Len(s) + 1
      /\ \A i \in 1 .. Len(s) : Append(s, x)[i] = s[i]
      /\ Append(s, x)[Len(s) + 1] = x
      BY <1>2, AppendProperties
<1>4. Len(s) \in Nat
      BY <1>2, LenProperties
<1>5. Append(s, x) # s
      BY <1>3, <1>4
<1>   QED  BY <1>3, <1>4, <1>5 DEF IsSequence

LEMMA EmptySequence ==
    /\ IsSequence(<<>>) /\ Len(<<>>) = 0
    /\ \A s : IsSequence(s) => Len(s) \in Nat /\ (s = <<>> <=> Len(s) = 0)
<1>1. <<>> \in Seq({}) /\ Len(<<>>) = 0
      BY EmptySeq
<1>2. ASSUME NEW S, NEW s \in Seq(S) PROVE Len(s) \in Nat /\ (s = <<>> <=> Len(s) = 0)
      BY EmptySeq, LenProperties
<1>   QED  BY <1>1, <1>2 DEF IsSequence

\* A function on 1 .. n is a sequence.
LEMMA FunctionSequence ==
    ASSUME NEW n \in Nat, NEW f, f = [i \in 1 .. n |-> f[i]]
    PROVE  IsSequence(f) /\ Len(f) = n
<1>   DEFINE S == {f[i] : i \in 1 .. n}
<1>1. f \in [1 .. n -> S]
      OBVIOUS
<1>   HIDE DEF S
<1>2. f \in Seq(S) /\ Len(f) = n
      BY <1>1, SeqDef
<1>   QED  BY <1>2 DEF IsSequence

PeerInv ==
    /\ text \in Schemes \X Texts
    /\ location.kind \in {"path", "resp3", "http", "bad"}
    /\ dim \in 0 .. 3 /\ (dim # 0 <=> phase \notin {"closed", "parsed"})

\* What is stored is a document, and there is one for each record written.
StoreInv ==
    /\ written \in [Ids -> Envelopes \cup {NoEnvelope}]
    /\ kv \in [Ids -> Documents \cup {NoDocument}]
    /\ \A id \in Ids : written[id] = NoEnvelope <=> kv[id] = NoDocument

\* The loop has a candidate before it and room for a hit; before the loop there
\* are no candidates, and an error ends the query.
QueryInv ==
    /\ phase \in {"closed", "parsed", "idle", "search", "loop", "answered"}
    /\ top_k \in TopKs \cup {0} /\ filter \in {"shareable", "tagged"}
    /\ IsSequence(candidates) /\ IsSequence(out)
    /\ at \in 1 .. Len(candidates) + 1
    /\ Len(out) <= Larger(top_k, 1)
    /\ out # <<>> => phase \in {"loop", "answered"} /\ err = "none"
    /\ phase \in {"closed", "parsed", "idle", "search"} =>
         candidates = <<>> /\ at = 1 /\ out = <<>>
    /\ phase # "answered" => err = "none"
    /\ phase = "loop" => at <= Len(candidates) /\ Len(out) < Larger(top_k, 1)

TypeInv == PeerInv /\ StoreInv /\ QueryInv

LEMMA ParseKind ==
    ASSUME NEW scheme \in Schemes, NEW rest
    PROVE  ParseLocation(scheme, rest).kind \in {"path", "resp3", "http", "bad"}
<1>1. \A endpoint, auth : WithEndpoint(endpoint, auth).kind \in {"resp3", "bad"}
      BY DEF WithEndpoint, BadLocation, Resp3
<1>2. ParseResp3(rest).kind \in {"resp3", "bad"}
      <2>1. BadLocation.kind = "bad"
            BY DEF BadLocation
      <2>   QED  BY <1>1, <2>1 DEF ParseResp3
<1>3. Path(rest).kind = "path" /\ Http(scheme, rest).kind = "http" /\ BadLocation.kind = "bad"
      BY DEF Path, Http, BadLocation
<1>   QED  BY <1>2, <1>3 DEF ParseLocation, Schemes

LEMMA ShortSequences ==
    ASSUME NEW S
    PROVE  /\ <<>> \in Seq(S)
           /\ \A a \in S : <<a>> \in Seq(S)
           /\ \A a, b \in S : <<a, b>> \in Seq(S)
           /\ \A a, b, c, d \in S : <<a, b, c, d>> \in Seq(S)
<1>1. \A a, b \in S : <<a>> \in Seq(S) /\ <<a, b>> \in Seq(S)
      OBVIOUS
<1>2. ASSUME NEW a \in S, NEW b \in S, NEW c \in S, NEW d \in S
      PROVE  <<a, b, c, d>> \in Seq(S)
      OBVIOUS
<1>   QED  BY <1>1, <1>2, EmptySeq

LEMMA VindexInfoType ==
    ASSUME NEW rows \in Listings
    PROVE  VindexInfo(rows) \in 0 .. 3
<1>1. Len(rows) \in Nat /\ \A i \in 1 .. Len(rows) : rows[i].dim \in 0 .. 3
      <2>   DEFINE S == {Row("", 0), Row("other", 1), Row("hansa", 0), Row("hansa", 2), Row("hansa", 3)}
      <2>0. \A name, d : Row(name, d).dim = d
            BY DEF Row
      <2>1. \A r \in S : r.dim \in 0 .. 3
            <3>1. \A r \in S : r.dim \in {0, 1, 2, 3}
                  <4>1. ASSUME NEW r \in S PROVE \E name : \E d \in {0, 1, 2, 3} : r = Row(name, d)
                        OBVIOUS
                  <4>   HIDE DEF S
                  <4>   QED  BY <2>0, <4>1
            <3>2. {0, 1, 2, 3} \subseteq 0 .. 3
                  OBVIOUS
            <3>   HIDE DEF S
            <3>   QED  BY <3>1, <3>2, Zenon
      <2>2. rows \in Seq(S)
            <3>1. /\ Row("", 0) \in S /\ Row("other", 1) \in S /\ Row("hansa", 0) \in S
                  /\ Row("hansa", 2) \in S /\ Row("hansa", 3) \in S
                  OBVIOUS
            <3>   HIDE DEF S
            <3>   QED  BY <3>1, ShortSequences, Zenon DEF Listings
      <2>   HIDE DEF S
      <2>   QED  BY <2>1, <2>2, ElementOfSeq, LenProperties
<1>   DEFINE named == {i \in 1 .. Len(rows) : rows[i].name = "hansa"}
             first == CHOOSE i \in named : \A j \in named : i <= j
<1>2. CASE named # {}
      <2>1. named \in SUBSET Nat
            BY <1>1
      <2>2. \E i \in named : \A j \in named : i <= j
            <3>   HIDE DEF named
            <3>   QED  BY <1>2, <2>1, LeastElement
      <2>3. first \in named
            <3>   HIDE DEF named
            <3>   QED  BY <2>2
      <2>4. rows[first].dim \in 0 .. 3
            <3>   HIDE DEF first
            <3>   QED  BY <1>1, <2>3
      <2>   QED  BY <1>2, <2>4 DEF VindexInfo
<1>   QED  BY <1>2 DEF VindexInfo

LEMMA EncodeType ==
    ASSUME NEW env \in Envelopes, NEW encoder \in Encoders
    PROVE  Encode(env, encoder) \in Documents
<1>1. Document(<<JSON_MAGIC>>, env) \in Documents
      <2>1. JSON_MAGIC \in Bytes
            BY CodecAssumption DEF Bytes
      <2>2. <<JSON_MAGIC>> \in Seq(Bytes)
            BY <2>1
      <2>   QED  BY <2>2 DEF Document, Documents
<1>   QED  BY <1>1, EncodedForms, BinaryDecode

LEMMA DamagedType ==
    ASSUME NEW doc \in Documents, NEW d \in Damaged(doc)
    PROVE  d \in Documents
<1>   DEFINE s == doc.bytes
<1>1. s \in Seq(Bytes) /\ Len(s) \in Nat
      BY LenProperties DEF Documents
<1>2. ASSUME NEW t \in Seq(Bytes), NEW json \in Envelopes \cup {NoEnvelope}
      PROVE  Document(t, json) \in Documents
      BY DEF Document, Documents
<1>   HIDE DEF s
<1>3. OneByteOff(s) \subseteq Seq(Bytes)
  <2>   SUFFICES ASSUME NEW i \in 1 .. Len(s), NEW x \in {1, Base \div 2}
                 PROVE  ByteOff(s, i, x) \in Seq(Bytes)
        BY DEF OneByteOff
  <2>1. s[i] \in Bytes
        BY <1>1, ElementOfSeq
  <2>2. (s[i] + x) % Base \in Bytes
        <3>1. Base \in Nat \ {0} /\ s[i] \in Nat
              BY <2>1, CodecAssumption DEF Bytes
        <3>2. x \in Nat
              BY <3>1
        <3>   HIDE DEF s
        <3>   QED  BY <3>1, <3>2 DEF Bytes
  <2>   QED  BY <1>1, <2>2, ExceptSeq DEF ByteOff
<1>4. ASSUME NEW n \in 0 .. Len(s) - 1 PROVE SubSeq(s, 1, n) \in Seq(Bytes)
  <2>1. \A i \in 1 .. n : s[i] \in Bytes
        BY <1>1, ElementOfSeq
  <2>   QED  BY <2>1, SubSeqProperties
<1>5. Append(s, 0) \in Seq(Bytes)
  <2>1. 0 \in Bytes
        BY CodecAssumption DEF Bytes
  <2>   QED  BY <1>1, <2>1, AppendProperties
<1>6. CASE s = <<JSON_MAGIC>>
      <2>1. PICK json \in {NoEnvelope} \cup Envelopes : d = Document(s, json)
            BY <1>6 DEF Damaged, s
      <2>   QED  BY <1>1, <1>2, <2>1
<1>7. CASE s # <<JSON_MAGIC>>
      <2>1. \/ \E t \in OneByteOff(s) : d = Document(t, NoEnvelope)
            \/ \E n \in 0 .. Len(s) - 1 : d = Document(SubSeq(s, 1, n), NoEnvelope)
            \/ d = Document(Append(s, 0), NoEnvelope)
            BY <1>7 DEF Damaged, s
      <2>   QED  BY <1>2, <1>3, <1>4, <1>5, <2>1
<1>   QED  BY <1>6, <1>7

LEMMA EmptyText == NoText \in Schemes \X Texts
<1>1. <<>> \in [1 .. 0 -> {"x", ":", "@", "/"}]
      OBVIOUS
<1>2. 0 \in 0 .. MaxText
      BY QueryAssumption
<1>3. <<>> \in Texts
      BY <1>1, <1>2 DEF Texts
<1>   QED  BY <1>3 DEF NoText, Schemes

LEMMA TypeInit == Init => TypeInv
<1>   SUFFICES ASSUME Init PROVE TypeInv
      OBVIOUS
<1>1. PeerInv
  <2>1. text \in Schemes \X Texts
        BY EmptyText DEF Init
  <2>   QED  BY <2>1 DEF Init, PeerInv, BadLocation
<1>2. StoreInv
      BY DEF Init, StoreInv
<1>3. QueryInv
  <2>1. Larger(0, 1) = 1
        BY DEF Larger
  <2>   QED  BY <2>1, EmptySequence DEF Init, QueryInv
<1>   QED  BY <1>1, <1>2, <1>3 DEF TypeInv

LEMMA LargerType ==
    ASSUME NEW m \in Nat
    PROVE  Larger(m, 1) \in Nat /\ m <= Larger(m, 1) /\ 1 <= Larger(m, 1)
BY DEF Larger

LEMMA InputsType ==
    ASSUME NEW id \in Ids, NEW input \in Inputs[id]
    PROVE  input[1] \in Envelopes /\ input[2] \in Encoders /\ input[1] # NoEnvelope
<1>1. input[1] \in Envelopes
      BY DEF Envelopes
<1>   QED  BY <1>1, InputsAssumption

\* A query that ends with an error keeps no hits.
LEMMA FailStep ==
    ASSUME QueryInv, NEW e, Fail(e), top_k' = top_k, filter' = filter,
           candidates' = candidates, at' = at
    PROVE  QueryInv'
<1>1. top_k \in Nat
      BY QueryAssumption DEF QueryInv
<1>   QED  BY <1>1, LargerType, EmptySequence DEF QueryInv, Fail

LEMMA NextCandidateStep ==
    ASSUME QueryInv, phase = "loop", NextCandidate, top_k' = top_k, filter' = filter,
           candidates' = candidates, err' = err,
           IsSequence(out'), Len(out') < Larger(top_k, 1)
    PROVE  QueryInv'
<1>1. Len(candidates) \in Nat /\ Len(out') \in Nat
      BY EmptySequence DEF QueryInv
<1>2. top_k \in Nat
      BY QueryAssumption DEF QueryInv
<1>3. /\ IsSequence(candidates) /\ top_k \in TopKs \cup {0} /\ filter \in {"shareable", "tagged"}
      /\ err = "none" /\ at \in Nat /\ 1 <= at /\ at <= Len(candidates)
      BY <1>1 DEF QueryInv
<1>4. /\ at' \in 1 .. Len(candidates) + 1
      /\ phase' \in {"loop", "answered"}
      /\ phase' = "loop" => at' <= Len(candidates)
      BY <1>1, <1>3 DEF NextCandidate
<1>5. Larger(top_k, 1) \in Nat /\ Len(out') <= Larger(top_k, 1)
      BY <1>1, <1>2, LargerType
<1>   QED  BY <1>3, <1>4, <1>5 DEF QueryInv

\* What a search finds are pairs.
LEMMA PairsType ==
    ASSUME NEW frames, IsSequence(frames)
    PROVE  IsSequence(Pairs(frames)) /\ Len(Pairs(frames)) = Len(frames) \div 2
<1>1. Len(frames) \div 2 \in Nat
      BY EmptySequence
<1>2. Pairs(frames) = [i \in 1 .. Len(frames) \div 2 |-> Pairs(frames)[i]]
      BY DEF Pairs
<1>   QED  BY <1>1, <1>2, FunctionSequence

LEMMA ReplyType ==
    ASSUME NEW found \in Found, NEW idKind, NEW scoreKind, NEW cut \in {0, 1}
    PROVE  LET whole == Reply(found, idKind, scoreKind)
           IN  IsSequence(SubSeq(whole, 1, Len(whole) - cut))
<1>   DEFINE whole == Reply(found, idKind, scoreKind)
<1>1. Len(found) \in Nat
  <2>1. PICK n \in 0 .. Smaller(Oversample, Cardinality(Ids)) : found \in [1 .. n -> Ids \cup {-1}]
        BY DEF Found
  <2>2. n \in Nat
        OBVIOUS
  <2>   QED  BY <2>1, <2>2
<1>2. 2 * Len(found) \in Nat
      BY <1>1
<1>3. IsSequence(whole) /\ Len(whole) = 2 * Len(found)
  <2>1. whole = [i \in 1 .. 2 * Len(found) |-> whole[i]]
        BY DEF Reply
  <2>   HIDE DEF whole
  <2>   QED  BY <1>2, <2>1, FunctionSequence
<1>   HIDE DEF whole
<1>4. PICK S : whole \in Seq(S)
      BY <1>3 DEF IsSequence
<1>5. Len(whole) \in Nat
      BY <1>2, <1>3
<1>6. \A i \in 1 .. Len(whole) - cut : whole[i] \in S
      BY <1>4, <1>5, ElementOfSeq
<1>7. SubSeq(whole, 1, Len(whole) - cut) \in Seq(S)
      BY <1>5, <1>6, SubSeqProperties
<1>   QED  BY <1>7 DEF IsSequence, whole

LEMMA TypeStep == TypeInv /\ [Next]_vars => TypeInv'
<1>   SUFFICES ASSUME TypeInv, [Next]_vars PROVE TypeInv'
      OBVIOUS
<1>   USE DEF TypeInv
<1>a. ASSUME UNCHANGED <<text, location, dim>>, phase \notin {"closed", "parsed"},
             phase' \notin {"closed", "parsed"}
      PROVE  PeerInv'
      BY <1>a DEF PeerInv
<1>b. ASSUME UNCHANGED <<written, kv>> PROVE StoreInv'
      BY <1>b DEF StoreInv
<1>1. ASSUME NEW scheme \in Schemes, NEW rest \in Texts, Parse(scheme, rest) PROVE TypeInv'
  <2>1. PeerInv'
        BY <1>1, ParseKind DEF Parse, PeerInv
  <2>2. QueryInv'
        BY <1>1 DEF Parse, QueryInv
  <2>   QED  BY <1>1, <1>b, <2>1, <2>2 DEF Parse, storeVars
<1>2. CASE OpenFails
  <2>1. PeerInv'
        <3>1. NoText \in Schemes \X Texts
              BY EmptyText
        <3>2. BadLocation.kind = "bad"
              BY DEF BadLocation
        <3>   QED  BY <1>2, <3>1, <3>2 DEF OpenFails, PeerInv
  <2>2. QueryInv'
        BY <1>2 DEF OpenFails, QueryInv
  <2>   QED  BY <1>2, <1>b, <2>1, <2>2 DEF OpenFails, storeVars
<1>3. CASE Connect
  <2>1. PeerInv'
        <3>1. dim' \in 0 .. 3 /\ dim' # 0
              BY <1>3, VindexInfoType DEF Connect
        <3>   QED  BY <1>3, <3>1 DEF Connect, PeerInv
  <2>2. QueryInv'
        BY <1>3 DEF Connect, QueryInv
  <2>   QED  BY <1>3, <1>b, <2>1, <2>2 DEF Connect, storeVars
<1>4. ASSUME NEW id \in Ids, NEW input \in Inputs[id], Write(id, input[1], input[2]) PROVE TypeInv'
  <2>1. input[1] \in Envelopes /\ input[1] # NoEnvelope /\ input[2] \in Encoders
        BY InputsType
  <2>2. Encode(input[1], input[2]) \in Documents
        BY <2>1, EncodeType
  <2>3. Encode(input[1], input[2]) # NoDocument
        BY <2>2, InputsAssumption DEF Documents
  <2>4. StoreInv'
        BY <1>4, <2>1, <2>2, <2>3 DEF Write, StoreInv
  <2>5. PeerInv' /\ QueryInv'
        BY <1>4 DEF Write, PeerInv, QueryInv, peerVars, queryVars
  <2>   QED  BY <2>4, <2>5
<1>5. ASSUME NEW id \in Fragile, Damage(id) PROVE TypeInv'
  <2>1. id \in Ids /\ written[id] # NoEnvelope
        BY <1>5, QueryAssumption DEF Damage
  <2>2. kv[id] \in Documents
        BY <2>1 DEF StoreInv
  <2>3. PICK doc \in Damaged(kv[id]) : kv' = [kv EXCEPT ![id] = doc]
        BY <1>5 DEF Damage
  <2>4. doc \in Documents
        BY <2>2, DamagedType
  <2>5. doc # NoDocument
        BY <2>4, InputsAssumption DEF Documents
  <2>6. StoreInv'
        BY <1>5, <2>1, <2>3, <2>4, <2>5 DEF Damage, StoreInv
  <2>7. PeerInv' /\ QueryInv'
        BY <1>5 DEF Damage, PeerInv, QueryInv, peerVars, queryVars
  <2>   QED  BY <2>6, <2>7
<1>6. ASSUME NEW k \in TopKs, NEW f \in {"shareable", "tagged"}, NEW length, Begin(k, f, length)
      PROVE  TypeInv'
  <2>1. UNCHANGED <<text, location, dim, written, kv>> /\ phase = "idle" /\ phase' \in {"search", "answered"}
        BY <1>6 DEF Begin, Fail, peerVars, storeVars
  <2>2. QueryInv'
        <3>1. k \in Nat
              BY QueryAssumption
        <3>2. Larger(k, 1) \in Nat /\ 0 <= Larger(k, 1)
              BY <3>1, LargerType
        <3>3. /\ candidates' = <<>> /\ at' = 1 /\ out' = <<>> /\ top_k' = k /\ filter' = f
              /\ phase' = "answered" \/ (phase' = "search" /\ err' = "none")
              BY <1>6 DEF Begin, Fail, QueryInv
        <3>   QED  BY <3>2, <3>3, EmptySequence DEF QueryInv
  <2>   QED  BY <1>a, <1>b, <2>1, <2>2
<1>7. CASE Search
  <2>1. UNCHANGED <<text, location, dim, written, kv>> /\ phase = "search" /\ phase' \in {"loop", "answered"}
        BY <1>7 DEF Search, Fail, peerVars, storeVars
  <2>2. /\ top_k' = top_k /\ filter' = filter /\ at' = at
        /\ \/ Fail("Protocol") /\ candidates' = candidates
           \/ /\ IsSequence(candidates')
              /\ phase' = IF candidates' = <<>> THEN "answered" ELSE "loop"
              /\ UNCHANGED <<out, err>>
    <3>1. PICK found \in Found, idKind \in {"bulk", "integer", "text"},
               scoreKind \in {"bulk", "double", "integer"}, cut \in {0, 1} :
            LET whole == Reply(found, idKind, scoreKind)
                frames == SubSeq(whole, 1, Len(whole) - cut)
            IN  IF ~ WellFormed(frames)
                THEN Fail("Protocol") /\ UNCHANGED candidates
                ELSE /\ candidates' = Pairs(frames)
                     /\ phase' = IF candidates' = <<>> THEN "answered" ELSE "loop"
                     /\ UNCHANGED <<out, err>>
          BY <1>7 DEF Search
    <3>   DEFINE whole == Reply(found, idKind, scoreKind)
                 frames == SubSeq(whole, 1, Len(whole) - cut)
    <3>2. IsSequence(frames)
          BY ReplyType
    <3>   HIDE DEF frames
    <3>3. IsSequence(Pairs(frames))
          BY <3>2, PairsType
    <3>4. \/ Fail("Protocol") /\ candidates' = candidates
          \/ /\ candidates' = Pairs(frames)
             /\ phase' = IF candidates' = <<>> THEN "answered" ELSE "loop"
             /\ UNCHANGED <<out, err>>
          BY <3>1 DEF frames
    <3>5. top_k' = top_k /\ filter' = filter /\ at' = at
          BY <1>7 DEF Search
    <3>   QED  BY <3>3, <3>4, <3>5
  <2>3. QueryInv'
    <3>1. CASE Fail("Protocol") /\ candidates' = candidates
          BY <2>2, <3>1, FailStep
    <3>2. CASE /\ IsSequence(candidates')
               /\ phase' = IF candidates' = <<>> THEN "answered" ELSE "loop"
               /\ UNCHANGED <<out, err>>
      <4>1. at = 1 /\ out = <<>> /\ err = "none" /\ top_k \in TopKs \cup {0} /\ filter \in {"shareable", "tagged"}
            BY <2>1 DEF QueryInv
      <4>2. Len(candidates') \in Nat /\ (candidates' # <<>> => 1 <= Len(candidates'))
            BY <3>2, EmptySequence
      <4>3. Larger(top_k, 1) \in Nat /\ 0 < Larger(top_k, 1)
            BY <4>1, QueryAssumption, LargerType
      <4>   QED  BY <2>2, <3>2, <4>1, <4>2, <4>3, EmptySequence DEF QueryInv
    <3>   QED  BY <2>2, <3>1, <3>2
  <2>   QED  BY <1>a, <1>b, <2>1, <2>3
<1>8. CASE CallFails
  <2>1. UNCHANGED <<text, location, dim, written, kv>> /\ phase \in {"search", "loop"} /\ phase' = "answered"
        BY <1>8 DEF CallFails, Fail, peerVars, storeVars
  <2>2. QueryInv'
        BY <1>8, FailStep DEF CallFails
  <2>   QED  BY <1>a, <1>b, <2>1, <2>2
<1>9. CASE SkipMissing
  <2>1. UNCHANGED <<text, location, dim, written, kv>> /\ phase = "loop" /\ phase' \in {"loop", "answered"}
        BY <1>9 DEF SkipMissing, NextCandidate, peerVars, storeVars
  <2>2. out' = out /\ IsSequence(out) /\ Len(out) < Larger(top_k, 1)
        BY <1>9 DEF SkipMissing, QueryInv
  <2>3. QueryInv'
        BY <1>9, <2>1, <2>2, NextCandidateStep DEF SkipMissing
  <2>   QED  BY <1>a, <1>b, <2>1, <2>3
<1>10. CASE RowCorrupted
  <2>1. UNCHANGED <<text, location, dim, written, kv>> /\ phase = "loop" /\ phase' = "answered"
        BY <1>10 DEF RowCorrupted, Fail, peerVars, storeVars
  <2>2. QueryInv'
        BY <1>10, FailStep DEF RowCorrupted
  <2>   QED  BY <1>a, <1>b, <2>1, <2>2
<1>11. CASE Undecodable
  <2>1. UNCHANGED <<text, location, dim, written, kv>> /\ phase = "loop" /\ phase' = "answered"
        BY <1>11 DEF Undecodable, Fail, peerVars, storeVars
  <2>2. QueryInv'
        BY <1>11, FailStep DEF Undecodable
  <2>   QED  BY <1>a, <1>b, <2>1, <2>2
<1>12. CASE Take
  <2>1. UNCHANGED <<text, location, dim, written, kv>> /\ phase = "loop" /\ phase' \in {"loop", "answered"}
        BY <1>12 DEF Take, NextCandidate, peerVars, storeVars
  <2>2. /\ UNCHANGED <<top_k, filter, candidates, err>>
        /\ out' = out \/ \E hit : out' = Append(out, hit)
        /\ IF out' # out /\ Len(out') >= top_k
           THEN phase' = "answered" /\ UNCHANGED at
           ELSE NextCandidate
        BY <1>12 DEF Take
  <2>3. IsSequence(out) /\ Len(out) \in Nat /\ Len(out) < Larger(top_k, 1) /\ top_k \in Nat
        <3>1. top_k \in Nat
              BY QueryAssumption DEF QueryInv
        <3>   QED  BY <2>1, <3>1, EmptySequence DEF QueryInv
  <2>4. CASE out' = out
        <3>1. NextCandidate
              BY <2>2, <2>4
        <3>2. QueryInv'
              BY <2>1, <2>2, <2>3, <2>4, <3>1, NextCandidateStep
        <3>   QED  BY <1>a, <1>b, <2>1, <3>2
  <2>5. ASSUME NEW hit, out' = Append(out, hit) PROVE QueryInv'
    <3>1. IsSequence(out') /\ out' # out /\ Len(out') = Len(out) + 1
          BY <2>3, <2>5, AppendAny
    <3>2. CASE Len(out') >= top_k
      <4>1. phase' = "answered" /\ at' = at
            BY <2>2, <3>1, <3>2
      <4>2. Len(out') <= Larger(top_k, 1)
            BY <2>3, <3>1, LargerType
      <4>3. err = "none"
            BY <2>1 DEF QueryInv
      <4>   QED  BY <2>2, <3>1, <4>1, <4>2, <4>3 DEF QueryInv
    <3>3. CASE ~ (Len(out') >= top_k)
      <4>1. NextCandidate
            BY <2>2, <3>3
      <4>2. Len(out') < Larger(top_k, 1)
            BY <2>3, <3>1, <3>3, LargerType
      <4>   QED  BY <2>1, <2>2, <3>1, <4>1, <4>2, NextCandidateStep
    <3>   QED  BY <3>2, <3>3
  <2>   QED  BY <1>a, <1>b, <2>1, <2>2, <2>4, <2>5
<1>13. CASE Return
  <2>1. UNCHANGED <<text, location, dim, written, kv>> /\ phase = "answered" /\ phase' = "idle"
        BY <1>13 DEF Return, peerVars, storeVars
  <2>2. QueryInv'
        <3>1. Larger(0, 1) = 1
              BY DEF Larger
        <3>   QED  BY <1>13, <3>1, EmptySequence DEF Return, QueryInv
  <2>   QED  BY <1>a, <1>b, <2>1, <2>2
<1>14. CASE UNCHANGED vars
  BY <1>14 DEF vars, peerVars, storeVars, queryVars, PeerInv, StoreInv, QueryInv
<1>   QED
  BY <1>1, <1>2, <1>3, <1>4, <1>5, <1>6, <1>7, <1>8, <1>9, <1>10, <1>11, <1>12, <1>13, <1>14 DEF Next

LEMMA TypeAlways == Spec => []TypeInv
BY TypeInit, TypeStep, PTL DEF Spec

\* Typing, and what goes with it: a tenant queries only once it has a dimension,
\* a query returns at most top_k hits (one, if top_k is 0), and none beside an
\* error (tenant.rs:283-330).
THEOREM QueryTyped == Spec => []TypeOK
<1>1. TypeInv => TypeOK
      <2>1. StoreInv => \A id \in Ids : written[id] \in Envelopes \cup {NoEnvelope}
            BY DEF StoreInv
      <2>   QED  BY <2>1 DEF TypeInv, PeerInv, StoreInv, QueryInv, TypeOK
<1>   QED  BY <1>1, TypeAlways, PTL

(***************************************************************************)
(* An intact envelope is never refused                                     *)
(***************************************************************************)
LEMMA IntactDecodes ==
    ASSUME NEW id \in Ids, StoreInv, kv[id] # NoDocument, Intact(id)
    PROVE  Decode(kv[id]).err = "none"
<1>   DEFINE env == written[id]
             doc == kv[id]
             zstd == doc.json = NoEnvelope /\ (doc.bytes[2] \div 2) % 2 = 1
<1>1. env \in Envelopes /\ env # NoEnvelope
      BY DEF StoreInv
<1>2. PICK encoder \in Encoders : doc = Encode(env, encoder)
      BY DEF Intact
<1>3. /\ doc.json # NoEnvelope \/ Fits(env, zstd)
      /\ doc.json # NoEnvelope \/ (zstd => Len(env.payload) <= ZSTD_MAX_DECOMPRESSED_SIZE)
      BY DEF Intact
<1>   HIDE DEF env, doc
<1>4. CASE doc = Document(<<JSON_MAGIC>>, env)
      <2>1. Decode(doc) = Decoded(env)
            BY <1>1, <1>4, JsonDecode
      <2>   QED  BY <2>1 DEF Decoded, doc
<1>5. ASSUME NEW z \in BOOLEAN, doc = Document(EncodeInner(env, z), NoEnvelope)
      PROVE  Decode(doc).err = "none"
  <2>   DEFINE s == EncodeInner(env, z)
  <2>1. doc.json = NoEnvelope /\ doc.bytes = s
        BY <1>5 DEF Document
  <2>2. s[2] = Flags(env, z) /\ Decode(doc) = DecodeBinary(s)
        BY <1>1, <1>5, BinaryDecode
  <2>3. (Flags(env, z) \div 2) % 2 = 1 <=> z
        BY <1>1, EnvelopeType
  <2>4. zstd = z
        BY <2>1, <2>2, <2>3
  <2>   HIDE DEF zstd
  <2>5. Fits(env, z) /\ (z => Len(env.payload) <= ZSTD_MAX_DECOMPRESSED_SIZE)
        BY <1>3, <2>1, <2>4
  <2>6. s \in Seq(Bytes) /\ StartsWith(s, s)
        BY <1>1, EncodedParts, StartsWithItself
  <2>7. DecodeBinary(s) =
          IF z /\ Len(env.payload) > ZSTD_MAX_DECOMPRESSED_SIZE THEN Err("ZstdDecompress")
          ELSE Decoded(env)
        BY <1>1, <2>5, <2>6, DecodeEncoded
  <2>8. Len(env.payload) \in Nat
        BY <1>1, EnvelopeType, LenProperties
  <2>9. ~ (z /\ Len(env.payload) > ZSTD_MAX_DECOMPRESSED_SIZE)
        BY <2>5, <2>8, CodecAssumption
  <2>   QED  BY <2>2, <2>7, <2>9 DEF Decoded
<1>6. Decode(doc).err = "none"
      <2>1. \/ doc = Document(<<JSON_MAGIC>>, env)
            \/ \E z \in BOOLEAN : doc = Document(EncodeInner(env, z), NoEnvelope)
            BY <1>1, <1>2, EncodedForms
      <2>   QED  BY <1>4, <1>5, <2>1 DEF doc
<1>   QED  BY <1>6 DEF doc

\* An envelope that is intact is never refused: query_filtered fails with
\* EnvelopeDecode (tenant.rs:314-317) only on an envelope that is damaged or was
\* too big for the form it is in.
THEOREM RefusalReal == Spec => []RefusalIsReal
<1>1. Init => RefusalIsReal
      BY DEF Init, RefusalIsReal
<1>2. ASSUME TypeInv, RefusalIsReal, [Next]_vars PROVE RefusalIsReal'
  <2>1. CASE Undecodable
    <3>   DEFINE id == candidates[at].id
    <3>1. id \in Ids /\ kv[id] # NoDocument /\ Decode(kv[id]).err # "none"
          BY <2>1 DEF Undecodable, Stored
    <3>2. UNCHANGED <<written, kv, candidates, at>>
          BY <2>1 DEF Undecodable, storeVars
    <3>3. ~ Intact(id)
          BY <1>2, <3>1, IntactDecodes DEF TypeInv
    <3>   QED  BY <3>2, <3>3 DEF RefusalIsReal, Intact
  <2>2. ASSUME phase' # "answered" \/ err' # "EnvelopeDecode" PROVE RefusalIsReal'
        BY <2>2 DEF RefusalIsReal
  <2>3. phase # "answered" => err = "none"
        BY <1>2 DEF TypeInv, QueryInv
  <2>4. CASE UNCHANGED vars
        BY <1>2, <2>4 DEF vars, peerVars, storeVars, queryVars, RefusalIsReal, Intact
  <2>5. ASSUME NEW scheme \in Schemes, NEW rest \in Texts, Parse(scheme, rest) PROVE RefusalIsReal'
        BY <2>2, <2>5 DEF Parse
  <2>6. CASE OpenFails \/ Connect \/ Return
        BY <2>2, <2>6 DEF OpenFails, Connect, Return
  <2>7. ASSUME NEW id \in Ids, NEW input \in Inputs[id], Write(id, input[1], input[2])
        PROVE  RefusalIsReal'
        BY <2>2, <2>7 DEF Write, queryVars
  <2>8. ASSUME NEW id \in Fragile, Damage(id) PROVE RefusalIsReal'
        BY <2>2, <2>8 DEF Damage, queryVars
  <2>9. ASSUME NEW k \in TopKs, NEW f, NEW length, Begin(k, f, length) PROVE RefusalIsReal'
        BY <2>2, <2>9 DEF Begin, Fail
  <2>10. CASE Search
        BY <2>2, <2>3, <2>10 DEF Search, Fail
  <2>11. CASE CallFails \/ RowCorrupted
        BY <2>2, <2>11 DEF CallFails, RowCorrupted, Fail
  <2>12. CASE SkipMissing
        BY <2>2, <2>3, <2>12 DEF SkipMissing
  <2>13. CASE Take
        BY <2>2, <2>3, <2>13 DEF Take
  <2>   QED
    BY <1>2, <2>1, <2>4, <2>5, <2>6, <2>7, <2>8, <2>9, <2>10, <2>11, <2>12, <2>13 DEF Next
<1>   QED  BY <1>1, <1>2, TypeAlways, PTL DEF Spec

(***************************************************************************)
(* Locations                                                               *)
(***************************************************************************)
LEMMA GreatestElement ==
    ASSUME NEW n \in Nat, NEW T \in SUBSET (1 .. n), T # {}
    PROVE  \E i \in T : \A j \in T : i >= j
<1>   DEFINE U == {n - i : i \in T}
<1>1. U \in SUBSET Nat /\ U # {}
      <2>1. \A i \in T : n - i \in Nat
            OBVIOUS
      <2>   QED  BY <2>1
<1>2. PICK m \in U : \A k \in U : m <= k
      <2>   HIDE DEF U
      <2>   QED  BY <1>1, LeastElement
<1>3. PICK i \in T : m = n - i
      BY <1>2
<1>4. ASSUME NEW j \in T PROVE i >= j
      <2>1. n - j \in U /\ i \in 1 .. n /\ j \in 1 .. n
            BY <1>3
      <2>2. n - i <= n - j
            BY <1>2, <1>3, <2>1
      <2>   QED  BY <2>1, <2>2
<1>   QED  BY <1>3, <1>4

LEMMA FirstLast ==
    ASSUME NEW S, NEW s \in Seq(S), NEW c, Positions(s, c) # {}
    PROVE  /\ First(s, c) \in Positions(s, c) /\ \A j \in Positions(s, c) : First(s, c) <= j
           /\ Last(s, c) \in Positions(s, c) /\ \A j \in Positions(s, c) : Last(s, c) >= j
<1>1. Len(s) \in Nat /\ Positions(s, c) \in SUBSET (1 .. Len(s))
      BY LenProperties DEF Positions
<1>2. Positions(s, c) \in SUBSET Nat
      BY <1>1
<1>3. \E i \in Positions(s, c) : \A j \in Positions(s, c) : i <= j
      BY <1>2, LeastElement
<1>4. \E i \in Positions(s, c) : \A j \in Positions(s, c) : i >= j
      BY <1>1, GreatestElement
<1>   QED  BY <1>3, <1>4 DEF First, Last

\* What comes before a position and what comes after it.
LEMMA Halves ==
    ASSUME NEW S, NEW s \in Seq(S), NEW i \in 1 .. Len(s)
    PROVE  /\ Len(s) \in Nat
           /\ Before(s, i) \in Seq(S) /\ Len(Before(s, i)) = i - 1
           /\ \A j \in 1 .. i - 1 : Before(s, i)[j] = s[j]
           /\ After(s, i) \in Seq(S) /\ Len(After(s, i)) = Len(s) - i
           /\ \A j \in 1 .. Len(s) - i : After(s, i)[j] = s[i + j]
<1>   DEFINE b == Before(s, i)
             a == After(s, i)
<1>1. Len(s) \in Nat /\ \A j \in 1 .. Len(s) : s[j] \in S
      BY LenProperties, ElementOfSeq
<1>2. /\ b \in Seq(S) /\ Len(b) = IF 1 <= i - 1 THEN (i - 1) - 1 + 1 ELSE 0
      /\ \A j \in 1 .. (i - 1) - 1 + 1 : b[j] = s[1 + j - 1]
      <2>1. 1 \in Int /\ i - 1 \in Int /\ \A j \in 1 .. i - 1 : s[j] \in S
            BY <1>1
      <2>   QED  BY <2>1, SubSeqProperties DEF Before
<1>3. /\ a \in Seq(S) /\ Len(a) = IF i + 1 <= Len(s) THEN Len(s) - (i + 1) + 1 ELSE 0
      /\ \A j \in 1 .. Len(s) - (i + 1) + 1 : a[j] = s[(i + 1) + j - 1]
      <2>1. i + 1 \in Int /\ Len(s) \in Int /\ \A j \in i + 1 .. Len(s) : s[j] \in S
            BY <1>1
      <2>   QED  BY <2>1, SubSeqProperties DEF After
<1>   HIDE DEF a, b
<1>4. Len(b) = i - 1 /\ Len(a) = Len(s) - i
      BY <1>1, <1>2, <1>3
<1>5. ASSUME NEW j \in 1 .. i - 1 PROVE b[j] = s[j]
      <2>1. j \in 1 .. (i - 1) - 1 + 1 /\ 1 + j - 1 = j
            OBVIOUS
      <2>   QED  BY <1>2, <2>1
<1>6. ASSUME NEW j \in 1 .. Len(s) - i PROVE a[j] = s[i + j]
      <2>1. j \in 1 .. Len(s) - (i + 1) + 1 /\ (i + 1) + j - 1 = i + j
            BY <1>1
      <2>   QED  BY <1>3, <2>1
<1>   QED  BY <1>1, <1>2, <1>3, <1>4, <1>5, <1>6 DEF a, b

\* No character before the first one, none after the last one.
LEMMA NoneBefore ==
    ASSUME NEW S, NEW s \in Seq(S), NEW c, NEW i \in Positions(s, c)
    PROVE  /\ Positions(Before(s, i), c) = {} <=> \A j \in Positions(s, c) : i <= j
           /\ Positions(After(s, i), c) = {} <=> \A j \in Positions(s, c) : i >= j
<1>1. i \in 1 .. Len(s)
      BY DEF Positions
<1>2. /\ Len(s) \in Nat
      /\ Before(s, i) \in Seq(S) /\ Len(Before(s, i)) = i - 1
      /\ \A j \in 1 .. i - 1 : Before(s, i)[j] = s[j]
      /\ After(s, i) \in Seq(S) /\ Len(After(s, i)) = Len(s) - i
      /\ \A j \in 1 .. Len(s) - i : After(s, i)[j] = s[i + j]
      BY <1>1, Halves
<1>3. \A j : j \in Positions(Before(s, i), c) <=> j \in 1 .. i - 1 /\ s[j] = c
      BY <1>2 DEF Positions
<1>4. \A j : j \in Positions(After(s, i), c) <=> j \in 1 .. Len(s) - i /\ s[i + j] = c
      BY <1>2 DEF Positions
<1>5. \A j : j \in Positions(s, c) <=> j \in 1 .. Len(s) /\ s[j] = c
      BY DEF Positions
<1>6. Positions(Before(s, i), c) = {} <=> \A j \in Positions(s, c) : i <= j
      BY <1>1, <1>2, <1>3, <1>5
<1>7. Positions(After(s, i), c) = {} <=> \A j \in Positions(s, c) : i >= j
  <2>1. ASSUME NEW j \in Positions(s, c), ~ (i >= j) PROVE j - i \in Positions(After(s, i), c)
        <3>1. j \in 1 .. Len(s) /\ s[j] = c /\ i + (j - i) = j /\ j - i \in 1 .. Len(s) - i
              BY <1>1, <1>2, <1>5, <2>1
        <3>   QED  BY <1>4, <3>1
  <2>2. ASSUME NEW j \in Positions(After(s, i), c) PROVE i + j \in Positions(s, c) /\ ~ (i >= i + j)
        <3>1. j \in 1 .. Len(s) - i /\ s[i + j] = c
              BY <1>4, <2>2
        <3>2. i + j \in 1 .. Len(s) /\ ~ (i >= i + j)
              BY <1>1, <1>2, <3>1
        <3>   QED  BY <1>5, <3>1, <3>2
  <2>   QED  BY <2>1, <2>2
<1>   QED  BY <1>6, <1>7

\* parse_location returns the one reading of a resp3 location, if there is one.
LEMMA ParseFaithful ==
    ASSUME NEW S, NEW rest \in Seq(S)
    PROVE  IF Readings(rest) = {} THEN ParseResp3(rest) = BadLocation
                                  ELSE Readings(rest) = {ParseResp3(rest)}
<1>   DEFINE reading(p) ==
               Resp3(After(rest, p.at), <<Before(rest, p.colon), SubSeq(rest, p.colon + 1, p.at - 1)>>)
             noAuth == IF rest # <<>> /\ Positions(rest, "@") = {} THEN {Resp3(rest, NoAuth)} ELSE {}
<1>0. Readings(rest) = noAuth \cup {reading(p) : p \in Separators(rest)}
      BY DEF Readings
<1>1. \A p \in Separators(rest) :
        /\ p = [colon |-> p.colon, at |-> p.at]
        /\ p.colon \in Positions(rest, ":") /\ p.at \in Positions(rest, "@")
        /\ p.colon < p.at /\ p.at < Len(rest)
        /\ Positions(Before(rest, p.colon), ":") = {}
        /\ Positions(After(rest, p.at), "@") = {}
      BY DEF Separators
<1>   HIDE DEF reading
<1>2. CASE Positions(rest, "@") = {}
  <2>1. Separators(rest) = {}
        BY <1>1, <1>2
  <2>2. Readings(rest) = noAuth
        BY <1>0, <2>1
  <2>3. ParseResp3(rest) = WithEndpoint(rest, NoAuth)
        BY <1>2 DEF ParseResp3
  <2>   QED  BY <1>2, <2>2, <2>3 DEF WithEndpoint
<1>3. CASE Positions(rest, "@") # {}
  <2>   DEFINE end == Last(rest, "@")
               creds == Before(rest, end)
               host == After(rest, end)
  <2>1. end \in Positions(rest, "@") /\ \A j \in Positions(rest, "@") : end >= j
        BY <1>3, FirstLast
  <2>2. end \in 1 .. Len(rest)
        BY <2>1 DEF Positions
  <2>   HIDE DEF end
  <2>3. /\ Len(rest) \in Nat
        /\ creds \in Seq(S) /\ Len(creds) = end - 1 /\ \A j \in 1 .. end - 1 : creds[j] = rest[j]
        /\ host \in Seq(S) /\ Len(host) = Len(rest) - end
        BY <2>2, Halves
  <2>   HIDE DEF creds, host
  <2>4. \A j : j \in Positions(creds, ":") <=> j \in Positions(rest, ":") /\ j < end
        BY <2>2, <2>3 DEF Positions
  <2>5. noAuth = {}
        BY <1>3
  <2>6. \A p \in Separators(rest) : p.at = end
    <3>   SUFFICES ASSUME NEW p \in Separators(rest) PROVE p.at = end
          OBVIOUS
    <3>1. p.at \in Positions(rest, "@") /\ Positions(After(rest, p.at), "@") = {}
          BY <1>1
    <3>2. \A j \in Positions(rest, "@") : p.at >= j
          BY <3>1, NoneBefore
    <3>3. p.at >= end /\ end >= p.at /\ p.at \in 1 .. Len(rest)
          BY <2>1, <3>1, <3>2 DEF Positions
    <3>   QED  BY <2>2, <2>3, <3>3
  <2>7. CASE Positions(creds, ":") = {}
    <3>1. Separators(rest) = {}
          BY <1>1, <2>4, <2>6, <2>7
    <3>2. ParseResp3(rest) = BadLocation
          BY <1>3, <2>7 DEF ParseResp3, AuthEnd, end, creds
    <3>   QED  BY <1>0, <2>5, <3>1, <3>2
  <2>8. CASE Positions(creds, ":") # {}
    <3>   DEFINE k == First(creds, ":")
                 auth == <<Before(creds, k), After(creds, k)>>
    <3>1. k \in Positions(creds, ":") /\ \A j \in Positions(creds, ":") : k <= j
          BY <2>3, <2>8, FirstLast
    <3>2. ParseResp3(rest) = WithEndpoint(host, auth)
          BY <1>3, <2>8 DEF ParseResp3, AuthEnd, end, creds, host
    <3>   HIDE DEF k
    <3>3. k \in Positions(rest, ":") /\ k < end /\ k \in 1 .. Len(rest) /\ k \in 1 .. end - 1
          BY <2>2, <2>3, <2>4, <3>1 DEF Positions
    <3>4. \A j \in Positions(rest, ":") : k <= j
      <4>   SUFFICES ASSUME NEW j \in Positions(rest, ":") PROVE k <= j
            OBVIOUS
      <4>1. j \in 1 .. Len(rest)
            BY DEF Positions
      <4>   QED  BY <2>2, <2>3, <2>4, <3>1, <3>3, <4>1
    <3>5. \A p \in Separators(rest) : p = [colon |-> k, at |-> end] /\ end < Len(rest)
      <4>   SUFFICES ASSUME NEW p \in Separators(rest)
                     PROVE  p = [colon |-> k, at |-> end] /\ end < Len(rest)
            OBVIOUS
      <4>1. p.colon \in Positions(rest, ":") /\ Positions(Before(rest, p.colon), ":") = {}
            BY <1>1
      <4>2. \A j \in Positions(rest, ":") : p.colon <= j
            BY <4>1, NoneBefore
      <4>3. p.colon <= k /\ k <= p.colon /\ p.colon \in 1 .. Len(rest)
            BY <3>3, <3>4, <4>1, <4>2 DEF Positions
      <4>4. p.colon = k
            BY <2>3, <3>3, <4>3
      <4>   QED  BY <1>1, <2>6, <4>4
    <3>6. CASE host = <<>>
      <4>1. Len(rest) = end
            BY <2>2, <2>3, <3>6, EmptySequence DEF IsSequence
      <4>2. Separators(rest) = {}
            BY <2>3, <3>5, <4>1
      <4>   QED  BY <1>0, <2>5, <3>2, <3>6, <4>2 DEF WithEndpoint
    <3>7. CASE host # <<>>
      <4>   DEFINE p == [colon |-> k, at |-> end]
      <4>1. end < Len(rest)
            <5>1. Len(host) # 0
                  BY <2>3, <3>7, EmptySeq
            <5>   QED  BY <2>2, <2>3, <5>1
      <4>2. p \in Separators(rest)
            <5>1. Positions(Before(rest, k), ":") = {}
                  BY <3>3, <3>4, NoneBefore
            <5>2. Positions(After(rest, end), "@") = {}
                  BY <2>1, NoneBefore
            <5>   QED  BY <2>1, <3>3, <4>1, <5>1, <5>2 DEF Separators
      <4>3. Separators(rest) = {p}
            BY <3>5, <4>2
      <4>4. Before(creds, k) = Before(rest, k)
        <5>1. k \in 1 .. Len(creds)
              BY <2>3, <3>3
        <5>2. /\ Before(creds, k) \in Seq(S) /\ Len(Before(creds, k)) = k - 1
              /\ \A j \in 1 .. k - 1 : Before(creds, k)[j] = creds[j]
              BY <2>3, <5>1, Halves
        <5>3. /\ Before(rest, k) \in Seq(S) /\ Len(Before(rest, k)) = k - 1
              /\ \A j \in 1 .. k - 1 : Before(rest, k)[j] = rest[j]
              BY <3>3, Halves
        <5>4. \A j \in 1 .. k - 1 : creds[j] = rest[j]
              BY <2>2, <2>3, <3>3
        <5>   QED  BY <5>2, <5>3, <5>4, SeqEqual
      <4>5. After(creds, k) = SubSeq(rest, k + 1, end - 1)
        <5>   DEFINE a == After(creds, k)
        <5>1. k \in 1 .. Len(creds)
              BY <2>3, <3>3
        <5>2. /\ a \in Seq(S) /\ Len(a) = (end - 1) - k
              /\ \A j \in 1 .. (end - 1) - k : a[j] = creds[k + j]
              <6>1. creds \in Seq(S) /\ Len(creds) = end - 1
                    BY <2>3
              <6>2. /\ a \in Seq(S) /\ Len(a) = Len(creds) - k
                    /\ \A j \in 1 .. Len(creds) - k : a[j] = creds[k + j]
                    BY <5>1, <6>1, Halves
              <6>   HIDE DEF a
              <6>   QED  BY <6>1, <6>2
        <5>   HIDE DEF a
        <5>3. \A j \in 1 .. Len(a) : rest[k + j] = a[j]
              BY <2>2, <2>3, <3>3, <5>2
        <5>4. k \in Nat /\ k + Len(a) = end - 1 /\ k + Len(a) <= Len(rest)
              BY <2>2, <2>3, <3>3, <5>2
        <5>5. SubSeq(rest, k + 1, k + Len(a)) = a
              BY <5>2, <5>3, <5>4, Piece
        <5>   QED  BY <5>4, <5>5 DEF a
      <4>6. reading(p) = Resp3(host, auth)
            BY <4>4, <4>5 DEF reading, host
      <4>7. Readings(rest) = {reading(p)}
            <5>   HIDE DEF noAuth, p
            <5>   QED  BY <1>0, <2>5, <4>3
      <4>   QED  BY <3>2, <3>7, <4>6, <4>7 DEF WithEndpoint
    <3>   QED  BY <3>6, <3>7
  <2>   QED  BY <2>7, <2>8
<1>   QED  BY <1>2, <1>3

\* A location means what it says (location.rs:46-92): parse_location accepts a
\* resp3 text exactly if it can be read as host:port with an optional user:pass@
\* in front, there is one way to read it, and that is what it returns; for texts
\* of every length.
THEOREM LocationRead == Spec => []LocationFaithful
<1>1. Init => LocationFaithful
      BY DEF Init, LocationFaithful
<1>2. LocationFaithful /\ [Next]_vars => LocationFaithful'
  <2>   SUFFICES ASSUME LocationFaithful, [Next]_vars PROVE LocationFaithful'
        OBVIOUS
  <2>1. ASSUME NEW scheme \in Schemes, NEW rest \in Texts, Parse(scheme, rest)
        PROVE  LocationFaithful'
    <3>1. text' = <<scheme, rest>> /\ location' = ParseLocation(scheme, rest)
          BY <2>1 DEF Parse
    <3>2. rest \in Seq({"x", ":", "@", "/"})
      <4>1. PICK n \in 0 .. MaxText : rest \in [1 .. n -> {"x", ":", "@", "/"}]
            BY DEF Texts
      <4>   DEFINE S == {"x", ":", "@", "/"}
      <4>   HIDE DEF S
      <4>2. n \in Nat /\ rest \in [1 .. n -> S]
            BY <4>1 DEF S
      <4>3. rest \in Seq(S)
            BY <4>2, SeqDef
      <4>   QED  BY <4>3 DEF S
    <3>3. scheme = "resp3" => ParseLocation(scheme, rest) = ParseResp3(rest)
          BY DEF ParseLocation
    <3>4. IF Readings(rest) = {} THEN ParseResp3(rest) = BadLocation
                                 ELSE Readings(rest) = {ParseResp3(rest)}
          BY <3>2, ParseFaithful
    <3>   QED  BY <3>1, <3>3, <3>4 DEF LocationFaithful
  <2>2. ASSUME phase' # "parsed" PROVE LocationFaithful'
        BY <2>2 DEF LocationFaithful
  <2>3. CASE UNCHANGED vars
        BY <2>3 DEF vars, peerVars, queryVars, LocationFaithful
  <2>4. CASE OpenFails \/ Connect \/ Return \/ CallFails \/ RowCorrupted \/ Undecodable
        BY <2>2, <2>4 DEF OpenFails, Connect, Return, CallFails, RowCorrupted, Undecodable, Fail
  <2>5. ASSUME NEW id \in Ids, NEW input \in Inputs[id], Write(id, input[1], input[2])
        PROVE  LocationFaithful'
        BY <2>2, <2>5 DEF Write, queryVars
  <2>6. ASSUME NEW id \in Fragile, Damage(id) PROVE LocationFaithful'
        BY <2>2, <2>6 DEF Damage, queryVars
  <2>7. ASSUME NEW k \in TopKs, NEW f, NEW length, Begin(k, f, length) PROVE LocationFaithful'
        BY <2>2, <2>7 DEF Begin, Fail
  <2>8. CASE Search
        BY <2>2, <2>8 DEF Search, Fail
  <2>9. CASE SkipMissing \/ Take
        BY <2>2, <2>9 DEF SkipMissing, Take, NextCandidate
  <2>   QED  BY <2>1, <2>3, <2>4, <2>5, <2>6, <2>7, <2>8, <2>9 DEF Next
<1>   QED  BY <1>1, <1>2, PTL DEF Spec

(***************************************************************************)
(* Damaged envelopes                                                       *)
(***************************************************************************)
\* A number is another one if one of its bytes is.
LEMMA NumberDiffers ==
    ASSUME NEW s, NEW t, NEW from \in Nat, NEW w \in Nat, NEW j \in 0 .. w - 1,
           \A i \in 0 .. w - 1 : s[from + i] \in Nat /\ t[from + i] \in Nat,
           \A i \in 0 .. w - 1 : i # j => s[from + i] = t[from + i],
           s[from + j] # t[from + j]
    PROVE  Number(s, from, w) # Number(t, from, w)
<1>   DEFINE Sum(u) == Sums(u, from, w)
             Rec(u) == /\ Sum(u) \in [0 .. w -> Nat] /\ Sum(u)[0] = 0
                       /\ \A i \in 0 .. w - 1 : Sum(u)[i + 1] = Sum(u)[i] + u[from + i] * Limit[i]
             a == s[from + j]
             b == t[from + j]
             p == a * Limit[j]
             q == b * Limit[j]
<1>1. Rec(s) /\ Rec(t)
  <2>1. AllNumbers(s, from, w) /\ AllNumbers(t, from, w)
        BY DEF AllNumbers
  <2>   QED  BY <2>1, SumsDef
<1>2. p # q /\ p \in Nat /\ q \in Nat
  <2>1. Limit[j] \in Nat \ {0} /\ a \in Nat /\ b \in Nat /\ a # b
        BY LimitDef
  <2>2. \A l \in Nat \ {0}, x \in Nat, y \in Nat :
          x * l \in Nat /\ y * l \in Nat /\ (x * l = y * l => x = y)
        <3>   SUFFICES ASSUME NEW l \in Nat \ {0}, NEW x \in Nat, NEW y \in Nat
                       PROVE  x * l \in Nat /\ y * l \in Nat /\ (x * l = y * l => x = y)
              OBVIOUS
        <3>1. (x * l) \div l = x /\ (y * l) \div l = y
              OBVIOUS
        <3>   QED  BY <3>1
  <2>   HIDE DEF a, b
  <2>   QED  BY <2>1, <2>2
<1>3. s[from + j] * Limit[j] = p /\ t[from + j] * Limit[j] = q
      OBVIOUS
<1>   HIDE DEF Sum, p, q
<1>   DEFINE Good(i) == IF i <= j THEN Sum(s)[i] = Sum(t)[i] ELSE Sum(s)[i] + q = Sum(t)[i] + p
             Bad == {i \in 0 .. w : ~ Good(i)}
<1>4. Bad \in SUBSET Nat /\ 0 \notin Bad
      BY <1>1
<1>5. ASSUME NEW i \in Nat, i + 1 \in Bad PROVE i \in Bad
      <2>1. i \in 0 .. w - 1 /\ i \in 0 .. w /\ i + 1 \in 0 .. w
            BY <1>5
      <2>2. /\ Sum(s)[i + 1] = Sum(s)[i] + s[from + i] * Limit[i]
            /\ Sum(t)[i + 1] = Sum(t)[i] + t[from + i] * Limit[i]
            /\ Sum(s)[i] \in Nat /\ Sum(t)[i] \in Nat
            BY <1>1, <2>1
      <2>3. s[from + i] * Limit[i] \in Nat /\ t[from + i] * Limit[i] \in Nat
            BY <2>1, LimitDef
      <2>4. CASE i = j
            <3>1. Sum(s)[i + 1] = Sum(s)[i] + p /\ Sum(t)[i + 1] = Sum(t)[i] + q
                  BY <1>3, <2>2, <2>4
            <3>   QED  BY <1>2, <1>5, <2>1, <2>2, <2>4, <3>1
      <2>5. CASE i # j
            <3>   DEFINE x == s[from + i] * Limit[i]
            <3>1. Sum(s)[i + 1] = Sum(s)[i] + x /\ Sum(t)[i + 1] = Sum(t)[i] + x /\ x \in Nat
                  BY <2>1, <2>2, <2>3, <2>5
            <3>   HIDE DEF x
            <3>   QED  BY <1>2, <1>5, <2>1, <2>2, <2>5, <3>1
      <2>   QED  BY <2>4, <2>5
<1>6. Bad = {}
      <2>   HIDE DEF Bad
      <2>   QED  BY <1>4, <1>5, NoCounterexample
<1>7. Sum(s)[w] # Sum(t)[w]
      <2>1. w \in 0 .. w /\ ~ (w <= j)
            OBVIOUS
      <2>2. Sum(s)[w] + q = Sum(t)[w] + p /\ Sum(s)[w] \in Nat /\ Sum(t)[w] \in Nat
            BY <1>1, <1>6, <2>1
      <2>   QED  BY <1>2, <2>2
<1>   QED  BY <1>7 DEF Number, Sum

\* A changed byte is another byte.
LEMMA ByteChanged ==
    ASSUME NEW s \in Seq(Bytes), NEW t \in OneByteOff(s)
    PROVE  /\ t \in Seq(Bytes) /\ Len(t) = Len(s) /\ Len(s) \in Nat
           /\ \E i \in 1 .. Len(s), x \in {1, Base \div 2} :
                /\ t[i] = (s[i] + x) % Base /\ t[i] # s[i]
                /\ \A j \in 1 .. Len(s) : j # i => t[j] = s[j]
<1>1. PICK i \in 1 .. Len(s), x \in {1, Base \div 2} : t = [s EXCEPT ![i] = (@ + x) % Base]
      BY DEF OneByteOff, ByteOff
<1>2. s[i] \in Bytes /\ Len(s) \in Nat
      BY ElementOfSeq, LenProperties
<1>3. x \in Nat /\ 0 < x /\ x < Base /\ Base \in Nat
      BY CodecAssumption
<1>4. (s[i] + x) % Base \in Bytes /\ (s[i] + x) % Base # s[i]
  <2>1. \A y \in 0 .. Base - 1 : (y + x) % Base = IF y + x < Base THEN y + x ELSE y + x - Base
        BY <1>3
  <2>2. s[i] \in 0 .. Base - 1
        BY <1>2 DEF Bytes
  <2>3. (s[i] + x) % Base = IF s[i] + x < Base THEN s[i] + x ELSE s[i] + x - Base
        BY <2>1, <2>2, Zenon
  <2>4. \A y \in 0 .. Base - 1 :
          LET z == IF y + x < Base THEN y + x ELSE y + x - Base
          IN  z \in 0 .. Base - 1 /\ z # y
        BY <1>3
  <2>   QED  BY <2>2, <2>3, <2>4 DEF Bytes
<1>   DEFINE e == (s[i] + x) % Base
<1>5. t = [s EXCEPT ![i] = e]
      BY <1>1, <1>2
<1>   HIDE DEF e
<1>6. t \in Seq(Bytes) /\ Len(t) = Len(s) /\ \A j \in 1 .. Len(s) : t[j] = IF j = i THEN e ELSE s[j]
      <2>1. e \in Bytes
            BY <1>4 DEF e
      <2>   QED  BY <1>5, <2>1, ExceptSeq
<1>7. t[i] = (s[i] + x) % Base /\ t[i] # s[i] /\ \A j \in 1 .. Len(s) : j # i => t[j] = s[j]
      BY <1>4, <1>6 DEF e
<1>   QED  BY <1>2, <1>6, <1>7

\* What the decoder has found when it succeeds.
LEMMA DecodeSucceeds ==
    ASSUME NEW t \in Seq(Bytes), DecodeBinary(t).err = "none"
    PROVE  LET n == Number(t, 3, U16)
               c == ReadTags(t, n)
               end == ChecksumAt(t)
           IN  /\ Ensure(t, 2, U16) /\ n \in Nat
               /\ c \in CursorType /\ c.err = "none"
               /\ Ensure(t, c.pos, U32)
               /\ end = c.pos + U32 + Number(t, c.pos + 1, U32) /\ end \in Nat
               /\ Ensure(t, end, 4)
               /\ Number(t, end + 1, 4) = Crc(SubSeq(t, 1, end))
<1>   DEFINE n == Number(t, 3, U16)
             c == ReadTags(t, n)
             end == ChecksumAt(t)
<1>1. \A e : Err(e).err = e
      BY DEF Err
<1>2. Ensure(t, 2, U16) /\ DecodeBinary(t) = DecodeRest(t, c)
      BY <1>1 DEF DecodeBinary
<1>3. U16 \in Nat /\ U32 \in Nat /\ StartsWith(t, t)
      BY CodecAssumption, StartsWithItself
<1>4. n \in Nat
      <2>1. \A k \in Nat : Ensure(t, k, U16) => Number(t, k + 1, U16) \in Nat
            BY <1>3, ReadSame
      <2>2. Number(t, 2 + 1, U16) \in Nat
            BY <1>2, <2>1
      <2>   QED  BY <2>2
<1>   HIDE DEF n
<1>5. c \in CursorType
      <2>1. n \in 0 .. n
            BY <1>4
      <2>   QED  BY <1>4, <2>1, CursorsDef DEF ReadTags
<1>6. end = c.pos + U32 + Number(t, c.pos + 1, U32)
      BY DEF ChecksumAt, n
<1>   HIDE DEF c, end
<1>7. DecodeRest(t, c) =
        IF c.err # "none" THEN Err(c.err)
        ELSE IF ~ Ensure(t, c.pos, U32) THEN Err("Truncated")
        ELSE IF ~ Ensure(t, end, 4) THEN Err("Truncated")
        ELSE IF ~ CrcMatches(t, end) THEN Err("CrcMismatch")
        ELSE DecodePayload(SubSeq(t, c.pos + U32 + 1, end), (t[2] \div 2) % 2 = 1,
                           t[2] % 2 = 1, c.tags)
      BY <1>6 DEF DecodeRest
<1>8. c.err = "none" /\ Ensure(t, c.pos, U32) /\ Ensure(t, end, 4) /\ CrcMatches(t, end)
      BY <1>1, <1>2, <1>7
<1>9. c.pos \in Nat
      BY <1>5 DEF CursorType
<1>10. Number(t, c.pos + 1, U32) \in Nat
      BY <1>3, <1>8, <1>9, ReadSame
<1>11. end \in Nat
      BY <1>3, <1>6, <1>9, <1>10
<1>   QED  BY <1>2, <1>4, <1>5, <1>6, <1>8, <1>11 DEF CrcMatches, n, c, end

\* If the end of a document is lost, the decoder fails.
LEMMA TruncatedRefused ==
    ASSUME NEW env \in Envelopes, NEW zstd \in BOOLEAN, Fits(env, zstd),
           NEW n \in 0 .. Len(EncodeInner(env, zstd)) - 1
    PROVE  DecodeBinary(SubSeq(EncodeInner(env, zstd), 1, n)).err # "none"
<1>   DEFINE s == EncodeInner(env, zstd)
             body == Body(env, zstd)
             t == SubSeq(s, 1, n)
<1>1. s \in Seq(Bytes) /\ Len(body) \in Nat /\ Len(s) = Len(body) + 4 /\ StartsWith(s, body)
      BY EncodedParts
<1>   DEFINE c == ReadTags(s, Number(s, 3, U16))
<1>2. c.pos + U32 + Number(s, c.pos + 1, U32) = Len(body)
      BY <1>1, BodyRead
<1>   HIDE DEF s, body
<1>3. t \in Seq(Bytes) /\ Len(t) = n /\ \A i \in 1 .. n : t[i] = s[i]
  <2>1. n \in Nat /\ n <= Len(s)
        BY <1>1 DEF s
  <2>2. \A i \in 1 .. n : s[i] \in Bytes
        BY <1>1, <2>1, ElementOfSeq
  <2>3. /\ t \in Seq(Bytes) /\ Len(t) = IF 1 <= n THEN n - 1 + 1 ELSE 0
        /\ \A i \in 1 .. n - 1 + 1 : t[i] = s[1 + i - 1]
        BY <2>1, <2>2, SubSeqProperties
  <2>   QED  BY <2>1, <2>3
<1>4. StartsWith(s, t) /\ n < Len(s)
      <2>1. n \in Nat /\ n < Len(s)
            BY <1>1 DEF s
      <2>   QED  BY <1>1, <1>3, <2>1 DEF StartsWith
<1>   HIDE DEF t
<1>5. SUFFICES ASSUME DecodeBinary(t).err = "none" PROVE FALSE
      BY DEF s, t
<1>   DEFINE k == Number(t, 3, U16)
             d == ReadTags(t, k)
<1>6. /\ Ensure(t, 2, U16) /\ k \in Nat
      /\ d \in CursorType /\ d.err = "none"
      /\ Ensure(t, d.pos, U32)
      /\ ChecksumAt(t) = d.pos + U32 + Number(t, d.pos + 1, U32)
      /\ Ensure(t, ChecksumAt(t), 4)
      BY <1>3, <1>5, DecodeSucceeds
<1>7. U16 \in Nat /\ U32 \in Nat
      BY CodecAssumption
<1>8. Number(s, 3, U16) = k
      <2>1. \A m \in Nat : Ensure(t, m, U16) => Number(s, m + 1, U16) = Number(t, m + 1, U16)
            BY <1>1, <1>3, <1>4, <1>7, ReadSame
      <2>2. Number(s, 2 + 1, U16) = Number(t, 2 + 1, U16)
            BY <1>6, <2>1
      <2>   QED  BY <2>2
<1>   HIDE DEF k
<1>9. ReadTags(s, k) = d
      BY <1>1, <1>3, <1>4, <1>6, ReadTagsLocal
<1>10. c = d
      BY <1>8, <1>9
<1>   HIDE DEF c, d
<1>11. d.pos \in Nat
      BY <1>6 DEF CursorType
<1>12. Number(s, d.pos + 1, U32) = Number(t, d.pos + 1, U32)
      BY <1>1, <1>3, <1>4, <1>6, <1>7, <1>11, ReadSame
<1>13. ChecksumAt(t) = Len(body)
      BY <1>2, <1>6, <1>10, <1>12
<1>   QED  BY <1>1, <1>3, <1>4, <1>6, <1>13 DEF Ensure

\* If one byte has changed, the decoder fails.
LEMMA ChangedRefused ==
    ASSUME NEW env \in Envelopes, NEW zstd \in BOOLEAN, Fits(env, zstd),
           NEW t \in OneByteOff(EncodeInner(env, zstd))
    PROVE  DecodeBinary(t).err # "none"
<1>   DEFINE s == EncodeInner(env, zstd)
             body == Body(env, zstd)
             end == ChecksumAt(t)
<1>1. /\ s \in Seq(Bytes) /\ Len(body) \in Nat /\ Len(s) = Len(body) + 4 /\ StartsWith(s, body)
      /\ \A i \in 1 .. 4 : s[Len(body) + i] = Digits(Crc(body), 4)[i]
      BY EncodedParts
<1>2. body \in Seq(Bytes) /\ SubSeq(s, 1, Len(body)) = body
      BY <1>1, BodyRead
<1>3. /\ t \in Seq(Bytes) /\ Len(t) = Len(s)
      /\ \E i \in 1 .. Len(s), x \in {1, Base \div 2} :
           /\ t[i] = (s[i] + x) % Base /\ t[i] # s[i]
           /\ \A j \in 1 .. Len(s) : j # i => t[j] = s[j]
      BY <1>1, ByteChanged
<1>4. SUFFICES ASSUME DecodeBinary(t).err = "none" PROVE FALSE
      OBVIOUS
<1>   DEFINE c == ReadTags(t, Number(t, 3, U16))
<1>5. /\ Ensure(t, 2, U16) /\ c.err = "none" /\ Ensure(t, c.pos, U32)
      /\ Ensure(t, end, 4) /\ Number(t, end + 1, 4) = Crc(SubSeq(t, 1, end))
      BY <1>3, <1>4, DecodeSucceeds
<1>6. (\A u \in OneByteOff(body) : Crc(u) # Crc(body)) /\ end = Len(body)
  <2>1. \A u \in OneByteOff(body) : Crc(u) # Crc(body)
        BY ChecksumAssumption
  <2>2. Ensure(t, 2, U16) /\ c.err = "none" /\ Ensure(t, c.pos, U32) /\ Ensure(t, end, 4) /\ end # Len(body)
        => Number(t, end + 1, 4) # Crc(SubSeq(t, 1, end))
        BY ChecksumAssumption
  <2>   HIDE DEF c, end, body
  <2>   QED  BY <1>5, <2>1, <2>2
<1>   HIDE DEF s, body, c
<1>7. PICK i \in 1 .. Len(s), x \in {1, Base \div 2} :
        /\ t[i] = (s[i] + x) % Base /\ t[i] # s[i]
        /\ \A j \in 1 .. Len(s) : j # i => t[j] = s[j]
      BY <1>3
<1>8. \A j \in 1 .. Len(s) : s[j] \in Nat /\ t[j] \in Nat
      <2>1. \A j \in 1 .. Len(s) : s[j] \in Bytes /\ t[j] \in Bytes
            BY <1>1, <1>3, ElementOfSeq
      <2>   QED  BY <2>1, CodecAssumption DEF Bytes
<1>9. Number(s, Len(body) + 1, 4) = Crc(body)
      <2>1. Crc(body) \in 0 .. Limit[4] - 1
            BY ExternalAssumption DEF body
      <2>2. ASSUME NEW j \in 1 .. 4 PROVE s[(Len(body) + 1) + j - 1] = Digits(Crc(body), 4)[j]
            <3>1. (Len(body) + 1) + j - 1 = Len(body) + j
                  BY <1>1
            <3>   QED  BY <1>1, <3>1
      <2>3. Shows(s, Len(body) + 1, 4, Crc(body))
            BY <2>1, <2>2 DEF Shows
      <2>4. \A from, w \in Nat : Shows(s, from, w, Crc(body)) => Number(s, from, w) = Crc(body)
            BY ShownNumber
      <2>5. Len(body) + 1 \in Nat
            BY <1>1
      <2>   QED  BY <2>3, <2>4, <2>5
<1>10. CASE i <= Len(body)
  <2>1. Number(t, Len(body) + 1, 4) = Number(s, Len(body) + 1, 4)
    <3>1. Agree(s, t, Len(body) + 1, 4)
      <4>   SUFFICES ASSUME NEW j \in 0 .. 4 - 1
                     PROVE  /\ s[(Len(body) + 1) + j] \in Nat
                            /\ s[(Len(body) + 1) + j] = t[(Len(body) + 1) + j]
            BY DEF Agree
      <4>1. (Len(body) + 1) + j \in 1 .. Len(s) /\ (Len(body) + 1) + j # i
            BY <1>1, <1>10
      <4>   QED  BY <1>7, <1>8, <4>1
    <3>2. \A from, w \in Nat : Agree(s, t, from, w) => Number(s, from, w) = Number(t, from, w)
          BY NumberSame
    <3>3. Len(body) + 1 \in Nat
          BY <1>1
    <3>   QED  BY <3>1, <3>2, <3>3
  <2>2. SubSeq(t, 1, Len(body)) \in OneByteOff(body)
    <3>   DEFINE u == ByteOff(body, i, x)
    <3>1. i \in 1 .. Len(body)
          BY <1>1, <1>10
    <3>2. u \in OneByteOff(body)
          BY <3>1 DEF OneByteOff
    <3>3. body[i] = s[i] /\ \A j \in 1 .. Len(body) : s[j] = body[j]
          BY <1>1, <3>1 DEF StartsWith
    <3>4. (s[i] + x) % Base \in Bytes
      <4>1. i \in 1 .. Len(s)
            OBVIOUS
      <4>2. t[i] \in Bytes
            BY <1>3, <4>1, ElementOfSeq
      <4>   QED  BY <1>7, <4>2
    <3>5. /\ u \in Seq(Bytes) /\ Len(u) = Len(body)
          /\ \A j \in 1 .. Len(body) : u[j] = IF j = i THEN (s[i] + x) % Base ELSE body[j]
      <4>   DEFINE e == (s[i] + x) % Base
      <4>1. u = [body EXCEPT ![i] = e]
            BY <1>2, <3>1, <3>3 DEF ByteOff
      <4>2. e \in Bytes
            BY <3>4
      <4>   HIDE DEF e, u
      <4>3. /\ u \in Seq(Bytes) /\ Len(u) = Len(body)
            /\ \A j \in 1 .. Len(body) : u[j] = IF j = i THEN e ELSE body[j]
            BY <1>2, <3>1, <4>1, <4>2, ExceptSeq
      <4>   QED  BY <4>3 DEF e, u
    <3>   HIDE DEF u
    <3>6. ASSUME NEW j \in 1 .. Len(u) PROVE t[j] = u[j]
          <4>1. j \in 1 .. Len(body) /\ j \in 1 .. Len(s)
                BY <1>1, <3>5
          <4>2. CASE j = i
                BY <1>7, <3>5, <4>1, <4>2
          <4>3. CASE j # i
                BY <1>7, <3>3, <3>5, <4>1, <4>3
          <4>   QED  BY <4>2, <4>3
    <3>7. SubSeq(t, 1, Len(body)) = u
      <4>1. \A z \in Nat : z = 0 => SubSeq(t, z + 1, z + Len(u)) = u
            <5>   SUFFICES ASSUME NEW z \in Nat, z = 0 PROVE SubSeq(t, z + 1, z + Len(u)) = u
                  OBVIOUS
            <5>1. z + Len(u) <= Len(t)
                  BY <1>1, <1>3, <3>5
            <5>2. \A j \in 1 .. Len(u) : t[z + j] = u[j]
                  BY <3>6
            <5>   QED  BY <1>3, <3>5, <5>1, <5>2, Piece
      <4>2. 0 \in Nat /\ 0 + 1 = 1 /\ 0 + Len(u) = Len(body)
            BY <1>1, <3>5
      <4>   QED  BY <4>1, <4>2
    <3>   QED  BY <3>2, <3>7
  <2>   QED  BY <1>5, <1>6, <1>9, <2>1, <2>2
<1>11. CASE ~ (i <= Len(body))
  <2>   DEFINE from == Len(body) + 1
               k == i - from
  <2>1. from \in Nat /\ k \in 0 .. 4 - 1 /\ from + k = i
        BY <1>1, <1>11
  <2>2. SubSeq(t, 1, Len(body)) = body
    <3>1. StartsWith(t, body)
          BY <1>1, <1>3, <1>7, <1>11 DEF StartsWith
    <3>   QED  BY <1>3, <3>1, BodyRead DEF body
  <2>3. \A j \in 0 .. 4 - 1 : from + j \in 1 .. Len(s) /\ (j # k => from + j # i)
        BY <1>1, <2>1
  <2>   HIDE DEF from, k
  <2>4. /\ \A j \in 0 .. 4 - 1 : s[from + j] \in Nat /\ t[from + j] \in Nat
        /\ \A j \in 0 .. 4 - 1 : j # k => s[from + j] = t[from + j]
        /\ s[from + k] # t[from + k]
        BY <1>7, <1>8, <2>1, <2>3
  <2>5. Number(s, from, 4) # Number(t, from, 4)
        BY <2>1, <2>4, NumberDiffers
  <2>   QED  BY <1>5, <1>6, <1>9, <2>2, <2>5 DEF from
<1>   QED  BY <1>10, <1>11

\* A document that was damaged is refused or decodes to what was written.
LEMMA DamagedDecode ==
    ASSUME NEW env \in Envelopes, NEW encoder \in Encoders, NEW doc,
           doc = Encode(env, encoder) \/ doc \in Damaged(Encode(env, encoder)),
           doc.json \in {NoEnvelope, env},
           doc.json = NoEnvelope => \A zstd \in BOOLEAN : Fits(env, zstd)
    PROVE  Decode(doc).err # "none" \/ Decode(doc) = Decoded(env)
<1>1. env # NoEnvelope
      BY InputsAssumption
<1>2. \A e : Err(e).err = e
      BY DEF Err
<1>3. BINARY_MAGIC # JSON_MAGIC
      BY CodecAssumption
<1>4. \A t, json : Document(t, json).bytes = t /\ Document(t, json).json = json
      BY DEF Document
<1>5. ASSUME NEW json, doc = Document(<<JSON_MAGIC>>, json)
      PROVE  Decode(doc).err # "none" \/ Decode(doc) = Decoded(env)
  <2>1. json \in {NoEnvelope, env}
        BY <1>4, <1>5
  <2>2. Decode(doc) = IF json = NoEnvelope THEN Err("Json") ELSE Decoded(json)
        BY <1>5, JsonDecode
  <2>   QED  BY <1>2, <2>1, <2>2
<1>6. ASSUME Encode(env, encoder) = Document(<<JSON_MAGIC>>, env)
      PROVE  Decode(doc).err # "none" \/ Decode(doc) = Decoded(env)
  <2>1. \E json : doc = Document(<<JSON_MAGIC>>, json)
        BY <1>4, <1>6 DEF Damaged
  <2>   QED  BY <1>5, <2>1
<1>7. ASSUME NEW zstd \in BOOLEAN, Encode(env, encoder) = Document(EncodeInner(env, zstd), NoEnvelope)
      PROVE  Decode(doc).err # "none" \/ Decode(doc) = Decoded(env)
  <2>   DEFINE s == EncodeInner(env, zstd)
  <2>1. /\ s \in Seq(Bytes) /\ Len(s) \in Nat /\ Len(s) >= 6 /\ s[1] = BINARY_MAGIC
        /\ Decode(Document(s, NoEnvelope)) = DecodeBinary(s)
        BY EncodedParts, BinaryDecode
  <2>2. s # <<JSON_MAGIC>>
        BY <1>3, <2>1
  <2>3. Document(s, NoEnvelope).bytes = s
        BY <1>4
  <2>   DEFINE Ok(t) == Decode(Document(t, NoEnvelope)).err # "none"
                        \/ Decode(Document(t, NoEnvelope)) = Decoded(env)
  <2>   HIDE DEF s
  <2>4. /\ doc.json = NoEnvelope
        /\ \/ doc = Document(s, NoEnvelope)
           \/ \E t \in OneByteOff(s) : doc = Document(t, NoEnvelope)
           \/ \E n \in 0 .. Len(s) - 1 : doc = Document(SubSeq(s, 1, n), NoEnvelope)
           \/ doc = Document(Append(s, 0), NoEnvelope)
        <3>1. doc = Document(s, NoEnvelope) \/ doc \in Damaged(Document(s, NoEnvelope))
              BY <1>7 DEF s
        <3>2. Damaged(Document(s, NoEnvelope)) =
                {Document(t, NoEnvelope) : t \in OneByteOff(s)}
                \cup {Document(SubSeq(s, 1, n), NoEnvelope) : n \in 0 .. Len(s) - 1}
                \cup {Document(Append(s, 0), NoEnvelope)}
              BY <2>2, <2>3 DEF Damaged
        <3>3. \/ doc = Document(s, NoEnvelope)
              \/ \E t \in OneByteOff(s) : doc = Document(t, NoEnvelope)
              \/ \E n \in 0 .. Len(s) - 1 : doc = Document(SubSeq(s, 1, n), NoEnvelope)
              \/ doc = Document(Append(s, 0), NoEnvelope)
              BY <3>1, <3>2
        <3>   QED  BY <1>4, <3>3
  <2>5. Fits(env, zstd)
        BY <2>4
  <2>6. \A t : \/ Decode(Document(t, NoEnvelope)) = Err("Json")
               \/ Decode(Document(t, NoEnvelope)) = DecodeBinary(t)
        BY <1>4 DEF Decode
  <2>7. ASSUME NEW t \in Seq(Bytes), StartsWith(t, s) PROVE Ok(t)
        <3>1. DecodeBinary(t) = Err("ZstdDecompress") \/ DecodeBinary(t) = Decoded(env)
              BY <2>5, <2>7, DecodeEncoded DEF s
        <3>   QED  BY <1>2, <2>6, <3>1
  <2>8. ASSUME NEW t, DecodeBinary(t).err # "none" PROVE Ok(t)
        BY <1>2, <2>6, <2>8
  <2>9. CASE doc = Document(s, NoEnvelope)
        BY <2>1, <2>7, <2>9, StartsWithItself
  <2>10. ASSUME NEW t \in OneByteOff(s), doc = Document(t, NoEnvelope)
         PROVE  Decode(doc).err # "none" \/ Decode(doc) = Decoded(env)
         <3>1. DecodeBinary(t).err # "none"
               BY <2>5, ChangedRefused DEF s
         <3>   QED  BY <2>8, <2>10, <3>1
  <2>11. ASSUME NEW n \in 0 .. Len(s) - 1, doc = Document(SubSeq(s, 1, n), NoEnvelope)
         PROVE  Decode(doc).err # "none" \/ Decode(doc) = Decoded(env)
         <3>1. DecodeBinary(SubSeq(s, 1, n)).err # "none"
               BY <2>5, TruncatedRefused DEF s
         <3>   QED  BY <2>8, <2>11, <3>1
  <2>12. CASE doc = Document(Append(s, 0), NoEnvelope)
         <3>1. 0 \in Bytes
               BY CodecAssumption DEF Bytes
         <3>2. Append(s, 0) \in Seq(Bytes) /\ StartsWith(Append(s, 0), s)
               BY <2>1, <3>1, AppendProperties DEF StartsWith
         <3>   QED  BY <2>7, <2>12, <3>2
  <2>   HIDE DEF Ok
  <2>   QED  BY <2>4, <2>9, <2>10, <2>11, <2>12
<1>   QED  BY <1>6, <1>7, EncodedForms

\* A document is what an encoder made of the envelope, or that damaged once.
AsWritten ==
    \A id \in Ids : written[id] # NoEnvelope =>
      \E encoder \in Encoders : \/ kv[id] = Encode(written[id], encoder)
                                \/ kv[id] \in Damaged(Encode(written[id], encoder))

LEMMA WrittenStep == TypeInv /\ AsWritten /\ [Next]_vars => AsWritten'
<1>   SUFFICES ASSUME TypeInv, AsWritten, [Next]_vars PROVE AsWritten'
      OBVIOUS
<1>1. CASE UNCHANGED <<written, kv>>
      BY <1>1 DEF AsWritten
<1>2. ASSUME NEW id \in Ids, NEW input \in Inputs[id], Write(id, input[1], input[2])
      PROVE  AsWritten'
  <2>1. input[2] \in Encoders
        BY InputsType
  <2>2. written \in [Ids -> Envelopes \cup {NoEnvelope}] /\ kv \in [Ids -> Documents \cup {NoDocument}]
        BY DEF TypeInv, StoreInv
  <2>3. /\ written'[id] = input[1] /\ kv'[id] = Encode(input[1], input[2])
        /\ \A i \in Ids : i # id => written'[i] = written[i] /\ kv'[i] = kv[i]
        BY <1>2, <2>2 DEF Write
  <2>   QED  BY <2>1, <2>3 DEF AsWritten
<1>3. ASSUME NEW id \in Fragile, Damage(id) PROVE AsWritten'
  <2>1. kv \in [Ids -> Documents \cup {NoDocument}] /\ id \in Ids
        BY QueryAssumption DEF TypeInv, StoreInv
  <2>2. PICK doc \in Damaged(kv[id]) : kv' = [kv EXCEPT ![id] = doc]
        BY <1>3 DEF Damage
  <2>3. PICK encoder \in Encoders : kv[id] = Encode(written[id], encoder)
        BY <1>3 DEF Damage
  <2>4. /\ kv'[id] \in Damaged(Encode(written[id], encoder))
        /\ \A i \in Ids : i # id => kv'[i] = kv[i]
        /\ written' = written
        BY <1>3, <2>1, <2>2, <2>3 DEF Damage
  <2>   QED  BY <2>3, <2>4 DEF AsWritten
<1>4. \/ UNCHANGED <<written, kv>>
      \/ \E id \in Ids : \E input \in Inputs[id] : Write(id, input[1], input[2])
      \/ \E id \in Fragile : Damage(id)
  <2>1. ASSUME NEW scheme, NEW rest, Parse(scheme, rest) PROVE UNCHANGED <<written, kv>>
        BY <2>1 DEF Parse, storeVars
  <2>2. ASSUME NEW k, NEW f, NEW length, Begin(k, f, length) PROVE UNCHANGED <<written, kv>>
        BY <2>2 DEF Begin, storeVars
  <2>3. CASE OpenFails \/ Connect \/ Search \/ CallFails \/ SkipMissing \/ RowCorrupted
             \/ Undecodable \/ Take \/ Return
        BY <2>3 DEF OpenFails, Connect, Search, CallFails, SkipMissing, RowCorrupted, Undecodable,
                    Take, Return, storeVars
  <2>4. CASE UNCHANGED vars
        BY <2>4 DEF vars, storeVars
  <2>   QED  BY <2>1, <2>2, <2>3, <2>4 DEF Next
<1>   QED  BY <1>1, <1>2, <1>3, <1>4

\* What is stored for a record that is protected is refused or decodes to what
\* was written for it.
LEMMA ProtectedDecode ==
    ASSUME TypeInv, AsWritten, NEW id \in Ids, kv[id] # NoDocument, ~ Unprotected(id)
    PROVE  /\ written[id] \in Envelopes /\ written[id] # NoEnvelope
           /\ Decode(kv[id]).err # "none" \/ Decode(kv[id]) = Decoded(written[id])
<1>1. written[id] \in Envelopes /\ written[id] # NoEnvelope
      BY DEF TypeInv, StoreInv
<1>2. PICK encoder \in Encoders : \/ kv[id] = Encode(written[id], encoder)
                                  \/ kv[id] \in Damaged(Encode(written[id], encoder))
      BY <1>1 DEF AsWritten
<1>3. /\ kv[id].json \in {NoEnvelope, written[id]}
      /\ kv[id].json = NoEnvelope => \A zstd \in BOOLEAN : Fits(written[id], zstd)
      BY <1>1 DEF Unprotected
<1>4. Decode(kv[id]).err # "none" \/ Decode(kv[id]) = Decoded(written[id])
      <2>   DEFINE env == written[id]
                   doc == kv[id]
      <2>1. env \in Envelopes
            BY <1>1
      <2>2. doc = Encode(env, encoder) \/ doc \in Damaged(Encode(env, encoder))
            BY <1>2
      <2>3. doc.json \in {NoEnvelope, env} /\ (doc.json = NoEnvelope => \A zstd \in BOOLEAN : Fits(env, zstd))
            BY <1>3
      <2>   HIDE DEF env, doc
      <2>4. Decode(doc).err # "none" \/ Decode(doc) = Decoded(env)
            BY <2>1, <2>2, <2>3, DamagedDecode
      <2>   QED  BY <2>4 DEF env, doc
<1>   QED  BY <1>1, <1>4

(***************************************************************************)
(* What a query returns                                                    *)
(***************************************************************************)
Hits == {i \in 1 .. Len(candidates) :
           /\ candidates[i].id \in Ids
           /\ written[candidates[i].id] # NoEnvelope
           /\ Accept(written[candidates[i].id])}
HitAt(i) == Hit(candidates[i], written[candidates[i].id])
Rank(H, i) == Cardinality({j \in H : j <= i})

Protected == \A i \in 1 .. Len(candidates) : ~ Unprotected(candidates[i].id)

\* The hits are the first of those there are, in their order.
Ordered == \A n \in 1 .. Len(out) : \E i \in Hits : Rank(Hits, i) = n /\ out[n] = HitAt(i)

\* The loop has collected every hit before the candidate it looks at; at the end
\* there are all of them, or as many as were asked for.
LoopInv ==
    /\ phase = "loop" /\ Protected =>
         Ordered /\ Len(out) = Cardinality({j \in Hits : j < at})
    /\ phase = "answered" /\ err = "none" /\ Protected =>
         Ordered /\ Len(out) = Smaller(Larger(top_k, 1), Cardinality(Hits))

\* Hits have different ranks.
LEMMA RankInjective ==
    ASSUME NEW m \in Nat, NEW H \in SUBSET (1 .. m), NEW i \in H, NEW k \in H,
           Rank(H, i) = Rank(H, k)
    PROVE  i = k
<1>1. IsFiniteSet(H)
      <2>1. IsFiniteSet(1 .. m)
            BY FS_Interval
      <2>   QED  BY <2>1, FS_Subset
<1>2. ASSUME NEW a \in H, NEW b \in H, a < b PROVE Rank(H, a) # Rank(H, b)
  <2>   DEFINE A == {j \in H : j <= a}
               B == {j \in H : j <= b}
  <2>1. B \in SUBSET H /\ IsFiniteSet(B)
        BY <1>1, FS_Subset
  <2>2. A \in SUBSET B /\ b \in B /\ b \notin A
        <3>1. a \in Nat /\ b \in Nat /\ \A j \in H : j \in Nat
              OBVIOUS
        <3>2. b <= b /\ ~ (b <= a) /\ \A j \in H : j <= a => j <= b
              BY <1>2, <3>1
        <3>   QED  BY <3>2
  <2>   HIDE DEF A, B
  <2>3. Cardinality(A) # Cardinality(B)
        BY <2>1, <2>2, FS_Subset
  <2>   QED  BY <2>3 DEF Rank, A, B
<1>3. i \in Nat /\ k \in Nat
      OBVIOUS
<1>   QED  BY <1>2, <1>3

\* How the hits before a candidate grow from one to the next.
LEMMA NextHit ==
    ASSUME NEW m \in Nat, NEW H \in SUBSET (1 .. m), NEW k \in 1 .. m
    PROVE  /\ Cardinality(H) \in Nat
           /\ k \notin H => {j \in H : j < k + 1} = {j \in H : j < k}
           /\ k \in H => /\ Rank(H, k) = Cardinality({j \in H : j < k}) + 1
                         /\ {j \in H : j < k + 1} = {j \in H : j <= k}
                         /\ Rank(H, k) <= Cardinality(H)
<1>1. IsFiniteSet(H)
      <2>1. IsFiniteSet(1 .. m)
            BY FS_Interval
      <2>   QED  BY <2>1, FS_Subset
<1>   DEFINE A == {j \in H : j < k}
             B == {j \in H : j <= k}
<1>2. A \in SUBSET H /\ B \in SUBSET H
      OBVIOUS
<1>3. /\ IsFiniteSet(A) /\ IsFiniteSet(B) /\ Cardinality(B) <= Cardinality(H)
      /\ Cardinality(H) \in Nat /\ Cardinality(A) \in Nat
      <2>   HIDE DEF A, B
      <2>   QED  BY <1>1, <1>2, FS_Subset, FS_CardinalityType
<1>a. k \in Nat /\ \A j \in H : j \in Nat /\ j <= m
      OBVIOUS
<1>b. /\ \A j \in H : /\ (j < k + 1 <=> j <= k)
                       /\ (j # k => (j < k + 1 <=> j < k) /\ (j <= k <=> j < k))
      /\ k <= k /\ ~ (k < k)
      BY <1>a
<1>4. ASSUME k \in H PROVE B = A \cup {k} /\ k \notin A /\ {j \in H : j < k + 1} = B
      <2>1. \A j : j \in B <=> j \in A \cup {k}
            BY <1>4, <1>b
      <2>2. \A j : j \in {i \in H : i < k + 1} <=> j \in B
            BY <1>b
      <2>3. k \notin A
            BY <1>b
      <2>4. {j \in H : j < k + 1} = B
            BY <2>2
      <2>   HIDE DEF A, B
      <2>   QED  BY <2>1, <2>3, <2>4
<1>5. ASSUME k \notin H PROVE {j \in H : j < k + 1} = A
      <2>1. \A j : j \in {i \in H : i < k + 1} <=> j \in A
            BY <1>5, <1>b
      <2>   QED  BY <2>1
<1>6. ASSUME k \in H PROVE Cardinality(B) = Cardinality(A) + 1
      <2>1. B = A \cup {k} /\ k \notin A
            BY <1>4, <1>6
      <2>   HIDE DEF A, B
      <2>   QED  BY <1>3, <2>1, FS_AddElement
<1>   QED  BY <1>3, <1>4, <1>5, <1>6 DEF Rank

\* The hits before the end are all there are.
LEMMA AllHits ==
    ASSUME NEW m \in Nat, NEW H \in SUBSET (1 .. m)
    PROVE  {j \in H : j < m + 1} = H /\ Cardinality(H) \in Nat
<1>1. IsFiniteSet(H)
      <2>1. IsFiniteSet(1 .. m)
            BY FS_Interval
      <2>   QED  BY <2>1, FS_Subset
<1>2. \A j \in H : j < m + 1
      OBVIOUS
<1>   QED  BY <1>1, <1>2, FS_CardinalityType

\* With every hit collected or as many as were asked for, the answer is the
\* reference.
LEMMA AnswerRight ==
    ASSUME IsSequence(candidates), IsSequence(out), Ordered,
           Len(out) = Smaller(Larger(top_k, 1), Cardinality(Hits))
    PROVE  out = Reference
<1>   DEFINE N == Smaller(Larger(top_k, 1), Cardinality(Hits))
             Nth(n) == CHOOSE i \in Hits : Rank(Hits, i) = n
             R == [n \in 1 .. N |-> HitAt(Nth(n))]
<1>1. Reference = R
      BY DEF Reference, Hits, Rank, HitAt
<1>2. Len(candidates) \in Nat /\ Len(out) \in Nat
      BY EmptySequence
<1>3. Hits \in SUBSET (1 .. Len(candidates))
      BY DEF Hits
<1>4. ASSUME NEW n \in 1 .. Len(out) PROVE out[n] = HitAt(Nth(n))
  <2>1. PICK i \in Hits : Rank(Hits, i) = n /\ out[n] = HitAt(i)
        BY DEF Ordered
  <2>2. Nth(n) \in Hits /\ Rank(Hits, Nth(n)) = n
        BY <2>1
  <2>   HIDE DEF Nth
  <2>3. Nth(n) = i
        BY <1>2, <1>3, <2>1, <2>2, RankInjective
  <2>   QED  BY <2>1, <2>3
<1>5. N = Len(out)
      OBVIOUS
<1>   HIDE DEF N, Nth
<1>6. PICK S : out \in Seq(S)
      BY DEF IsSequence
<1>7. out = [n \in 1 .. Len(out) |-> out[n]]
      BY <1>6
<1>8. R = [n \in 1 .. Len(out) |-> out[n]]
      BY <1>4, <1>5
<1>   QED  BY <1>1, <1>7, <1>8

LEMMA LoopFrame ==
    ASSUME UNCHANGED <<candidates, written, kv, filter>>
    PROVE  /\ Hits' = Hits /\ (Protected' <=> Protected)
           /\ \A i : HitAt(i)' = HitAt(i)
BY DEF Hits, Protected, HitAt, Accept, Unprotected

\* The loop goes on after a candidate; what it has collected is what it should
\* have before the next one.
LEMMA LoopAdvance ==
    ASSUME TypeInv, TypeInv', phase = "loop", NextCandidate,
           UNCHANGED <<candidates, written, kv, filter, top_k, err>>,
           Protected => Ordered' /\ Len(out') = Cardinality({j \in Hits : j < at + 1})
    PROVE  LoopInv'
<1>1. Hits' = Hits /\ (Protected' <=> Protected)
      BY LoopFrame
<1>2. SUFFICES ASSUME Protected, phase' \in {"loop", "answered"}
               PROVE  /\ phase' = "loop" =>
                           Ordered' /\ Len(out') = Cardinality({j \in Hits : j < at'})
                      /\ phase' = "answered" =>
                           Ordered' /\ Len(out') = Smaller(Larger(top_k, 1), Cardinality(Hits))
      BY <1>1 DEF LoopInv
<1>3. at' = at + 1 /\ phase' = IF at = Len(candidates) THEN "answered" ELSE "loop"
      BY DEF NextCandidate
<1>4. ASSUME phase' = "answered" PROVE Len(out') = Smaller(Larger(top_k, 1), Cardinality(Hits))
  <2>1. Len(candidates) \in Nat /\ at = Len(candidates) /\ at \in 1 .. Len(candidates)
        <3>1. at = Len(candidates) /\ Len(candidates) \in Nat /\ at \in 1 .. Len(candidates) + 1
              BY <1>3, <1>4, EmptySequence DEF TypeInv, QueryInv
        <3>   QED  BY <3>1
  <2>2. Hits \in SUBSET (1 .. Len(candidates))
        BY DEF Hits
  <2>3. {j \in Hits : j < Len(candidates) + 1} = Hits /\ Cardinality(Hits) \in Nat
        BY <2>1, <2>2, AllHits
  <2>4. Len(out') = Cardinality(Hits)
        BY <1>2, <2>1, <2>3
  <2>5. Len(out') <= Larger(top_k, 1)
        BY DEF TypeInv, QueryInv
  <2>6. Larger(top_k, 1) \in Nat
        <3>1. top_k \in Nat
              BY QueryAssumption DEF TypeInv, QueryInv
        <3>   QED  BY <3>1 DEF Larger
  <2>   HIDE DEF Hits
  <2>   QED  BY <2>3, <2>4, <2>5, <2>6 DEF Smaller
<1>   QED  BY <1>2, <1>3, <1>4

\* The hits before the candidate the loop looks at, and with it.
LEMMA HitsBefore ==
    ASSUME Len(candidates) \in Nat, at \in 1 .. Len(candidates)
    PROVE  /\ Cardinality(Hits) \in Nat
           /\ at \notin Hits => {j \in Hits : j < at + 1} = {j \in Hits : j < at}
           /\ at \in Hits =>
                /\ Rank(Hits, at) = Cardinality({j \in Hits : j < at}) + 1
                /\ Rank(Hits, at) = Cardinality({j \in Hits : j < at + 1})
                /\ Rank(Hits, at) <= Cardinality(Hits)
<1>1. Hits \in SUBSET (1 .. Len(candidates))
      BY DEF Hits
<1>2. /\ Cardinality(Hits) \in Nat
      /\ at \notin Hits => {j \in Hits : j < at + 1} = {j \in Hits : j < at}
      /\ at \in Hits => /\ Rank(Hits, at) = Cardinality({j \in Hits : j < at}) + 1
                        /\ {j \in Hits : j < at + 1} = {j \in Hits : j <= at}
                        /\ Rank(Hits, at) <= Cardinality(Hits)
      BY <1>1, NextHit, Zenon
<1>3. Rank(Hits, at) = Cardinality({j \in Hits : j <= at})
      BY DEF Rank
<1>   QED  BY <1>2, <1>3

\* One step of the loop that looks at an envelope.
LEMMA LoopTake ==
    ASSUME TypeInv, TypeInv', AsWritten, LoopInv, Take
    PROVE  LoopInv'
<1>   DEFINE id == candidates[at].id
             env == written[id]
             d == Decode(kv[id])
<1>1. /\ phase = "loop" /\ UNCHANGED <<candidates, written, kv, filter, top_k, err>>
      /\ id \in Ids /\ kv[id] # NoDocument /\ d.err = "none"
      /\ out' = IF Accept(d.env) THEN Append(out, Hit(candidates[at], d.env)) ELSE out
      /\ IF out' # out /\ Len(out') >= top_k
         THEN phase' = "answered" /\ UNCHANGED at
         ELSE NextCandidate
      BY DEF Take, Stored, storeVars
<1>2. Hits' = Hits /\ (Protected' <=> Protected) /\ \A i : HitAt(i)' = HitAt(i)
      BY <1>1, LoopFrame
<1>3. /\ Len(candidates) \in Nat /\ at \in 1 .. Len(candidates)
      /\ IsSequence(out) /\ Len(out) \in Nat /\ top_k \in Nat
      <2>1. top_k \in Nat
            BY QueryAssumption DEF TypeInv, QueryInv
      <2>2. at \in 1 .. Len(candidates) + 1 /\ at <= Len(candidates) /\ Len(candidates) \in Nat
            BY <1>1, EmptySequence DEF TypeInv, QueryInv
      <2>   QED  BY <2>1, <2>2, EmptySequence DEF TypeInv, QueryInv
<1>4. CASE ~ Protected
  <2>1. ~ Protected'
        BY <1>2, <1>4
  <2>   QED  BY <2>1 DEF LoopInv
<1>5. CASE Protected
  <2>1. ~ Unprotected(id)
        BY <1>3, <1>5 DEF Protected
  <2>2. env # NoEnvelope /\ d = Decoded(env)
        BY <1>1, <2>1, ProtectedDecode
  <2>3. d.env = env
        BY <2>2 DEF Decoded
  <2>   HIDE DEF d
  <2>4. at \in Hits <=> Accept(env)
        BY <1>1, <1>3, <2>2 DEF Hits
  <2>   HIDE DEF id, env
  <2>6. /\ Ordered /\ Len(out) = Cardinality({j \in Hits : j < at})
        BY <1>1, <1>5 DEF LoopInv
  <2>7. CASE ~ Accept(env)
    <3>1. out' = out /\ NextCandidate
          BY <1>1, <2>3, <2>7
    <3>2. {j \in Hits : j < at + 1} = {j \in Hits : j < at}
          BY <1>3, <2>4, <2>7, HitsBefore
    <3>3. Ordered'
          BY <1>2, <2>6, <3>1 DEF Ordered
    <3>4. Len(out') = Cardinality({j \in Hits : j < at + 1})
          BY <2>6, <3>1, <3>2
    <3>   QED  BY <1>1, <3>1, <3>3, <3>4, LoopAdvance
  <2>8. CASE Accept(env)
    <3>1. out' = Append(out, HitAt(at))
          BY <1>1, <2>3, <2>8 DEF HitAt, id, env
    <3>2. /\ out' # out /\ Len(out') = Len(out) + 1
          /\ \A n \in 1 .. Len(out) : out'[n] = out[n]
          /\ out'[Len(out) + 1] = HitAt(at)
          BY <1>3, <3>1, AppendAny
    <3>3. /\ at \in Hits /\ Rank(Hits, at) = Len(out) + 1
          /\ Cardinality({j \in Hits : j < at + 1}) = Len(out) + 1
          /\ Rank(Hits, at) <= Cardinality(Hits) /\ Cardinality(Hits) \in Nat
          <4>1. at \in Hits
                BY <2>4, <2>8
          <4>2. /\ Cardinality(Hits) \in Nat /\ Rank(Hits, at) <= Cardinality(Hits)
                /\ Rank(Hits, at) = Cardinality({j \in Hits : j < at}) + 1
                /\ Rank(Hits, at) = Cardinality({j \in Hits : j < at + 1})
                BY <1>3, <4>1, HitsBefore
          <4>   QED  BY <2>6, <4>1, <4>2
    <3>4. Ordered'
      <4>1. ASSUME NEW n \in 1 .. Len(out')
            PROVE  \E i \in Hits : Rank(Hits, i) = n /\ out'[n] = HitAt(i)
        <5>1. CASE n = Len(out) + 1
              BY <3>2, <3>3, <5>1
        <5>2. CASE n # Len(out) + 1
              <6>1. n \in 1 .. Len(out)
                    BY <1>3, <3>2, <5>2
              <6>   QED  BY <2>6, <3>2, <6>1 DEF Ordered
        <5>   QED  BY <5>1, <5>2
      <4>   HIDE DEF Hits, HitAt
      <4>   QED  BY <1>2, <4>1 DEF Ordered, Rank
    <3>5. CASE Len(out') >= top_k
      <4>1. phase' = "answered"
            BY <1>1, <3>2, <3>5
      <4>2. Len(out') <= Larger(top_k, 1)
            BY <1>1 DEF TypeInv, QueryInv
      <4>3. Larger(top_k, 1) = Len(out')
            BY <1>3, <3>2, <3>5, <4>2 DEF Larger
      <4>4. Len(out') <= Cardinality(Hits)
            BY <3>2, <3>3
      <4>5. Len(out') = Smaller(Larger(top_k, 1), Cardinality(Hits))
            BY <4>3, <4>4 DEF Smaller
      <4>   HIDE DEF Hits
      <4>   QED  BY <1>1, <1>2, <3>4, <4>1, <4>5 DEF LoopInv
    <3>6. CASE ~ (Len(out') >= top_k)
      <4>1. NextCandidate
            BY <1>1, <3>6
      <4>   QED  BY <1>1, <3>2, <3>3, <3>4, <4>1, LoopAdvance
    <3>   QED  BY <3>5, <3>6
  <2>   QED  BY <2>7, <2>8
<1>   QED  BY <1>4, <1>5

\* Where the loop begins nothing is collected, and there is nothing to collect
\* before the first candidate.
LEMMA LoopStart ==
    ASSUME TypeInv, TypeInv', Search, err' = "none"
    PROVE  LoopInv'
<1>1. /\ phase = "search" /\ out' = out /\ at' = at
      /\ phase' = IF candidates' = <<>> THEN "answered" ELSE "loop"
      BY DEF Search, Fail
<1>2. out' = <<>> /\ at' = 1
      BY <1>1 DEF TypeInv, QueryInv
<1>3. Ordered' /\ Len(out') = 0
      BY <1>2, EmptySequence DEF Ordered
<1>4. Len(candidates') \in Nat /\ top_k' \in Nat
  <2>1. IsSequence(candidates')
        BY DEF TypeInv, QueryInv
  <2>2. top_k' \in Nat
        BY QueryAssumption DEF TypeInv, QueryInv
  <2>   QED  BY <2>1, <2>2, EmptySequence
<1>5. Hits' \in SUBSET (1 .. Len(candidates'))
      BY DEF Hits
<1>6. Cardinality({j \in Hits' : j < at'}) = 0
  <2>1. \A j \in Hits' : ~ (j < 1)
        BY <1>4, <1>5
  <2>2. {j \in Hits' : j < 1} = {}
        BY <2>1
  <2>   QED  BY <1>2, <2>2, FS_EmptySet
<1>7. ASSUME phase' = "answered" PROVE Smaller(Larger(top_k', 1), Cardinality(Hits')) = 0
  <2>1. candidates' = <<>>
        BY <1>1, <1>7
  <2>2. Len(candidates') = 0
        BY <2>1, EmptySequence
  <2>3. Hits' = {}
        BY <1>5, <2>2
  <2>4. Cardinality(Hits') = 0
        BY <2>3, FS_EmptySet
  <2>   QED  BY <1>4, <2>4, LargerType DEF Smaller
<1>8. phase' = "loop" => Ordered' /\ Len(out') = Cardinality({j \in Hits' : j < at'})
      BY <1>3, <1>6
<1>9. phase' = "answered" => Ordered' /\ Len(out') = Smaller(Larger(top_k', 1), Cardinality(Hits'))
      BY <1>3, <1>7
<1>   QED  BY <1>8, <1>9 DEF LoopInv

\* A candidate without an envelope is no hit.
LEMMA LoopSkip ==
    ASSUME TypeInv, TypeInv', LoopInv, SkipMissing
    PROVE  LoopInv'
<1>1. /\ phase = "loop" /\ NextCandidate /\ out' = out
      /\ UNCHANGED <<candidates, written, kv, filter, top_k, err>>
      BY DEF SkipMissing, storeVars
<1>2. Len(candidates) \in Nat /\ at \in 1 .. Len(candidates)
  <2>1. at \in 1 .. Len(candidates) + 1 /\ at <= Len(candidates) /\ Len(candidates) \in Nat
        BY <1>1, EmptySequence DEF TypeInv, QueryInv
  <2>   QED  BY <2>1
<1>3. at \notin Hits
  <2>1. Stored(candidates[at].id) = NoDocument
        BY DEF SkipMissing
  <2>2. candidates[at].id \in Ids => written[candidates[at].id] = NoEnvelope
        BY <2>1 DEF Stored, TypeInv, StoreInv
  <2>   QED  BY <2>2 DEF Hits
<1>4. {j \in Hits : j < at + 1} = {j \in Hits : j < at}
      BY <1>2, <1>3, HitsBefore
<1>5. Hits' = Hits /\ \A i : HitAt(i)' = HitAt(i)
      BY <1>1, LoopFrame
<1>6. ASSUME Protected PROVE Ordered' /\ Len(out') = Cardinality({j \in Hits : j < at + 1})
  <2>1. Ordered /\ Len(out) = Cardinality({j \in Hits : j < at})
        BY <1>1, <1>6 DEF LoopInv
  <2>2. Ordered'
        BY <1>1, <1>5, <2>1 DEF Ordered
  <2>   QED  BY <1>1, <1>4, <2>1, <2>2
<1>   QED  BY <1>1, <1>6, LoopAdvance

LEMMA LoopStep == TypeInv /\ TypeInv' /\ AsWritten /\ LoopInv /\ [Next]_vars => LoopInv'
<1>   SUFFICES ASSUME TypeInv, TypeInv', AsWritten, LoopInv, [Next]_vars PROVE LoopInv'
      OBVIOUS
<1>1. ASSUME phase' \notin {"loop", "answered"} PROVE LoopInv'
      BY <1>1 DEF LoopInv
<1>2. ASSUME phase' = "answered", err' # "none" PROVE LoopInv'
      BY <1>2 DEF LoopInv
<1>3. ASSUME NEW scheme, NEW rest, Parse(scheme, rest) PROVE LoopInv'
      BY <1>1, <1>3 DEF Parse
<1>4. CASE OpenFails \/ Connect \/ Return
      BY <1>1, <1>4 DEF OpenFails, Connect, Return
<1>5. ASSUME NEW id, NEW env, NEW encoder, Write(id, env, encoder) PROVE LoopInv'
      BY <1>1, <1>5 DEF Write, queryVars
<1>6. ASSUME NEW id, Damage(id) PROVE LoopInv'
      BY <1>1, <1>6 DEF Damage, queryVars
<1>7. ASSUME NEW k, NEW f, NEW length, Begin(k, f, length) PROVE LoopInv'
      BY <1>1, <1>2, <1>7 DEF Begin, Fail
<1>8. CASE CallFails \/ RowCorrupted \/ Undecodable
      BY <1>2, <1>8 DEF CallFails, RowCorrupted, Undecodable, Fail
<1>9. CASE Search
  <2>1. CASE err' = "none"
        BY <1>9, <2>1, LoopStart
  <2>2. CASE err' # "none"
    <3>1. phase' = "answered"
          BY <1>9, <2>2 DEF Search, Fail, TypeInv, QueryInv
    <3>   QED  BY <1>2, <2>2, <3>1
  <2>   QED  BY <2>1, <2>2
<1>10. CASE SkipMissing
       BY <1>10, LoopSkip
<1>11. CASE Take
       BY <1>11, LoopTake
<1>12. CASE UNCHANGED vars
  <2>1. UNCHANGED <<written, kv, phase, top_k, filter, candidates, at, out, err>>
        BY <1>12 DEF vars, storeVars, queryVars
  <2>2. Hits' = Hits /\ (Protected' <=> Protected) /\ \A i : HitAt(i)' = HitAt(i)
        BY <2>1, LoopFrame
  <2>3. Ordered' <=> Ordered
        BY <2>1, <2>2 DEF Ordered
  <2>   QED  BY <2>1, <2>2, <2>3 DEF LoopInv
<1>   QED  BY <1>3, <1>4, <1>5, <1>6, <1>7, <1>8, <1>9, <1>10, <1>11, <1>12 DEF Next

\* A query that returns Ok returns exactly the first top_k candidates that the
\* filter accepts (one, if top_k is 0), each with what was written under its id,
\* whatever form the envelopes have that query_filtered (tenant.rs:305-329) reads:
\* a damaged one makes it fail (envelope.rs:245-293) and never changes a payload
\* or shows a record that the filter rejects.  Only queries that meet an envelope
\* nothing protects are left out: damaged JSON, and lengths that have wrapped.
THEOREM AnswersRight == Spec => []OkIsRight
<1>   DEFINE Inv == TypeInv /\ AsWritten /\ LoopInv
<1>1. Init => Inv
      BY TypeInit DEF Init, AsWritten, LoopInv
<1>2. Inv /\ [Next]_vars => Inv'
  <2>1. TypeInv /\ [Next]_vars => TypeInv'
        BY TypeStep
  <2>2. TypeInv /\ AsWritten /\ [Next]_vars => AsWritten'
        BY WrittenStep
  <2>   QED  BY <2>1, <2>2, LoopStep
<1>3. Inv => OkIsRight
  <2>1. SUFFICES ASSUME Inv, phase = "answered", err = "none", Protected
                 PROVE  out = Reference
        BY DEF OkIsRight, Protected
  <2>2. Ordered /\ Len(out) = Smaller(Larger(top_k, 1), Cardinality(Hits))
        BY <2>1 DEF LoopInv
  <2>   QED  BY <2>1, <2>2, AnswerRight DEF TypeInv, QueryInv
<1>   QED  BY <1>1, <1>2, <1>3, PTL DEF Spec

=============================================================================
