-------------------------- MODULE Resp3PoolProofs --------------------------
(***************************************************************************)
(* Theorems about Resp3Pool, for every set of threads, every set of        *)
(* sockets and every configuration.                                        *)
(***************************************************************************)
EXTENDS Resp3Pool, FiniteSetTheorems, SequenceTheorems, TLAPS

-----------------------------------------------------------------------------
(***************************************************************************)
(* Lemmas about the sets of threads and about the queue                    *)
(***************************************************************************)

\* The threads that count are finitely many.
LEMMA FiniteThreads ==
    /\ IsFiniteSet(Reservers) /\ Cardinality(Reservers) \in Nat
    /\ IsFiniteSet(Contenders) /\ Cardinality(Contenders) \in Nat
  <1>1. Reservers \in SUBSET Threads /\ Contenders \in SUBSET Threads
    BY DEF Reservers, Contenders
  <1>2. IsFiniteSet(Reservers) /\ IsFiniteSet(Contenders)
    BY <1>1, PoolAssumption, FS_Subset DEF PoolAssumption
  <1>3. QED
    BY <1>2, FS_CardinalityType

\* A thread that takes a reservation raises the number of reservers by one.
LEMMA ReserverEnters ==
    ASSUME TypeOK, NEW t \in Threads, pc[t] \notin Reserving,
           NEW v \in Reserving, pc' = [pc EXCEPT ![t] = v]
    PROVE  Cardinality(Reservers') = Cardinality(Reservers) + 1
  <1>1. Reservers' = Reservers \cup {t} /\ t \notin Reservers
    BY DEF TypeOK, Reservers
  <1>2. QED
    BY <1>1, FiniteThreads, FS_AddElement

\* A thread that gives its reservation back lowers it by one.
LEMMA ReserverLeaves ==
    ASSUME TypeOK, NEW t \in Threads, pc[t] \in Reserving,
           NEW v, v \notin Reserving, pc' = [pc EXCEPT ![t] = v]
    PROVE  /\ Cardinality(Reservers') = Cardinality(Reservers) - 1
           /\ Cardinality(Reservers) # 0
  <1>1. Reservers' = Reservers \ {t} /\ t \in Reservers
    BY DEF TypeOK, Reservers
  <1>2. Cardinality(Reservers') = Cardinality(Reservers) - 1
    BY <1>1, FiniteThreads, FS_RemoveElement
  <1>3. Cardinality(Reservers) # 0
    BY <1>1, FiniteThreads, FS_EmptySet
  <1>4. QED
    BY <1>2, <1>3

\* A step inside a reservation, or outside of any, changes nothing.
LEMMA ReserverStays ==
    ASSUME TypeOK, NEW t \in Threads,
           NEW v, v \in Reserving <=> pc[t] \in Reserving,
           pc' = [pc EXCEPT ![t] = v]
    PROVE  Reservers' = Reservers
  BY DEF TypeOK, Reservers

\* What lending the k-th entry leaves of the queue.
LEMMA QueueAfterReuse ==
    ASSUME TypeOK, NEW k \in 1 .. Len(idle),
           idle' = SubSeq(idle, k + 1, Len(idle))
    PROVE  /\ idle' \in Seq(Entries)
           /\ Len(idle') = Len(idle) - k
           /\ \A i \in 1 .. Len(idle') :
                i + k \in 1 .. Len(idle) /\ idle'[i] = idle[i + k]
  <1>1. idle \in Seq(Entries) /\ Len(idle) \in Nat /\ k \in Nat
    BY LenProperties DEF TypeOK
  <1>2. \A i \in (k + 1) .. Len(idle) : idle[i] \in Entries
    BY <1>1, ElementOfSeq
  <1>3. /\ SubSeq(idle, k + 1, Len(idle)) \in Seq(Entries)
        /\ Len(SubSeq(idle, k + 1, Len(idle))) =
             IF k + 1 <= Len(idle) THEN Len(idle) - (k + 1) + 1 ELSE 0
        /\ \A i \in 1 .. Len(idle) - (k + 1) + 1 :
             SubSeq(idle, k + 1, Len(idle))[i] = idle[(k + 1) + i - 1]
    <2>1. k + 1 \in Int /\ Len(idle) \in Int
      BY <1>1
    <2>2. QED
      BY <1>2, <2>1, SubSeqProperties
  <1>4. Len(idle') = Len(idle) - k
    BY <1>1, <1>3
  <1>5. \A i \in 1 .. Len(idle') :
           i + k \in 1 .. Len(idle) /\ idle'[i] = idle[i + k]
    <2> SUFFICES ASSUME NEW i \in 1 .. Len(idle')
                 PROVE  i + k \in 1 .. Len(idle) /\ idle'[i] = idle[i + k]
      OBVIOUS
    <2>1. i \in 1 .. Len(idle) - (k + 1) + 1 /\ i \in Nat
      BY <1>1, <1>4
    <2>2. idle'[i] = idle[(k + 1) + i - 1]
      BY <1>3, <2>1
    <2>3. (k + 1) + i - 1 = i + k /\ i + k \in 1 .. Len(idle)
      BY <1>1, <2>1
    <2>4. QED
      BY <2>2, <2>3
  <1>6. QED
    BY <1>3, <1>4, <1>5

\* What a return adds to the queue.
LEMMA QueueAfterReturn ==
    ASSUME TypeOK, NEW c \in Conns,
           idle' = Append(idle, [conn |-> c, age |-> 0])
    PROVE  /\ idle' \in Seq(Entries)
           /\ Len(idle') = Len(idle) + 1
           /\ \A i \in 1 .. Len(idle) : idle'[i] = idle[i]
           /\ idle'[Len(idle) + 1] = [conn |-> c, age |-> 0]
  <1>1. idle \in Seq(Entries) /\ [conn |-> c, age |-> 0] \in Entries
    BY PoolAssumption DEF TypeOK, Entries, PoolAssumption
  <1>2. QED
    BY <1>1, AppendProperties

\* Time changes ages only, and keeps their order.
LEMMA QueueAfterTick ==
    ASSUME TypeOK, Tick
    PROVE  /\ idle' \in Seq(Entries)
           /\ Len(idle') = Len(idle)
           /\ \A i \in 1 .. Len(idle) :
                /\ idle'[i].conn = idle[i].conn
                /\ idle'[i].age = IF idle[i].age < IdleTimeout
                                  THEN idle[i].age + 1 ELSE idle[i].age
  <1>1. idle \in Seq(Entries) /\ Len(idle) \in Nat
    BY LenProperties DEF TypeOK
  <1>2. \A i \in 1 .. Len(idle) : idle[i] \in Entries
    BY <1>1, ElementOfSeq
  <1>3. \A e \in Entries :
           /\ Older(e) \in Entries
           /\ Older(e).conn = e.conn
           /\ Older(e).age = IF e.age < IdleTimeout THEN e.age + 1 ELSE e.age
    BY PoolAssumption DEF Older, Entries, PoolAssumption
  <1>4. idle' = [i \in 1 .. Len(idle) |-> Older(idle[i])]
    BY DEF Tick
  <1>5. idle' \in [1 .. Len(idle) -> Entries]
    BY <1>2, <1>3, <1>4
  <1>6. idle' \in Seq(Entries) /\ Len(idle') = Len(idle)
    BY <1>1, <1>5
  <1>7. QED
    BY <1>2, <1>3, <1>4, <1>6

-----------------------------------------------------------------------------
(***************************************************************************)
(* The counter                                                             *)
(***************************************************************************)

\* TypeOK alone is not inductive: that in_use stays a natural number when it
\* is decremented rests on what it counts.
CountInv == TypeOK /\ Accounting

LEMMA CountInit == Init => CountInv
  <1> SUFFICES ASSUME Init PROVE CountInv
    OBVIOUS
  <1>1. TypeOK
    BY PoolAssumption DEF Init, TypeOK, PCs, PoolAssumption
  <1>2. Reservers = {}
    BY DEF Init, Reservers, Reserving
  <1>3. QED
    BY <1>1, <1>2, FS_EmptySet DEF CountInv, Accounting, Init

LEMMA CountStep == CountInv /\ [Next]_poolVars => CountInv'
  <1> SUFFICES ASSUME CountInv, [Next]_poolVars
               PROVE  CountInv'
    OBVIOUS
  <1> USE DEF CountInv
  <1>0. /\ TypeOK /\ in_use = Cardinality(Reservers) /\ in_use \in Nat
        /\ NoConn \notin Conns
    BY PoolAssumption DEF Accounting, TypeOK, PoolAssumption
  <1>1. ASSUME NEW t \in Threads, Call(t) PROVE CountInv'
    <2>1. Reservers' = Reservers
      BY <1>0, <1>1, ReserverStays DEF Call, Reserving
    <2>2. TypeOK'
      BY <1>0, <1>1 DEF Call, TypeOK, PCs
    <2>3. QED
      BY <1>0, <1>1, <2>1, <2>2 DEF Call, Accounting
  <1>2. ASSUME NEW t \in Threads, ReuseIdle(t) PROVE CountInv'
    <2>1. PICK k \in 1 .. Len(idle) :
             /\ FirstFresh(k)
             /\ open' = open \ Swept(k)
             /\ conn' = [conn EXCEPT ![t] = idle[k].conn]
             /\ idle' = SubSeq(idle, k + 1, Len(idle))
      BY <1>2 DEF ReuseIdle
    <2>2. idle' \in Seq(Entries)
      BY <1>0, <2>1, QueueAfterReuse
    <2>3. idle[k] \in Entries
      BY <1>0, <2>1, ElementOfSeq DEF TypeOK
    <2>4. idle[k].conn \in Conns
      BY <2>3 DEF Entries
    <2>5. pc[t] = "acquiring" /\ t \notin parked
      BY <1>2 DEF ReuseIdle, Contenders
    <2>6. Cardinality(Reservers') = Cardinality(Reservers) + 1
      BY <1>0, <1>2, <2>5, ReserverEnters DEF ReuseIdle, Reserving
    <2>7. TypeOK'
      BY <1>0, <1>2, <2>1, <2>2, <2>4, <2>5 DEF ReuseIdle, TypeOK, PCs
    <2>8. QED
      BY <1>0, <1>2, <2>6, <2>7 DEF ReuseIdle, Accounting
  <1>3. ASSUME NEW t \in Threads, Reserve(t) PROVE CountInv'
    <2>1. pc[t] = "acquiring" /\ t \notin parked
      BY <1>3 DEF Reserve, Contenders
    <2>2. Cardinality(Reservers') = Cardinality(Reservers) + 1
      BY <1>0, <1>3, <2>1, ReserverEnters DEF Reserve, Reserving
    <2>3. TypeOK'
      BY <1>0, <1>3, <2>1 DEF Reserve, TypeOK, PCs
    <2>4. QED
      BY <1>0, <1>3, <2>2, <2>3 DEF Reserve, Accounting
  <1>4. ASSUME NEW t \in Threads, Wait(t) PROVE CountInv'
    <2>1. pc[t] = "acquiring" /\ t \notin parked
      BY <1>4 DEF Wait, Contenders
    <2>2. TypeOK'
      BY <1>0, <1>4, <2>1 DEF Wait, TypeOK
    <2>3. QED
      BY <1>0, <1>4, <2>2 DEF Wait, Accounting, Reservers
  <1>5. ASSUME NEW t \in Threads, SpuriousWake(t) PROVE CountInv'
    BY <1>0, <1>5 DEF SpuriousWake, TypeOK, Accounting, Reservers
  <1>6. ASSUME NEW t \in Threads, TcpConnect(t) PROVE CountInv'
    <2>1. Reservers' = Reservers
      BY <1>0, <1>6, ReserverStays DEF TcpConnect, Reserving
    <2>2. TypeOK'
      BY <1>0, <1>6 DEF TcpConnect, TypeOK, PCs
    <2>3. QED
      BY <1>0, <1>6, <2>1, <2>2 DEF TcpConnect, Accounting
  <1>7. ASSUME NEW t \in Threads, TcpFail(t) \/ HelloOk(t) \/ HelloFail(t) \/ Discard(t)
        PROVE  CountInv'
    <2>1. Reservers' = Reservers
      BY <1>0, <1>7, ReserverStays DEF TcpFail, HelloOk, HelloFail, Discard, Reserving
    <2>2. TypeOK'
      BY <1>0, <1>7 DEF TcpFail, HelloOk, HelloFail, Discard, TypeOK, PCs
    <2>3. QED
      BY <1>0, <1>7, <2>1, <2>2 DEF TcpFail, HelloOk, HelloFail, Discard, Accounting
  <1>8. ASSUME NEW t \in Threads, Rollback(t) \/ DropDiscarded(t)
        PROVE  CountInv'
    <2>1. /\ Cardinality(Reservers') = Cardinality(Reservers) - 1
          /\ Cardinality(Reservers) # 0
      BY <1>0, <1>8, ReserverLeaves DEF Rollback, DropDiscarded, Reserving
    <2>2. parked' \in SUBSET parked
      BY <1>8 DEF Rollback, DropDiscarded, NotifyOne
    <2>3. in_use' = in_use - 1 /\ in_use' \in Nat
      BY <1>0, <1>8, <2>1 DEF Rollback, DropDiscarded
    <2>4. TypeOK'
      BY <1>0, <1>8, <2>2, <2>3 DEF Rollback, DropDiscarded, TypeOK, PCs
    <2>5. QED
      BY <1>0, <2>1, <2>3, <2>4 DEF Accounting
  <1>9. ASSUME NEW t \in Threads, DropReturn(t) PROVE CountInv'
    <2>1. /\ Cardinality(Reservers') = Cardinality(Reservers) - 1
          /\ Cardinality(Reservers) # 0
      BY <1>0, <1>9, ReserverLeaves DEF DropReturn, Reserving
    <2>2. parked' \in SUBSET parked
      BY <1>9 DEF DropReturn, NotifyOne
    <2>3. in_use' = in_use - 1 /\ in_use' \in Nat
      BY <1>0, <1>9, <2>1 DEF DropReturn
    <2>4. conn[t] \in Conns
      BY <1>0, <1>9 DEF DropReturn, TypeOK
    <2>5. idle' \in Seq(Entries)
      BY <1>0, <1>9, <2>4, QueueAfterReturn DEF DropReturn, TypeOK
    <2>6. TypeOK'
      BY <1>0, <1>9, <2>2, <2>3, <2>5 DEF DropReturn, TypeOK, PCs
    <2>7. QED
      BY <1>0, <2>1, <2>3, <2>6 DEF Accounting
  <1>10. ASSUME Tick PROVE CountInv'
    <2>1. idle' \in Seq(Entries)
      BY <1>0, <1>10, QueueAfterTick
    <2>2. QED
      BY <1>0, <1>10, <2>1 DEF Tick, TypeOK, Accounting, Reservers
  <1>11. CASE UNCHANGED poolVars
    BY <1>0, <1>11 DEF poolVars, TypeOK, Accounting, Reservers
  <1>12. QED
    BY <1>1, <1>2, <1>3, <1>4, <1>5, <1>6, <1>7, <1>8, <1>9, <1>10, <1>11
       DEF Next, Step

\* The counter is exact in every reachable state: every reservation is given
\* back exactly once, on every path out of acquire and out of a borrow.
THEOREM CountIsExact == Spec => []Accounting
  <1>1. Spec => []CountInv
    BY CountInit, CountStep, PTL DEF Spec
  <1>2. CountInv => Accounting
    BY DEF CountInv
  <1>3. QED
    BY <1>1, <1>2, PTL

\* The state is well typed: in particular in_use never goes below zero, where
\* the usize of the code would panic or wrap.
THEOREM TypeCorrect == Spec => []TypeOK
  <1>1. Spec => []CountInv
    BY CountInit, CountStep, PTL DEF Spec
  <1>2. CountInv => TypeOK
    BY DEF CountInv
  <1>3. QED
    BY <1>1, <1>2, PTL

-----------------------------------------------------------------------------
(***************************************************************************)
(* The cap                                                                 *)
(***************************************************************************)

\* The code compares in_use alone with max_total.  The bound on in-flight and
\* idle connections together follows because a reservation is taken only with
\* an empty queue and every other step trades one for the other.
CapInv == CountInv /\ TotalCap

LEMMA CapInit == Init => CapInv
  <1> SUFFICES ASSUME Init PROVE CapInv
    OBVIOUS
  <1>1. in_use = 0 /\ Len(idle) = 0
    BY EmptySeq DEF Init
  <1>2. QED
    BY <1>1, CountInit, PoolAssumption DEF CapInv, TotalCap, PoolAssumption

LEMMA CapStep == CapInv /\ [Next]_poolVars => CapInv'
  <1> SUFFICES ASSUME CapInv, [Next]_poolVars
               PROVE  TotalCap'
    BY CountStep DEF CapInv
  <1>0. /\ CountInv /\ TypeOK /\ in_use + Len(idle) <= MaxTotal
        /\ in_use \in Nat /\ Len(idle) \in Nat /\ MaxTotal \in Nat
    BY PoolAssumption, LenProperties
    DEF CapInv, CountInv, TotalCap, TypeOK, PoolAssumption
  <1>1. ASSUME NEW t \in Threads, ReuseIdle(t) PROVE TotalCap'
    <2>1. PICK k \in 1 .. Len(idle) : idle' = SubSeq(idle, k + 1, Len(idle))
      BY <1>1 DEF ReuseIdle
    <2>2. Len(idle') = Len(idle) - k
      BY <1>0, <2>1, QueueAfterReuse
    <2>3. in_use' = in_use + 1 /\ k \in Nat /\ k >= 1
      BY <1>0, <1>1, <2>1 DEF ReuseIdle
    <2>4. QED
      BY <1>0, <2>2, <2>3 DEF TotalCap
  <1>2. ASSUME NEW t \in Threads, Reserve(t) PROVE TotalCap'
    <2>1. Len(idle') = 0 /\ in_use' = in_use + 1 /\ in_use < MaxTotal
      BY <1>2, EmptySeq DEF Reserve
    <2>2. QED
      BY <1>0, <2>1 DEF TotalCap
  <1>3. ASSUME NEW t \in Threads, Wait(t) PROVE TotalCap'
    <2>1. Len(idle') = 0 /\ in_use' = in_use
      BY <1>3, EmptySeq DEF Wait
    <2>2. QED
      BY <1>0, <2>1 DEF TotalCap
  <1>4. ASSUME NEW t \in Threads,
               \/ Call(t) \/ SpuriousWake(t) \/ TcpConnect(t) \/ TcpFail(t)
               \/ HelloOk(t) \/ HelloFail(t) \/ Discard(t)
        PROVE TotalCap'
    BY <1>0, <1>4
    DEF Call, SpuriousWake, TcpConnect, TcpFail, HelloOk, HelloFail, Discard, TotalCap
  <1>5. ASSUME NEW t \in Threads, Rollback(t) \/ DropDiscarded(t)
        PROVE TotalCap'
    <2>1. in_use' = in_use - 1 /\ idle' = idle
      BY <1>5 DEF Rollback, DropDiscarded
    <2>2. QED
      BY <1>0, <2>1 DEF TotalCap
  <1>6. ASSUME NEW t \in Threads, DropReturn(t) PROVE TotalCap'
    <2>1. in_use' = in_use - 1 /\ conn[t] \in Conns
      BY <1>0, <1>6 DEF DropReturn, TypeOK
    <2>2. CASE idle' = idle
      BY <1>0, <2>1, <2>2 DEF TotalCap
    <2>3. CASE idle' = Append(idle, [conn |-> conn[t], age |-> 0])
      <3>1. Len(idle') = Len(idle) + 1
        BY <1>0, <2>1, <2>3, QueueAfterReturn
      <3>2. QED
        BY <1>0, <2>1, <3>1 DEF TotalCap
    <2>4. QED
      BY <1>6, <2>2, <2>3 DEF DropReturn
  <1>7. ASSUME Tick PROVE TotalCap'
    <2>1. Len(idle') = Len(idle) /\ in_use' = in_use
      BY <1>0, <1>7, QueueAfterTick DEF Tick
    <2>2. QED
      BY <1>0, <2>1 DEF TotalCap
  <1>8. CASE UNCHANGED poolVars
    BY <1>0, <1>8 DEF poolVars, TotalCap
  <1>9. QED
    BY <1>1, <1>2, <1>3, <1>4, <1>5, <1>6, <1>7, <1>8 DEF CapInv, Next, Step

\* pool.rs:50: in-flight and idle connections together never exceed max_total.
THEOREM TotalCapHolds == Spec => []TotalCap
  <1>1. Spec => []CapInv
    BY CapInit, CapStep, PTL DEF Spec
  <1>2. CapInv => TotalCap
    BY DEF CapInv
  <1>3. QED
    BY <1>1, <1>2, PTL

-----------------------------------------------------------------------------
(***************************************************************************)
(* The order of the queue and the sweep                                    *)
(***************************************************************************)

OrderInv == CountInv /\ IdleOrdered

\* Ages of queued entries are numbers up to IdleTimeout.
LEMMA IdleAges ==
    ASSUME TypeOK, NEW i \in 1 .. Len(idle)
    PROVE  idle[i].age \in Nat /\ idle[i].age <= IdleTimeout /\ idle[i].conn \in Conns
  <1>1. idle[i] \in Entries
    BY ElementOfSeq DEF TypeOK
  <1>2. QED
    BY <1>1, PoolAssumption DEF Entries, PoolAssumption

LEMMA OrderStep == OrderInv /\ [Next]_poolVars => OrderInv'
  <1> SUFFICES ASSUME OrderInv, [Next]_poolVars
               PROVE  IdleOrdered'
    BY CountStep DEF OrderInv
  <1>0. /\ CountInv /\ TypeOK /\ Len(idle) \in Nat /\ IdleTimeout \in Nat
        /\ \A i, j \in 1 .. Len(idle) : i <= j => idle[i].age >= idle[j].age
    BY PoolAssumption, LenProperties
    DEF OrderInv, CountInv, IdleOrdered, TypeOK, PoolAssumption
  <1>1. ASSUME NEW t \in Threads, ReuseIdle(t) PROVE IdleOrdered'
    <2>1. PICK k \in 1 .. Len(idle) : idle' = SubSeq(idle, k + 1, Len(idle))
      BY <1>1 DEF ReuseIdle
    <2>2. \A i \in 1 .. Len(idle') :
             i + k \in 1 .. Len(idle) /\ idle'[i] = idle[i + k]
      BY <1>0, <2>1, QueueAfterReuse
    <2>3. k \in Nat /\ Len(idle') \in Nat
      BY <1>0, <2>1, QueueAfterReuse
    <2>4. ASSUME NEW i \in 1 .. Len(idle'), NEW j \in 1 .. Len(idle'), i <= j
          PROVE idle'[i].age >= idle'[j].age
      <3>1. i + k <= j + k
        BY <2>3, <2>4
      <3>2. QED
        BY <1>0, <2>2, <3>1
    <2>5. QED
      BY <2>4 DEF IdleOrdered
  <1>2. ASSUME NEW t \in Threads, Reserve(t) \/ Wait(t) PROVE IdleOrdered'
    BY <1>2, EmptySeq DEF Reserve, Wait, IdleOrdered
  <1>3. ASSUME NEW t \in Threads, DropReturn(t) PROVE IdleOrdered'
    <2>1. conn[t] \in Conns
      BY <1>0, <1>3 DEF DropReturn, TypeOK
    <2>2. CASE idle' = idle
      BY <1>0, <2>2 DEF IdleOrdered
    <2>3. CASE idle' = Append(idle, [conn |-> conn[t], age |-> 0])
      <3>1. /\ Len(idle') = Len(idle) + 1
            /\ \A i \in 1 .. Len(idle) : idle'[i] = idle[i]
            /\ idle'[Len(idle) + 1] = [conn |-> conn[t], age |-> 0]
        BY <1>0, <2>1, <2>3, QueueAfterReturn
      <3>2. ASSUME NEW i \in 1 .. Len(idle'), NEW j \in 1 .. Len(idle'), i <= j
            PROVE idle'[i].age >= idle'[j].age
        <4>1. CASE j <= Len(idle)
          <5>1. i \in 1 .. Len(idle) /\ j \in 1 .. Len(idle)
            BY <1>0, <3>1, <3>2, <4>1
          <5>2. QED
            BY <1>0, <3>1, <3>2, <5>1
        <4>2. CASE j = Len(idle) + 1
          <5>1. idle'[j].age = 0
            BY <3>1, <4>2
          <5>2. CASE i = Len(idle) + 1
            BY <3>1, <4>2, <5>2
          <5>3. CASE i \in 1 .. Len(idle)
            <6>1. idle'[i].age \in Nat
              BY <1>0, <3>1, <5>3, IdleAges
            <6>2. QED
              BY <5>1, <6>1
          <5>4. QED
            BY <1>0, <3>1, <3>2, <5>2, <5>3
        <4>3. QED
          BY <1>0, <3>1, <3>2, <4>1, <4>2
      <3>3. QED
        BY <3>2 DEF IdleOrdered
    <2>4. QED
      BY <1>3, <2>2, <2>3 DEF DropReturn
  <1>4. ASSUME Tick PROVE IdleOrdered'
    <2>1. /\ Len(idle') = Len(idle)
          /\ \A i \in 1 .. Len(idle) :
               idle'[i].age = IF idle[i].age < IdleTimeout
                              THEN idle[i].age + 1 ELSE idle[i].age
      BY <1>0, <1>4, QueueAfterTick
    <2>2. ASSUME NEW i \in 1 .. Len(idle'), NEW j \in 1 .. Len(idle'), i <= j
          PROVE idle'[i].age >= idle'[j].age
      <3>1. /\ idle[i].age \in Nat /\ idle[i].age <= IdleTimeout
            /\ idle[j].age \in Nat /\ idle[j].age <= IdleTimeout
        BY <1>0, <2>1, <2>2, IdleAges
      <3>2. idle[i].age >= idle[j].age
        BY <1>0, <2>1, <2>2
      <3>3. QED
        BY <1>0, <2>1, <3>1, <3>2
    <2>3. QED
      BY <2>2 DEF IdleOrdered
  <1>5. ASSUME idle' = idle PROVE IdleOrdered'
    BY <1>0, <1>5 DEF IdleOrdered
  <1>6. QED
    BY <1>1, <1>2, <1>3, <1>4, <1>5
    DEF Next, Step, poolVars, Call, SpuriousWake, TcpConnect, TcpFail, HelloOk,
        HelloFail, Rollback, Discard, DropDiscarded

LEMMA OrderInvariant == Spec => []OrderInv
  <1>1. Init => IdleOrdered
    BY EmptySeq DEF Init, IdleOrdered
  <1>2. Init => OrderInv
    BY <1>1, CountInit DEF OrderInv
  <1>3. QED
    BY <1>2, OrderStep, PTL DEF Spec

\* The queue stays sorted by idle time through returns, reuse and the sweep.
THEOREM QueueSorted == Spec => []IdleOrdered
  <1>1. OrderInv => IdleOrdered
    BY DEF OrderInv
  <1>2. QED
    BY <1>1, OrderInvariant, PTL

\* Because the queue is sorted, a sweep that stops at the first entry that has
\* not expired leaves no expired entry behind.
THEOREM SweepIsComplete == Spec => SweepComplete
  <1> DEFINE Clean == \A t \in Threads :
               ReuseIdle(t) \/ Reserve(t) \/ Wait(t)
                 => \A i \in 1 .. Len(idle') : ~ Expired(idle'[i])
  <1>1. OrderInv /\ [Next]_poolVars => [Clean]_poolVars
    <2> SUFFICES ASSUME OrderInv, NEW t \in Threads,
                        ReuseIdle(t) \/ Reserve(t) \/ Wait(t),
                        NEW i \in 1 .. Len(idle')
                 PROVE  ~ Expired(idle'[i])
      OBVIOUS
    <2>0. /\ TypeOK /\ Len(idle) \in Nat /\ IdleTimeout \in Nat
          /\ \A m, n \in 1 .. Len(idle) : m <= n => idle[m].age >= idle[n].age
      BY PoolAssumption, LenProperties
      DEF OrderInv, CountInv, IdleOrdered, TypeOK, PoolAssumption
    <2>1. CASE ReuseIdle(t)
      <3>1. PICK k \in 1 .. Len(idle) :
               FirstFresh(k) /\ idle' = SubSeq(idle, k + 1, Len(idle))
        BY <2>1 DEF ReuseIdle
      <3>2. i + k \in 1 .. Len(idle) /\ idle'[i] = idle[i + k]
        BY <2>0, <3>1, QueueAfterReuse
      <3>3. k <= i + k
        BY <2>0, <3>1, QueueAfterReuse
      <3>4. idle[k].age < IdleTimeout
        BY <2>0, <3>1, IdleAges DEF FirstFresh, Expired
      <3>5. idle[i + k].age <= idle[k].age
        BY <2>0, <3>1, <3>2, <3>3
      <3>6. idle[i + k].age \in Nat /\ idle[k].age \in Nat
        BY <2>0, <3>1, <3>2, IdleAges
      <3>7. QED
        BY <2>0, <3>2, <3>4, <3>5, <3>6 DEF Expired
    <2>2. CASE Reserve(t) \/ Wait(t)
      BY <2>2, EmptySeq DEF Reserve, Wait
    <2>3. QED
      BY <2>1, <2>2
  <1>2. QED
    BY <1>1, OrderInvariant, PTL DEF Spec, SweepComplete

-----------------------------------------------------------------------------
(***************************************************************************)
(* Ownership of connections                                                *)
(***************************************************************************)

\* Exclusive is inductive only together with NoSocketLeak: that a new socket
\* is nobody's needs the open sockets to be all those held and queued.
OwnInv == CountInv /\ Exclusive /\ NoSocketLeak

\* The same in the form the proofs use.
LEMMA OwnFacts ==
    ASSUME OwnInv
    PROVE  /\ CountInv /\ TypeOK /\ Len(idle) \in Nat /\ NoConn \notin Conns
           /\ conn \in [Threads -> Conns \cup {NoConn}]
           /\ \A t, u \in Threads : t # u /\ conn[t] = conn[u] => conn[t] = NoConn
           /\ \A t \in Threads, i \in 1 .. Len(idle) : conn[t] # idle[i].conn
           /\ \A i, j \in 1 .. Len(idle) : idle[i].conn = idle[j].conn => i = j
           /\ \A i \in 1 .. Len(idle) : idle[i].conn \in Conns
           /\ \A c : c \in open <=> \/ \E t \in Threads : c = conn[t] /\ c # NoConn
                                    \/ \E i \in 1 .. Len(idle) : c = idle[i].conn
  <1>1. CountInv /\ TypeOK /\ Len(idle) \in Nat /\ NoConn \notin Conns
    BY PoolAssumption, LenProperties DEF OwnInv, CountInv, TypeOK, PoolAssumption
  <1>2. \A i \in 1 .. Len(idle) : idle[i].conn \in Conns
    BY <1>1, IdleAges
  <1>3. \A t \in Threads, i \in 1 .. Len(idle) : conn[t] # idle[i].conn
    BY <1>1, <1>2 DEF OwnInv, Exclusive, HeldConns, IdleConns
  <1>4. \A c : c \in open <=> \/ \E t \in Threads : c = conn[t] /\ c # NoConn
                              \/ \E i \in 1 .. Len(idle) : c = idle[i].conn
    BY DEF OwnInv, NoSocketLeak, HeldConns, IdleConns
  <1>5. QED
    BY <1>1, <1>2, <1>3, <1>4 DEF OwnInv, Exclusive, TypeOK

\* Conversely, those facts about the next state establish the invariant there.
LEMMA OwnIntro ==
    ASSUME CountInv',
           \A t, u \in Threads : t # u /\ conn'[t] = conn'[u] => conn'[t] = NoConn,
           \A t \in Threads, i \in 1 .. Len(idle') : conn'[t] # idle'[i].conn,
           \A i, j \in 1 .. Len(idle') : idle'[i].conn = idle'[j].conn => i = j,
           \A c : c \in open' <=> \/ \E t \in Threads : c = conn'[t] /\ c # NoConn
                                  \/ \E i \in 1 .. Len(idle') : c = idle'[i].conn
    PROVE  OwnInv'
  <1>1. Exclusive'
    BY DEF Exclusive, HeldConns, IdleConns
  <1>2. NoSocketLeak'
    BY DEF NoSocketLeak, HeldConns, IdleConns
  <1>3. QED
    BY <1>1, <1>2 DEF OwnInv

LEMMA OwnInit == Init => OwnInv
  <1> SUFFICES ASSUME Init PROVE OwnInv
    OBVIOUS
  <1>1. Len(idle) = 0 /\ \A t \in Threads : conn[t] = NoConn
    BY EmptySeq DEF Init
  <1>2. Exclusive
    BY <1>1 DEF Init, Exclusive, HeldConns, IdleConns
  <1>3. NoSocketLeak
    BY <1>1 DEF Init, NoSocketLeak, HeldConns, IdleConns
  <1>4. QED
    BY <1>2, <1>3, CountInit DEF OwnInv

LEMMA OwnStep == OwnInv /\ [Next]_poolVars => OwnInv'
  <1> SUFFICES ASSUME OwnInv, [Next]_poolVars
               PROVE  OwnInv'
    OBVIOUS
  <1>0. CountInv'
    BY CountStep DEF OwnInv
  <1>00. /\ CountInv /\ TypeOK /\ Len(idle) \in Nat /\ NoConn \notin Conns
         /\ conn \in [Threads -> Conns \cup {NoConn}]
         /\ \A t, u \in Threads : t # u /\ conn[t] = conn[u] => conn[t] = NoConn
         /\ \A t \in Threads, i \in 1 .. Len(idle) : conn[t] # idle[i].conn
         /\ \A i, j \in 1 .. Len(idle) : idle[i].conn = idle[j].conn => i = j
         /\ \A i \in 1 .. Len(idle) : idle[i].conn \in Conns
         /\ \A c : c \in open <=> \/ \E t \in Threads : c = conn[t] /\ c # NoConn
                                  \/ \E i \in 1 .. Len(idle) : c = idle[i].conn
    BY OwnFacts
  <1>1. ASSUME NEW t \in Threads, ReuseIdle(t) PROVE OwnInv'
    <2>1. PICK k \in 1 .. Len(idle) :
             /\ open' = open \ Swept(k)
             /\ conn' = [conn EXCEPT ![t] = idle[k].conn]
             /\ idle' = SubSeq(idle, k + 1, Len(idle))
      BY <1>1 DEF ReuseIdle
    <2>2. /\ Len(idle') = Len(idle) - k
          /\ \A i \in 1 .. Len(idle') :
               i + k \in 1 .. Len(idle) /\ idle'[i] = idle[i + k]
      BY <1>00, <2>1, QueueAfterReuse
    <2>3. conn[t] = NoConn
      BY <1>00, <1>1 DEF ReuseIdle, Contenders, TypeOK
    <2>4. /\ conn'[t] = idle[k].conn
          /\ \A u \in Threads : u # t => conn'[u] = conn[u]
      BY <1>00, <2>1
    <2>5. \A u, v \in Threads : u # v /\ conn'[u] = conn'[v] => conn'[u] = NoConn
      BY <1>00, <2>4
    <2>6. \A u \in Threads, i \in 1 .. Len(idle') : conn'[u] # idle'[i].conn
      <3> SUFFICES ASSUME NEW u \in Threads, NEW i \in 1 .. Len(idle')
                   PROVE  conn'[u] # idle'[i].conn
        OBVIOUS
      <3>1. i + k # k /\ i + k \in 1 .. Len(idle)
        BY <1>00, <2>2
      <3>2. QED
        BY <1>00, <2>2, <2>4, <3>1
    <2>7. \A i, j \in 1 .. Len(idle') : idle'[i].conn = idle'[j].conn => i = j
      <3> SUFFICES ASSUME NEW i \in 1 .. Len(idle'), NEW j \in 1 .. Len(idle'),
                          idle'[i].conn = idle'[j].conn
                   PROVE  i = j
        OBVIOUS
      <3>1. i + k = j + k
        BY <1>00, <2>2
      <3>2. QED
        BY <3>1, <1>00, <2>2
    <2>8. \A c : c \in open' <=> \/ \E u \in Threads : c = conn'[u] /\ c # NoConn
                                 \/ \E i \in 1 .. Len(idle') : c = idle'[i].conn
      <3> SUFFICES ASSUME NEW c
                   PROVE  c \in open' <=>
                            \/ \E u \in Threads : c = conn'[u] /\ c # NoConn
                            \/ \E i \in 1 .. Len(idle') : c = idle'[i].conn
        OBVIOUS
      <3>1. ASSUME NEW u \in Threads, c = conn'[u], c # NoConn PROVE c \in open'
        <4>1. CASE u = t
          <5>1. c \in open
            BY <1>00, <2>4, <3>1, <4>1
          <5>2. c \notin Swept(k)
            BY <1>00, <2>4, <3>1, <4>1 DEF Swept
          <5>3. QED
            BY <2>1, <5>1, <5>2
        <4>2. CASE u # t
          <5>1. c = conn[u] /\ c \in open
            BY <1>00, <2>4, <3>1, <4>2
          <5>2. c \notin Swept(k)
            BY <1>00, <5>1 DEF Swept
          <5>3. QED
            BY <2>1, <5>1, <5>2
        <4>3. QED
          BY <4>1, <4>2
      <3>2. ASSUME NEW i \in 1 .. Len(idle'), c = idle'[i].conn PROVE c \in open'
        <4>1. c = idle[i + k].conn /\ i + k \in 1 .. Len(idle) /\ i + k > k
          BY <1>00, <2>2, <3>2
        <4>2. c \in open
          BY <1>00, <4>1
        <4>3. c \notin Swept(k)
          BY <1>00, <4>1 DEF Swept
        <4>4. QED
          BY <2>1, <4>2, <4>3
      <3>3. ASSUME c \in open'
            PROVE  \/ \E u \in Threads : c = conn'[u] /\ c # NoConn
                   \/ \E i \in 1 .. Len(idle') : c = idle'[i].conn
        <4>1. c \in open /\ c \notin Swept(k)
          BY <2>1, <3>3
        <4>2. CASE \E u \in Threads : c = conn[u] /\ c # NoConn
          BY <2>3, <2>4, <4>2
        <4>3. ASSUME NEW i \in 1 .. Len(idle), c = idle[i].conn
              PROVE  \/ \E u \in Threads : c = conn'[u] /\ c # NoConn
                     \/ \E j \in 1 .. Len(idle') : c = idle'[j].conn
          <5>1. ~ (i < k)
            BY <1>00, <4>1, <4>3 DEF Swept
          <5>2. CASE i = k
            BY <1>00, <2>4, <4>3, <5>2
          <5>3. CASE i > k
            <6>1. i - k \in 1 .. Len(idle')
              BY <1>00, <2>2, <5>3
            <6>2. (i - k) + k = i
              BY <1>00
            <6>3. idle'[i - k] = idle[i]
              BY <2>2, <6>1, <6>2
            <6>4. QED
              BY <4>3, <6>1, <6>3
          <5>4. QED
            BY <1>00, <5>1, <5>2, <5>3
        <4>4. QED
          BY <1>00, <4>1, <4>2, <4>3
      <3>4. QED
        BY <3>1, <3>2, <3>3
    <2>9. QED
      BY <1>0, <2>5, <2>6, <2>7, <2>8, OwnIntro
  <1>2. ASSUME NEW t \in Threads, Reserve(t) \/ Wait(t) PROVE OwnInv'
    <2>1. conn' = conn /\ Len(idle') = 0 /\ open' = open \ IdleConns
      BY <1>2, EmptySeq DEF Reserve, Wait
    <2>2. \A c : c \in open' <=> \E u \in Threads : c = conn[u] /\ c # NoConn
      BY <1>00, <2>1 DEF IdleConns
    <2>3. QED
      BY <1>0, <1>00, <2>1, <2>2, OwnIntro
  <1>3. ASSUME NEW t \in Threads, TcpConnect(t) PROVE OwnInv'
    <2>1. PICK c \in Conns \ open :
             open' = open \cup {c} /\ conn' = [conn EXCEPT ![t] = c]
      BY <1>3 DEF TcpConnect
    <2>2. idle' = idle /\ conn[t] = NoConn
      BY <1>00, <1>3 DEF TcpConnect, TypeOK
    <2>3. conn'[t] = c /\ \A u \in Threads : u # t => conn'[u] = conn[u]
      BY <1>00, <2>1
    <2>4. \A u \in Threads : conn[u] # c
      BY <1>00, <2>1
    <2>5. \A i \in 1 .. Len(idle) : idle[i].conn # c
      BY <1>00, <2>1
    <2>6. \A d : d \in open' <=> \/ \E u \in Threads : d = conn'[u] /\ d # NoConn
                                 \/ \E i \in 1 .. Len(idle) : d = idle[i].conn
      BY <1>00, <2>1, <2>2, <2>3
    <2>7. \A u, v \in Threads : u # v /\ conn'[u] = conn'[v] => conn'[u] = NoConn
      BY <1>00, <2>3, <2>4
    <2>8. QED
      BY <1>0, <1>00, <2>2, <2>3, <2>5, <2>6, <2>7, OwnIntro
  <1>4. ASSUME NEW t \in Threads, conn[t] \in Conns, idle' = idle,
               open' = open \ {conn[t]}, conn' = [conn EXCEPT ![t] = NoConn]
        PROVE OwnInv'
    <2>1. conn'[t] = NoConn /\ \A u \in Threads : u # t => conn'[u] = conn[u]
      BY <1>00, <1>4
    <2>2. \A u, v \in Threads : u # v /\ conn'[u] = conn'[v] => conn'[u] = NoConn
      BY <1>00, <2>1
    <2>3. \A u \in Threads, i \in 1 .. Len(idle) : conn'[u] # idle[i].conn
      BY <1>00, <2>1
    <2>4. \A d : d \in open' <=> \/ \E u \in Threads : d = conn'[u] /\ d # NoConn
                                 \/ \E i \in 1 .. Len(idle) : d = idle[i].conn
      BY <1>00, <1>4, <2>1
    <2>5. QED
      BY <1>0, <1>00, <1>4, <2>2, <2>3, <2>4, OwnIntro
  <1>5. ASSUME NEW t \in Threads, HelloFail(t) \/ Discard(t) PROVE OwnInv'
    <2>1. conn[t] \in Conns
      BY <1>00, <1>5 DEF HelloFail, Discard, TypeOK
    <2>2. QED
      BY <1>4, <1>5, <2>1 DEF HelloFail, Discard
  <1>6. ASSUME NEW t \in Threads, DropReturn(t) PROVE OwnInv'
    <2>1. conn[t] \in Conns /\ conn' = [conn EXCEPT ![t] = NoConn]
      BY <1>00, <1>6 DEF DropReturn, TypeOK
    <2>2. CASE idle' = idle /\ open' = open \ {conn[t]}
      BY <1>4, <2>1, <2>2
    <2>3. CASE /\ idle' = Append(idle, [conn |-> conn[t], age |-> 0])
               /\ open' = open
      <3>1. /\ Len(idle') = Len(idle) + 1
            /\ \A i \in 1 .. Len(idle) : idle'[i] = idle[i]
            /\ idle'[Len(idle) + 1] = [conn |-> conn[t], age |-> 0]
        BY <1>00, <2>1, <2>3, QueueAfterReturn
      <3>2. conn'[t] = NoConn /\ \A u \in Threads : u # t => conn'[u] = conn[u]
        BY <1>00, <2>1
      <3>3. \A i \in 1 .. Len(idle') : \/ i \in 1 .. Len(idle)
                                       \/ i = Len(idle) + 1
        BY <1>00, <3>1
      <3>4. idle'[Len(idle) + 1].conn = conn[t]
        BY <3>1
      <3>5. \A u, v \in Threads : u # v /\ conn'[u] = conn'[v] => conn'[u] = NoConn
        BY <1>00, <3>2
      <3>6. \A u \in Threads, i \in 1 .. Len(idle') : conn'[u] # idle'[i].conn
        <4> SUFFICES ASSUME NEW u \in Threads, NEW i \in 1 .. Len(idle')
                     PROVE  conn'[u] # idle'[i].conn
          OBVIOUS
        <4>1. CASE i \in 1 .. Len(idle)
          BY <1>00, <3>1, <3>2, <4>1
        <4>2. CASE i = Len(idle) + 1
          BY <1>00, <2>1, <3>2, <3>4, <4>2
        <4>3. QED
          BY <3>3, <4>1, <4>2
      <3>7. \A i, j \in 1 .. Len(idle') : idle'[i].conn = idle'[j].conn => i = j
        BY <1>00, <3>1, <3>3, <3>4
      <3>8. \A d : d \in open' <=> \/ \E u \in Threads : d = conn'[u] /\ d # NoConn
                                   \/ \E i \in 1 .. Len(idle') : d = idle'[i].conn
        <4> SUFFICES ASSUME NEW d
                     PROVE  d \in open' <=>
                              \/ \E u \in Threads : d = conn'[u] /\ d # NoConn
                              \/ \E i \in 1 .. Len(idle') : d = idle'[i].conn
          OBVIOUS
        <4>1. (\E i \in 1 .. Len(idle') : d = idle'[i].conn) <=>
                 (d = conn[t] \/ \E i \in 1 .. Len(idle) : d = idle[i].conn)
          <5>1. Len(idle) + 1 \in 1 .. Len(idle')
            BY <1>00, <3>1
          <5>2. \A i \in 1 .. Len(idle) : i \in 1 .. Len(idle')
            BY <1>00, <3>1
          <5>3. QED
            BY <3>1, <3>3, <3>4, <5>1, <5>2
        <4>2. (\E u \in Threads : d = conn[u] /\ d # NoConn) <=>
                 (d = conn[t] \/ \E u \in Threads : d = conn'[u] /\ d # NoConn)
          BY <1>00, <2>1, <3>2
        <4>3. QED
          BY <1>00, <2>3, <4>1, <4>2
      <3>9. QED
        BY <1>0, <3>5, <3>6, <3>7, <3>8, OwnIntro
    <2>4. QED
      BY <1>6, <2>2, <2>3 DEF DropReturn
  <1>7. ASSUME Tick PROVE OwnInv'
    <2>1. /\ Len(idle') = Len(idle)
          /\ \A i \in 1 .. Len(idle) : idle'[i].conn = idle[i].conn
      BY <1>00, <1>7, QueueAfterTick
    <2>2. conn' = conn /\ open' = open
      BY <1>7 DEF Tick
    <2>3. QED
      BY <1>0, <1>00, <2>1, <2>2, OwnIntro
  <1>8. ASSUME conn' = conn, idle' = idle, open' = open PROVE OwnInv'
    BY <1>0, <1>00, <1>8, OwnIntro
  <1>9. QED
    BY <1>1, <1>2, <1>3, <1>5, <1>6, <1>7, <1>8
    DEF Next, Step, poolVars, Call, SpuriousWake, TcpFail, HelloOk, Rollback,
        DropDiscarded

LEMMA OwnInvariant == Spec => []OwnInv
  BY OwnInit, OwnStep, PTL DEF Spec

\* pool.rs:31: no connection is ever lent to two threads, queued while it is
\* lent, or queued twice, however many threads share the pool.
THEOREM OwnershipExclusive == Spec => []Exclusive
  <1>1. OwnInv => Exclusive
    BY DEF OwnInv
  <1>2. QED
    BY <1>1, OwnInvariant, PTL

\* No path through acquire, discard or Drop loses a socket, and none closes
\* one that a thread holds or the queue offers.
THEOREM SocketsAccountedFor == Spec => []NoSocketLeak
  <1>1. OwnInv => NoSocketLeak
    BY DEF OwnInv
  <1>2. QED
    BY <1>1, OwnInvariant, PTL

-----------------------------------------------------------------------------
(***************************************************************************)
(* Wakeups                                                                 *)
(***************************************************************************)

WakeInv == CountInv /\ NoLostWakeup

\* A thread that starts to contend, by a call or by a wakeup.
LEMMA ContenderEnters ==
    ASSUME NEW t, t \notin Contenders, Contenders' = Contenders \cup {t}
    PROVE  Cardinality(Contenders') = Cardinality(Contenders) + 1
  BY FiniteThreads, FS_AddElement

LEMMA ContenderLeaves ==
    ASSUME NEW t \in Contenders, Contenders' = Contenders \ {t}
    PROVE  Cardinality(Contenders') = Cardinality(Contenders) - 1
  BY FiniteThreads, FS_RemoveElement

\* Giving a slot back and notifying one waiter keeps the balance.
LEMMA ReleaseKeepsWakeups ==
    ASSUME WakeInv, NEW t \in Threads, pc[t] \in Reserving,
           pc' = [pc EXCEPT ![t] = "out"], in_use' = in_use - 1, NotifyOne
    PROVE  NoLostWakeup'
  <1>0. TypeOK /\ in_use \in Nat /\ MaxTotal \in Nat
    BY PoolAssumption DEF WakeInv, CountInv, TypeOK, PoolAssumption
  <1>1. CASE parked = {}
    BY <1>1 DEF NotifyOne, NoLostWakeup
  <1>2. CASE parked # {}
    <2>1. PICK w \in parked : parked' = parked \ {w}
      BY <1>2 DEF NotifyOne
    <2>2. pc[w] = "acquiring" /\ w \in Threads /\ w # t
      BY <1>0, <2>1 DEF TypeOK, Reserving
    <2>3. Contenders' = Contenders \cup {w} /\ w \notin Contenders
      BY <1>0, <2>1, <2>2 DEF TypeOK, Contenders, Reserving
    <2>4. Cardinality(Contenders') = Cardinality(Contenders) + 1
      BY <2>3, ContenderEnters
    <2>5. MaxTotal - in_use <= Cardinality(Contenders)
      BY <1>2 DEF WakeInv, NoLostWakeup
    <2>6. QED
      BY <1>0, <2>4, <2>5, FiniteThreads DEF NoLostWakeup
  <1>3. QED
    BY <1>1, <1>2

LEMMA WakeStep == WakeInv /\ [Next]_poolVars => WakeInv'
  <1> SUFFICES ASSUME WakeInv, [Next]_poolVars
               PROVE  NoLostWakeup'
    BY CountStep DEF WakeInv
  <1>0. /\ TypeOK /\ in_use \in Nat /\ MaxTotal \in Nat
        /\ Cardinality(Contenders) \in Nat
    BY PoolAssumption, FiniteThreads DEF WakeInv, CountInv, TypeOK, PoolAssumption
  <1>1. ASSUME NEW t \in Threads, Call(t) PROVE NoLostWakeup'
    <2>1. Contenders' = Contenders \cup {t} /\ t \notin Contenders
      BY <1>0, <1>1 DEF Call, TypeOK, Contenders
    <2>2. Cardinality(Contenders') = Cardinality(Contenders) + 1
      BY <2>1, ContenderEnters
    <2>3. QED
      BY <1>0, <1>1, <2>2 DEF Call, WakeInv, NoLostWakeup
  <1>2. ASSUME NEW t \in Threads, ReuseIdle(t) \/ Reserve(t) PROVE NoLostWakeup'
    <2>1. Contenders' = Contenders \ {t} /\ t \in Contenders
      BY <1>0, <1>2 DEF ReuseIdle, Reserve, TypeOK, Contenders
    <2>2. Cardinality(Contenders') = Cardinality(Contenders) - 1
      BY <2>1, ContenderLeaves
    <2>3. in_use' = in_use + 1 /\ parked' = parked
      BY <1>2 DEF ReuseIdle, Reserve
    <2>4. QED
      BY <1>0, <2>2, <2>3 DEF WakeInv, NoLostWakeup
  <1>3. ASSUME NEW t \in Threads, Wait(t) PROVE NoLostWakeup'
    <2>1. in_use' = in_use /\ in_use >= MaxTotal
      BY <1>3 DEF Wait
    <2>2. Contenders' = Contenders \ {t} /\ t \in Contenders
      BY <1>0, <1>3 DEF Wait, TypeOK, Contenders
    <2>3. Cardinality(Contenders') \in Nat
      BY <2>2, FiniteThreads, FS_RemoveElement, FS_CardinalityType
    <2>4. QED
      BY <1>0, <2>1, <2>3 DEF NoLostWakeup
  <1>4. ASSUME NEW t \in Threads, SpuriousWake(t) PROVE NoLostWakeup'
    <2>1. Contenders' = Contenders \cup {t} /\ t \notin Contenders
      BY <1>0, <1>4 DEF SpuriousWake, TypeOK, Contenders
    <2>2. Cardinality(Contenders') = Cardinality(Contenders) + 1
      BY <2>1, ContenderEnters
    <2>3. parked # {} /\ in_use' = in_use
      BY <1>4 DEF SpuriousWake
    <2>4. QED
      BY <1>0, <2>2, <2>3 DEF WakeInv, NoLostWakeup
  <1>5. ASSUME NEW t \in Threads,
               TcpConnect(t) \/ TcpFail(t) \/ HelloOk(t) \/ HelloFail(t) \/ Discard(t)
        PROVE NoLostWakeup'
    <2>1. Contenders' = Contenders
      BY <1>0, <1>5
      DEF TcpConnect, TcpFail, HelloOk, HelloFail, Discard, TypeOK, Contenders
    <2>2. in_use' = in_use /\ parked' = parked
      BY <1>5 DEF TcpConnect, TcpFail, HelloOk, HelloFail, Discard
    <2>3. QED
      BY <1>0, <2>1, <2>2 DEF WakeInv, NoLostWakeup
  <1>6. ASSUME NEW t \in Threads, Rollback(t) \/ DropReturn(t) \/ DropDiscarded(t)
        PROVE NoLostWakeup'
    BY <1>6, ReleaseKeepsWakeups
    DEF Rollback, DropReturn, DropDiscarded, Reserving
  <1>7. CASE Tick \/ UNCHANGED poolVars
    <2>1. Contenders' = Contenders /\ in_use' = in_use /\ parked' = parked
      BY <1>7 DEF Tick, poolVars, Contenders
    <2>2. QED
      BY <1>0, <2>1 DEF WakeInv, NoLostWakeup
  <1>8. QED
    BY <1>1, <1>2, <1>3, <1>4, <1>5, <1>6, <1>7 DEF Next, Step

\* While threads are parked, no slot is free without a thread on its way to
\* take it: one notify per slot given back is enough for any number of
\* waiters, barging callers and spurious wakeups.
THEOREM WakeupsNotLost == Spec => []NoLostWakeup
  <1>1. Init => WakeInv
    BY CountInit DEF Init, WakeInv, NoLostWakeup
  <1>2. WakeInv => NoLostWakeup
    BY DEF WakeInv
  <1>3. QED
    BY <1>1, <1>2, WakeStep, PTL DEF Spec

-----------------------------------------------------------------------------
(***************************************************************************)
(* Sockets, and the lease specification                                    *)
(***************************************************************************)

PoolInv == CapInv /\ OwnInv

\* A held connection belongs to a reservation, one that is not waiting for
\* TCP; an idle one to an entry of the queue.
LEMMA SocketsCounted ==
    ASSUME PoolInv
    PROVE  /\ IsFiniteSet(open)
           /\ Cardinality(open) <= MaxTotal
           /\ (\E t \in Threads : pc[t] = "tcp") => Cardinality(open) < MaxTotal
  <1>0. /\ TypeOK /\ Len(idle) \in Nat /\ MaxTotal \in Nat
        /\ in_use = Cardinality(Reservers) /\ in_use + Len(idle) <= MaxTotal
        /\ open = HeldConns \cup IdleConns
    BY PoolAssumption, LenProperties
    DEF PoolInv, CapInv, OwnInv, CountInv, Accounting, TotalCap, TypeOK,
        NoSocketLeak, PoolAssumption
  <1> DEFINE Holders == {t \in Threads : conn[t] # NoConn}
  <1>1. IsFiniteSet(HeldConns) /\ Cardinality(HeldConns) <= Cardinality(Holders)
        /\ IsFiniteSet(Holders)
    <2>1. IsFiniteSet(Holders)
      BY PoolAssumption, FS_Subset DEF PoolAssumption
    <2>2. [t \in Holders |-> conn[t]] \in Surjection(Holders, HeldConns)
      BY <1>0 DEF Surjection, HeldConns, TypeOK
    <2>3. QED
      BY <2>1, <2>2, FS_Surjection
  <1>2. IsFiniteSet(IdleConns) /\ Cardinality(IdleConns) <= Len(idle)
    <2>1. IsFiniteSet(1 .. Len(idle)) /\ Cardinality(1 .. Len(idle)) = Len(idle)
      <3>1. 1 \in Int /\ Len(idle) \in Int
        BY <1>0
      <3>2. /\ IsFiniteSet(1 .. Len(idle))
            /\ Cardinality(1 .. Len(idle)) =
                 IF 1 > Len(idle) THEN 0 ELSE Len(idle) - 1 + 1
        BY <3>1, FS_Interval
      <3>3. (IF 1 > Len(idle) THEN 0 ELSE Len(idle) - 1 + 1) = Len(idle)
        BY <1>0
      <3>4. QED
        BY <3>2, <3>3
    <2>2. [i \in 1 .. Len(idle) |-> idle[i].conn] \in Surjection(1 .. Len(idle), IdleConns)
      BY DEF Surjection, IdleConns
    <2>3. QED
      BY <2>1, <2>2, FS_Surjection
  <1>3. /\ IsFiniteSet(open)
        /\ Cardinality(open) =
             Cardinality(HeldConns) + Cardinality(IdleConns)
               - Cardinality(HeldConns \cap IdleConns)
    BY <1>0, <1>1, <1>2, FS_Union
  <1>4. Holders \in SUBSET Reservers /\ Cardinality(Holders) <= Cardinality(Reservers)
    <2>1. Holders \in SUBSET Reservers
      BY <1>0 DEF TypeOK, Reservers, Reserving
    <2>2. QED
      BY <2>1, FiniteThreads, FS_Subset
  <1>5. /\ Cardinality(HeldConns) \in Nat /\ Cardinality(IdleConns) \in Nat
        /\ Cardinality(HeldConns \cap IdleConns) \in Nat
        /\ Cardinality(Holders) \in Nat /\ Cardinality(Reservers) \in Nat
    BY <1>1, <1>2, FiniteThreads, FS_CardinalityType, FS_Intersection
  <1>6. Cardinality(open) <= MaxTotal
    BY <1>0, <1>1, <1>2, <1>3, <1>4, <1>5
  <1>7. ASSUME NEW t \in Threads, pc[t] = "tcp"
        PROVE  Cardinality(open) < MaxTotal
    <2>1. t \in Reservers /\ t \notin Holders
      BY <1>0, <1>7 DEF TypeOK, Reservers, Reserving
    <2>2. Cardinality(Holders) # Cardinality(Reservers)
      BY <1>4, <2>1, FiniteThreads, FS_Subset
    <2>3. QED
      BY <1>0, <1>1, <1>2, <1>3, <1>4, <1>5, <2>2
  <1>8. QED
    BY <1>3, <1>6, <1>7

\* The process never has more than max_total sockets open to the endpoint,
\* half-built ones included.
THEOREM SocketsCapped == Spec => []SocketCap
  <1>1. Init => PoolInv
    BY CapInit, OwnInit DEF PoolInv
  <1>2. PoolInv /\ [Next]_poolVars => PoolInv'
    BY CapStep, OwnStep DEF PoolInv
  <1>3. PoolInv => SocketCap
    BY SocketsCounted DEF SocketCap
  <1>4. QED
    BY <1>1, <1>2, <1>3, PTL DEF Spec

LEMMA LeaseInitMaps == Init => Lease!LeaseInit
  BY DEF Init, Lease!LeaseInit

\* Every step of the pool is a step of the lease or leaves it alone.
LEMMA LeaseStepMaps ==
    PoolInv /\ [Next]_poolVars => [Lease!LeaseNext]_Lease!leaseVars
  <1> SUFFICES ASSUME PoolInv, [Next]_poolVars
               PROVE  Lease!LeaseNext \/ UNCHANGED <<open, conn>>
    BY DEF Lease!leaseVars
  <1>0. /\ CountInv /\ TypeOK /\ Len(idle) \in Nat /\ NoConn \notin Conns
        /\ conn \in [Threads -> Conns \cup {NoConn}]
        /\ \A t, u \in Threads : t # u /\ conn[t] = conn[u] => conn[t] = NoConn
        /\ \A t \in Threads, i \in 1 .. Len(idle) : conn[t] # idle[i].conn
        /\ \A i, j \in 1 .. Len(idle) : idle[i].conn = idle[j].conn => i = j
        /\ \A i \in 1 .. Len(idle) : idle[i].conn \in Conns
        /\ \A c : c \in open <=> \/ \E t \in Threads : c = conn[t] /\ c # NoConn
                                 \/ \E i \in 1 .. Len(idle) : c = idle[i].conn
    BY OwnFacts DEF PoolInv
  <1>1. \A i \in 1 .. Len(idle) : idle[i].conn \in Lease!Warm
    BY <1>0 DEF Lease!Warm
  <1>2. ASSUME NEW t \in Threads, ReuseIdle(t) PROVE Lease!LeaseNext
    <2>1. PICK k \in 1 .. Len(idle) :
             /\ open' = open \ Swept(k)
             /\ conn' = [conn EXCEPT ![t] = idle[k].conn]
      BY <1>2 DEF ReuseIdle
    <2>2. Swept(k) \in SUBSET Lease!Warm
      BY <1>0, <1>1 DEF Swept
    <2>3. conn[t] = NoConn
      BY <1>0, <1>2 DEF ReuseIdle, Contenders, TypeOK
    <2>4. idle[k].conn \in Lease!Warm \ Swept(k)
      BY <1>0, <1>1 DEF Swept
    <2>5. Lease!Lend(t, idle[k].conn, Swept(k))
      BY <2>1, <2>3, <2>4 DEF Lease!Lend
    <2>6. QED
      BY <1>0, <2>2, <2>5 DEF Lease!LeaseNext
  <1>3. ASSUME NEW t \in Threads, Reserve(t) \/ Wait(t) PROVE Lease!LeaseNext
    <2>1. open' = open \ IdleConns /\ conn' = conn
      BY <1>3 DEF Reserve, Wait
    <2>2. IdleConns \in SUBSET Lease!Warm
      BY <1>1 DEF IdleConns
    <2>3. QED
      BY <2>1, <2>2 DEF Lease!LeaseNext, Lease!Retire
  <1>4. ASSUME NEW t \in Threads, TcpConnect(t) PROVE Lease!LeaseNext
    <2>1. PICK c \in Conns \ open :
             open' = open \cup {c} /\ conn' = [conn EXCEPT ![t] = c]
      BY <1>4 DEF TcpConnect
    <2>2. pc[t] = "tcp" /\ conn[t] = NoConn
      BY <1>0, <1>4 DEF TcpConnect, TypeOK
    <2>3. Cardinality(open) < MaxTotal
      BY <2>2, SocketsCounted
    <2>4. Lease!Open(t, c)
      <3>1. Lease!Cardinality(open) = Cardinality(open)
        BY DEF Lease!Cardinality, Cardinality
      <3>2. QED
        BY <2>1, <2>2, <2>3, <3>1 DEF Lease!Open
    <2>5. QED
      BY <2>4 DEF Lease!LeaseNext
  <1>5. ASSUME NEW t \in Threads, HelloFail(t) \/ Discard(t) \/ DropReturn(t)
        PROVE Lease!LeaseNext
    <2>1. conn[t] # NoConn /\ conn' = [conn EXCEPT ![t] = NoConn]
      BY <1>0, <1>5 DEF HelloFail, Discard, DropReturn, TypeOK
    <2>2. open' = open \ {conn[t]} \/ open' = open
      BY <1>5 DEF HelloFail, Discard, DropReturn
    <2>3. Lease!Close(t) \/ Lease!GiveBack(t)
      BY <2>1, <2>2 DEF Lease!Close, Lease!GiveBack
    <2>4. QED
      BY <2>3 DEF Lease!LeaseNext
  <1>6. QED
    BY <1>2, <1>3, <1>4, <1>5
    DEF Next, Step, poolVars, Call, SpuriousWake, TcpFail, HelloOk, Rollback,
        DropDiscarded, Tick

\* The pool implements the lease specification.
THEOREM PoolImplementsLease == Spec => ImplementsLease
  <1>1. Init => PoolInv
    BY CapInit, OwnInit DEF PoolInv
  <1>2. PoolInv /\ [Next]_poolVars => PoolInv'
    BY CapStep, OwnStep DEF PoolInv
  <1>3. Spec => []PoolInv
    BY <1>1, <1>2, PTL DEF Spec
  <1>4. QED
    BY <1>3, LeaseInitMaps, LeaseStepMaps, PTL
    DEF Spec, ImplementsLease, Lease!LeaseSpec
=============================================================================
