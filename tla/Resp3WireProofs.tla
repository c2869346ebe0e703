--------------------------- MODULE Resp3WireProofs ---------------------------
(***************************************************************************)
(* Lemmas about the stream of a connection, for requests of any set.       *)
(***************************************************************************)
EXTENDS Resp3Wire, SequenceTheorems, TLAPS

\* Exchanges for requests of R, answered or not.
Exchange(R) == [req : R, reply : Kinds \cup {Unanswered}]

\* What a request adds to the stream.
LEMMA StreamAfterSend ==
    ASSUME NEW R, NEW r \in R, NEW q \in Seq(Exchange(R))
    PROVE  /\ Sent(q, r) \in Seq(Exchange(R))
           /\ Len(Sent(q, r)) = Len(q) + 1
           /\ \A i \in 1 .. Len(q) : Sent(q, r)[i] = q[i]
           /\ Sent(q, r)[Len(q) + 1] = [req |-> r, reply |-> Unanswered]
  <1>1. [req |-> r, reply |-> Unanswered] \in Exchange(R)
    BY DEF Exchange
  <1>2. QED
    BY <1>1, AppendProperties DEF Sent

\* What sending on an idle stream leaves there: one exchange.
LEMMA FirstSend ==
    ASSUME NEW R, NEW r \in R
    PROVE  Len(Sent(<<>>, r)) = 1 /\ Head(Sent(<<>>, r)).req = r
  <1>1. <<>> \in Seq(Exchange(R)) /\ Len(<<>>) = 0
    BY EmptySeq
  <1>2. /\ Len(Sent(<<>>, r)) = Len(<<>>) + 1
        /\ Sent(<<>>, r)[Len(<<>>) + 1] = [req |-> r, reply |-> Unanswered]
    BY <1>1, StreamAfterSend
  <1>3. Len(Sent(<<>>, r)) = 1 /\ Head(Sent(<<>>, r)) = Sent(<<>>, r)[1]
    BY <1>1, <1>2
  <1>4. QED
    BY <1>1, <1>2, <1>3

\* What an answer changes: one exchange's reply.
LEMMA StreamAfterAnswer ==
    ASSUME NEW R, NEW q \in Seq(Exchange(R)), NEW i \in 1 .. Len(q), NEW k \in Kinds
    PROVE  /\ Answered(q, i, k) \in Seq(Exchange(R))
           /\ Len(Answered(q, i, k)) = Len(q)
           /\ \A j \in 1 .. Len(q) :
                /\ Answered(q, i, k)[j].req = q[j].req
                /\ Answered(q, i, k)[j] \in Exchange(R)
           /\ q # <<>>
           /\ Head(Answered(q, i, k)).req = Head(q).req
  <1> DEFINE e == [q[i] EXCEPT !.reply = k]
  <1>1. q[i] \in Exchange(R) /\ Len(q) \in Nat
    BY ElementOfSeq, LenProperties
  <1>2. e \in Exchange(R) /\ e.req = q[i].req
    BY <1>1 DEF Exchange
  <1>3. Answered(q, i, k) = [q EXCEPT ![i] = e]
    BY DEF Answered
  <1> HIDE DEF e
  <1>4. /\ Answered(q, i, k) \in Seq(Exchange(R))
        /\ Len(Answered(q, i, k)) = Len(q)
        /\ \A j \in 1 .. Len(q) : Answered(q, i, k)[j] = IF j = i THEN e ELSE q[j]
    BY <1>2, <1>3, ExceptSeq
  <1>5. \A j \in 1 .. Len(q) :
           /\ Answered(q, i, k)[j].req = q[j].req
           /\ Answered(q, i, k)[j] \in Exchange(R)
    BY <1>2, <1>4, ElementOfSeq
  <1>6. q # <<>> /\ 1 \in 1 .. Len(q)
    BY <1>1, EmptySeq
  <1>7. Head(Answered(q, i, k)).req = Head(q).req
    BY <1>4, <1>5, <1>6
  <1>8. QED
    BY <1>4, <1>5, <1>6, <1>7

\* What reading a reply takes from the stream.
LEMMA StreamAfterRecv ==
    ASSUME NEW R, NEW q \in Seq(Exchange(R)), Arrived(q)
    PROVE  /\ Head(q) \in Exchange(R)
           /\ Head(q).reply \in Kinds
           /\ Tail(q) \in Seq(Exchange(R))
           /\ Head(q) = q[1] /\ 1 \in 1 .. Len(q)
           /\ \A i \in 1 .. Len(Tail(q)) : i + 1 \in 1 .. Len(q) /\ Tail(q)[i] = q[i + 1]
           /\ Len(q) = 1 => Tail(q) = <<>>
  <1>1. q # <<>> /\ Head(q).reply # Unanswered
    BY DEF Arrived
  <1>2. /\ Head(q) \in Exchange(R)
        /\ Tail(q) \in Seq(Exchange(R))
        /\ Len(Tail(q)) = Len(q) - 1
        /\ \A i \in 1 .. Len(Tail(q)) : Tail(q)[i] = q[i + 1]
    BY <1>1, HeadTailProperties
  <1>3. Len(q) \in Nat \ {0}
    BY <1>1, EmptySeq
  <1>4. Head(q).reply \in Kinds
    BY <1>1, <1>2 DEF Exchange
  <1>5. Len(q) = 1 => Tail(q) = <<>>
    <2> SUFFICES ASSUME Len(q) = 1
                 PROVE  Tail(q) = <<>>
      OBVIOUS
    <2>1. Tail(q) # <<>> => Len(Tail(q)) \in Nat \ {0}
      BY <1>2, EmptySeq
    <2>2. Len(Tail(q)) = 0
      BY <1>2
    <2>3. QED
      BY <2>1, <2>2
  <1>6. Head(q) = q[1] /\ 1 \in 1 .. Len(q)
    BY <1>3
  <1>7. \A i \in 1 .. Len(Tail(q)) : i + 1 \in 1 .. Len(q)
    BY <1>2, <1>3
  <1>8. QED
    BY <1>2, <1>4, <1>5, <1>6, <1>7

\* Where a reply leaves an operation: never waiting.
LEMMA PhaseTypes ==
    ASSUME NEW c \in Commands, NEW k
    PROVE  /\ CommandAfter(c, k) \in Commands
           /\ PhaseAfter(c, k) \in {"ready", "ok", "err"}
  BY DEF Commands, CommandAfter, PhaseAfter
=============================================================================
