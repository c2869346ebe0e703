-------------------------- MODULE OwnedTenantProofs --------------------------
(***************************************************************************)
(* Theorems about OwnedTenant, for every set of threads and every number   *)
(* of calls.                                                               *)
(***************************************************************************)
EXTENDS OwnedTenant, Resp3WireProofs

Requests == [by : Threads, id : Nat]

\* TypeOK numbers the exchanges; that the stream is a sequence is said here.
StreamOK == wire \in Seq(Exchange(Requests))

\* The sequence, the requests sent so far and the thread that waits move
\* together, so the three are inductive only as one.
OwnedInv == TypeOK /\ StreamOK /\ InSyncUntilFailure

LEMMA OwnedInit == Init => OwnedInv
  <1> SUFFICES ASSUME Init PROVE OwnedInv
    OBVIOUS
  <1>1. StreamOK /\ Len(wire) = 0
    BY EmptySeq DEF Init, StreamOK
  <1>2. TypeOK
    <2>1. 1 .. Len(wire) = {}
      BY <1>1
    <2>2. cmd \in [Threads -> Commands] /\ phase \in [Threads -> Phases]
      BY DEF Init, Commands, Phases
    <2>3. \A t \in Threads : phase[t] # "none" <=> guard = t
      BY OwnedAssumption DEF Init, OwnedAssumption
    <2>4. asked \in Nat /\ got \in 0 .. asked
      BY DEF Init
    <2>5. QED
      BY <2>1, <2>2, <2>3, <2>4 DEF Init, TypeOK
  <1>3. InSyncUntilFailure
    BY DEF Init, InSyncUntilFailure
  <1>4. QED
    BY <1>1, <1>2, <1>3 DEF OwnedInv

\* A request that is sent, whether the write fails or not.
LEMMA RequestGoesOut ==
    ASSUME OwnedInv, NEW t \in Threads, asked' = asked + 1, wire' = Sent(wire, Request(t))
    PROVE  /\ StreamOK'
           /\ \A i \in 1 .. Len(wire') :
                /\ wire'[i].req \in [by : Threads, id : 1 .. asked']
                /\ wire'[i].reply \in Kinds \cup {Unanswered}
  <1>1. asked \in Nat /\ wire \in Seq(Exchange(Requests)) /\ Len(wire) \in Nat
    BY LenProperties DEF OwnedInv, TypeOK, StreamOK
  <1>2. Request(t) \in Requests /\ Request(t) \in [by : Threads, id : 1 .. asked']
    BY <1>1 DEF Request, Requests
  <1>3. /\ wire' \in Seq(Exchange(Requests))
        /\ Len(wire') = Len(wire) + 1
        /\ \A i \in 1 .. Len(wire) : wire'[i] = wire[i]
        /\ wire'[Len(wire) + 1] = [req |-> Request(t), reply |-> Unanswered]
    BY <1>1, <1>2, StreamAfterSend
  <1>4. \A i \in 1 .. Len(wire) :
           /\ wire'[i].req \in [by : Threads, id : 1 .. asked']
           /\ wire'[i].reply \in Kinds \cup {Unanswered}
    BY <1>1, <1>3 DEF OwnedInv, TypeOK
  <1>5. \A i \in 1 .. Len(wire') : i \in 1 .. Len(wire) \/ i = Len(wire) + 1
    BY <1>1, <1>3
  <1>6. QED
    BY <1>2, <1>3, <1>4, <1>5 DEF StreamOK

\* What stays of the stream's typing when no request goes out.
LEMMA CountsStay ==
    ASSUME OwnedInv, asked' = asked + 1, wire' = wire
    PROVE  /\ StreamOK'
           /\ \A i \in 1 .. Len(wire') :
                /\ wire'[i].req \in [by : Threads, id : 1 .. asked']
                /\ wire'[i].reply \in Kinds \cup {Unanswered}
  BY DEF OwnedInv, TypeOK, StreamOK

LEMMA OwnedStep == OwnedInv /\ [Next]_vars => OwnedInv'
  <1> SUFFICES ASSUME OwnedInv, [Next]_vars PROVE OwnedInv'
    OBVIOUS
  <1> USE OwnedAssumption DEF OwnedAssumption
  <1>t. TypeOK /\ StreamOK /\ InSyncUntilFailure
    BY DEF OwnedInv
  <1>1. ASSUME NEW t \in Threads, Lock(t) PROVE OwnedInv'
    <2>1. TypeOK' /\ StreamOK'
      BY <1>t, <1>1 DEF Lock, TypeOK, StreamOK, Commands, Phases
    <2>2. InSyncUntilFailure'
      BY <1>t, <1>1 DEF Lock, TypeOK, InSyncUntilFailure
    <2>3. QED
      BY <2>1, <2>2 DEF OwnedInv
  <1>2. ASSUME NEW t \in Threads, Send(t) PROVE OwnedInv'
    <2>1. /\ StreamOK'
          /\ \A i \in 1 .. Len(wire') :
               /\ wire'[i].req \in [by : Threads, id : 1 .. asked']
               /\ wire'[i].reply \in Kinds \cup {Unanswered}
      BY <1>2, RequestGoesOut DEF Send
    <2>2. TypeOK'
      BY <1>t, <1>2, <2>1 DEF Send, TypeOK, Phases
    <2>3. InSyncUntilFailure'
      <3> SUFFICES ASSUME ~ failed'
                   PROVE  Len(wire') = 1 /\ Head(wire').req.by = guard'
                            /\ Head(wire').req.id = asked'
        BY <1>t, <1>2 DEF Send, TypeOK, InSyncUntilFailure
      <3>1. guard = t /\ wire = <<>>
        BY <1>t, <1>2 DEF Send, TypeOK, InSyncUntilFailure
      <3>2. Request(t) \in Requests
        BY <1>t DEF TypeOK, Request, Requests
      <3>3. wire' = Sent(<<>>, Request(t))
        BY <1>2, <3>1 DEF Send
      <3>4. Len(wire') = 1 /\ Head(wire').req = Request(t)
        BY <3>2, <3>3, FirstSend
      <3>5. QED
        BY <1>2, <3>1, <3>4 DEF Send, Request
    <2>4. QED
      BY <2>1, <2>2, <2>3 DEF OwnedInv
  <1>3. ASSUME NEW t \in Threads, SendFails(t) PROVE OwnedInv'
    <2>1. /\ StreamOK'
          /\ \A i \in 1 .. Len(wire') :
               /\ wire'[i].req \in [by : Threads, id : 1 .. asked']
               /\ wire'[i].reply \in Kinds \cup {Unanswered}
      <3>1. CASE wire' = wire
        BY <1>3, <3>1, CountsStay DEF SendFails
      <3>2. CASE wire' = Sent(wire, Request(t))
        BY <1>3, <3>2, RequestGoesOut DEF SendFails
      <3>3. QED
        BY <1>3, <3>1, <3>2 DEF SendFails
    <2>2. TypeOK'
      BY <1>t, <1>3, <2>1 DEF SendFails, TypeOK, Phases
    <2>3. InSyncUntilFailure'
      BY <1>3 DEF SendFails, InSyncUntilFailure
    <2>4. QED
      BY <2>1, <2>2, <2>3 DEF OwnedInv
  <1>4. ASSUME NEW t \in Threads, Recv(t) PROVE OwnedInv'
    <2>1. /\ Arrived(wire) /\ wire' = Tail(wire) /\ guard = t /\ phase[t] = "waiting"
          /\ got' = Head(wire).req.id
          /\ UNCHANGED <<guard, peer, asked, failed>>
      BY <1>t, <1>4 DEF Recv, TypeOK
    <2>2. /\ Head(wire) = wire[1] /\ 1 \in 1 .. Len(wire)
          /\ Tail(wire) \in Seq(Exchange(Requests))
          /\ \A i \in 1 .. Len(Tail(wire)) :
               i + 1 \in 1 .. Len(wire) /\ Tail(wire)[i] = wire[i + 1]
          /\ Len(wire) = 1 => Tail(wire) = <<>>
      BY <1>t, <2>1, StreamAfterRecv DEF StreamOK
    <2>3. got' \in 0 .. asked
      BY <1>t, <2>1, <2>2 DEF TypeOK
    <2>4. \A i \in 1 .. Len(wire') :
             /\ wire'[i].req \in [by : Threads, id : 1 .. asked']
             /\ wire'[i].reply \in Kinds \cup {Unanswered}
      BY <1>t, <2>1, <2>2 DEF TypeOK
    <2>5. /\ phase' = [phase EXCEPT ![t] = PhaseAfter(cmd[t], Head(wire).reply)]
          /\ cmd' = [cmd EXCEPT ![t] = CommandAfter(cmd[t], Head(wire).reply)]
      BY <1>4 DEF Recv
    <2>6. /\ CommandAfter(cmd[t], Head(wire).reply) \in Commands
          /\ PhaseAfter(cmd[t], Head(wire).reply) \in {"ready", "ok", "err"}
      BY <1>t, PhaseTypes DEF TypeOK
    <2>7. TypeOK'
      BY <1>t, <2>1, <2>3, <2>4, <2>5, <2>6 DEF TypeOK, Phases
    <2>8. InSyncUntilFailure'
      <3> SUFFICES ASSUME ~ failed'
                   PROVE  (\A u \in Threads : phase'[u] # "waiting") /\ wire' = <<>>
        BY DEF InSyncUntilFailure
      <3>1. wire' = <<>>
        BY <1>t, <2>1, <2>2 DEF InSyncUntilFailure
      <3>2. \A u \in Threads : phase'[u] # "waiting"
        BY <1>t, <2>1, <2>5, <2>6 DEF TypeOK
      <3>3. QED
        BY <3>1, <3>2
    <2>9. QED
      BY <2>1, <2>2, <2>7, <2>8 DEF OwnedInv, StreamOK
  <1>5. ASSUME NEW t \in Threads, RecvFails(t) PROVE OwnedInv'
    <2>1. TypeOK' /\ StreamOK'
      BY <1>t, <1>5 DEF RecvFails, TypeOK, StreamOK, Phases
    <2>2. InSyncUntilFailure'
      BY <1>5 DEF RecvFails, InSyncUntilFailure
    <2>3. QED
      BY <2>1, <2>2 DEF OwnedInv
  <1>6. ASSUME NEW t \in Threads, Unlock(t) PROVE OwnedInv'
    <2>1. TypeOK' /\ StreamOK'
      BY <1>t, <1>6 DEF Unlock, TypeOK, StreamOK, Phases
    <2>2. InSyncUntilFailure'
      BY <1>t, <1>6 DEF Unlock, TypeOK, InSyncUntilFailure
    <2>3. QED
      BY <2>1, <2>2 DEF OwnedInv
  <1>7. CASE Reply
    <2>1. PICK i \in 1 .. Len(wire), k \in Kinds : wire' = Answered(wire, i, k)
      BY <1>7 DEF Reply
    <2>2. /\ wire' \in Seq(Exchange(Requests))
          /\ Len(wire') = Len(wire)
          /\ \A j \in 1 .. Len(wire) : wire'[j].req = wire[j].req /\ wire'[j] \in Exchange(Requests)
          /\ wire # <<>>
          /\ Head(wire').req = Head(wire).req
      BY <1>t, <2>1, StreamAfterAnswer DEF StreamOK
    <2>3. TypeOK'
      BY <1>t, <1>7, <2>2 DEF Reply, TypeOK, Exchange
    <2>4. InSyncUntilFailure'
      BY <1>t, <1>7, <2>2 DEF Reply, InSyncUntilFailure
    <2>5. QED
      BY <2>2, <2>3, <2>4 DEF OwnedInv, StreamOK
  <1>8. CASE PeerClose
    BY <1>t, <1>8 DEF PeerClose, OwnedInv, TypeOK, StreamOK, InSyncUntilFailure
  <1>9. CASE UNCHANGED vars
    BY <1>t, <1>9 DEF vars, OwnedInv, TypeOK, StreamOK, InSyncUntilFailure
  <1>10. QED
    BY <1>1, <1>2, <1>3, <1>4, <1>5, <1>6, <1>7, <1>8, <1>9 DEF Next, ThreadStep

LEMMA OwnedInvariant == Spec => []OwnedInv
  <1>1. QED
    BY OwnedInit, OwnedStep, PTL DEF Spec

\* tenant.rs:72: one thread at a time is in an operation, the one that holds
\* the mutex, and replies are read only of requests that were sent.
THEOREM OwnedTypeCorrect == Spec => []TypeOK
  <1>1. OwnedInv => TypeOK
    BY DEF OwnedInv
  <1>2. QED
    BY <1>1, OwnedInvariant, PTL

\* tenant.rs:73: until a call fails, the stream of an owned connection holds
\* nothing but the exchange of the thread that waits, whoever shares the
\* tenant.
THEOREM OwnedInSync == Spec => []InSyncUntilFailure
  <1>1. OwnedInv => InSyncUntilFailure
    BY DEF OwnedInv
  <1>2. QED
    BY <1>1, OwnedInvariant, PTL

\* connection.rs:99: up to the first failed call of a connection, call() returns
\* the reply to the command it sent.
THEOREM RepliesMatchUntilFailure ==
    Spec => [][\A t \in Threads : Recv(t) /\ ~ failed => got' = asked]_vars
  <1>1. OwnedInv /\ [Next]_vars
          => [\A t \in Threads : Recv(t) /\ ~ failed => got' = asked]_vars
    BY DEF OwnedInv, InSyncUntilFailure, Recv
  <1>2. QED
    BY <1>1, OwnedInvariant, PTL DEF Spec
=============================================================================
