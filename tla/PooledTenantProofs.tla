-------------------------- MODULE PooledTenantProofs --------------------------
(***************************************************************************)
(* Theorems about PooledTenant, for every set of threads and of sockets    *)
(* and every configuration of the pool.                                    *)
(***************************************************************************)
EXTENDS PooledTenant, Resp3PoolProofs, Resp3WireProofs

Requests == [by : Threads, cmd : Commands]

StreamsOK == wire \in [Conns -> Seq(Exchange(Requests))]

\* The part of TenantTypeOK that is not about the streams.
OperationsOK ==
    /\ cmd \in [Threads -> Commands]
    /\ phase \in [Threads -> Phases]
    /\ peer \in [Conns -> {"up", "down"}]
    /\ \A t \in Threads :
         /\ pc[t] = "out" <=> phase[t] = "none"
         /\ phase[t] \in {"waiting", "ok"} => pc[t] = "holding"

\* A thread between two calls of an operation holds a connection on which
\* nothing is under way.
QuietBetweenCalls ==
    \A t \in Threads :
      phase[t] \in {"ready", "ok"} /\ conn[t] # NoConn => wire[conn[t]] = <<>>

\* A stream is empty unless its holder is in the middle of a call or has
\* failed.  What is queued is clean because what is returned is quiet, and
\* what is lent is quiet because what is queued is clean.
TenantInv ==
    /\ OwnInv
    /\ OperationsOK
    /\ StreamsOK
    /\ CleanIdle
    /\ QuietBetweenCalls
    /\ ReplyIsMine

-----------------------------------------------------------------------------
(***************************************************************************)
(* The pool in the composition                                             *)
(***************************************************************************)

\* Every step of the composition is one of the pool or leaves it alone.
LEMMA PoolStep == [TenantNext]_vars => [Next]_poolVars
  <1> SUFFICES ASSUME [TenantNext]_vars
               PROVE  [Next]_poolVars
    OBVIOUS
  <1>1. ASSUME NEW t \in Threads, Begin(t) \/ ThreadStep(t)
        PROVE  [Next]_poolVars
    <2>1. CASE Begin(t)
      BY <2>1 DEF Begin, Next
    <2>2. CASE Acquire(t)
      BY <2>2 DEF Acquire, Next, Step
    <2>3. CASE Connected(t) \/ AcquireFails(t)
      BY <2>3 DEF Connected, AcquireFails, Next, Step
    <2>4. CASE Send(t) \/ SendFails(t) \/ Recv(t) \/ RecvFails(t)
      BY <2>4 DEF Send, SendFails, Recv, RecvFails
    <2>5. CASE CloseFailed(t) \/ ReturnErr(t) \/ ReturnOk(t)
      BY <2>5 DEF CloseFailed, ReturnErr, ReturnOk, Next, Step
    <2>6. QED
      BY <1>1, <2>1, <2>2, <2>3, <2>4, <2>5 DEF ThreadStep
  <1>2. ASSUME NEW t \in Threads, SpuriousWake(t) PROVE [Next]_poolVars
    BY <1>2 DEF Next
  <1>3. CASE Tick
    BY <1>3 DEF Next
  <1>4. ASSUME NEW c \in Conns, Reply(c) \/ PeerClose(c) PROVE [Next]_poolVars
    BY <1>4 DEF Reply, PeerClose
  <1>5. CASE UNCHANGED vars
    BY <1>5 DEF vars
  <1>6. QED
    BY <1>1, <1>2, <1>3, <1>4, <1>5 DEF TenantNext

\* tenant.rs:66: whatever tenants do, they use the pool as a pool: every
\* theorem of Resp3PoolProofs holds of the composition.
THEOREM TenantsUsePool == TenantSpec => Spec
  <1>1. TenantInit => Init
    BY DEF TenantInit
  <1>2. QED
    BY <1>1, PoolStep, PTL DEF TenantSpec, Spec

\* The invariant, entry by entry and holder by holder.
LEMMA TenantFacts ==
    ASSUME TenantInv
    PROVE  /\ TypeOK /\ NoConn \notin Conns /\ OperationsOK /\ StreamsOK
           /\ \A t \in Threads : conn[t] # NoConn
                => conn[t] \in Conns /\ conn[t] \in open
           /\ \A t, u \in Threads : t # u /\ conn[t] # NoConn => conn[t] # conn[u]
           /\ \A i \in 1 .. Len(idle) :
                /\ idle[i].conn \in Conns /\ idle[i].conn \in open
                /\ wire[idle[i].conn] = <<>>
                /\ \A t \in Threads : conn[t] # idle[i].conn
           /\ QuietBetweenCalls /\ ReplyIsMine
  <1>1. OwnInv /\ TypeOK /\ NoConn \notin Conns
    BY OwnFacts DEF TenantInv
  <1>2. \A t \in Threads : conn[t] # NoConn => conn[t] \in Conns /\ conn[t] \in open
    BY <1>1 DEF OwnInv, NoSocketLeak, HeldConns, TypeOK
  <1>3. \A t, u \in Threads : t # u /\ conn[t] # NoConn => conn[t] # conn[u]
    BY <1>1, OwnFacts
  <1>4. ASSUME NEW i \in 1 .. Len(idle)
        PROVE  /\ idle[i].conn \in Conns /\ idle[i].conn \in open
               /\ wire[idle[i].conn] = <<>>
               /\ \A t \in Threads : conn[t] # idle[i].conn
    <2>1. idle[i].conn \in Conns
      BY <1>1, IdleAges
    <2>2. idle[i].conn \in IdleConns
      BY DEF IdleConns
    <2>3. QED
      BY <1>1, <2>1, <2>2, OwnFacts DEF TenantInv, CleanIdle, OwnInv, NoSocketLeak
  <1>5. QED
    BY <1>1, <1>2, <1>3, <1>4 DEF TenantInv

LEMMA TenantIntro ==
    ASSUME OwnInv', OperationsOK', StreamsOK', QuietBetweenCalls', ReplyIsMine',
           \A i \in 1 .. Len(idle') : wire'[idle'[i].conn] = <<>>
    PROVE  TenantInv'
  BY DEF TenantInv, CleanIdle, IdleConns

-----------------------------------------------------------------------------
(***************************************************************************)
(* The invariant                                                           *)
(***************************************************************************)
LEMMA TenantInvInit == TenantInit => TenantInv
  <1> SUFFICES ASSUME TenantInit PROVE TenantInv
    OBVIOUS
  <1>1. OwnInv /\ Len(idle) = 0
    BY OwnInit, EmptySeq DEF TenantInit, Init
  <1>2. OperationsOK
    BY DEF TenantInit, Init, OperationsOK, Commands, Phases
  <1>3. StreamsOK
    BY EmptySeq DEF TenantInit, StreamsOK
  <1>4. QuietBetweenCalls /\ ReplyIsMine
    BY DEF TenantInit, QuietBetweenCalls, ReplyIsMine
  <1>5. CleanIdle
    BY <1>1 DEF CleanIdle, IdleConns
  <1>6. QED
    BY <1>1, <1>2, <1>3, <1>4, <1>5 DEF TenantInv

\* acquire: what is lent comes from the queue, where streams are empty.
LEMMA AcquireKeeps ==
    ASSUME TenantInv, OwnInv', NEW t \in Threads, Acquire(t)
    PROVE  TenantInv'
  <1>f. /\ TypeOK /\ NoConn \notin Conns /\ OperationsOK /\ StreamsOK
        /\ \A u \in Threads : conn[u] # NoConn => conn[u] \in Conns
        /\ \A i \in 1 .. Len(idle) : wire[idle[i].conn] = <<>>
        /\ QuietBetweenCalls /\ ReplyIsMine
    BY TenantFacts
  <1>k. UNCHANGED <<cmd, phase, wire, peer>>
    BY DEF Acquire, tenantVars
  <1>1. StreamsOK'
    BY <1>f, <1>k DEF StreamsOK
  <1>2. CASE ReuseIdle(t)
    <2>1. PICK k \in 1 .. Len(idle) :
             /\ conn' = [conn EXCEPT ![t] = idle[k].conn]
             /\ idle' = SubSeq(idle, k + 1, Len(idle))
      BY <1>2 DEF ReuseIdle
    <2>2. \A i \in 1 .. Len(idle') : i + k \in 1 .. Len(idle) /\ idle'[i] = idle[i + k]
      BY <1>f, <2>1, QueueAfterReuse
    <2>3. \A i \in 1 .. Len(idle') : wire'[idle'[i].conn] = <<>>
      BY <1>f, <1>k, <2>2
    <2>4. pc[t] = "acquiring" /\ pc' = [pc EXCEPT ![t] = "holding"]
      BY <1>2 DEF ReuseIdle, Contenders
    <2>5. OperationsOK'
      BY <1>f, <1>k, <2>4 DEF TypeOK, OperationsOK
    <2>6. wire[conn'[t]] = <<>> /\ \A u \in Threads : u # t => conn'[u] = conn[u]
      BY <1>f, <2>1 DEF TypeOK
    <2>7. QuietBetweenCalls'
      BY <1>f, <1>k, <2>6 DEF QuietBetweenCalls
    <2>8. phase[t] # "waiting"
      BY <1>f, <2>4 DEF OperationsOK
    <2>9. ReplyIsMine'
      BY <1>f, <1>k, <2>6, <2>8 DEF ReplyIsMine, Request
    <2>10. QED
      BY <1>1, <2>3, <2>5, <2>7, <2>9, TenantIntro
  <1>3. CASE Reserve(t) \/ Wait(t)
    <2>1. \A i \in 1 .. Len(idle') : wire'[idle'[i].conn] = <<>>
      BY <1>3, EmptySeq DEF Reserve, Wait
    <2>2. OperationsOK'
      BY <1>f, <1>k, <1>3 DEF Reserve, Wait, Contenders, TypeOK, OperationsOK
    <2>3. QuietBetweenCalls' /\ ReplyIsMine'
      BY <1>f, <1>k, <1>3 DEF Reserve, Wait, QuietBetweenCalls, ReplyIsMine, Request
    <2>4. QED
      BY <1>1, <2>1, <2>2, <2>3, TenantIntro
  <1>4. CASE TcpFail(t) \/ HelloOk(t)
    <2>1. \A i \in 1 .. Len(idle') : wire'[idle'[i].conn] = <<>>
      BY <1>f, <1>k, <1>4 DEF TcpFail, HelloOk
    <2>2. OperationsOK'
      BY <1>f, <1>k, <1>4 DEF TcpFail, HelloOk, TypeOK, OperationsOK
    <2>3. QuietBetweenCalls' /\ ReplyIsMine'
      BY <1>f, <1>k, <1>4 DEF TcpFail, HelloOk, QuietBetweenCalls, ReplyIsMine, Request
    <2>4. QED
      BY <1>1, <2>1, <2>2, <2>3, TenantIntro
  <1>5. CASE HelloFail(t)
    <2>1. \A i \in 1 .. Len(idle') : wire'[idle'[i].conn] = <<>>
      BY <1>f, <1>k, <1>5 DEF HelloFail
    <2>2. OperationsOK'
      BY <1>f, <1>k, <1>5 DEF HelloFail, TypeOK, OperationsOK
    <2>3. conn'[t] = NoConn /\ \A u \in Threads : u # t => conn'[u] = conn[u]
      BY <1>f, <1>5 DEF HelloFail, TypeOK
    <2>4. phase[t] # "waiting"
      BY <1>f, <1>5 DEF HelloFail, OperationsOK
    <2>5. QuietBetweenCalls' /\ ReplyIsMine'
      BY <1>f, <1>k, <2>3, <2>4 DEF QuietBetweenCalls, ReplyIsMine, Request
    <2>6. QED
      BY <1>1, <2>1, <2>2, <2>5, TenantIntro
  <1>6. QED
    BY <1>2, <1>3, <1>4, <1>5 DEF Acquire

\* A new socket is nobody's, and its stream is empty.
LEMMA ConnectedKeeps ==
    ASSUME TenantInv, OwnInv', NEW t \in Threads, Connected(t)
    PROVE  TenantInv'
  <1>f. /\ TypeOK /\ NoConn \notin Conns /\ OperationsOK /\ StreamsOK
        /\ \A u \in Threads : conn[u] # NoConn => conn[u] \in Conns /\ conn[u] \in open
        /\ \A i \in 1 .. Len(idle) : idle[i].conn \in Conns /\ wire[idle[i].conn] = <<>>
        /\ QuietBetweenCalls /\ ReplyIsMine
    BY TenantFacts
  <1>1. PICK c \in Conns \ open : conn' = [conn EXCEPT ![t] = c]
    BY DEF Connected, TcpConnect
  <1>2. conn'[t] = c /\ \A u \in Threads : u # t => conn'[u] = conn[u] /\ conn[u] # c
    BY <1>f, <1>1 DEF TypeOK
  <1>3. /\ wire' = [wire EXCEPT ![c] = <<>>] /\ peer' = [peer EXCEPT ![c] = "up"]
        /\ pc[t] = "tcp" /\ pc' = [pc EXCEPT ![t] = "hello"]
        /\ UNCHANGED <<cmd, phase, idle>>
    BY <1>2 DEF Connected, TcpConnect
  <1>4. wire'[c] = <<>> /\ \A d \in Conns : d # c => wire'[d] = wire[d]
    BY <1>f, <1>3 DEF StreamsOK
  <1>5. \A i \in 1 .. Len(idle') : wire'[idle'[i].conn] = <<>>
    BY <1>f, <1>3, <1>4
  <1>6. StreamsOK'
    BY <1>f, <1>3, EmptySeq DEF StreamsOK
  <1>7. OperationsOK' /\ phase[t] # "waiting"
    BY <1>f, <1>3 DEF OperationsOK, TypeOK
  <1>8. QuietBetweenCalls'
    BY <1>f, <1>2, <1>3, <1>4 DEF QuietBetweenCalls
  <1>9. ReplyIsMine'
    <2> SUFFICES ASSUME NEW u \in Threads, phase[u] = "waiting"
                 PROVE  /\ Len(wire'[conn'[u]]) = 1
                        /\ Head(wire'[conn'[u]]).req = Request(u)
      BY <1>3 DEF ReplyIsMine, Request
    <2>1. u # t /\ pc[u] = "holding"
      BY <1>f, <1>7 DEF OperationsOK
    <2>2. conn'[u] = conn[u] /\ conn[u] \in Conns /\ conn[u] # c
      BY <1>f, <1>2, <2>1 DEF TypeOK
    <2>3. QED
      BY <1>f, <1>4, <2>2 DEF ReplyIsMine
  <1>10. QED
    BY <1>5, <1>6, <1>7, <1>8, <1>9, TenantIntro

\* Sending, reading and closing change one stream, that of the thread's own
\* connection, which is nobody else's.
LEMMA OwnStreamOnly ==
    ASSUME TenantInv, NEW t \in Threads, pc[t] = "holding", NEW q,
           wire' = [wire EXCEPT ![conn[t]] = q],
           conn' = conn, idle' = idle
    PROVE  /\ conn[t] \in Conns /\ wire'[conn[t]] = q
           /\ wire[conn[t]] \in Seq(Exchange(Requests))
           /\ q \in Seq(Exchange(Requests)) => StreamsOK'
           /\ \A i \in 1 .. Len(idle') : wire'[idle'[i].conn] = <<>>
           /\ \A u \in Threads : u # t /\ conn[u] # NoConn => wire'[conn[u]] = wire[conn[u]]
  <1>f. /\ TypeOK /\ StreamsOK
        /\ \A u \in Threads : conn[u] # NoConn => conn[u] \in Conns
        /\ \A u \in Threads : u # t /\ conn[t] # NoConn => conn[t] # conn[u]
        /\ \A i \in 1 .. Len(idle) :
             /\ idle[i].conn \in Conns /\ wire[idle[i].conn] = <<>>
             /\ \A u \in Threads : conn[u] # idle[i].conn
    BY TenantFacts
  <1>1. conn[t] # NoConn /\ conn[t] \in Conns
    BY <1>f DEF TypeOK
  <1>2. wire'[conn[t]] = q /\ \A d \in Conns : d # conn[t] => wire'[d] = wire[d]
    BY <1>f, <1>1 DEF StreamsOK
  <1>3. \A i \in 1 .. Len(idle') : wire'[idle'[i].conn] = <<>>
    BY <1>f, <1>2
  <1>4. q \in Seq(Exchange(Requests)) => StreamsOK'
    BY <1>f DEF StreamsOK
  <1>5. \A u \in Threads : u # t /\ conn[u] # NoConn => wire'[conn[u]] = wire[conn[u]]
    BY <1>f, <1>1, <1>2
  <1>6. wire[conn[t]] \in Seq(Exchange(Requests))
    BY <1>f, <1>1 DEF StreamsOK
  <1>7. QED
    BY <1>1, <1>2, <1>3, <1>4, <1>5, <1>6

\* The other threads keep what they have.
LEMMA OthersKeep ==
    ASSUME TenantInv, NEW t \in Threads, NEW u \in Threads, u # t,
           phase'[u] = phase[u], cmd'[u] = cmd[u], conn'[u] = conn[u],
           conn[u] # NoConn => wire'[conn[u]] = wire[conn[u]]
    PROVE  /\ phase'[u] \in {"ready", "ok"} /\ conn'[u] # NoConn => wire'[conn'[u]] = <<>>
           /\ phase'[u] = "waiting" => /\ Len(wire'[conn'[u]]) = 1
                                       /\ Head(wire'[conn'[u]]).req = Request(u)'
  <1>f. TypeOK /\ OperationsOK /\ QuietBetweenCalls /\ ReplyIsMine
    BY TenantFacts
  <1>1. phase[u] = "waiting" => conn[u] # NoConn
    BY <1>f DEF OperationsOK, TypeOK
  <1>2. QED
    BY <1>f, <1>1 DEF QuietBetweenCalls, ReplyIsMine, Request

LEMMA SendKeeps ==
    ASSUME TenantInv, OwnInv', NEW t \in Threads, Send(t) \/ SendFails(t)
    PROVE  TenantInv'
  <1>f. TypeOK /\ OperationsOK /\ StreamsOK /\ QuietBetweenCalls
    BY TenantFacts
  <1>k. /\ pc[t] = "holding" /\ phase[t] = "ready"
        /\ UNCHANGED <<pc, conn, idle, cmd, peer>>
    BY DEF Send, SendFails, poolVars
  <1>1. PICK q : /\ wire' = [wire EXCEPT ![conn[t]] = q]
                 /\ q \in {wire[conn[t]], Sent(wire[conn[t]], Request(t))}
                 /\ Send(t) => q = Sent(wire[conn[t]], Request(t))
    <2>1. conn[t] \in Conns
      BY <1>k, TenantFacts DEF TypeOK
    <2>2. wire = [wire EXCEPT ![conn[t]] = wire[conn[t]]]
      BY <1>f, <2>1 DEF StreamsOK
    <2>3. CASE Send(t)
      BY <2>3 DEF Send
    <2>4. CASE SendFails(t) /\ ~ Send(t)
      BY <2>2, <2>4 DEF SendFails
    <2>5. QED
      BY <2>3, <2>4
  <1>2. /\ conn[t] \in Conns /\ wire'[conn[t]] = q
        /\ wire[conn[t]] \in Seq(Exchange(Requests))
        /\ q \in Seq(Exchange(Requests)) => StreamsOK'
        /\ \A i \in 1 .. Len(idle') : wire'[idle'[i].conn] = <<>>
        /\ \A u \in Threads : u # t /\ conn[u] # NoConn => wire'[conn[u]] = wire[conn[u]]
    BY <1>k, <1>1, OwnStreamOnly
  <1>3. Request(t) \in Requests /\ Request(t)' = Request(t)
    BY <1>f, <1>k DEF OperationsOK, Request, Requests
  <1>4. StreamsOK'
    BY <1>1, <1>2, <1>3, StreamAfterSend
  <1>5. phase' = [phase EXCEPT ![t] = IF Send(t) THEN "waiting" ELSE "err"]
    <2>1. CASE Send(t)
      BY <2>1 DEF Send
    <2>2. CASE ~ Send(t)
      BY <2>2 DEF SendFails
    <2>3. QED
      BY <2>1, <2>2
  <1>6. OperationsOK'
    BY <1>f, <1>k, <1>5 DEF OperationsOK, Phases
  <1>7. /\ phase'[t] \notin {"ready", "ok"}
        /\ phase'[t] = "waiting" => Send(t)
        /\ \A u \in Threads : u # t => phase'[u] = phase[u]
    BY <1>f, <1>5 DEF OperationsOK
  <1>8. Send(t) => Len(wire'[conn[t]]) = 1 /\ Head(wire'[conn[t]]).req = Request(t)
    <2>1. wire[conn[t]] = <<>>
      BY <1>f, <1>k DEF TypeOK, QuietBetweenCalls
    <2>2. QED
      BY <1>1, <1>2, <1>3, <2>1, FirstSend
  <1>9. QuietBetweenCalls'
    BY <1>k, <1>2, <1>7, OthersKeep DEF QuietBetweenCalls
  <1>10. ReplyIsMine'
    BY <1>k, <1>2, <1>3, <1>7, <1>8, OthersKeep DEF ReplyIsMine
  <1>11. QED
    BY <1>2, <1>4, <1>6, <1>9, <1>10, TenantIntro

\* A reply that is read was the only exchange of its stream.
LEMMA RecvKeeps ==
    ASSUME TenantInv, OwnInv', NEW t \in Threads, Recv(t)
    PROVE  TenantInv'
  <1>f. TypeOK /\ OperationsOK /\ ReplyIsMine
    BY TenantFacts
  <1> DEFINE q == wire[conn[t]]
             k == Head(q).reply
  <1>k. /\ pc[t] = "holding" /\ phase[t] = "waiting" /\ Arrived(q)
        /\ phase' = [phase EXCEPT ![t] = PhaseAfter(cmd[t], k)]
        /\ cmd' = [cmd EXCEPT ![t] = CommandAfter(cmd[t], k)]
        /\ wire' = [wire EXCEPT ![conn[t]] = Tail(q)]
        /\ UNCHANGED <<pc, conn, idle, peer>>
    BY DEF Recv, poolVars
  <1> HIDE DEF q, k
  <1>1. /\ wire'[conn[t]] = Tail(q) /\ wire[conn[t]] \in Seq(Exchange(Requests))
        /\ Tail(q) \in Seq(Exchange(Requests)) => StreamsOK'
        /\ \A i \in 1 .. Len(idle') : wire'[idle'[i].conn] = <<>>
        /\ \A u \in Threads : u # t /\ conn[u] # NoConn => wire'[conn[u]] = wire[conn[u]]
    BY <1>k, OwnStreamOnly
  <1>2. q \in Seq(Exchange(Requests)) /\ Len(q) = 1
    BY <1>f, <1>k, <1>1 DEF q, ReplyIsMine
  <1>3. Tail(q) \in Seq(Exchange(Requests)) /\ Tail(q) = <<>>
    BY <1>k, <1>2, StreamAfterRecv
  <1>4. CommandAfter(cmd[t], k) \in Commands /\ PhaseAfter(cmd[t], k) \in {"ready", "ok", "err"}
    BY <1>f, PhaseTypes DEF OperationsOK
  <1>5. OperationsOK'
    BY <1>f, <1>k, <1>4 DEF OperationsOK, Phases
  <1>6. /\ phase'[t] # "waiting"
        /\ \A u \in Threads : u # t => phase'[u] = phase[u] /\ cmd'[u] = cmd[u]
    BY <1>f, <1>k, <1>4 DEF OperationsOK
  <1>7. QuietBetweenCalls'
    BY <1>k, <1>1, <1>3, <1>6, OthersKeep DEF QuietBetweenCalls
  <1>8. ReplyIsMine'
    BY <1>k, <1>1, <1>6, OthersKeep DEF ReplyIsMine
  <1>9. QED
    BY <1>1, <1>3, <1>5, <1>7, <1>8, TenantIntro

\* A failed connection is closed and its stream is gone with it.
LEMMA CloseFailedKeeps ==
    ASSUME TenantInv, OwnInv', NEW t \in Threads, CloseFailed(t)
    PROVE  TenantInv'
  <1>f. TypeOK /\ OperationsOK /\ StreamsOK
    BY TenantFacts
  <1>k. /\ pc[t] = "holding" /\ phase[t] = "err"
        /\ conn' = [conn EXCEPT ![t] = NoConn]
        /\ pc' = [pc EXCEPT ![t] = "discarded"]
        /\ wire' = [wire EXCEPT ![conn[t]] = <<>>]
        /\ UNCHANGED <<cmd, phase, peer, idle>>
    BY DEF CloseFailed, Discard
  <1>1. /\ \A i \in 1 .. Len(idle) : /\ idle[i].conn \in Conns
                                     /\ wire[idle[i].conn] = <<>>
                                     /\ conn[t] # idle[i].conn
        /\ \A u \in Threads : u # t /\ conn[u] # NoConn
             => conn[u] \in Conns /\ conn[u] # conn[t]
    BY <1>f, TenantFacts
  <1>2. \A i \in 1 .. Len(idle') : wire'[idle'[i].conn] = <<>>
    BY <1>f, <1>k, <1>1 DEF StreamsOK
  <1>3. StreamsOK'
    BY <1>f, <1>k, EmptySeq DEF StreamsOK
  <1>4. OperationsOK'
    BY <1>f, <1>k DEF TypeOK, OperationsOK
  <1>5. \A u \in Threads : u # t =>
           /\ conn'[u] = conn[u]
           /\ conn[u] # NoConn => wire'[conn[u]] = wire[conn[u]]
    BY <1>f, <1>k, <1>1 DEF TypeOK, StreamsOK
  <1>6. QuietBetweenCalls' /\ ReplyIsMine'
    BY <1>k, <1>5, OthersKeep DEF QuietBetweenCalls, ReplyIsMine
  <1>7. QED
    BY <1>2, <1>3, <1>4, <1>6, TenantIntro

\* What goes back to the queue has just been used to the end: its stream is
\* empty.
LEMMA ReturnOkKeeps ==
    ASSUME TenantInv, OwnInv', NEW t \in Threads, ReturnOk(t)
    PROVE  TenantInv'
  <1>f. /\ TypeOK /\ OperationsOK /\ StreamsOK /\ QuietBetweenCalls /\ ReplyIsMine
        /\ \A i \in 1 .. Len(idle) : wire[idle[i].conn] = <<>>
        /\ \A u \in Threads : conn[u] # NoConn => conn[u] \in Conns
    BY TenantFacts
  <1>k. /\ pc[t] = "holding" /\ phase[t] = "ok"
        /\ conn' = [conn EXCEPT ![t] = NoConn]
        /\ pc' = [pc EXCEPT ![t] = "out"]
        /\ phase' = [phase EXCEPT ![t] = "none"]
        /\ idle' \in {Append(idle, [conn |-> conn[t], age |-> 0]), idle}
        /\ UNCHANGED <<cmd, wire, peer>>
    BY DEF ReturnOk, DropReturn
  <1>1. conn[t] \in Conns /\ wire[conn[t]] = <<>>
    BY <1>f, <1>k DEF TypeOK, QuietBetweenCalls
  <1>2. \A i \in 1 .. Len(idle') : wire'[idle'[i].conn] = <<>>
    <2>1. CASE idle' = idle
      BY <1>f, <1>k, <2>1
    <2>2. CASE idle' = Append(idle, [conn |-> conn[t], age |-> 0])
      <3>1. /\ Len(idle') = Len(idle) + 1 /\ Len(idle) \in Nat
            /\ \A i \in 1 .. Len(idle) : idle'[i] = idle[i]
            /\ idle'[Len(idle) + 1] = [conn |-> conn[t], age |-> 0]
        BY <1>f, <1>1, <2>2, QueueAfterReturn, LenProperties DEF TypeOK
      <3>2. \A i \in 1 .. Len(idle') : i \in 1 .. Len(idle) \/ i = Len(idle) + 1
        BY <3>1
      <3>3. QED
        BY <1>f, <1>k, <1>1, <3>1, <3>2
    <2>3. QED
      BY <1>k, <2>1, <2>2
  <1>3. StreamsOK'
    BY <1>f, <1>k DEF StreamsOK
  <1>4. OperationsOK'
    BY <1>f, <1>k DEF TypeOK, OperationsOK, Phases
  <1>5. /\ phase'[t] = "none"
        /\ \A u \in Threads : u # t => phase'[u] = phase[u] /\ conn'[u] = conn[u]
    BY <1>f, <1>k DEF TypeOK, OperationsOK
  <1>6. QuietBetweenCalls' /\ ReplyIsMine'
    BY <1>k, <1>5, OthersKeep DEF QuietBetweenCalls, ReplyIsMine
  <1>7. QED
    BY <1>2, <1>3, <1>4, <1>6, TenantIntro

\* Steps that touch neither queue, nor streams, nor who holds what.
LEMMA PhaseStepKeeps ==
    ASSUME TenantInv, OwnInv', NEW t \in Threads,
           Begin(t) \/ AcquireFails(t) \/ RecvFails(t) \/ ReturnErr(t)
    PROVE  TenantInv'
  <1>f. /\ TypeOK /\ OperationsOK /\ StreamsOK /\ QuietBetweenCalls
        /\ \A i \in 1 .. Len(idle) : wire[idle[i].conn] = <<>>
    BY TenantFacts
  <1>k. /\ UNCHANGED <<conn, idle, wire, peer>>
        /\ phase'[t] # "waiting" /\ (conn[t] # NoConn => phase'[t] \notin {"ready", "ok"})
        /\ \A u \in Threads : u # t => phase'[u] = phase[u] /\ cmd'[u] = cmd[u]
    <2>1. CASE Begin(t)
      BY <1>f, <2>1 DEF Begin, Call, TypeOK, OperationsOK
    <2>2. CASE AcquireFails(t)
      BY <1>f, <2>2 DEF AcquireFails, Rollback, OperationsOK
    <2>3. CASE RecvFails(t)
      BY <1>f, <2>3 DEF RecvFails, poolVars, OperationsOK
    <2>4. CASE ReturnErr(t)
      BY <1>f, <2>4 DEF ReturnErr, DropDiscarded, OperationsOK
    <2>5. QED
      BY <2>1, <2>2, <2>3, <2>4
  <1>1. OperationsOK'
    <2>1. CASE Begin(t)
      BY <1>f, <2>1 DEF Begin, Call, TypeOK, OperationsOK, Commands, Phases
    <2>2. CASE AcquireFails(t)
      BY <1>f, <2>2 DEF AcquireFails, Rollback, TypeOK, OperationsOK, Phases
    <2>3. CASE RecvFails(t)
      BY <1>f, <2>3 DEF RecvFails, poolVars, OperationsOK, Phases
    <2>4. CASE ReturnErr(t)
      BY <1>f, <2>4 DEF ReturnErr, DropDiscarded, TypeOK, OperationsOK, Phases
    <2>5. QED
      BY <2>1, <2>2, <2>3, <2>4
  <1>2. StreamsOK' /\ \A i \in 1 .. Len(idle') : wire'[idle'[i].conn] = <<>>
    BY <1>f, <1>k DEF StreamsOK
  <1>3. QuietBetweenCalls' /\ ReplyIsMine'
    BY <1>k, OthersKeep DEF QuietBetweenCalls, ReplyIsMine
  <1>4. QED
    BY <1>1, <1>2, <1>3, TenantIntro

\* The server answers only what was asked: it writes to no stream that is
\* empty, and changes nobody's request.
LEMMA ReplyKeeps ==
    ASSUME TenantInv, OwnInv', NEW c \in Conns, Reply(c)
    PROVE  TenantInv'
  <1>f. /\ TypeOK /\ OperationsOK /\ StreamsOK /\ QuietBetweenCalls /\ ReplyIsMine
        /\ \A i \in 1 .. Len(idle) : idle[i].conn \in Conns /\ wire[idle[i].conn] = <<>>
        /\ \A u \in Threads : conn[u] # NoConn => conn[u] \in Conns
    BY TenantFacts
  <1>k. UNCHANGED <<pc, conn, idle, cmd, phase, peer>>
    BY DEF Reply, poolVars
  <1>1. PICK i \in 1 .. Len(wire[c]), k \in Kinds :
           wire' = [wire EXCEPT ![c] = Answered(wire[c], i, k)]
    BY DEF Reply
  <1>2. wire[c] \in Seq(Exchange(Requests))
    BY <1>f DEF StreamsOK
  <1>3. /\ Answered(wire[c], i, k) \in Seq(Exchange(Requests))
        /\ Len(Answered(wire[c], i, k)) = Len(wire[c])
        /\ wire[c] # <<>>
        /\ Head(Answered(wire[c], i, k)).req = Head(wire[c]).req
    BY <1>2, StreamAfterAnswer
  <1>4. StreamsOK'
    BY <1>f, <1>1, <1>3 DEF StreamsOK
  <1>5. \A d \in Conns :
           /\ wire[d] = <<>> => wire'[d] = <<>>
           /\ Len(wire'[d]) = Len(wire[d])
           /\ Head(wire'[d]).req = Head(wire[d]).req
    BY <1>f, <1>1, <1>3 DEF StreamsOK
  <1>6. \A j \in 1 .. Len(idle') : wire'[idle'[j].conn] = <<>>
    BY <1>f, <1>k, <1>5
  <1>7. OperationsOK'
    BY <1>f, <1>k DEF OperationsOK
  <1>8. QuietBetweenCalls'
    BY <1>f, <1>k, <1>5 DEF QuietBetweenCalls
  <1>9. ReplyIsMine'
    <2>1. \A u \in Threads : phase[u] = "waiting" => conn[u] \in Conns
      BY <1>f DEF OperationsOK, TypeOK
    <2>2. QED
      BY <1>f, <1>k, <1>5, <2>1 DEF ReplyIsMine, Request
  <1>10. QED
    BY <1>4, <1>6, <1>7, <1>8, <1>9, TenantIntro

\* Time, spurious wakeups and the server's close.
LEMMA EnvironmentKeeps ==
    ASSUME TenantInv, OwnInv',
           \/ \E t \in Threads : SpuriousWake(t) /\ UNCHANGED tenantVars
           \/ Tick /\ UNCHANGED tenantVars
           \/ \E c \in Conns : PeerClose(c)
           \/ UNCHANGED vars
    PROVE  TenantInv'
  <1>f. /\ TypeOK /\ OperationsOK /\ StreamsOK /\ QuietBetweenCalls /\ ReplyIsMine
        /\ \A i \in 1 .. Len(idle) : wire[idle[i].conn] = <<>>
    BY TenantFacts
  <1>k. /\ UNCHANGED <<pc, conn, cmd, phase, wire>>
        /\ peer' \in [Conns -> {"up", "down"}]
    BY <1>f DEF SpuriousWake, Tick, PeerClose, tenantVars, poolVars, vars, OperationsOK
  <1>1. \A i \in 1 .. Len(idle') : wire'[idle'[i].conn] = <<>>
    <2>1. CASE idle' = idle
      BY <1>f, <1>k, <2>1
    <2>2. CASE Tick
      BY <1>f, <1>k, <2>2, QueueAfterTick
    <2>3. QED
      BY <2>1, <2>2 DEF SpuriousWake, PeerClose, poolVars, vars
  <1>2. StreamsOK' /\ OperationsOK' /\ QuietBetweenCalls' /\ ReplyIsMine'
    BY <1>f, <1>k DEF StreamsOK, OperationsOK, QuietBetweenCalls, ReplyIsMine, Request
  <1>3. QED
    BY <1>1, <1>2, TenantIntro

LEMMA TenantStep == TenantInv /\ [TenantNext]_vars => TenantInv'
  <1> SUFFICES ASSUME TenantInv, [TenantNext]_vars PROVE TenantInv'
    OBVIOUS
  <1>1. OwnInv'
    BY PoolStep, OwnStep DEF TenantInv
  <1>2. ASSUME NEW t \in Threads, Begin(t) \/ ThreadStep(t) PROVE TenantInv'
    <2>1. CASE Acquire(t)
      BY <1>1, <2>1, AcquireKeeps
    <2>2. CASE Connected(t)
      BY <1>1, <2>2, ConnectedKeeps
    <2>3. CASE Send(t) \/ SendFails(t)
      BY <1>1, <2>3, SendKeeps
    <2>4. CASE Recv(t)
      BY <1>1, <2>4, RecvKeeps
    <2>5. CASE CloseFailed(t)
      BY <1>1, <2>5, CloseFailedKeeps
    <2>6. CASE ReturnOk(t)
      BY <1>1, <2>6, ReturnOkKeeps
    <2>7. CASE Begin(t) \/ AcquireFails(t) \/ RecvFails(t) \/ ReturnErr(t)
      BY <1>1, <2>7, PhaseStepKeeps
    <2>8. QED
      BY <1>2, <2>1, <2>2, <2>3, <2>4, <2>5, <2>6, <2>7 DEF ThreadStep
  <1>3. ASSUME NEW c \in Conns, Reply(c) PROVE TenantInv'
    BY <1>1, <1>3, ReplyKeeps
  <1>4. QED
    BY <1>1, <1>2, <1>3, EnvironmentKeeps DEF TenantNext

LEMMA TenantInvariant == TenantSpec => []TenantInv
  BY TenantInvInit, TenantStep, PTL DEF TenantSpec

\* An operation is in the pool exactly while it is under way, and waits for a
\* reply only while its thread holds a connection.
THEOREM TenantTypeCorrect == TenantSpec => []TenantTypeOK
  <1>1. TenantInv => TenantTypeOK
    <2> SUFFICES ASSUME TenantInv PROVE TenantTypeOK
      OBVIOUS
    <2>1. OperationsOK /\ StreamsOK
      BY DEF TenantInv
    <2>2. ASSUME NEW c \in Conns, NEW i \in 1 .. Len(wire[c])
          PROVE  wire[c][i] \in Exchange(Requests)
      <3>1. wire[c] \in Seq(Exchange(Requests))
        BY <2>1 DEF StreamsOK
      <3>2. QED
        BY <3>1, ElementOfSeq
    <2>3. QED
      BY <2>1, <2>2 DEF OperationsOK, TenantTypeOK, Exchange, Requests
  <1>2. QED
    BY <1>1, TenantInvariant, PTL

\* tenant.rs:66: no operation, failed or not, leaves a connection in the queue on
\* which an answer to it may still arrive.
THEOREM QueuedConnectionsClean == TenantSpec => []CleanIdle
  <1>1. TenantInv => CleanIdle
    BY DEF TenantInv
  <1>2. QED
    BY <1>1, TenantInvariant, PTL

\* tenant.rs:66: the reply a pooled tenant waits for, and so the reply it reads, is
\* the one to its own request.
THEOREM RepliesOwn == TenantSpec => []ReplyIsMine
  <1>1. TenantInv => ReplyIsMine
    BY DEF TenantInv
  <1>2. QED
    BY <1>1, TenantInvariant, PTL
=============================================================================
