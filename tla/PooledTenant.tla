---------------------------- MODULE PooledTenant ----------------------------
(***************************************************************************)
(* Tenants over a shared pool: ConnSource::Pooled.with_conn (tenant.rs)    *)
(* composed with Resp3Pool and with the request/reply streams of the       *)
(* pooled connections.  Each thread runs tenant operations one after the   *)
(* other; the server answers late, wrongly or never, and closes            *)
(* connections when it likes.                                              *)
(***************************************************************************)
EXTENDS Resp3Pool, Resp3Wire

VARIABLES
    cmd,    \* the command each thread's operation is at
    phase,  \* where that operation stands
    wire,   \* the stream of each connection
    peer    \* whether the server's end of each connection is still there

tenantVars == <<cmd, phase, wire, peer>>
vars == <<poolVars, tenantVars>>

TenantInit ==
    /\ Init
    /\ cmd = [t \in Threads |-> "list"]
    /\ phase = [t \in Threads |-> "none"]
    /\ wire = [c \in Conns |-> <<>>]
    /\ peer = [c \in Conns |-> "up"]

\* A request names the thread that sent it; the frame on the wire does not.
Request(t) == [by |-> t, cmd |-> cmd[t]]

-----------------------------------------------------------------------------
\* refresh_record_count and from_pool (VINDEX.LIST), or query_filtered.
Begin(t) ==
    /\ Call(t)
    /\ \E first \in {"list", "search"} : cmd' = [cmd EXCEPT ![t] = first]
    /\ phase' = [phase EXCEPT ![t] = "ready"]
    /\ UNCHANGED <<wire, peer>>

\* pool.acquire(), up to its return.
Acquire(t) ==
    /\ \/ ReuseIdle(t) \/ Reserve(t) \/ Wait(t)
       \/ TcpFail(t) \/ HelloOk(t) \/ HelloFail(t)
    /\ UNCHANGED tenantVars

Connected(t) ==
    /\ TcpConnect(t)
    /\ wire' = [wire EXCEPT ![conn'[t]] = <<>>]
    /\ peer' = [peer EXCEPT ![conn'[t]] = "up"]
    /\ UNCHANGED <<cmd, phase>>

\* pool.acquire()? returns the connect error: the closure never runs.
AcquireFails(t) ==
    /\ Rollback(t)
    /\ phase' = [phase EXCEPT ![t] = "none"]
    /\ UNCHANGED <<cmd, wire, peer>>

Send(t) ==
    /\ pc[t] = "holding" /\ phase[t] = "ready"
    /\ wire' = [wire EXCEPT ![conn[t]] = Sent(@, Request(t))]
    /\ phase' = [phase EXCEPT ![t] = "waiting"]
    /\ UNCHANGED <<poolVars, cmd, peer>>

\* write_all fails or times out; the request may have gone out all the same.
SendFails(t) ==
    /\ pc[t] = "holding" /\ phase[t] = "ready"
    /\ \/ wire' = wire
       \/ wire' = [wire EXCEPT ![conn[t]] = Sent(@, Request(t))]
    /\ phase' = [phase EXCEPT ![t] = "err"]
    /\ UNCHANGED <<poolVars, cmd, peer>>

Recv(t) ==
    /\ pc[t] = "holding" /\ phase[t] = "waiting"
    /\ Arrived(wire[conn[t]])
    /\ LET k == Head(wire[conn[t]]).reply IN
         /\ phase' = [phase EXCEPT ![t] = PhaseAfter(cmd[t], k)]
         /\ cmd' = [cmd EXCEPT ![t] = CommandAfter(@, k)]
    /\ wire' = [wire EXCEPT ![conn[t]] = Tail(@)]
    /\ UNCHANGED <<poolVars, peer>>

\* Mutant: no read timeout: only the server's close ends the wait.
RecvFails_OnlyOnClose(t) ==
    /\ pc[t] = "holding" /\ phase[t] = "waiting"
    /\ peer[conn[t]] = "down"
    /\ phase' = [phase EXCEPT ![t] = "err"]
    /\ UNCHANGED <<poolVars, cmd, wire, peer>>

\* Mutant: a read that timed out is answered by sending the command again.
RecvFails_Resends(t) ==
    /\ pc[t] = "holding" /\ phase[t] = "waiting"
    /\ Len(wire[conn[t]]) < 3
    /\ phase' = [phase EXCEPT ![t] = "ready"]
    /\ UNCHANGED <<poolVars, cmd, wire, peer>>

\* The 5 s read timeout, a reset, the server's close, or a parse error.  A late answer may
\* already be on its way.
RecvFails(t) ==
    /\ pc[t] = "holding" /\ phase[t] = "waiting"
    /\ phase' = [phase EXCEPT ![t] = "err"]
    /\ UNCHANGED <<poolVars, cmd, wire, peer>>

\* Mutant: a failed borrow is dropped like any other.
CloseFailed_Returns(t) ==
    /\ phase[t] = "err"
    /\ DropReturn(t)
    /\ phase' = [phase EXCEPT ![t] = "none"]
    /\ UNCHANGED <<cmd, wire, peer>>

\* The closure returned Err: discard closes the socket, and its stream is
\* gone with it; then the guard is dropped.
CloseFailed(t) ==
    /\ phase[t] = "err"
    /\ Discard(t)
    /\ wire' = [wire EXCEPT ![conn[t]] = <<>>]
    /\ UNCHANGED <<cmd, phase, peer>>

\* Mutant: the error of the closure is swallowed after the discard.
ReturnErr_Swallowed(t) ==
    /\ DropDiscarded(t)
    /\ phase' = [phase EXCEPT ![t] = "ready"]
    /\ UNCHANGED <<cmd, wire, peer>>

ReturnErr(t) ==
    /\ DropDiscarded(t)
    /\ phase' = [phase EXCEPT ![t] = "none"]
    /\ UNCHANGED <<cmd, wire, peer>>

\* The closure returned Ok: the guard is dropped, the connection goes back.
ReturnOk(t) ==
    /\ phase[t] = "ok"
    /\ DropReturn(t)
    /\ phase' = [phase EXCEPT ![t] = "none"]
    /\ UNCHANGED <<cmd, wire, peer>>

-----------------------------------------------------------------------------
(***************************************************************************)
(* The server (external)                                                   *)
(***************************************************************************)
Reply(c) ==
    /\ c \in open /\ peer[c] = "up"
    /\ \E i \in 1 .. Len(wire[c]), k \in Kinds :
         /\ NextToAnswer(wire[c], i)
         /\ wire' = [wire EXCEPT ![c] = Answered(@, i, k)]
    /\ UNCHANGED <<poolVars, cmd, phase, peer>>

PeerClose(c) ==
    /\ c \in open /\ peer[c] = "up"
    /\ peer' = [peer EXCEPT ![c] = "down"]
    /\ UNCHANGED <<poolVars, cmd, phase, wire>>

-----------------------------------------------------------------------------
\* The steps a thread takes by itself, whatever the server does.
ThreadStep(t) ==
    \/ Acquire(t) \/ Connected(t) \/ AcquireFails(t)
    \/ Send(t) \/ SendFails(t) \/ Recv(t) \/ RecvFails(t)
    \/ CloseFailed(t) \/ ReturnErr(t) \/ ReturnOk(t)

TenantNext ==
    \/ \E t \in Threads :
         \/ Begin(t) \/ ThreadStep(t)
         \/ SpuriousWake(t) /\ UNCHANGED tenantVars
    \/ Tick /\ UNCHANGED tenantVars
    \/ \E c \in Conns : Reply(c) \/ PeerClose(c)

TenantSpec == TenantInit /\ [][TenantNext]_vars

\* The scheduler runs every thread, and the socket timeouts end every send
\* and every read.  Nothing is asked of the server.
TenantFairSpec == TenantSpec /\ \A t \in Threads : WF_vars(ThreadStep(t))

-----------------------------------------------------------------------------
(***************************************************************************)
(* Properties                                                              *)
(***************************************************************************)

\* Typing; an operation is under way exactly while its thread is in the pool.
TenantTypeOK ==
    /\ cmd \in [Threads -> Commands]
    /\ phase \in [Threads -> Phases]
    /\ peer \in [Conns -> {"up", "down"}]
    /\ \A c \in Conns : \A i \in 1 .. Len(wire[c]) :
         /\ wire[c][i].req \in [by : Threads, cmd : Commands]
         /\ wire[c][i].reply \in Kinds \cup {Unanswered}
    /\ \A t \in Threads :
         /\ pc[t] = "out" <=> phase[t] = "none"
         /\ phase[t] \in {"waiting", "ok"} => pc[t] = "holding"

\* A connection in the idle queue owes nobody a reply: no timed out call, no
\* failed write and no error half way through a query leaves a connection
\* behind on which the next borrower would read someone else's answer.
CleanIdle == \A c \in IdleConns : wire[c] = <<>>

\* tenant.rs:66: whoever waits for a reply has exactly one exchange on its
\* connection, and it is the one it asked for.
ReplyIsMine ==
    \A t \in Threads : phase[t] = "waiting" =>
        /\ Len(wire[conn[t]]) = 1
        /\ Head(wire[conn[t]]).req = Request(t)

\* Every borrow ends, even if the server never answers anything: the pool's
\* fairness assumption is discharged by the way the tenants use it.
BorrowsEnd == FairSpec
=============================================================================
