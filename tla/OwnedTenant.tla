---------------------------- MODULE OwnedTenant ----------------------------
(***************************************************************************)
(* A tenant over one connection of its own: ConnSource::Owned.with_conn    *)
(* (tenant.rs).  Threads share the connection through a mutex that is held *)
(* for a whole operation.  Unlike a pooled connection, an owned one is     *)
(* never replaced: after a failed call the next operation runs on the same *)
(* stream.                                                                 *)
(***************************************************************************)
EXTENDS Naturals, Sequences, Resp3Wire

CONSTANTS
    Threads,
    NoThread,   \* the mutex is free
    MaxCalls    \* bound on the calls made over the life of the connection

ASSUME OwnedAssumption == NoThread \notin Threads /\ MaxCalls \in Nat

VARIABLES
    guard,      \* the thread that holds the mutex
    cmd,        \* the command each thread's operation is at
    phase,      \* where that operation stands
    wire,       \* the connection's stream
    peer,       \* whether the server's end is still there
    asked,      \* number of calls sent so far; a request is its number
    got,        \* request whose reply was read last
    failed      \* some call has failed in the connection

vars == <<guard, cmd, phase, wire, peer, asked, got, failed>>

Request(t) == [by |-> t, id |-> asked + 1]

Init ==
    /\ guard = NoThread
    /\ cmd = [t \in Threads |-> "list"]
    /\ phase = [t \in Threads |-> "none"]
    /\ wire = <<>>
    /\ peer = "up"
    /\ asked = 0
    /\ got = 0
    /\ failed = FALSE

-----------------------------------------------------------------------------
\* Bound: an operation starts if the two calls it can make are in the budget.
MayCall == asked + 2 <= MaxCalls

\* Mutant: the mutex is not waited for.
Lock_Skipped(t) ==
    /\ MayCall
    /\ phase[t] = "none"
    /\ guard' = t
    /\ \E first \in {"list", "search"} : cmd' = [cmd EXCEPT ![t] = first]
    /\ phase' = [phase EXCEPT ![t] = "ready"]
    /\ UNCHANGED <<wire, peer, asked, got, failed>>

\* with_conn locks the connection for an operation: vindex_info (one call) or
\* the query closure (two).
Lock(t) ==
    /\ guard = NoThread
    /\ MayCall
    /\ phase[t] = "none"
    /\ guard' = t
    /\ \E first \in {"list", "search"} : cmd' = [cmd EXCEPT ![t] = first]
    /\ phase' = [phase EXCEPT ![t] = "ready"]
    /\ UNCHANGED <<wire, peer, asked, got, failed>>

Send(t) ==
    /\ phase[t] = "ready"
    /\ asked' = asked + 1
    /\ wire' = Sent(wire, Request(t))
    /\ phase' = [phase EXCEPT ![t] = "waiting"]
    /\ UNCHANGED <<guard, cmd, peer, got, failed>>

\* write_all fails or times out; the request may have gone out all the same.
SendFails(t) ==
    /\ phase[t] = "ready"
    /\ asked' = asked + 1
    /\ wire' \in {wire, Sent(wire, Request(t))}
    /\ phase' = [phase EXCEPT ![t] = "err"]
    /\ failed' = TRUE
    /\ UNCHANGED <<guard, cmd, peer, got>>

\* recv takes the oldest reply and call() hands it to the closure.
Recv(t) ==
    /\ phase[t] = "waiting"
    /\ Arrived(wire)
    /\ LET k == Head(wire).reply IN
         /\ phase' = [phase EXCEPT ![t] = PhaseAfter(cmd[t], k)]
         /\ cmd' = [cmd EXCEPT ![t] = CommandAfter(@, k)]
    /\ got' = Head(wire).req.id
    /\ wire' = Tail(wire)
    /\ UNCHANGED <<guard, peer, asked, failed>>

\* Mutant: no read timeout: only the server's close ends the wait.
RecvFails_OnlyOnClose(t) ==
    /\ phase[t] = "waiting"
    /\ peer = "down"
    /\ phase' = [phase EXCEPT ![t] = "err"]
    /\ failed' = TRUE
    /\ UNCHANGED <<guard, cmd, wire, peer, asked, got>>

\* The 5 s read timeout, a reset, the server's close, or a parse error.
RecvFails(t) ==
    /\ phase[t] = "waiting"
    /\ phase' = [phase EXCEPT ![t] = "err"]
    /\ failed' = TRUE
    /\ UNCHANGED <<guard, cmd, wire, peer, asked, got>>

\* Mutant: the error path leaves the mutex locked.
Unlock_OkOnly(t) ==
    /\ phase[t] \in {"ok", "err"}
    /\ guard' = IF phase[t] = "ok" THEN NoThread ELSE guard
    /\ phase' = [phase EXCEPT ![t] = "none"]
    /\ UNCHANGED <<cmd, wire, peer, asked, got, failed>>

\* The closure returned and the mutex is released.  Ok or Err, the connection
\* stays.
Unlock(t) ==
    /\ phase[t] \in {"ok", "err"}
    /\ guard' = NoThread
    /\ phase' = [phase EXCEPT ![t] = "none"]
    /\ UNCHANGED <<cmd, wire, peer, asked, got, failed>>

-----------------------------------------------------------------------------
(***************************************************************************)
(* The server (external)                                                   *)
(***************************************************************************)
Reply ==
    /\ peer = "up"
    /\ \E i \in 1 .. Len(wire), k \in Kinds :
         /\ NextToAnswer(wire, i)
         /\ wire' = Answered(wire, i, k)
    /\ UNCHANGED <<guard, cmd, phase, peer, asked, got, failed>>

PeerClose ==
    /\ peer = "up"
    /\ peer' = "down"
    /\ UNCHANGED <<guard, cmd, phase, wire, asked, got, failed>>

-----------------------------------------------------------------------------
\* The steps of an operation that has the mutex.
ThreadStep(t) ==
    Send(t) \/ SendFails(t) \/ Recv(t) \/ RecvFails(t) \/ Unlock(t)

Next == (\E t \in Threads : Lock(t) \/ ThreadStep(t)) \/ Reply \/ PeerClose

Spec == Init /\ [][Next]_vars

\* The scheduler runs the thread that holds the mutex, and the socket timeouts
\* end every send and every read.  Nothing is asked of the server.
FairSpec == Spec /\ \A t \in Threads : WF_vars(ThreadStep(t))

-----------------------------------------------------------------------------
(***************************************************************************)
(* Properties                                                              *)
(***************************************************************************)

\* Typing; an operation is under way exactly in the thread that holds the
\* mutex.
TypeOK ==
    /\ guard \in Threads \cup {NoThread}
    /\ cmd \in [Threads -> Commands]
    /\ phase \in [Threads -> Phases]
    /\ peer \in {"up", "down"}
    /\ asked \in Nat /\ got \in 0 .. asked
    /\ failed \in BOOLEAN
    /\ \A i \in 1 .. Len(wire) :
         /\ wire[i].req \in [by : Threads, id : 1 .. asked]
         /\ wire[i].reply \in Kinds \cup {Unanswered}
    /\ \A t \in Threads : phase[t] # "none" <=> guard = t

\* Until a call fails, the stream holds nothing but the exchange of the
\* thread that waits: operations of several threads do not mix, and the second
\* call of a query never sees what is left of the first.
InSyncUntilFailure ==
    ~ failed =>
      IF \E t \in Threads : phase[t] = "waiting"
      THEN Len(wire) = 1 /\ Head(wire).req.by = guard /\ Head(wire).req.id = asked
      ELSE wire = <<>>

\* Every operation returns, even if the server never answers: a timeout ends
\* each call, an error ends the operation, and the mutex becomes free.
OperationsReturn ==
    \A t \in Threads : phase[t] # "none" ~> phase[t] = "none"

\* connection.rs:99: call() sends a command and reads the single reply, the
\* reply to that command.
ReplyAnswersRequest ==
    [][\A t \in Threads : Recv(t) => got' = asked]_vars
=============================================================================
