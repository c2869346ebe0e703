----------------------------- MODULE Resp3Pool -----------------------------
(***************************************************************************)
(* The connection pool of skeg-rigging-net-resp3 (pool.rs): threads borrow *)
(* RESP3 connections to one endpoint from a bounded idle queue, open new   *)
(* ones under a cap, and park on a condition variable at the cap.          *)
(*                                                                         *)
(* Everything the code does between locking `state` and releasing it (by   *)
(* returning, dropping the guard or waiting) is one action.  Opening a     *)
(* socket, the HELLO exchange and closing a discarded socket happen with   *)
(* the mutex released and are actions of their own.  Time is abstract:     *)
(* an idle entry carries its age, which saturates at IdleTimeout.          *)
(***************************************************************************)
EXTENDS Naturals, Sequences, FiniteSets

CONSTANTS
    Threads,        \* callers of acquire(), each with at most one borrow
    Conns,          \* identities of sockets
    NoConn,         \* PooledConnection.conn = None
    MaxIdle,        \* config.max_idle
    MaxTotal,       \* config.max_total
    IdleTimeout     \* config.idle_timeout, in ticks

ASSUME PoolAssumption ==
    /\ IsFiniteSet(Threads)
    /\ NoConn \notin Conns
    /\ MaxIdle \in Nat
    /\ MaxTotal \in Nat
    /\ IdleTimeout \in Nat

VARIABLES
    pc,         \* where each thread is in acquire / the borrow / drop
    conn,       \* the connection each thread holds
    idle,       \* PoolState.idle, front first
    in_use,     \* PoolState.in_use
    open,       \* the sockets this process really has open
    parked      \* threads blocked in not_at_cap.wait

poolVars == <<pc, conn, idle, in_use, open, parked>>

PCs == {"out", "acquiring", "tcp", "hello", "rollback", "holding", "discarded"}

Entries == [conn : Conns, age : 0 .. IdleTimeout]

\* pc values at which the thread's reservation is part of in_use.
Reserving == {"tcp", "hello", "rollback", "holding", "discarded"}

Reservers == {t \in Threads : pc[t] \in Reserving}

\* Threads that have the mutex to win before their next acquire attempt.
Contenders == {t \in Threads : pc[t] = "acquiring" /\ t \notin parked}

IdleConns == {idle[i].conn : i \in 1 .. Len(idle)}

HeldConns == {conn[t] : t \in Threads} \ {NoConn}

Init ==
    /\ pc = [t \in Threads |-> "out"]
    /\ conn = [t \in Threads |-> NoConn]
    /\ idle = <<>>
    /\ in_use = 0
    /\ open = {}
    /\ parked = {}

-----------------------------------------------------------------------------
(***************************************************************************)
(* acquire                                                                 *)
(***************************************************************************)

Expired(e) == e.age >= IdleTimeout

AllExpired == \A i \in 1 .. Len(idle) : Expired(idle[i])

\* k is where the sweep of expired entries from the front stops.
FirstFresh(k) ==
    /\ ~ Expired(idle[k])
    /\ \A i \in 1 .. (k - 1) : Expired(idle[i])

\* Mutant: the sweep goes one entry too far and closes the one it lends.
Swept_TooFar(k) == {idle[i].conn : i \in 1 .. k}

Swept(k) == {idle[i].conn : i \in 1 .. (k - 1)}

\* notify_one: wakes one parked thread if there is one, no-op otherwise.
NotifyOne ==
    IF parked = {} THEN parked' = parked
                   ELSE \E w \in parked : parked' = parked \ {w}

\* A thread enters acquire().
Call(t) ==
    /\ pc[t] = "out"
    /\ pc' = [pc EXCEPT ![t] = "acquiring"]
    /\ UNCHANGED <<conn, idle, in_use, open, parked>>

\* Mutant: front() instead of pop_front().
ReuseIdle_Peeks(t) ==
    /\ t \in Contenders
    /\ \E k \in 1 .. Len(idle) :
         /\ FirstFresh(k)
         /\ open' = open \ Swept(k)
         /\ conn' = [conn EXCEPT ![t] = idle[k].conn]
         /\ idle' = SubSeq(idle, k, Len(idle))
    /\ in_use' = in_use + 1
    /\ pc' = [pc EXCEPT ![t] = "holding"]
    /\ UNCHANGED parked

\* Sweep the expired front, then lend the first entry that is left.
ReuseIdle(t) ==
    /\ t \in Contenders
    /\ \E k \in 1 .. Len(idle) :
         /\ FirstFresh(k)
         /\ open' = open \ Swept(k)
         /\ conn' = [conn EXCEPT ![t] = idle[k].conn]
         /\ idle' = SubSeq(idle, k + 1, Len(idle))
    /\ in_use' = in_use + 1
    /\ pc' = [pc EXCEPT ![t] = "holding"]
    /\ UNCHANGED parked

\* Mutant: the cap is looked at before the queue.
Reserve_CapFirst(t) ==
    /\ t \in Contenders
    /\ in_use < MaxTotal
    /\ in_use' = in_use + 1
    /\ pc' = [pc EXCEPT ![t] = "tcp"]
    /\ UNCHANGED <<conn, idle, open, parked>>

\* Mutant: <= for <.
Reserve_AtCap(t) ==
    /\ t \in Contenders
    /\ AllExpired
    /\ in_use <= MaxTotal
    /\ open' = open \ IdleConns
    /\ idle' = <<>>
    /\ in_use' = in_use + 1
    /\ pc' = [pc EXCEPT ![t] = "tcp"]
    /\ UNCHANGED <<conn, parked>>

\* Nothing is left to lend and the cap allows one more: take a reservation
\* and release the mutex for the TCP connect.
Reserve(t) ==
    /\ t \in Contenders
    /\ AllExpired
    /\ in_use < MaxTotal
    /\ open' = open \ IdleConns
    /\ idle' = <<>>
    /\ in_use' = in_use + 1
    /\ pc' = [pc EXCEPT ![t] = "tcp"]
    /\ UNCHANGED <<conn, parked>>

\* At the cap: wait on the condition variable.
Wait(t) ==
    /\ t \in Contenders
    /\ AllExpired
    /\ in_use >= MaxTotal
    /\ open' = open \ IdleConns
    /\ idle' = <<>>
    /\ parked' = parked \cup {t}
    /\ UNCHANGED <<pc, conn, in_use>>

\* A condition variable may wake a thread nobody notified; the loop in
\* acquire is there for that.
SpuriousWake(t) ==
    /\ t \in parked
    /\ parked' = parked \ {t}
    /\ UNCHANGED <<pc, conn, idle, in_use, open>>

\* TcpStream::connect succeeds: a socket no one else has.
TcpConnect(t) ==
    /\ pc[t] = "tcp"
    /\ \E c \in Conns \ open :
         /\ open' = open \cup {c}
         /\ conn' = [conn EXCEPT ![t] = c]
    /\ pc' = [pc EXCEPT ![t] = "hello"]
    /\ UNCHANGED <<idle, in_use, parked>>

TcpFail(t) ==
    /\ pc[t] = "tcp"
    /\ pc' = [pc EXCEPT ![t] = "rollback"]
    /\ UNCHANGED <<conn, idle, in_use, open, parked>>

\* HELLO is answered with a Map or an Array.
HelloOk(t) ==
    /\ pc[t] = "hello"
    /\ pc' = [pc EXCEPT ![t] = "holding"]
    /\ UNCHANGED <<conn, idle, in_use, open, parked>>

\* Mutant: a failed HELLO leaves its socket open.
HelloFail_Leaks(t) ==
    /\ pc[t] = "hello"
    /\ conn' = [conn EXCEPT ![t] = NoConn]
    /\ pc' = [pc EXCEPT ![t] = "rollback"]
    /\ UNCHANGED <<idle, in_use, open, parked>>

\* HELLO fails (refused, timed out, closed, malformed): the half-built
\* connection is dropped, which closes its socket.
HelloFail(t) ==
    /\ pc[t] = "hello"
    /\ open' = open \ {conn[t]}
    /\ conn' = [conn EXCEPT ![t] = NoConn]
    /\ pc' = [pc EXCEPT ![t] = "rollback"]
    /\ UNCHANGED <<idle, in_use, parked>>

\* Mutant: the error path forgets the reservation.
Rollback_KeepsReservation(t) ==
    /\ pc[t] = "rollback"
    /\ pc' = [pc EXCEPT ![t] = "out"]
    /\ NotifyOne
    /\ UNCHANGED <<conn, idle, in_use, open>>

\* Mutant: the error path forgets the waiters.
Rollback_Silent(t) ==
    /\ pc[t] = "rollback"
    /\ in_use' = in_use - 1
    /\ pc' = [pc EXCEPT ![t] = "out"]
    /\ UNCHANGED <<conn, idle, open, parked>>

\* The connect failed: give the reservation back, wake a waiter, return Err.
Rollback(t) ==
    /\ pc[t] = "rollback"
    /\ in_use' = in_use - 1
    /\ pc' = [pc EXCEPT ![t] = "out"]
    /\ NotifyOne
    /\ UNCHANGED <<conn, idle, open>>

-----------------------------------------------------------------------------
(***************************************************************************)
(* The end of a borrow                                                     *)
(***************************************************************************)

\* Mutant: discard() gives the slot back itself, and Drop does so again.
Discard_Decrements(t) ==
    /\ pc[t] = "holding"
    /\ open' = open \ {conn[t]}
    /\ conn' = [conn EXCEPT ![t] = NoConn]
    /\ pc' = [pc EXCEPT ![t] = "discarded"]
    /\ in_use' = in_use - 1
    /\ UNCHANGED <<idle, parked>>

\* discard(): the socket is closed before Drop takes the mutex.
Discard(t) ==
    /\ pc[t] = "holding"
    /\ open' = open \ {conn[t]}
    /\ conn' = [conn EXCEPT ![t] = NoConn]
    /\ pc' = [pc EXCEPT ![t] = "discarded"]
    /\ UNCHANGED <<idle, in_use, parked>>

\* Mutant: push_front for push_back.
DropReturn_Front(t) ==
    /\ pc[t] = "holding"
    /\ in_use' = in_use - 1
    /\ IF Len(idle) < MaxIdle
       THEN /\ idle' = <<[conn |-> conn[t], age |-> 0]>> \o idle
            /\ open' = open
       ELSE /\ idle' = idle
            /\ open' = open \ {conn[t]}
    /\ conn' = [conn EXCEPT ![t] = NoConn]
    /\ pc' = [pc EXCEPT ![t] = "out"]
    /\ NotifyOne

\* Drop for PooledConnection of a connection that is still there: back to
\* the idle queue if it has room, closed otherwise.
DropReturn(t) ==
    /\ pc[t] = "holding"
    /\ in_use' = in_use - 1
    /\ IF Len(idle) < MaxIdle
       THEN /\ idle' = Append(idle, [conn |-> conn[t], age |-> 0])
            /\ open' = open
       ELSE /\ idle' = idle
            /\ open' = open \ {conn[t]}
    /\ conn' = [conn EXCEPT ![t] = NoConn]
    /\ pc' = [pc EXCEPT ![t] = "out"]
    /\ NotifyOne

\* Mutant: only a returned connection wakes a waiter.
DropDiscarded_Silent(t) ==
    /\ pc[t] = "discarded"
    /\ in_use' = in_use - 1
    /\ pc' = [pc EXCEPT ![t] = "out"]
    /\ UNCHANGED <<conn, idle, open, parked>>

\* Drop for PooledConnection after discard().
DropDiscarded(t) ==
    /\ pc[t] = "discarded"
    /\ in_use' = in_use - 1
    /\ pc' = [pc EXCEPT ![t] = "out"]
    /\ NotifyOne
    /\ UNCHANGED <<conn, idle, open>>

\* Time passes for every idle entry alike.
Older(e) == IF e.age < IdleTimeout THEN [e EXCEPT !.age = @ + 1] ELSE e

Tick ==
    /\ \E i \in 1 .. Len(idle) : ~ Expired(idle[i])
    /\ idle' = [i \in 1 .. Len(idle) |-> Older(idle[i])]
    /\ UNCHANGED <<pc, conn, in_use, open, parked>>

-----------------------------------------------------------------------------

\* A step of a borrow the thread has begun.
Step(t) ==
    \/ ReuseIdle(t) \/ Reserve(t) \/ Wait(t)
    \/ TcpConnect(t) \/ TcpFail(t) \/ HelloOk(t) \/ HelloFail(t) \/ Rollback(t)
    \/ Discard(t) \/ DropReturn(t) \/ DropDiscarded(t)

Next ==
    \/ \E t \in Threads : Call(t) \/ Step(t) \/ SpuriousWake(t)
    \/ Tick

Spec == Init /\ [][Next]_poolVars

\* Every thread the scheduler runs keeps running until its borrow is over:
\* connect, HELLO and the calls of a borrow all end within their timeouts.
FairSpec == Spec /\ \A t \in Threads : WF_poolVars(Step(t))
-----------------------------------------------------------------------------
(***************************************************************************)
(* Properties                                                              *)
(***************************************************************************)

\* Typing of the pool's state; a thread holds a connection exactly while it
\* is in the HELLO exchange or in its borrow, and only acquiring threads wait.
TypeOK ==
    /\ pc \in [Threads -> PCs]
    /\ conn \in [Threads -> Conns \cup {NoConn}]
    /\ idle \in Seq(Entries)
    /\ in_use \in Nat
    /\ open \in SUBSET Conns
    /\ parked \in SUBSET {t \in Threads : pc[t] = "acquiring"}
    /\ \A t \in Threads : conn[t] # NoConn <=> pc[t] \in {"hello", "holding"}

\* in_use is the number of reservations outstanding, through failed connects,
\* failed HELLOs, discards and drops: none is lost and none is counted twice.
\* (A count that drifts up leaves every caller of acquire parked for good; one
\* that drifts down wraps below zero.)
Accounting == in_use = Cardinality(Reservers)

\* pool.rs:50: max_total bounds idle and in-flight connections together,
\* although the code only ever compares in_use with it.
TotalCap == in_use + Len(idle) <= MaxTotal

\* The same bound for the sockets that are really open, half-built ones
\* (HELLO not answered yet) included.
SocketCap == Cardinality(open) <= MaxTotal

\* Every open socket is held by a thread or queued idle: nothing leaks, and
\* nothing that is held or queued has been closed behind its owner's back.
NoSocketLeak == open = HeldConns \cup IdleConns

\* pool.rs:31: a connection is owned exclusively for the duration of the
\* borrow: never lent twice, never queued while lent, never queued twice.
Exclusive ==
    /\ \A t, u \in Threads : t # u /\ conn[t] = conn[u] => conn[t] = NoConn
    /\ HeldConns \cap IdleConns = {}
    /\ \A i, j \in 1 .. Len(idle) : idle[i].conn = idle[j].conn => i = j

\* The idle queue is sorted, longest idle first.  acquire relies on it: it
\* stops sweeping at the first entry that has not expired.
IdleOrdered ==
    \A i, j \in 1 .. Len(idle) : i <= j => idle[i].age >= idle[j].age

\* No wakeup is lost: while threads are parked, every free slot has a thread
\* on its way to take it, although notify_one wakes a single thread, a failed
\* connect frees a slot too, and a woken thread may find its slot taken.
NoLostWakeup ==
    parked # {} => MaxTotal - in_use <= Cardinality(Contenders)

\* pool.rs:53: whatever an acquire attempt ends in (a reused connection, a new
\* reservation or a wait), it leaves no expired connection in the queue.
SweepComplete ==
    [][\A t \in Threads :
         ReuseIdle(t) \/ Reserve(t) \/ Wait(t)
           => \A i \in 1 .. Len(idle') : ~ Expired(idle'[i])]_poolVars

\* pool.rs:22 and tenant.rs:68 say that after a failed borrow the next acquire
\* opens a fresh socket: when the discarded borrow ends, nothing is left to lend.
FreshAfterDiscard ==
    [][\A t \in Threads : DropDiscarded(t) => AllExpired]_poolVars

Lease == INSTANCE ConnLease
           WITH Borrowers <- Threads, Cap <- MaxTotal, live <- open, lent <- conn

\* The pool implements the lease specification: whatever the threads, the
\* queue and the counter do, borrowers see ConnLease.
ImplementsLease == Lease!LeaseSpec
=============================================================================
