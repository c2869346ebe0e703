--------------------------- MODULE Resp3PoolBurst ---------------------------
(***************************************************************************)
(* Resp3Pool under a finite load: acquire is called at most MaxCalls       *)
(* times.  The condition variable is not fair to waiters: a thread that    *)
(* has just called acquire may take the slot a waiter was woken for.  With *)
(* endless new calls a waiter can therefore starve; once the load dries up *)
(* every caller must be served.                                            *)
(***************************************************************************)
EXTENDS Resp3Pool

CONSTANT MaxCalls   \* calls of acquire

ASSUME BurstAssumption == MaxCalls \in Nat /\ MaxTotal > 0

VARIABLE calls      \* calls of acquire so far

burstVars == <<pc, conn, idle, in_use, open, parked, calls>>

BurstInit == Init /\ calls = 0

BurstCall(t) ==
    /\ calls < MaxCalls
    /\ Call(t)
    /\ calls' = calls + 1

BurstStep(t) == Step(t) /\ UNCHANGED calls

BurstNext ==
    \/ \E t \in Threads :
         \/ BurstCall(t)
         \/ BurstStep(t)
         \/ SpuriousWake(t) /\ UNCHANGED calls
    \/ Tick /\ UNCHANGED calls

\* No fairness for Call (nobody has to use the pool), for SpuriousWake (the
\* wakeups the pool owes its waiters must do) or for Tick.
BurstSpec ==
    BurstInit /\ [][BurstNext]_burstVars
      /\ \A t \in Threads : WF_burstVars(BurstStep(t))

-----------------------------------------------------------------------------
\* Every call of acquire returns, with a connection or with the error of its
\* connect: no caller stays parked once the slots it waited for come back,
\* through reuse, discards, failed connects and wakeups stolen by others.
EveryAcquireReturns ==
    \A t \in Threads : pc[t] = "acquiring" ~> pc[t] \in {"holding", "out"}

\* When the load is over the whole budget is back (pool_roundtrip.rs:245
\* asserts it of one schedule): no reservation outstanding, nobody waiting,
\* and the sockets that are still open are exactly the idle ones.
BudgetComesBack ==
    <>[](in_use = 0 /\ parked = {} /\ open = IdleConns)
=============================================================================
