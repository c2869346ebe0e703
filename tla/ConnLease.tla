----------------------------- MODULE ConnLease -----------------------------
(***************************************************************************)
(* What Resp3Pool promises its borrowers, without threads, locks, queues,  *)
(* ages or counters: at most Cap sockets are live at once, a live          *)
(* connection is lent to at most one borrower, and a socket dies only in   *)
(* the hands of its borrower or while nobody holds it.                     *)
(***************************************************************************)
EXTENDS Naturals, FiniteSets

CONSTANTS Borrowers, Conns, NoConn, Cap

VARIABLES
    live,   \* open sockets
    lent    \* what each borrower holds, NoConn if nothing

leaseVars == <<live, lent>>

LeaseInit ==
    /\ live = {}
    /\ lent = [b \in Borrowers |-> NoConn]

\* Live connections nobody holds.
Warm == live \ {lent[b] : b \in Borrowers}

Open(b, c) ==
    /\ lent[b] = NoConn
    /\ Cardinality(live) < Cap
    /\ c \notin live
    /\ live' = live \cup {c}
    /\ lent' = [lent EXCEPT ![b] = c]

\* Lending may retire other warm connections on the way.
Lend(b, c, retired) ==
    /\ lent[b] = NoConn
    /\ c \in Warm \ retired
    /\ live' = live \ retired
    /\ lent' = [lent EXCEPT ![b] = c]

Retire(retired) ==
    /\ live' = live \ retired
    /\ UNCHANGED lent

GiveBack(b) ==
    /\ lent[b] # NoConn
    /\ lent' = [lent EXCEPT ![b] = NoConn]
    /\ UNCHANGED live

Close(b) ==
    /\ lent[b] # NoConn
    /\ live' = live \ {lent[b]}
    /\ lent' = [lent EXCEPT ![b] = NoConn]

LeaseNext ==
    \/ \E b \in Borrowers :
         \/ GiveBack(b) \/ Close(b)
         \/ \E c \in Conns : Open(b, c) \/ \E r \in SUBSET Warm : Lend(b, c, r)
    \/ \E r \in SUBSET Warm : Retire(r)

LeaseSpec == LeaseInit /\ [][LeaseNext]_leaseVars
=============================================================================
