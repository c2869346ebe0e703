----------------------------- MODULE Resp3Wire -----------------------------
(***************************************************************************)
(* One RESP3 connection as its two ends see it (connection.rs), and the    *)
(* control of the closures that run on it (tenant.rs).                     *)
(*                                                                         *)
(* A connection is the FIFO of the exchanges begun on it: requests the     *)
(* server has not answered yet, and replies on their way to, or buffered   *)
(* in, the client's decoder.  The server answers in order and the client   *)
(* reads in order; nothing in a frame says which request it answers.       *)
(***************************************************************************)
EXTENDS Sequences, Naturals

\* SKEG.VINDEX.LIST, SKEG.VSEARCH and MGET.
Commands == {"list", "search", "mget"}

\* What a reply is to the code that parses it: the shape it wants, an empty
\* array, a RESP error frame, or a frame of another shape.  Bytes that are no
\* frame at all end a read the way a reset does.
Kinds == {"ok", "empty", "error", "bad"}

Unanswered == "none"

\* send: the request goes to the end of the stream.
Sent(q, r) == Append(q, [req |-> r, reply |-> Unanswered])

\* The server answers its oldest request.
NextToAnswer(q, i) ==
    /\ q[i].reply = Unanswered
    /\ \A j \in 1 .. (i - 1) : q[j].reply # Unanswered

Answered(q, i, k) == [q EXCEPT ![i].reply = k]

\* recv finds a complete frame: the oldest reply, whatever it answers.
Arrived(q) == q # <<>> /\ Head(q).reply # Unanswered

(***************************************************************************)
(* The closures.  A tenant operation is a list of calls: vindex_info makes *)
(* one, query_filtered two, the second only if the first found candidates. *)
(* A phase is where the operation stands in it.                            *)
(***************************************************************************)
Phases == {"none", "ready", "waiting", "ok", "err"}

\* VINDEX.LIST must have a row for the index; an empty VSEARCH reply ends the
\* query early; MGET's reply must be an Array.
Succeeds(cmd, k) ==
    \/ k = "ok" /\ cmd \in {"list", "mget"}
    \/ k = "empty" /\ cmd \in {"search", "mget"}

Continues(cmd, k) == cmd = "search" /\ k = "ok"

\* Where a reply of kind k to command cmd leaves the operation.
PhaseAfter(cmd, k) ==
    IF Continues(cmd, k) THEN "ready"
    ELSE IF Succeeds(cmd, k) THEN "ok" ELSE "err"

CommandAfter(cmd, k) == IF Continues(cmd, k) THEN "mget" ELSE cmd
=============================================================================
