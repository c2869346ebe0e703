---------------------------- MODULE RecordStore ----------------------------
(***************************************************************************)
(* Writers and queries meet in the server's vector index and key-value     *)
(* store.  A Resp3Writer (writer.rs) stores a record in two calls over a   *)
(* connection of its own: VSET for the vector, SET for the envelope.  A    *)
(* query (tenant.rs) reads it in two calls: VSEARCH for the candidates,    *)
(* MGET for their envelopes.  The calls of all of them interleave.         *)
(*                                                                         *)
(* A record's content is its version: the number of the insert that wrote  *)
(* it.  The query side borrows from a pool, whose streams stay in step     *)
(* (PooledTenant!ReplyIsMine), so a query's call is one step here.         *)
(***************************************************************************)
EXTENDS Naturals, Sequences, Resp3Wire

CONSTANTS
    Writers,    \* Resp3Writer values, each over its own connection
    Readers,    \* threads that query
    Ids,        \* record ids
    Writes,     \* the ids each writer inserts
    Dim,        \* the embedding_dim each writer is opened with
    MaxInserts, \* bound on the inserts of all writers together
    MaxDrops,   \* bound on the calls of drop_index
    NoIndex     \* the server has no index of this name

ASSUME StoreAssumption ==
    /\ Writes \in [Writers -> SUBSET Ids]
    /\ Dim \in [Writers -> Nat]
    /\ MaxInserts \in Nat /\ MaxDrops \in Nat
    /\ NoIndex \notin [dim : Nat, vec : [Ids -> Nat]]

VARIABLES
    index,      \* NoIndex, or its dimension and the version of each vector
    env,        \* the version of the envelope at hansa:rec:<id>; 0 for none
    inserts,    \* the record id of each insert so far; its place is its version
    drops,      \* number of calls of drop_index
    phase,      \* where each writer stands
    cmd,        \* the command each writer's operation is at
    ver,        \* the insert each writer is at
    wire,       \* the stream of each writer's connection
    failed,     \* some call has failed on the writer's connection
    acked,      \* the last insert of each id that returned Ok in step
    qphase,     \* where each query stands
    cand,       \* its candidates: id -> version of the vector
    since       \* acked, as it was when the query began

serverVars == <<index, env>>
writerVars == <<inserts, drops, phase, cmd, ver, wire, failed, acked>>
queryVars == <<qphase, cand, since>>
vars == <<serverVars, writerVars, queryVars>>

Versions == 1 .. Len(inserts)

\* The version of the last insert that was begun for an id; 0 for none.
Latest(id) ==
    LET vs == {v \in Versions : inserts[v] = id}
    IN  IF vs = {} THEN 0 ELSE CHOOSE v \in vs : \A u \in vs : u <= v

NothingAcked == [id \in Ids |-> 0]

Init ==
    /\ index = NoIndex
    /\ env = [id \in Ids |-> 0]
    /\ inserts = <<>>
    /\ drops = 0
    /\ phase = [w \in Writers |-> "new"]
    /\ cmd = [w \in Writers |-> "create"]
    /\ ver = [w \in Writers |-> 0]
    /\ wire = [w \in Writers |-> <<>>]
    /\ failed = [w \in Writers |-> FALSE]
    /\ acked = NothingAcked
    /\ qphase = [r \in Readers |-> "idle"]
    /\ cand = [r \in Readers |-> <<>>]
    /\ since = [r \in Readers |-> NothingAcked]

-----------------------------------------------------------------------------
(***************************************************************************)
(* The writer                                                              *)
(***************************************************************************)

Request(w) == [op |-> cmd[w], ver |-> ver[w]]

\* Resp3Writer::ensure.
Ensure(w) ==
    /\ phase[w] = "new"
    /\ phase' = [phase EXCEPT ![w] = "ready"]
    /\ UNCHANGED <<serverVars, queryVars, inserts, drops, cmd, ver, wire, failed, acked>>

\* insert of a vector of the writer's dimension (another is refused before
\* anything is sent).
Insert(w) ==
    /\ phase[w] = "idle"
    /\ Len(inserts) < MaxInserts
    /\ \E id \in Writes[w] : inserts' = Append(inserts, id)
    /\ ver' = [ver EXCEPT ![w] = Len(inserts')]
    /\ cmd' = [cmd EXCEPT ![w] = "vset"]
    /\ phase' = [phase EXCEPT ![w] = "ready"]
    /\ UNCHANGED <<serverVars, queryVars, drops, wire, failed, acked>>

DropIndex(w) ==
    /\ phase[w] = "idle"
    /\ drops < MaxDrops
    /\ drops' = drops + 1
    /\ cmd' = [cmd EXCEPT ![w] = "drop"]
    /\ phase' = [phase EXCEPT ![w] = "ready"]
    /\ UNCHANGED <<serverVars, queryVars, inserts, ver, wire, failed, acked>>

\* The first half of call().
Send(w) ==
    /\ phase[w] = "ready"
    /\ wire' = [wire EXCEPT ![w] = Sent(@, Request(w))]
    /\ phase' = [phase EXCEPT ![w] = "waiting"]
    /\ UNCHANGED <<serverVars, queryVars, inserts, drops, cmd, ver, failed, acked>>

\* Mutant: ensure hands the writer out although its CREATE failed.
AfterFailure_StaysUp(w) == "idle"

\* Where an I/O error leaves the writer: ensure returns it and its connection
\* is dropped; a writer that is up returns it and stays up.
AfterFailure(w) == IF cmd[w] = "create" THEN "closed" ELSE "idle"

\* write_all fails or times out; the request may have gone out all the same.
SendFails(w) ==
    /\ phase[w] = "ready"
    /\ wire' \in {wire, [wire EXCEPT ![w] = Sent(@, Request(w))]}
    /\ failed' = [failed EXCEPT ![w] = TRUE]
    /\ phase' = [phase EXCEPT ![w] = AfterFailure(w)]
    /\ UNCHANGED <<serverVars, queryVars, inserts, drops, cmd, ver, acked>>

\* insert goes on with SET after a VSET that succeeded.
GoesOn(w, k) == cmd[w] = "vset" /\ k = "ok"

\* Mutant: an error frame is a reply like any other.
Acknowledges_AnyFrame(w, k) == cmd[w] = "set"

\* insert returns Ok.
Acknowledges(w, k) == cmd[w] = "set" /\ k = "ok"

\* The second half of call() and what the operation makes of the reply.  An
\* error frame ends every operation; only ensure takes it for success.
Recv(w) ==
    /\ phase[w] = "waiting"
    /\ Arrived(wire[w])
    /\ LET k == Head(wire[w]).reply IN
         /\ cmd' = [cmd EXCEPT ![w] = IF GoesOn(w, k) THEN "set" ELSE @]
         /\ phase' = [phase EXCEPT ![w] = IF GoesOn(w, k) THEN "ready" ELSE "idle"]
         /\ acked' = IF Acknowledges(w, k) /\ ~ failed[w]
                     THEN [acked EXCEPT ![inserts[ver[w]]] = ver[w]]
                     ELSE acked
    /\ wire' = [wire EXCEPT ![w] = Tail(@)]
    /\ UNCHANGED <<serverVars, queryVars, inserts, drops, ver, failed>>

\* Mutant: a read that timed out is followed by the same command again.
RecvFails_Resends(w) ==
    /\ phase[w] = "waiting"
    /\ Len(wire[w]) < 2
    /\ phase' = [phase EXCEPT ![w] = "ready"]
    /\ UNCHANGED <<serverVars, queryVars, inserts, drops, cmd, ver, wire, failed, acked>>

\* The 5 s read timeout, a reset, the server's close, or a parse error.
RecvFails(w) ==
    /\ phase[w] = "waiting"
    /\ failed' = [failed EXCEPT ![w] = TRUE]
    /\ phase' = [phase EXCEPT ![w] = AfterFailure(w)]
    /\ UNCHANGED <<serverVars, queryVars, inserts, drops, cmd, ver, wire, acked>>

\* The writer is dropped, or its process dies, between any two steps.  What it
\* has sent may still be carried out.
Close(w) ==
    /\ phase[w] \in {"ready", "waiting", "idle"}
    /\ phase' = [phase EXCEPT ![w] = "closed"]
    /\ UNCHANGED <<serverVars, queryVars, inserts, drops, cmd, ver, wire, failed, acked>>

-----------------------------------------------------------------------------
(***************************************************************************)
(* The server (external): it carries out the oldest request of a           *)
(* connection, or refuses it with an error frame and changes nothing.      *)
(***************************************************************************)
EmptyIndex(d) == [dim |-> d, vec |-> [id \in Ids |-> 0]]

Execute(w, q) ==
    \/ /\ q.op = "create" /\ index = NoIndex
       /\ index' = EmptyIndex(Dim[w])
       /\ env' = env
    \/ /\ q.op = "drop" /\ index # NoIndex
       /\ index' = NoIndex
       /\ env' = env
    \/ /\ q.op = "vset" /\ index # NoIndex /\ index.dim = Dim[w]
       /\ index' = [index EXCEPT !.vec[inserts[q.ver]] = q.ver]
       /\ env' = env
    \/ /\ q.op = "set"
       /\ env' = [env EXCEPT ![inserts[q.ver]] = q.ver]
       /\ index' = index

Serve(w) ==
    /\ \E i \in 1 .. Len(wire[w]) :
         /\ NextToAnswer(wire[w], i)
         /\ \/ /\ Execute(w, wire[w][i].req)
               /\ wire' = [wire EXCEPT ![w] = Answered(@, i, "ok")]
            \/ /\ wire' = [wire EXCEPT ![w] = Answered(@, i, "error")]
               /\ UNCHANGED serverVars
    /\ UNCHANGED <<queryVars, inserts, drops, phase, cmd, ver, failed, acked>>

-----------------------------------------------------------------------------
(***************************************************************************)
(* The query                                                               *)
(***************************************************************************)
BeginQuery(r) ==
    /\ qphase[r] = "idle"
    /\ qphase' = [qphase EXCEPT ![r] = "search"]
    /\ since' = [since EXCEPT ![r] = acked]
    /\ UNCHANGED <<serverVars, writerVars, cand>>

Stored == {id \in Ids : index # NoIndex /\ index.vec[id] # 0}

\* The query returns; nothing of it is kept.
EndQuery(r) ==
    /\ qphase' = [qphase EXCEPT ![r] = "idle"]
    /\ cand' = [cand EXCEPT ![r] = <<>>]
    /\ since' = [since EXCEPT ![r] = NothingAcked]

\* VSEARCH: any of the stored vectors may be the nearest ones.
Search(r) ==
    /\ qphase[r] = "search"
    /\ index # NoIndex
    /\ \E near \in SUBSET Stored \ {{}} :
         cand' = [cand EXCEPT ![r] = [id \in near |-> index.vec[id]]]
    /\ qphase' = [qphase EXCEPT ![r] = "fetch"]
    /\ UNCHANGED <<serverVars, writerVars, since>>

\* What MGET and the loop over its rows would make of the candidates now: a
\* candidate without an envelope is skipped.  The filter may drop more.
Hits(r) ==
    {[id |-> id, vec |-> cand[r][id], env |-> env[id]] :
       id \in {c \in DOMAIN cand[r] : env[c] # 0}}

\* MGET.
Fetch(r) ==
    /\ qphase[r] = "fetch"
    /\ EndQuery(r)
    /\ UNCHANGED <<serverVars, writerVars>>

\* VSEARCH finds no candidates, or a call ends in an error.
EndsEarly(r) ==
    /\ qphase[r] \in {"search", "fetch"}
    /\ EndQuery(r)
    /\ UNCHANGED <<serverVars, writerVars>>

-----------------------------------------------------------------------------
Next ==
    \/ \E w \in Writers :
         \/ Ensure(w) \/ Insert(w) \/ DropIndex(w)
         \/ Send(w) \/ SendFails(w) \/ Recv(w) \/ RecvFails(w) \/ Close(w)
         \/ Serve(w)
    \/ \E r \in Readers : BeginQuery(r) \/ Search(r) \/ Fetch(r) \/ EndsEarly(r)

Spec == Init /\ [][Next]_vars

-----------------------------------------------------------------------------
(***************************************************************************)
(* Properties                                                              *)
(***************************************************************************)
Ops == {"create", "vset", "set", "drop"}

\* Typing.  A writer exists only if its CREATE was answered, an insert in
\* progress is one of the inserts begun, and a candidate is a vector of its id.
TypeOK ==
    /\ index = NoIndex \/ index \in [dim : Nat, vec : [Ids -> {0} \cup Versions]]
    /\ env \in [Ids -> {0} \cup Versions]
    /\ inserts \in Seq(Ids)
    /\ drops \in 0 .. MaxDrops
    /\ phase \in [Writers -> {"new", "ready", "waiting", "idle", "closed"}]
    /\ cmd \in [Writers -> Ops]
    /\ ver \in [Writers -> {0} \cup Versions]
    /\ failed \in [Writers -> BOOLEAN]
    /\ acked \in [Ids -> {0} \cup Versions]
    /\ qphase \in [Readers -> {"idle", "search", "fetch"}]
    /\ \A w \in Writers :
         /\ cmd[w] \in {"vset", "set"} => ver[w] # 0 /\ inserts[ver[w]] \in Writes[w]
         /\ cmd[w] = "create" /\ failed[w] => phase[w] = "closed"
         /\ \A i \in 1 .. Len(wire[w]) : wire[w][i].req.ver <= ver[w]

\* Each id is inserted over one connection only.  Nothing in the code sees to
\* it: two writers that insert the same id, or a new writer while requests of a
\* dead one are on their way, may leave one's vector with the other's envelope.
OneWriterPerId == \A w, x \in Writers : w # x => Writes[w] \cap Writes[x] = {}

\* writer.rs:72: an insert that returned Ok is stored, envelope and vector, and
\* is not undone by a query, a crash or another id's insert: as long as no call
\* has failed on the writer's connection when it returns, and until somebody
\* drops the index.
AckedIsStored ==
    OneWriterPerId =>
      \A id \in Ids : acked[id] # 0 =>
        /\ env[id] >= acked[id]
        /\ drops = 0 => index # NoIndex /\ index.vec[id] >= acked[id]

\* No part of a hit is older than the last insert of its id that had returned
\* Ok when the query began: a record that was made private is not handed out
\* with its old envelope afterwards, and if no newer insert of the id has been
\* begun the vector and the envelope of the hit belong together.
ReadsAcked ==
    OneWriterPerId =>
      \A r \in Readers : qphase[r] = "fetch" =>
        \A h \in Hits(r) :
          h.env >= since[r][h.id] /\ h.vec >= since[r][h.id]

\* writer.rs:131 says each call is a synchronous round trip, so that nothing is
\* left to flush: when insert returns Ok its envelope is in the store.
InsertOkIsStored ==
    [][\A w \in Writers :
         Recv(w) /\ Acknowledges(w, Head(wire[w]).reply)
           => env[inserts[ver[w]]] >= ver[w]]_vars

\* writer.rs:25 says ensure makes sure that the index exists at embedding_dim.
EnsuredIndex ==
    [][\A w \in Writers :
         Recv(w) /\ cmd[w] = "create"
           => index # NoIndex /\ index.dim = Dim[w]]_vars
=============================================================================
