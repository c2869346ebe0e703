-------------------------- MODULE RecordStoreProofs --------------------------
(***************************************************************************)
(* Theorems about RecordStore, for every set of writers, readers and ids   *)
(* and every number of inserts.                                            *)
(***************************************************************************)
EXTENDS RecordStore, Resp3WireProofs

Requests == [op : Ops, ver : Nat]

\* TypeOK, with the sequences, and what the requests of a stream are about: a
\* writer's own inserts, in the order they were begun.
RequestsOK(w) ==
    /\ \A i \in 1 .. Len(wire[w]) :
         /\ wire[w][i].req.op \in {"vset", "set"} =>
              /\ wire[w][i].req.ver \in Versions
              /\ inserts[wire[w][i].req.ver] \in Writes[w]
         /\ wire[w][i].req.op = "drop" => drops # 0
    /\ \A i, j \in 1 .. Len(wire[w]) :
         i <= j => wire[w][i].req.ver <= wire[w][j].req.ver
    /\ cmd[w] = "drop" => drops # 0

TypeInv ==
    /\ TypeOK
    /\ wire \in [Writers -> Seq(Exchange(Requests))]
    /\ \A w \in Writers : RequestsOK(w)

\* The version of the vector that is stored for an id; 0 for none.
VecAt(id) == IF index = NoIndex THEN 0 ELSE index.vec[id]

\* What is stored is older than what is under way.
InOrder(w) ==
    /\ \A id \in Writes[w] : env[id] <= ver[w] /\ VecAt(id) <= ver[w]
    /\ \A i \in 1 .. Len(wire[w]), id \in Writes[w] :
         LET r == wire[w][i].req IN
         wire[w][i].reply = Unanswered /\ inserts[r.ver] = id =>
           /\ r.op = "set" => env[id] <= r.ver
           /\ r.op = "vset" => VecAt(id) <= r.ver /\ acked[id] <= r.ver

\* Until a call fails, a stream holds the exchange its writer waits for.
InStep(w) ==
    ~ failed[w] =>
      /\ phase[w] \in {"new", "ready", "idle"} => wire[w] = <<>>
      /\ phase[w] = "waiting" => Len(wire[w]) = 1 /\ wire[w][1].req = Request(w)

VectorStored(w) ==
    \A id \in Writes[w] : inserts[ver[w]] = id =>
      /\ VecAt(id) # 0 => VecAt(id) >= ver[w]
      /\ drops = 0 => VecAt(id) # 0

\* Until a call fails, what was answered with Ok was done.
DoneInStep(w) ==
    ~ failed[w] =>
      /\ phase[w] \in {"new", "ready", "waiting"} /\ cmd[w] = "set" => VectorStored(w)
      /\ phase[w] = "waiting" /\ wire[w][1].reply = "ok" =>
           /\ cmd[w] = "vset" => VectorStored(w)
           /\ cmd[w] = "set" => env[inserts[ver[w]]] >= ver[w]

AckedInv ==
    \A id \in Ids :
      /\ env[id] >= acked[id]
      /\ VecAt(id) # 0 => VecAt(id) >= acked[id]
      /\ drops = 0 /\ acked[id] # 0 => VecAt(id) # 0

\* A query's candidates are no older than what was acknowledged when it began.
QueryInv ==
    \A r \in Readers :
      /\ \A id \in Ids : since[r][id] <= acked[id]
      /\ qphase[r] = "fetch" =>
           /\ DOMAIN cand[r] \subseteq Ids
           /\ \A id \in DOMAIN cand[r] : cand[r][id] >= since[r][id]

WriterInv(w) == InOrder(w) /\ InStep(w) /\ DoneInStep(w)

OrderInv == AckedInv /\ QueryInv /\ \A w \in Writers : WriterInv(w)

QueryTypes ==
    /\ since \in [Readers -> [Ids -> Nat]]
    /\ cand = [r \in Readers |-> cand[r]]

-----------------------------------------------------------------------------
(***************************************************************************)
(* Typing                                                                  *)
(***************************************************************************)
Values == {0} \cup Versions

LEMMA Facts ==
    ASSUME TypeInv
    PROVE  /\ Len(inserts) \in Nat /\ inserts \in Seq(Ids)
           /\ \A v : v \in Values <=> v \in Nat /\ v <= Len(inserts)
           /\ \A v : v \in Versions <=> v \in Values /\ v # 0
           /\ \A v \in Versions : inserts[v] \in Ids
           /\ \A w \in Writers :
                /\ Writes[w] \subseteq Ids
                /\ ver[w] \in Values
                /\ wire[w] \in Seq(Exchange(Requests)) /\ Len(wire[w]) \in Nat
                /\ cmd[w] \in {"vset", "set"} =>
                     ver[w] \in Versions /\ inserts[ver[w]] \in Writes[w]
           /\ \A id \in Ids : env[id] \in Values /\ acked[id] \in Values /\ VecAt(id) \in Values
  <1>1. TypeOK /\ inserts \in Seq(Ids) /\ Len(inserts) \in Nat
    BY LenProperties DEF TypeInv, TypeOK
  <1>2. /\ \A v : v \in Values <=> v \in Nat /\ v <= Len(inserts)
        /\ \A v : v \in Versions <=> v \in Values /\ v # 0
    BY <1>1 DEF Values, Versions
  <1>3. \A v \in Versions : inserts[v] \in Ids
    BY <1>1, ElementOfSeq DEF Versions
  <1>4. ASSUME NEW w \in Writers
        PROVE  /\ Writes[w] \subseteq Ids
               /\ ver[w] \in Values
               /\ wire[w] \in Seq(Exchange(Requests)) /\ Len(wire[w]) \in Nat
               /\ cmd[w] \in {"vset", "set"} =>
                    ver[w] \in Versions /\ inserts[ver[w]] \in Writes[w]
    <2>1. Writes[w] \subseteq Ids
      BY StoreAssumption DEF StoreAssumption
    <2>2. wire[w] \in Seq(Exchange(Requests))
      BY DEF TypeInv
    <2>3. Len(wire[w]) \in Nat
      BY <2>2, LenProperties
    <2>4. QED
      BY <1>1, <1>2, <2>1, <2>2, <2>3 DEF TypeOK, Values
  <1>5. \A id \in Ids : env[id] \in Values /\ acked[id] \in Values /\ VecAt(id) \in Values
    BY <1>1 DEF TypeOK, Values, VecAt
  <1>6. QED
    BY <1>1, <1>2, <1>3, <1>4, <1>5

LEMMA TypeInit == Init => TypeInv
  <1> SUFFICES ASSUME Init PROVE TypeInv
    OBVIOUS
  <1>1. inserts \in Seq(Ids) /\ Len(inserts) = 0
    BY EmptySeq DEF Init
  <1>2. wire \in [Writers -> Seq(Exchange(Requests))] /\ \A w \in Writers : Len(wire[w]) = 0
    BY EmptySeq DEF Init
  <1>3. 0 \in {0} \cup Versions
    OBVIOUS
  <1>4. \A w \in Writers : 1 .. Len(wire[w]) = {}
    BY <1>2
  <1>5. drops \in 0 .. MaxDrops
    BY StoreAssumption DEF Init, StoreAssumption
  <1>6. TypeOK
    BY <1>1, <1>2, <1>3, <1>4, <1>5 DEF Init, TypeOK, NothingAcked, Ops
  <1>7. \A w \in Writers : RequestsOK(w)
    BY <1>4 DEF Init, RequestsOK
  <1>8. QED
    BY <1>2, <1>6, <1>7 DEF TypeInv

\* The requests of a writer that sends nothing, whatever others insert or drop.
LEMMA RequestsStay ==
    ASSUME TypeInv, NEW w \in Writers, wire'[w] = wire[w],
           cmd'[w] = "drop" => drops' # 0,
           Versions \subseteq Versions', \A v \in Versions : inserts'[v] = inserts[v],
           drops # 0 => drops' # 0
    PROVE  RequestsOK(w)'
  BY DEF TypeInv, RequestsOK

LEMMA TypeWriterSteps ==
    ASSUME TypeInv, NEW w \in Writers,
           Ensure(w) \/ DropIndex(w) \/ RecvFails(w) \/ Close(w)
    PROVE  TypeInv'
  <1>t. TypeOK /\ wire \in [Writers -> Seq(Exchange(Requests))]
    BY DEF TypeInv
  <1>k. UNCHANGED <<serverVars, queryVars, inserts, ver, wire, acked>>
    BY DEF Ensure, DropIndex, RecvFails, Close
  <1>1. /\ drops' \in 0 .. MaxDrops /\ (drops # 0 => drops' # 0)
        /\ \A x \in Writers : cmd'[x] = "drop" => cmd[x] = "drop" \/ drops' # 0
    <2>1. CASE DropIndex(w)
      BY <1>t, <2>1, StoreAssumption DEF DropIndex, TypeOK, StoreAssumption
    <2>2. CASE Ensure(w) \/ RecvFails(w) \/ Close(w)
      BY <1>t, <2>2 DEF Ensure, RecvFails, Close, TypeOK
    <2>3. QED
      BY <2>1, <2>2
  <1>2. \A x \in Writers : RequestsOK(x)'
    BY <1>k, <1>1, RequestsStay DEF TypeInv, RequestsOK, Versions
  <1>3. TypeOK'
    <2>1. CASE Ensure(w)
      BY <1>t, <1>k, <2>1 DEF Ensure, TypeOK, serverVars, queryVars, Versions
    <2>2. CASE DropIndex(w)
      BY <1>t, <1>k, <1>1, <2>2 DEF DropIndex, TypeOK, serverVars, queryVars, Versions, Ops
    <2>3. CASE RecvFails(w)
      BY <1>t, <1>k, <2>3
      DEF RecvFails, AfterFailure, TypeOK, serverVars, queryVars, Versions
    <2>4. CASE Close(w)
      BY <1>t, <1>k, <2>4 DEF Close, TypeOK, serverVars, queryVars, Versions
    <2>5. QED
      BY <2>1, <2>2, <2>3, <2>4
  <1>4. QED
    BY <1>t, <1>k, <1>2, <1>3 DEF TypeInv

\* What an insert adds.
LEMMA InsertFacts ==
    ASSUME TypeInv, NEW w \in Writers, Insert(w)
    PROVE  /\ inserts' \in Seq(Ids) /\ Len(inserts') = Len(inserts) + 1
           /\ Versions \subseteq Versions' /\ Len(inserts') \in Versions'
           /\ \A v \in Versions : inserts'[v] = inserts[v]
           /\ inserts'[Len(inserts')] \in Writes[w]
           /\ ver' = [ver EXCEPT ![w] = Len(inserts')]
           /\ cmd' = [cmd EXCEPT ![w] = "vset"]
           /\ phase[w] = "idle" /\ phase' = [phase EXCEPT ![w] = "ready"]
           /\ UNCHANGED <<serverVars, queryVars, drops, wire, failed, acked>>
  <1>1. PICK id \in Writes[w] : inserts' = Append(inserts, id)
    BY DEF Insert
  <1>2. inserts \in Seq(Ids) /\ Len(inserts) \in Nat /\ id \in Ids
    BY <1>1, Facts
  <1>3. /\ inserts' \in Seq(Ids) /\ Len(inserts') = Len(inserts) + 1
        /\ \A i \in 1 .. Len(inserts) : inserts'[i] = inserts[i]
        /\ inserts'[Len(inserts) + 1] = id
    BY <1>1, <1>2, AppendProperties
  <1>4. Versions \subseteq Versions' /\ Len(inserts') \in Versions'
    BY <1>2, <1>3 DEF Versions
  <1>5. QED
    BY <1>3, <1>4 DEF Insert, Versions

LEMMA TypeInsert ==
    ASSUME TypeInv, NEW w \in Writers, Insert(w)
    PROVE  TypeInv'
  <1>t. TypeOK /\ wire \in [Writers -> Seq(Exchange(Requests))] /\ Len(inserts) \in Nat
    BY Facts DEF TypeInv
  <1>f. /\ inserts' \in Seq(Ids) /\ Len(inserts') = Len(inserts) + 1
        /\ Versions \subseteq Versions' /\ Len(inserts') \in Versions'
        /\ \A v \in Versions : inserts'[v] = inserts[v]
        /\ inserts'[Len(inserts')] \in Writes[w]
        /\ ver' = [ver EXCEPT ![w] = Len(inserts')]
        /\ cmd' = [cmd EXCEPT ![w] = "vset"]
        /\ phase[w] = "idle" /\ phase' = [phase EXCEPT ![w] = "ready"]
        /\ UNCHANGED <<serverVars, queryVars, drops, wire, failed, acked>>
    BY InsertFacts
  <1>1. \A x \in Writers : RequestsOK(x)'
    BY <1>t, <1>f, RequestsStay DEF TypeInv, TypeOK, RequestsOK
  <1>2. index' = NoIndex \/ index' \in [dim : Nat, vec : [Ids -> {0} \cup Versions']]
    BY <1>t, <1>f DEF TypeOK, serverVars
  <1>3. env' \in [Ids -> {0} \cup Versions'] /\ acked' \in [Ids -> {0} \cup Versions']
    BY <1>t, <1>f DEF TypeOK, serverVars
  <1>4. ver' \in [Writers -> {0} \cup Versions']
    BY <1>t, <1>f DEF TypeOK
  <1>5. \A x \in Writers :
          /\ cmd'[x] \in {"vset", "set"} => ver'[x] # 0 /\ inserts'[ver'[x]] \in Writes[x]
          /\ \A i \in 1 .. Len(wire'[x]) : wire'[x][i].req.ver <= ver'[x]
    <2> SUFFICES ASSUME NEW x \in Writers
                 PROVE  /\ cmd'[x] \in {"vset", "set"}
                             => ver'[x] # 0 /\ inserts'[ver'[x]] \in Writes[x]
                        /\ \A i \in 1 .. Len(wire[x]) : wire[x][i].req.ver <= ver'[x]
      BY <1>f
    <2>1. CASE x # w
      BY <1>t, <1>f, <2>1 DEF TypeOK
    <2>2. CASE x = w
      <3>1. ver'[w] = Len(inserts) + 1 /\ ver[w] \in Nat /\ ver[w] <= Len(inserts)
        BY <1>t, <1>f, Facts DEF TypeOK
      <3>2. \A i \in 1 .. Len(wire[w]) : wire[w][i].req.ver \in Nat
        <4>1. \A i \in 1 .. Len(wire[w]) : wire[w][i] \in Exchange(Requests)
          BY <1>t, ElementOfSeq
        <4>2. QED
          BY <4>1 DEF Exchange, Requests
      <3>3. QED
        BY <1>t, <1>f, <2>2, <3>1, <3>2 DEF TypeOK
    <2>3. QED
      BY <2>1, <2>2
  <1>6. TypeOK'
    BY <1>t, <1>f, <1>2, <1>3, <1>4, <1>5 DEF TypeOK, Ops, queryVars
  <1>7. QED
    BY <1>t, <1>f, <1>1, <1>6 DEF TypeInv

\* What a request adds to its writer's stream.
LEMMA SendFacts ==
    ASSUME TypeInv, NEW w \in Writers, phase[w] = "ready",
           wire' = [wire EXCEPT ![w] = Sent(wire[w], Request(w))]
    PROVE  /\ wire' \in [Writers -> Seq(Exchange(Requests))]
           /\ Len(wire'[w]) = Len(wire[w]) + 1
           /\ \A i \in 1 .. Len(wire[w]) : wire'[w][i] = wire[w][i]
           /\ wire'[w][Len(wire[w]) + 1] = [req |-> Request(w), reply |-> Unanswered]
           /\ \A i \in 1 .. Len(wire'[w]) : i \in 1 .. Len(wire[w]) \/ i = Len(wire[w]) + 1
           /\ wire[w] = <<>> => Len(wire'[w]) = 1
           /\ \A x \in Writers : x # w => wire'[x] = wire[x]
  <1>1. Request(w) \in Requests
    BY Facts DEF TypeInv, TypeOK, Request, Requests
  <1>2. wire \in [Writers -> Seq(Exchange(Requests))] /\ wire[w] \in Seq(Exchange(Requests))
        /\ Len(wire[w]) \in Nat /\ (wire[w] = <<>> => Len(wire[w]) = 0)
    BY Facts, EmptySeq DEF TypeInv
  <1>3. wire'[w] = Sent(wire[w], Request(w)) /\ \A x \in Writers : x # w => wire'[x] = wire[x]
    BY <1>2
  <1>4. /\ Sent(wire[w], Request(w)) \in Seq(Exchange(Requests))
        /\ Len(Sent(wire[w], Request(w))) = Len(wire[w]) + 1
        /\ \A i \in 1 .. Len(wire[w]) : Sent(wire[w], Request(w))[i] = wire[w][i]
        /\ Sent(wire[w], Request(w))[Len(wire[w]) + 1]
             = [req |-> Request(w), reply |-> Unanswered]
    BY <1>1, <1>2, StreamAfterSend
  <1>5. QED
    BY <1>2, <1>3, <1>4

LEMMA RequestVersions ==
    ASSUME TypeInv, NEW w \in Writers, NEW i \in 1 .. Len(wire[w])
    PROVE  /\ wire[w][i] \in Exchange(Requests)
           /\ wire[w][i].req.ver \in Nat /\ wire[w][i].req.op \in Ops
           /\ wire[w][i].req.ver <= ver[w]
  <1>1. wire[w][i] \in Exchange(Requests)
    BY Facts, ElementOfSeq
  <1>2. QED
    BY <1>1 DEF Exchange, Requests, TypeInv, TypeOK

LEMMA TypeSend ==
    ASSUME TypeInv, NEW w \in Writers, Send(w) \/ SendFails(w)
    PROVE  TypeInv'
  <1>t. TypeOK /\ wire \in [Writers -> Seq(Exchange(Requests))]
    BY DEF TypeInv
  <1>k. /\ phase[w] = "ready"
        /\ wire' \in {wire, [wire EXCEPT ![w] = Sent(wire[w], Request(w))]}
        /\ UNCHANGED <<serverVars, queryVars, inserts, drops, cmd, ver, acked>>
    BY DEF Send, SendFails
  <1>1. /\ phase' \in [Writers -> {"new", "ready", "waiting", "idle", "closed"}]
        /\ failed' \in [Writers -> BOOLEAN]
        /\ \A x \in Writers : cmd'[x] = "create" /\ failed'[x] => phase'[x] = "closed"
    BY <1>t, <1>k DEF Send, SendFails, AfterFailure, TypeOK
  <1>2. ASSUME wire' = wire
        PROVE  TypeInv'
    <2>1. \A x \in Writers : RequestsOK(x)'
      BY <1>k, <1>2 DEF TypeInv, RequestsOK, Versions
    <2>2. TypeOK'
      BY <1>t, <1>k, <1>1, <1>2 DEF TypeOK, Versions, serverVars, queryVars
    <2>3. QED
      BY <1>t, <1>2, <2>1, <2>2 DEF TypeInv
  <1>3. ASSUME wire' = [wire EXCEPT ![w] = Sent(wire[w], Request(w))]
        PROVE  TypeInv'
    <2>f. /\ wire' \in [Writers -> Seq(Exchange(Requests))]
          /\ Len(wire'[w]) = Len(wire[w]) + 1
          /\ \A i \in 1 .. Len(wire[w]) : wire'[w][i] = wire[w][i]
          /\ wire'[w][Len(wire[w]) + 1] = [req |-> Request(w), reply |-> Unanswered]
          /\ \A i \in 1 .. Len(wire'[w]) : i \in 1 .. Len(wire[w]) \/ i = Len(wire[w]) + 1
          /\ \A x \in Writers : x # w => wire'[x] = wire[x]
      BY <1>k, <1>3, SendFacts
    <2>1. \A i \in 1 .. Len(wire[w]) :
             wire[w][i].req.ver \in Nat /\ wire[w][i].req.ver <= ver[w]
      BY RequestVersions
    <2>2. /\ ver[w] \in Nat /\ Len(wire[w]) \in Nat
          /\ cmd[w] \in {"vset", "set"} => ver[w] \in Versions /\ inserts[ver[w]] \in Writes[w]
      BY Facts
    <2>3. Request(w).op = cmd[w] /\ Request(w).ver = ver[w]
      BY DEF Request
    <2>4. \A i \in 1 .. Len(wire'[w]) : wire'[w][i].req.ver <= ver[w]
      BY <2>f, <2>1, <2>2, <2>3
    <2>5. TypeOK'
      <3>1. \A x \in Writers : \A i \in 1 .. Len(wire'[x]) : wire'[x][i].req.ver <= ver'[x]
        BY <1>t, <1>k, <2>f, <2>4 DEF TypeOK
      <3>2. QED
        BY <1>t, <1>k, <1>1, <3>1 DEF TypeOK, Versions, serverVars, queryVars
    <2>6. RequestsOK(w)'
      <3>1. RequestsOK(w)
        BY DEF TypeInv
      <3> DEFINE last == Len(wire[w]) + 1
      <3>l. wire'[w][last].req.op = cmd[w] /\ wire'[w][last].req.ver = ver[w]
        BY <2>f, <2>3
      <3>2. ASSUME NEW i \in 1 .. Len(wire'[w])
            PROVE  /\ wire'[w][i].req.op \in {"vset", "set"} =>
                        /\ wire'[w][i].req.ver \in Versions
                        /\ inserts[wire'[w][i].req.ver] \in Writes[w]
                   /\ wire'[w][i].req.op = "drop" => drops # 0
        <4>1. CASE i = last
          BY <2>2, <3>l, <3>1, <4>1 DEF RequestsOK
        <4>2. CASE i \in 1 .. Len(wire[w])
          <5>1. wire'[w][i] = wire[w][i]
            BY <2>f, <4>2
          <5>2. QED
            BY <3>1, <4>2, <5>1 DEF RequestsOK
        <4>3. QED
          BY <2>f, <4>1, <4>2
      <3>3. ASSUME NEW i \in 1 .. Len(wire'[w]), NEW j \in 1 .. Len(wire'[w]), i <= j
            PROVE  wire'[w][i].req.ver <= wire'[w][j].req.ver
        <4>1. CASE j = last
          BY <2>4, <3>l, <4>1
        <4>2. CASE j \in 1 .. Len(wire[w])
          <5>1. i \in 1 .. Len(wire[w])
            BY <2>2, <3>3, <4>2
          <5>2. wire'[w][i] = wire[w][i] /\ wire'[w][j] = wire[w][j]
            BY <2>f, <4>2, <5>1
          <5>3. QED
            BY <3>1, <3>3, <4>2, <5>1, <5>2 DEF RequestsOK
        <4>3. QED
          BY <2>f, <4>1, <4>2
      <3>4. QED
        BY <1>k, <3>1, <3>2, <3>3 DEF RequestsOK, Versions
    <2>7. \A x \in Writers : x # w => RequestsOK(x)'
      BY <1>k, <2>f DEF TypeInv, RequestsOK, Versions
    <2>8. QED
      BY <2>f, <2>5, <2>6, <2>7 DEF TypeInv
  <1>4. QED
    BY <1>k, <1>2, <1>3

\* What reading a reply takes from the stream.
LEMMA RecvFacts ==
    ASSUME TypeInv, NEW w \in Writers, Arrived(wire[w]),
           wire' = [wire EXCEPT ![w] = Tail(wire[w])]
    PROVE  /\ wire' \in [Writers -> Seq(Exchange(Requests))]
           /\ Head(wire[w]) = wire[w][1] /\ 1 \in 1 .. Len(wire[w])
           /\ Head(wire[w]).reply \in Kinds
           /\ \A i \in 1 .. Len(wire'[w]) :
                i + 1 \in 1 .. Len(wire[w]) /\ wire'[w][i] = wire[w][i + 1]
           /\ Len(wire[w]) = 1 => wire'[w] = <<>>
           /\ \A x \in Writers : x # w => wire'[x] = wire[x]
  <1>1. wire \in [Writers -> Seq(Exchange(Requests))] /\ wire[w] \in Seq(Exchange(Requests))
    BY DEF TypeInv
  <1>2. wire'[w] = Tail(wire[w]) /\ \A x \in Writers : x # w => wire'[x] = wire[x]
    BY <1>1
  <1>3. QED
    BY <1>1, <1>2, StreamAfterRecv

LEMMA TypeRecv ==
    ASSUME TypeInv, NEW w \in Writers, Recv(w)
    PROVE  TypeInv'
  <1> DEFINE k == Head(wire[w]).reply
  <1>t. TypeOK /\ wire \in [Writers -> Seq(Exchange(Requests))]
    BY DEF TypeInv
  <1>k. /\ phase[w] = "waiting" /\ Arrived(wire[w])
        /\ cmd' = [cmd EXCEPT ![w] = IF GoesOn(w, k) THEN "set" ELSE cmd[w]]
        /\ phase' = [phase EXCEPT ![w] = IF GoesOn(w, k) THEN "ready" ELSE "idle"]
        /\ acked' = IF Acknowledges(w, k) /\ ~ failed[w]
                    THEN [acked EXCEPT ![inserts[ver[w]]] = ver[w]]
                    ELSE acked
        /\ wire' = [wire EXCEPT ![w] = Tail(wire[w])]
        /\ UNCHANGED <<serverVars, queryVars, inserts, drops, ver, failed>>
    BY DEF Recv
  <1>f. /\ wire' \in [Writers -> Seq(Exchange(Requests))]
        /\ \A i \in 1 .. Len(wire'[w]) :
             i + 1 \in 1 .. Len(wire[w]) /\ wire'[w][i] = wire[w][i + 1]
        /\ \A x \in Writers : x # w => wire'[x] = wire[x]
    BY <1>k, RecvFacts
  <1>1. acked' \in [Ids -> {0} \cup Versions]
    BY <1>t, <1>k, Facts DEF TypeOK, Acknowledges
  <1>2. /\ cmd' \in [Writers -> Ops]
        /\ phase' \in [Writers -> {"new", "ready", "waiting", "idle", "closed"}]
        /\ \A x \in Writers :
             /\ cmd'[x] \in {"vset", "set"} => ver[x] # 0 /\ inserts[ver[x]] \in Writes[x]
             /\ cmd'[x] = "create" /\ failed[x] => phase'[x] = "closed"
             /\ cmd'[x] = "drop" => cmd[x] = "drop"
    BY <1>t, <1>k DEF TypeOK, GoesOn, Ops
  <1>3. ASSUME NEW x \in Writers, NEW i \in 1 .. Len(wire'[x])
        PROVE  wire'[x][i].req.ver <= ver[x]
    <2>1. CASE x = w
      <3>1. i + 1 \in 1 .. Len(wire[w]) /\ wire'[w][i] = wire[w][i + 1]
        BY <1>f, <1>3, <2>1
      <3>2. QED
        BY <2>1, <3>1, RequestVersions
    <2>2. CASE x # w
      BY <1>f, <1>3, <2>2, RequestVersions
    <2>3. QED
      BY <2>1, <2>2
  <1>4. TypeOK'
    BY <1>t, <1>k, <1>1, <1>2, <1>3 DEF TypeOK, Versions, serverVars, queryVars
  <1>5. \A x \in Writers : RequestsOK(x)'
    <2>1. RequestsOK(w)'
      <3>1. RequestsOK(w) /\ (cmd'[w] = "drop" => cmd[w] = "drop")
        BY <1>2 DEF TypeInv
      <3>2. \A i \in 1 .. Len(wire'[w]) :
               /\ wire'[w][i].req.op \in {"vset", "set"} =>
                    /\ wire'[w][i].req.ver \in Versions
                    /\ inserts[wire'[w][i].req.ver] \in Writes[w]
               /\ wire'[w][i].req.op = "drop" => drops # 0
        BY <1>f, <3>1 DEF RequestsOK
      <3>3. ASSUME NEW i \in 1 .. Len(wire'[w]), NEW j \in 1 .. Len(wire'[w]), i <= j
            PROVE  wire'[w][i].req.ver <= wire'[w][j].req.ver
        <4>1. /\ i + 1 \in 1 .. Len(wire[w]) /\ wire'[w][i] = wire[w][i + 1]
              /\ j + 1 \in 1 .. Len(wire[w]) /\ wire'[w][j] = wire[w][j + 1]
          BY <1>f
        <4>2. i + 1 <= j + 1
          BY <3>3
        <4>3. QED
          BY <3>1, <4>1, <4>2 DEF RequestsOK
      <3>4. QED
        BY <1>k, <3>1, <3>2, <3>3 DEF RequestsOK, Versions
    <2>2. \A x \in Writers : x # w => RequestsOK(x)'
      BY <1>k, <1>f, <1>2 DEF TypeInv, RequestsOK, Versions
    <2>3. QED
      BY <2>1, <2>2
  <1>6. QED
    BY <1>f, <1>4, <1>5 DEF TypeInv

\* A server's index is not the absence of one.
LEMMA IndexIsThere ==
    ASSUME TypeInv, NEW x \in [dim : Nat, vec : [Ids -> Values]]
    PROVE  x # NoIndex
  <1>1. \A v \in Values : v \in Nat
    BY Facts
  <1>2. x \in [dim : Nat, vec : [Ids -> Nat]]
    BY <1>1
  <1>3. QED
    BY <1>2, StoreAssumption DEF StoreAssumption

\* What carrying out a request does to what is stored.
LEMMA ExecuteFacts ==
    ASSUME TypeInv, NEW w \in Writers, NEW i \in 1 .. Len(wire[w]), NEW r,
           r = wire[w][i].req, Execute(w, r), inserts' = inserts
    PROVE  /\ index' = NoIndex \/ index' \in [dim : Nat, vec : [Ids -> Values]]
           /\ env' \in [Ids -> Values]
           /\ \A id \in Ids : inserts[r.ver] = id =>
                /\ r.op = "set" => env'[id] = r.ver
                /\ r.op = "vset" => VecAt(id)' = r.ver
           /\ \A id \in Ids :
                /\ env'[id] = env[id] \/ (r.op = "set" /\ id = inserts[r.ver])
                /\ \/ VecAt(id)' = VecAt(id)
                   \/ (r.op = "vset" /\ id = inserts[r.ver])
                   \/ (r.op = "drop" /\ VecAt(id)' = 0)
  <1>1. /\ index = NoIndex \/ index \in [dim : Nat, vec : [Ids -> Values]]
        /\ env \in [Ids -> Values] /\ Dim[w] \in Nat
    BY StoreAssumption DEF TypeInv, TypeOK, Values, StoreAssumption
  <1>2. /\ r.op \in {"vset", "set"} => r.ver \in Versions /\ inserts[r.ver] \in Ids
        /\ 0 \in Values /\ \A v \in Versions : v \in Values
    BY Facts DEF TypeInv, RequestsOK
  <1>3. CASE r.op = "create"
    <2>1. index = NoIndex /\ index' = EmptyIndex(Dim[w]) /\ env' = env
      BY <1>3 DEF Execute
    <2>2. EmptyIndex(Dim[w]) \in [dim : Nat, vec : [Ids -> Values]]
      BY <1>1, <1>2 DEF EmptyIndex
    <2>3. \A id \in Ids : VecAt(id) = 0 /\ VecAt(id)' = 0
      BY <2>1 DEF VecAt, EmptyIndex
    <2>4. QED
      BY <1>1, <1>3, <2>1, <2>2, <2>3
  <1>4. CASE r.op = "drop"
    <2>1. index' = NoIndex /\ env' = env
      BY <1>4 DEF Execute
    <2>2. QED
      BY <1>1, <1>4, <2>1 DEF VecAt
  <1>5. CASE r.op = "vset"
    <2>1. /\ index # NoIndex /\ env' = env
          /\ index' = [index EXCEPT !.vec[inserts[r.ver]] = r.ver]
      BY <1>5 DEF Execute
    <2>2. index \in [dim : Nat, vec : [Ids -> Values]]
      BY <1>1, <2>1
    <2>3. /\ index' \in [dim : Nat, vec : [Ids -> Values]]
          /\ index'.vec[inserts[r.ver]] = r.ver
          /\ \A id \in Ids : id # inserts[r.ver] => index'.vec[id] = index.vec[id]
      BY <1>2, <1>5, <2>1, <2>2
    <2>4. index' # NoIndex
      BY <2>3, IndexIsThere
    <2>5. \A id \in Ids :
            /\ inserts[r.ver] = id => VecAt(id)' = r.ver
            /\ id # inserts[r.ver] => VecAt(id)' = VecAt(id)
      <3>1. \A id : VecAt(id) = index.vec[id] /\ VecAt(id)' = index'.vec[id]
        BY <2>1, <2>4 DEF VecAt
      <3>2. QED
        BY <2>3, <3>1
    <2>6. QED
      BY <1>1, <1>5, <2>1, <2>3, <2>5
  <1>6. CASE r.op = "set"
    <2>1. index' = index /\ env' = [env EXCEPT ![inserts[r.ver]] = r.ver]
      BY <1>6 DEF Execute
    <2>2. \A id \in Ids : VecAt(id)' = VecAt(id)
      BY <2>1 DEF VecAt
    <2>3. QED
      BY <1>1, <1>2, <1>6, <2>1, <2>2
  <1>7. QED
    BY <1>3, <1>4, <1>5, <1>6 DEF Execute

\* What answering a request does to the stream.
LEMMA ServeFacts ==
    ASSUME TypeInv, NEW w \in Writers, NEW i \in 1 .. Len(wire[w]), NEW k \in {"ok", "error"},
           wire' = [wire EXCEPT ![w] = Answered(wire[w], i, k)]
    PROVE  /\ wire' \in [Writers -> Seq(Exchange(Requests))]
           /\ Len(wire'[w]) = Len(wire[w])
           /\ wire[w] # <<>>
           /\ wire'[w][i].reply = k
           /\ \A j \in 1 .. Len(wire[w]) :
                /\ wire'[w][j].req = wire[w][j].req
                /\ j # i => wire'[w][j] = wire[w][j]
           /\ \A x \in Writers : x # w => wire'[x] = wire[x]
  <1>1. /\ wire \in [Writers -> Seq(Exchange(Requests))]
        /\ wire[w] \in Seq(Exchange(Requests)) /\ wire[w][i] \in Exchange(Requests)
    BY RequestVersions DEF TypeInv
  <1>2. wire'[w] = Answered(wire[w], i, k) /\ \A x \in Writers : x # w => wire'[x] = wire[x]
    BY <1>1
  <1>3. k \in Kinds
    BY DEF Kinds
  <1>4. /\ Answered(wire[w], i, k) \in Seq(Exchange(Requests))
        /\ Len(Answered(wire[w], i, k)) = Len(wire[w])
        /\ wire[w] # <<>>
        /\ \A j \in 1 .. Len(wire[w]) : Answered(wire[w], i, k)[j].req = wire[w][j].req
    BY <1>1, <1>3, StreamAfterAnswer
  <1>5. /\ Answered(wire[w], i, k)[i].reply = k
        /\ \A j \in 1 .. Len(wire[w]) : j # i => Answered(wire[w], i, k)[j] = wire[w][j]
    BY <1>1 DEF Answered, Exchange
  <1>6. QED
    BY <1>1, <1>2, <1>4, <1>5

LEMMA TypeServe ==
    ASSUME TypeInv, NEW w \in Writers, Serve(w)
    PROVE  TypeInv'
  <1>t. TypeOK /\ wire \in [Writers -> Seq(Exchange(Requests))]
    BY DEF TypeInv
  <1>k. UNCHANGED <<queryVars, inserts, drops, phase, cmd, ver, failed, acked>>
    BY DEF Serve
  <1>1. PICK i \in 1 .. Len(wire[w]), k \in {"ok", "error"} :
           /\ wire' = [wire EXCEPT ![w] = Answered(wire[w], i, k)]
           /\ Execute(w, wire[w][i].req) \/ UNCHANGED serverVars
    BY DEF Serve
  <1>2. /\ index' = NoIndex \/ index' \in [dim : Nat, vec : [Ids -> Values]]
        /\ env' \in [Ids -> Values]
    <2>1. CASE Execute(w, wire[w][i].req)
      BY <1>k, <2>1, ExecuteFacts
    <2>2. CASE UNCHANGED serverVars
      BY <1>t, <2>2 DEF serverVars, TypeOK, Values
    <2>3. QED
      BY <1>1, <2>1, <2>2
  <1>3. /\ wire' \in [Writers -> Seq(Exchange(Requests))]
        /\ Len(wire'[w]) = Len(wire[w])
        /\ \A j \in 1 .. Len(wire[w]) : wire'[w][j].req = wire[w][j].req
        /\ \A x \in Writers : x # w => wire'[x] = wire[x]
    BY <1>1, ServeFacts
  <1>4. \A x \in Writers : \A j \in 1 .. Len(wire'[x]) : wire'[x][j].req.ver <= ver[x]
    BY <1>3, RequestVersions
  <1>5. TypeOK'
    BY <1>t, <1>k, <1>2, <1>4 DEF TypeOK, Versions, Values, queryVars
  <1>6. ASSUME NEW x \in Writers PROVE RequestsOK(x)'
    <2>1. CASE x = w
      BY <1>k, <1>3, <2>1 DEF TypeInv, RequestsOK, Versions
    <2>2. CASE x # w
      BY <1>k, <1>3, <2>2 DEF TypeInv, RequestsOK, Versions
    <2>3. QED
      BY <2>1, <2>2
  <1>7. QED
    BY <1>3, <1>5, <1>6 DEF TypeInv

LEMMA TypeQuery ==
    ASSUME TypeInv, NEW r \in Readers,
           BeginQuery(r) \/ Search(r) \/ Fetch(r) \/ EndsEarly(r)
    PROVE  TypeInv'
  <1>t. TypeOK
    BY DEF TypeInv
  <1>1. UNCHANGED <<serverVars, writerVars>>
    BY DEF BeginQuery, Search, Fetch, EndsEarly
  <1>2. qphase' \in [Readers -> {"idle", "search", "fetch"}]
    BY <1>t DEF BeginQuery, Search, Fetch, EndsEarly, EndQuery, TypeOK
  <1>3. TypeOK'
    BY <1>t, <1>1, <1>2 DEF TypeOK, serverVars, writerVars, Versions
  <1>4. \A w \in Writers : RequestsOK(w)'
    BY <1>1 DEF TypeInv, RequestsOK, writerVars, Versions
  <1>5. QED
    BY <1>1, <1>3, <1>4 DEF TypeInv, writerVars

LEMMA TypeStep == TypeInv /\ [Next]_vars => TypeInv'
  <1> SUFFICES ASSUME TypeInv, [Next]_vars PROVE TypeInv'
    OBVIOUS
  <1>1. CASE UNCHANGED vars
    BY <1>1 DEF vars, serverVars, writerVars, queryVars, TypeInv, TypeOK, RequestsOK, Versions
  <1>2. QED
    BY <1>1, TypeWriterSteps, TypeInsert, TypeSend, TypeRecv, TypeServe, TypeQuery DEF Next

\* A writer is up only if its CREATE was answered, and whatever is stored,
\* acknowledged or on its way is of an insert that was begun.
THEOREM StoreTypeCorrect == Spec => []TypeOK
  <1>1. Spec => []TypeInv
    BY TypeInit, TypeStep, PTL DEF Spec
  <1>2. TypeInv => TypeOK
    BY DEF TypeInv
  <1>3. QED
    BY <1>1, <1>2, PTL

-----------------------------------------------------------------------------
(***************************************************************************)
(* What is stored, for one writer per id                                   *)
(***************************************************************************)

\* A writer whose connection and insert a step leaves alone, while none of its
\* ids is written to; its vectors may go with the index.
LEMMA OthersStay ==
    ASSUME TypeInv, NEW x \in Writers, WriterInv(x),
           phase'[x] = phase[x], cmd'[x] = cmd[x], ver'[x] = ver[x],
           wire'[x] = wire[x], failed'[x] = failed[x],
           \A v \in Versions : inserts'[v] = inserts[v],
           drops' = 0 => drops = 0,
           \A id \in Writes[x] :
             /\ env'[id] = env[id] /\ acked'[id] = acked[id]
             /\ VecAt(id)' = VecAt(id) \/ (VecAt(id)' = 0 /\ drops' # 0)
    PROVE  WriterInv(x)'
  <1>f. /\ ver[x] \in Nat /\ Writes[x] \subseteq Ids
        /\ cmd[x] \in {"vset", "set"} => ver[x] \in Versions /\ inserts[ver[x]] \in Writes[x]
    BY Facts
  <1>1. InOrder(x)'
    <2>1. \A id \in Writes[x] : env'[id] <= ver'[x] /\ VecAt(id)' <= ver'[x]
      BY <1>f DEF WriterInv, InOrder
    <2>2. ASSUME NEW i \in 1 .. Len(wire[x]), NEW id \in Writes[x], NEW r,
                 r = wire[x][i].req, wire[x][i].reply = Unanswered, inserts'[r.ver] = id
          PROVE  /\ r.op = "set" => env'[id] <= r.ver
                 /\ r.op = "vset" => VecAt(id)' <= r.ver /\ acked'[id] <= r.ver
      <3>1. /\ r.op \in {"vset", "set"} => inserts[r.ver] = id
            /\ r.ver \in Nat
        BY <2>2, RequestVersions DEF TypeInv, RequestsOK
      <3>2. /\ r.op = "set" => env[id] <= r.ver
            /\ r.op = "vset" => VecAt(id) <= r.ver /\ acked[id] <= r.ver
        BY <2>2, <3>1 DEF WriterInv, InOrder
      <3>3. QED
        BY <3>1, <3>2
    <2>3. QED
      BY <2>1, <2>2 DEF InOrder
  <1>2. InStep(x)'
    BY DEF WriterInv, InStep, Request
  <1>3. cmd[x] \in {"vset", "set"} => (VectorStored(x) => VectorStored(x)')
    BY <1>f DEF VectorStored
  <1>4. cmd[x] = "set" => env'[inserts'[ver'[x]]] = env[inserts[ver[x]]]
    BY <1>f
  <1>5. DoneInStep(x)'
    BY <1>3, <1>4 DEF WriterInv, DoneInStep
  <1>6. QED
    BY <1>1, <1>2, <1>5 DEF WriterInv

\* What a step that acknowledges nothing new for some id keeps of the queries.
LEMMA QueriesStay ==
    ASSUME TypeInv, QueryTypes, QueryInv, UNCHANGED queryVars,
           \A id \in Ids : acked'[id] \in Nat /\ acked[id] <= acked'[id]
    PROVE  QueryTypes' /\ QueryInv'
  <1>1. \A id \in Ids : acked[id] \in Nat
    BY Facts
  <1>2. \A r \in Readers : \A id \in Ids : since[r][id] \in Nat
    BY DEF QueryTypes
  <1>3. QueryTypes'
    BY DEF QueryTypes, queryVars
  <1>4. QED
    BY <1>1, <1>2, <1>3 DEF QueryInv, queryVars

LEMMA InitOrder == Init => QueryTypes /\ OrderInv
  <1> SUFFICES ASSUME Init PROVE QueryTypes /\ OrderInv
    OBVIOUS
  <1>1. /\ \A id \in Ids : env[id] = 0 /\ acked[id] = 0 /\ VecAt(id) = 0
        /\ \A w \in Writers :
             /\ wire[w] = <<>> /\ Len(wire[w]) = 0 /\ ver[w] = 0
             /\ phase[w] = "new" /\ cmd[w] = "create" /\ Writes[w] \subseteq Ids
    BY EmptySeq, StoreAssumption DEF Init, VecAt, NothingAcked, StoreAssumption
  <1>2. QueryTypes /\ AckedInv /\ QueryInv
    BY <1>1 DEF Init, QueryTypes, AckedInv, QueryInv, NothingAcked
  <1>3. ASSUME NEW w \in Writers PROVE WriterInv(w)
    <2>1. InOrder(w)
      <3>1. \A id \in Writes[w] : env[id] <= ver[w] /\ VecAt(id) <= ver[w]
        BY <1>1
      <3>2. 1 .. Len(wire[w]) = {}
        BY <1>1
      <3>3. QED
        BY <3>1, <3>2 DEF InOrder
    <2>2. InStep(w) /\ DoneInStep(w)
      BY <1>1 DEF InStep, DoneInStep
    <2>3. QED
      BY <2>1, <2>2 DEF WriterInv
  <1>4. QED
    BY <1>2, <1>3 DEF OrderInv

\* The writer steps that neither send nor read.
LEMMA OrderQuiet ==
    ASSUME TypeInv, QueryTypes, OrderInv, NEW w \in Writers,
           Ensure(w) \/ DropIndex(w) \/ RecvFails(w) \/ Close(w) \/ Insert(w)
    PROVE  QueryTypes' /\ OrderInv'
  <1>t. TypeOK /\ WriterInv(w) /\ Len(inserts) \in Nat
    BY Facts DEF TypeInv, OrderInv
  <1>k. /\ UNCHANGED <<serverVars, queryVars, wire, acked>>
        /\ drops' = 0 => drops = 0
        /\ \A v \in Versions : inserts'[v] = inserts[v]
    <2>1. CASE Insert(w)
      BY <2>1, InsertFacts
    <2>2. CASE DropIndex(w)
      BY <1>t, <2>2 DEF DropIndex, TypeOK
    <2>3. CASE Ensure(w) \/ RecvFails(w) \/ Close(w)
      BY <2>3 DEF Ensure, RecvFails, Close
    <2>4. QED
      BY <2>1, <2>2, <2>3
  <1>v. \A id : VecAt(id)' = VecAt(id)
    BY <1>k DEF VecAt, serverVars
  <1>1. ASSUME NEW x \in Writers, x # w
        PROVE  WriterInv(x)'
    <2>1. /\ phase'[x] = phase[x] /\ cmd'[x] = cmd[x] /\ ver'[x] = ver[x]
          /\ wire'[x] = wire[x] /\ failed'[x] = failed[x]
      BY <1>t, <1>1 DEF TypeOK, Ensure, DropIndex, RecvFails, Close, Insert
    <2>2. QED
      BY <1>k, <1>v, <2>1, OthersStay DEF OrderInv, serverVars
  <1>2. /\ ver'[w] \in Nat /\ ver[w] \in Nat /\ ver[w] <= ver'[w]
        /\ phase'[w] \in {"ready", "idle", "closed"}
        /\ phase'[w] = "ready" => phase[w] \in {"new", "idle"}
        /\ phase'[w] = "ready" => phase[w] = "new" \/ cmd'[w] \in {"vset", "drop"}
        /\ phase[w] = "new" => ver'[w] = ver[w] /\ cmd'[w] = cmd[w]
        /\ phase'[w] = "idle" => failed'[w]
        /\ failed[w] => failed'[w]
    <2>v. ver[w] \in Nat /\ ver[w] <= Len(inserts)
      BY Facts
    <2>1. CASE Insert(w)
      <3>1. ver' = [ver EXCEPT ![w] = Len(inserts')] /\ Len(inserts') = Len(inserts) + 1
        BY <2>1, InsertFacts
      <3>2. QED
        BY <1>t, <2>1, <2>v, <3>1 DEF Insert, TypeOK
    <2>2. CASE DropIndex(w)
      BY <1>t, <2>2, <2>v DEF DropIndex, TypeOK
    <2>3. CASE Ensure(w) \/ Close(w)
      BY <1>t, <2>3, <2>v DEF Ensure, Close, TypeOK
    <2>4. CASE RecvFails(w)
      BY <1>t, <2>4, <2>v DEF RecvFails, AfterFailure, TypeOK
    <2>5. QED
      BY <2>1, <2>2, <2>3, <2>4
  <1>3. InOrder(w)'
    <2>1. \A id \in Writes[w] : env'[id] <= ver'[w] /\ VecAt(id)' <= ver'[w]
      <3>1. \A id \in Writes[w] : env[id] \in Nat /\ VecAt(id) \in Nat
        BY Facts
      <3>2. QED
        BY <1>t, <1>k, <1>v, <1>2, <3>1 DEF WriterInv, InOrder, serverVars
    <2>2. ASSUME NEW i \in 1 .. Len(wire[w]), NEW id \in Writes[w], NEW r,
                 r = wire[w][i].req, wire[w][i].reply = Unanswered, inserts'[r.ver] = id
          PROVE  /\ r.op = "set" => env'[id] <= r.ver
                 /\ r.op = "vset" => VecAt(id)' <= r.ver /\ acked'[id] <= r.ver
      <3>1. r.op \in {"vset", "set"} => inserts[r.ver] = id
        BY <1>k, <2>2 DEF TypeInv, RequestsOK
      <3>2. QED
        BY <1>t, <1>k, <1>v, <2>2, <3>1 DEF WriterInv, InOrder, serverVars
    <2>3. QED
      BY <1>k, <2>1, <2>2 DEF InOrder
  <1>4. InStep(w)'
    BY <1>t, <1>k, <1>2 DEF WriterInv, InStep
  <1>5. DoneInStep(w)'
    <2> SUFFICES ASSUME ~ failed'[w], phase'[w] = "ready", cmd'[w] = "set"
                 PROVE  VectorStored(w)'
      BY <1>2 DEF DoneInStep
    <2>1. phase[w] = "new" /\ cmd[w] = "set" /\ ver'[w] = ver[w] /\ ~ failed[w]
      BY <1>2
    <2>2. VectorStored(w) /\ ver[w] \in Versions
      BY <1>t, <2>1, Facts DEF WriterInv, DoneInStep
    <2>3. QED
      BY <1>k, <1>v, <2>1, <2>2 DEF VectorStored
  <1>6. AckedInv'
    BY <1>k, <1>v DEF OrderInv, AckedInv, serverVars
  <1>7. QueryTypes' /\ QueryInv'
    <2>1. \A id \in Ids : acked'[id] \in Nat /\ acked[id] <= acked'[id]
      BY <1>k, Facts
    <2>2. QED
      BY <1>k, <2>1, QueriesStay DEF OrderInv
  <1>8. QED
    BY <1>1, <1>3, <1>4, <1>5, <1>6, <1>7 DEF OrderInv, WriterInv

\* A request goes out, or may have gone out.
LEMMA OrderSend ==
    ASSUME TypeInv, QueryTypes, OrderInv, NEW w \in Writers, Send(w) \/ SendFails(w)
    PROVE  QueryTypes' /\ OrderInv'
  <1>t. TypeOK /\ WriterInv(w) /\ wire \in [Writers -> Seq(Exchange(Requests))]
    BY DEF TypeInv, OrderInv
  <1>k. /\ phase[w] = "ready"
        /\ wire' \in {wire, [wire EXCEPT ![w] = Sent(wire[w], Request(w))]}
        /\ UNCHANGED <<serverVars, queryVars, inserts, drops, cmd, ver, acked>>
    BY DEF Send, SendFails
  <1>v. \A id : VecAt(id)' = VecAt(id)
    BY <1>k DEF VecAt, serverVars
  <1>1. ASSUME NEW x \in Writers, x # w
        PROVE  WriterInv(x)'
    <2>1. /\ phase'[x] = phase[x] /\ wire'[x] = wire[x] /\ failed'[x] = failed[x]
      BY <1>t, <1>k, <1>1 DEF TypeOK, Send, SendFails
    <2>2. QED
      BY <1>k, <1>v, <2>1, OthersStay DEF OrderInv, serverVars
  <1>2. /\ \A id \in Writes[w] :
             /\ id \in Ids
             /\ env[id] \in Nat /\ VecAt(id) \in Nat /\ acked[id] \in Nat
             /\ env[id] <= ver[w] /\ VecAt(id) <= ver[w] /\ acked[id] <= ver[w]
        /\ ver[w] \in Nat
    BY <1>t, Facts DEF WriterInv, InOrder, OrderInv, AckedInv
  <1>3. InOrder(w)'
    <2>1. ASSUME NEW i \in 1 .. Len(wire'[w]), NEW id \in Writes[w], NEW r,
                 r = wire'[w][i].req, wire'[w][i].reply = Unanswered, inserts[r.ver] = id
          PROVE  /\ r.op = "set" => env[id] <= r.ver
                 /\ r.op = "vset" => VecAt(id) <= r.ver /\ acked[id] <= r.ver
      <3>1. CASE i \in 1 .. Len(wire[w]) /\ wire'[w][i] = wire[w][i]
        BY <1>t, <2>1, <3>1 DEF WriterInv, InOrder
      <3>2. CASE r = Request(w)
        BY <1>2, <3>2 DEF Request
      <3>3. \/ i \in 1 .. Len(wire[w]) /\ wire'[w][i] = wire[w][i]
            \/ wire'[w][i].req = Request(w)
        <4>1. CASE wire' = wire
          BY <2>1, <4>1
        <4>2. CASE wire' = [wire EXCEPT ![w] = Sent(wire[w], Request(w))]
          <5>1. /\ \A j \in 1 .. Len(wire[w]) : wire'[w][j] = wire[w][j]
                /\ wire'[w][Len(wire[w]) + 1] = [req |-> Request(w), reply |-> Unanswered]
                /\ \A j \in 1 .. Len(wire'[w]) :
                     j \in 1 .. Len(wire[w]) \/ j = Len(wire[w]) + 1
            BY <1>k, <4>2, SendFacts
          <5>2. QED
            BY <2>1, <5>1
        <4>3. QED
          BY <1>k, <4>1, <4>2
      <3>4. QED
        BY <2>1, <3>1, <3>2, <3>3
    <2>2. QED
      BY <1>k, <1>v, <1>2, <2>1 DEF InOrder, serverVars
  <1>4. InStep(w)' /\ DoneInStep(w)'
    <2>1. CASE SendFails(w)
      <3>1. failed'[w]
        BY <1>t, <2>1 DEF SendFails, TypeOK
      <3>2. QED
        BY <3>1 DEF InStep, DoneInStep
    <2>2. CASE Send(w)
      <3>1. /\ phase'[w] = "waiting" /\ failed' = failed
            /\ wire' = [wire EXCEPT ![w] = Sent(wire[w], Request(w))]
        BY <1>t, <2>2 DEF Send, TypeOK
      <3> SUFFICES ASSUME ~ failed[w]
                   PROVE  InStep(w)' /\ DoneInStep(w)'
        BY <3>1 DEF InStep, DoneInStep
      <3>2. wire[w] = <<>>
        BY <1>t, <1>k DEF WriterInv, InStep
      <3>3. Len(wire[w]) = 0
        BY <3>2, EmptySeq
      <3>4. Len(wire'[w]) = 1 /\ wire'[w][1] = [req |-> Request(w), reply |-> Unanswered]
        <4>1. /\ Len(wire'[w]) = Len(wire[w]) + 1
              /\ wire'[w][Len(wire[w]) + 1] = [req |-> Request(w), reply |-> Unanswered]
          BY <1>k, <3>1, SendFacts
        <4>2. QED
          BY <3>3, <4>1
      <3>5. InStep(w)'
        BY <1>k, <3>1, <3>4 DEF InStep, Request
      <3>6. cmd[w] = "set" => VectorStored(w)'
        BY <1>t, <1>k, <1>v DEF WriterInv, DoneInStep, VectorStored
      <3>7. DoneInStep(w)'
        BY <1>k, <3>1, <3>4, <3>6 DEF DoneInStep, Unanswered
      <3>8. QED
        BY <3>5, <3>7
    <2>3. QED
      BY <2>1, <2>2
  <1>5. AckedInv'
    BY <1>k, <1>v DEF OrderInv, AckedInv, serverVars
  <1>6. QueryTypes' /\ QueryInv'
    <2>1. \A id \in Ids : acked'[id] \in Nat /\ acked[id] <= acked'[id]
      BY <1>k, Facts
    <2>2. QED
      BY <1>k, <2>1, QueriesStay DEF OrderInv
  <1>7. QED
    BY <1>1, <1>3, <1>4, <1>5, <1>6 DEF OrderInv, WriterInv

\* A reply is read: an insert may go on, or be acknowledged.
LEMMA OrderRecv ==
    ASSUME OneWriterPerId, TypeInv, QueryTypes, OrderInv, NEW w \in Writers, Recv(w)
    PROVE  QueryTypes' /\ OrderInv'
  <1> DEFINE k == wire[w][1].reply
             acks == cmd[w] = "set" /\ k = "ok" /\ ~ failed[w]
             mine == inserts[ver[w]]
  <1>t. /\ TypeOK /\ WriterInv(w) /\ AckedInv
        /\ wire \in [Writers -> Seq(Exchange(Requests))]
    BY DEF TypeInv, OrderInv
  <1>h. Head(wire[w]) = wire[w][1]
    BY RecvFacts DEF Recv
  <1>k. /\ phase[w] = "waiting" /\ Arrived(wire[w])
        /\ cmd' = [cmd EXCEPT ![w] = IF GoesOn(w, k) THEN "set" ELSE cmd[w]]
        /\ phase' = [phase EXCEPT ![w] = IF GoesOn(w, k) THEN "ready" ELSE "idle"]
        /\ acked' = IF acks THEN [acked EXCEPT ![mine] = ver[w]] ELSE acked
        /\ wire' = [wire EXCEPT ![w] = Tail(wire[w])]
        /\ UNCHANGED <<serverVars, queryVars, inserts, drops, ver, failed>>
    BY <1>h DEF Recv, Acknowledges
  <1>v. \A id : VecAt(id)' = VecAt(id)
    BY <1>k DEF VecAt, serverVars
  <1>w. /\ \A id \in Writes[w] :
             /\ id \in Ids
             /\ env[id] \in Nat /\ VecAt(id) \in Nat /\ acked[id] \in Nat
             /\ env[id] <= ver[w] /\ VecAt(id) <= ver[w] /\ acked[id] <= ver[w]
        /\ ver[w] \in Nat
        /\ cmd[w] \in {"vset", "set"} => mine \in Writes[w]
    BY <1>t, Facts DEF WriterInv, InOrder, AckedInv
  <1>a. /\ acks => mine \in Writes[w] /\ mine \in Ids
        /\ \A id \in Ids : acked'[id] = acked[id] \/ (acks /\ id = mine /\ acked'[id] = ver[w])
        /\ \A id \in Ids : acked[id] \in Nat /\ acked'[id] \in Nat /\ acked[id] <= acked'[id]
    <2>1. acked \in [Ids -> {0} \cup Versions] /\ \A id \in Ids : acked[id] \in Nat
      BY <1>t, Facts DEF TypeOK
    <2>2. acks => mine \in Writes[w] /\ mine \in Ids
      BY <1>w
    <2>3. \A id \in Ids : acked'[id] = acked[id] \/ (acks /\ id = mine /\ acked'[id] = ver[w])
      BY <1>k, <2>1
    <2>4. QED
      BY <1>w, <2>1, <2>2, <2>3
  <1> HIDE DEF acks, mine, k
  <1>1. ASSUME NEW x \in Writers, x # w
        PROVE  WriterInv(x)'
    <2>1. /\ phase'[x] = phase[x] /\ cmd'[x] = cmd[x] /\ wire'[x] = wire[x]
      BY <1>t, <1>k, <1>1 DEF TypeOK
    <2>2. \A id \in Writes[x] : acked'[id] = acked[id]
      BY <1>1, <1>a, StoreAssumption DEF OneWriterPerId, StoreAssumption
    <2>3. QED
      BY <1>k, <1>v, <2>1, <2>2, OthersStay DEF OrderInv, serverVars
  <1>f. /\ \A i \in 1 .. Len(wire'[w]) :
             i + 1 \in 1 .. Len(wire[w]) /\ wire'[w][i] = wire[w][i + 1]
        /\ Len(wire[w]) = 1 => wire'[w] = <<>>
    BY <1>k, RecvFacts
  <1>s. ~ failed[w] => wire'[w] = <<>>
    BY <1>t, <1>k, <1>f DEF WriterInv, InStep
  <1>2. InOrder(w)'
    <2>1. CASE failed[w]
      <3>1. acked' = acked
        BY <1>k, <2>1 DEF acks
      <3>2. ASSUME NEW i \in 1 .. Len(wire'[w]), NEW id \in Writes[w], NEW r,
                   r = wire'[w][i].req, wire'[w][i].reply = Unanswered, inserts[r.ver] = id
            PROVE  /\ r.op = "set" => env[id] <= r.ver
                   /\ r.op = "vset" => VecAt(id) <= r.ver /\ acked[id] <= r.ver
        BY <1>t, <1>f, <3>2 DEF WriterInv, InOrder
      <3>3. QED
        BY <1>k, <1>v, <1>w, <3>1, <3>2 DEF InOrder, serverVars
    <2>2. CASE ~ failed[w]
      <3>1. 1 .. Len(wire'[w]) = {}
        BY <1>s, <2>2, EmptySeq
      <3>2. QED
        BY <1>k, <1>v, <1>w, <3>1 DEF InOrder, serverVars
    <2>3. QED
      BY <2>1, <2>2
  <1>3. phase'[w] \in {"ready", "idle"} /\ (phase'[w] = "ready" <=> GoesOn(w, k))
    BY <1>t, <1>k DEF TypeOK
  <1>4. InStep(w)'
    BY <1>k, <1>s, <1>3 DEF InStep
  <1>5. DoneInStep(w)'
    <2> SUFFICES ASSUME ~ failed[w], GoesOn(w, k)
                 PROVE  VectorStored(w)'
      BY <1>k, <1>3 DEF DoneInStep
    <2>1. VectorStored(w)
      BY <1>t, <1>k DEF WriterInv, DoneInStep, GoesOn, k
    <2>2. QED
      BY <1>k, <1>v, <2>1 DEF VectorStored
  <1>6. AckedInv'
    <2>1. ASSUME acks
          PROVE  /\ env[mine] >= ver[w]
                 /\ VecAt(mine) # 0 => VecAt(mine) >= ver[w]
                 /\ drops = 0 => VecAt(mine) # 0
      <3>1. env[inserts[ver[w]]] >= ver[w] /\ VectorStored(w)
        BY <1>t, <1>k, <2>1 DEF WriterInv, DoneInStep, acks, k
      <3>2. mine \in Writes[w]
        BY <1>a, <2>1
      <3>3. QED
        BY <3>1, <3>2 DEF VectorStored, mine
    <2>2. ASSUME NEW id \in Ids
          PROVE  /\ env'[id] >= acked'[id]
                 /\ VecAt(id)' # 0 => VecAt(id)' >= acked'[id]
                 /\ drops' = 0 /\ acked'[id] # 0 => VecAt(id)' # 0
      <3>1. CASE acked'[id] = acked[id]
        BY <1>t, <1>k, <1>v, <3>1 DEF AckedInv, serverVars
      <3>2. CASE acks /\ id = mine /\ acked'[id] = ver[w]
        BY <1>k, <1>v, <2>1, <3>2 DEF serverVars
      <3>3. QED
        BY <1>a, <3>1, <3>2
    <2>3. QED
      BY <2>2 DEF AckedInv
  <1>7. QueryTypes' /\ QueryInv'
    BY <1>k, <1>a, QueriesStay DEF OrderInv
  <1>8. QED
    BY <1>1, <1>2, <1>4, <1>5, <1>6, <1>7 DEF OrderInv, WriterInv

\* What serving a writer's oldest request may change: what is stored for the id
\* the request is about, forward, or the index as a whole.
LEMMA ServedInOrder ==
    ASSUME TypeInv, OrderInv, NEW w \in Writers, Serve(w)
    PROVE  \E i \in 1 .. Len(wire[w]), k \in {"ok", "error"}, r \in Requests :
             /\ r = wire[w][i].req /\ NextToAnswer(wire[w], i)
             /\ wire' = [wire EXCEPT ![w] = Answered(wire[w], i, k)]
             /\ r.op \in {"vset", "set"} => inserts[r.ver] \in Writes[w]
             /\ r.ver <= ver[w]
             /\ \A id \in Ids :
                  /\ \/ env'[id] = env[id]
                     \/ /\ r.op = "set" /\ inserts[r.ver] = id
                        /\ env'[id] = r.ver /\ env[id] <= r.ver
                  /\ \/ VecAt(id)' = VecAt(id)
                     \/ /\ r.op = "vset" /\ inserts[r.ver] = id
                        /\ VecAt(id)' = r.ver /\ VecAt(id) <= r.ver /\ acked[id] <= r.ver
                     \/ VecAt(id)' = 0 /\ drops # 0
                  /\ k = "ok" /\ inserts[r.ver] = id =>
                       /\ r.op = "set" => env'[id] = r.ver
                       /\ r.op = "vset" => VecAt(id)' = r.ver
  <1>1. PICK i \in 1 .. Len(wire[w]), k \in {"ok", "error"} :
           /\ NextToAnswer(wire[w], i)
           /\ wire' = [wire EXCEPT ![w] = Answered(wire[w], i, k)]
           /\ (k = "ok" /\ Execute(w, wire[w][i].req)) \/ (k = "error" /\ UNCHANGED serverVars)
    BY DEF Serve
  <1>2. PICK r \in Requests : r = wire[w][i].req
    BY RequestVersions DEF Exchange
  <1>3. /\ r.op \in {"vset", "set"} => inserts[r.ver] \in Writes[w]
        /\ r.op = "drop" => drops # 0
        /\ r.ver <= ver[w]
    BY <1>2, RequestVersions DEF TypeInv, RequestsOK
  <1>4. \A id \in Ids : inserts[r.ver] = id =>
           /\ r.op = "set" => env[id] <= r.ver
           /\ r.op = "vset" => VecAt(id) <= r.ver /\ acked[id] <= r.ver
    BY <1>1, <1>2, <1>3 DEF OrderInv, WriterInv, InOrder, NextToAnswer
  <1>5. ASSUME NEW id \in Ids
        PROVE  /\ \/ env'[id] = env[id]
                  \/ /\ r.op = "set" /\ inserts[r.ver] = id
                     /\ env'[id] = r.ver /\ env[id] <= r.ver
               /\ \/ VecAt(id)' = VecAt(id)
                  \/ /\ r.op = "vset" /\ inserts[r.ver] = id
                     /\ VecAt(id)' = r.ver /\ VecAt(id) <= r.ver /\ acked[id] <= r.ver
                  \/ VecAt(id)' = 0 /\ drops # 0
               /\ k = "ok" /\ inserts[r.ver] = id =>
                    /\ r.op = "set" => env'[id] = r.ver
                    /\ r.op = "vset" => VecAt(id)' = r.ver
    <2>1. CASE k = "ok" /\ Execute(w, wire[w][i].req)
      <3>1. inserts' = inserts
        BY DEF Serve
      <3>2. /\ inserts[r.ver] = id =>
                 /\ r.op = "set" => env'[id] = r.ver
                 /\ r.op = "vset" => VecAt(id)' = r.ver
            /\ env'[id] = env[id] \/ (r.op = "set" /\ id = inserts[r.ver])
            /\ \/ VecAt(id)' = VecAt(id)
               \/ (r.op = "vset" /\ id = inserts[r.ver])
               \/ (r.op = "drop" /\ VecAt(id)' = 0)
        BY <1>2, <2>1, <3>1, ExecuteFacts
      <3>3. QED
        BY <1>3, <1>4, <3>2
    <2>2. CASE k = "error" /\ UNCHANGED serverVars
      <3>1. env'[id] = env[id] /\ VecAt(id)' = VecAt(id)
        BY <2>2 DEF serverVars, VecAt
      <3>2. QED
        BY <2>2, <3>1
    <2>3. QED
      BY <1>1, <2>1, <2>2
  <1>6. QED
    BY <1>1, <1>2, <1>3, <1>5

LEMMA OrderServe ==
    ASSUME OneWriterPerId, TypeInv, QueryTypes, OrderInv, NEW w \in Writers, Serve(w)
    PROVE  QueryTypes' /\ OrderInv'
  <1>t. TypeOK /\ WriterInv(w) /\ AckedInv
    BY DEF TypeInv, OrderInv
  <1>k. UNCHANGED <<queryVars, inserts, drops, phase, cmd, ver, failed, acked>>
    BY DEF Serve
  <1>p. PICK i \in 1 .. Len(wire[w]), k \in {"ok", "error"}, r \in Requests :
           /\ r = wire[w][i].req /\ NextToAnswer(wire[w], i)
           /\ wire' = [wire EXCEPT ![w] = Answered(wire[w], i, k)]
           /\ r.op \in {"vset", "set"} => inserts[r.ver] \in Writes[w]
           /\ r.ver <= ver[w]
           /\ \A id \in Ids :
                /\ \/ env'[id] = env[id]
                   \/ /\ r.op = "set" /\ inserts[r.ver] = id
                      /\ env'[id] = r.ver /\ env[id] <= r.ver
                /\ \/ VecAt(id)' = VecAt(id)
                   \/ /\ r.op = "vset" /\ inserts[r.ver] = id
                      /\ VecAt(id)' = r.ver /\ VecAt(id) <= r.ver /\ acked[id] <= r.ver
                   \/ VecAt(id)' = 0 /\ drops # 0
                /\ k = "ok" /\ inserts[r.ver] = id =>
                     /\ r.op = "set" => env'[id] = r.ver
                     /\ r.op = "vset" => VecAt(id)' = r.ver
    BY ServedInOrder
  <1>f. /\ Len(wire'[w]) = Len(wire[w]) /\ wire[w] # <<>>
        /\ wire'[w][i].reply = k
        /\ \A j \in 1 .. Len(wire[w]) :
             /\ wire'[w][j].req = wire[w][j].req
             /\ j # i => wire'[w][j] = wire[w][j]
        /\ \A x \in Writers : x # w => wire'[x] = wire[x]
    <2>1. wire' = [wire EXCEPT ![w] = Answered(wire[w], i, k)]
      BY <1>p
    <2>2. QED
      BY <2>1, ServeFacts
  <1>n. /\ r.ver \in Nat /\ ver[w] \in Nat
        /\ \A x \in Writers : Writes[x] \subseteq Ids
        /\ \A id \in Ids : env[id] \in Nat /\ VecAt(id) \in Nat /\ acked[id] \in Nat
    BY Facts, StoreAssumption DEF Requests, StoreAssumption
  <1>1. ASSUME NEW x \in Writers, x # w
        PROVE  WriterInv(x)'
    <2>1. \A id \in Writes[x] :
            /\ env'[id] = env[id]
            /\ VecAt(id)' = VecAt(id) \/ (VecAt(id)' = 0 /\ drops' # 0)
      <3>1. ASSUME NEW id \in Writes[x]
            PROVE  id \in Ids /\ ~ (r.op \in {"vset", "set"} /\ inserts[r.ver] = id)
        BY <1>1, <1>n, <1>p DEF OneWriterPerId
      <3>2. QED
        BY <1>k, <1>p, <3>1
    <2>2. QED
      BY <1>1, <1>k, <1>f, <2>1, OthersStay DEF OrderInv
  <1>2. InOrder(w)'
    <2>1. \A id \in Writes[w] : env'[id] <= ver[w] /\ VecAt(id)' <= ver[w]
      <3>1. ASSUME NEW id \in Writes[w]
            PROVE  env[id] <= ver[w] /\ VecAt(id) <= ver[w] /\ id \in Ids
        BY <1>t, <1>n DEF WriterInv, InOrder
      <3>2. QED
        BY <1>n, <1>p, <3>1
    <2>2. ASSUME NEW j \in 1 .. Len(wire[w]), NEW id \in Writes[w], NEW q,
                 q = wire[w][j].req, wire'[w][j].reply = Unanswered, inserts[q.ver] = id
          PROVE  /\ q.op = "set" => env'[id] <= q.ver
                 /\ q.op = "vset" => VecAt(id)' <= q.ver /\ acked[id] <= q.ver
      <3>1. j # i /\ wire[w][j].reply = Unanswered
        BY <1>f, <2>2 DEF Unanswered
      <3>2. j > i /\ r.ver <= q.ver
        BY <1>p, <2>2, <3>1 DEF NextToAnswer, TypeInv, RequestsOK
      <3>3. /\ q.op = "set" => env[id] <= q.ver
            /\ q.op = "vset" => VecAt(id) <= q.ver /\ acked[id] <= q.ver
        BY <1>t, <2>2, <3>1 DEF WriterInv, InOrder
      <3>4. q.ver \in Nat /\ id \in Ids
        BY <1>n, <2>2, RequestVersions
      <3>5. QED
        BY <1>n, <1>p, <3>2, <3>3, <3>4
    <2>3. QED
      BY <1>k, <1>f, <2>1, <2>2 DEF InOrder
  <1>3. InStep(w)'
    <2>1. 1 \in 1 .. Len(wire[w]) => wire'[w][1].req = wire[w][1].req
      BY <1>f
    <2>2. QED
      BY <1>t, <1>k, <1>f, <2>1 DEF WriterInv, InStep, Request
  <1>4. DoneInStep(w)'
    <2> SUFFICES ASSUME ~ failed[w], phase[w] \in {"new", "ready", "waiting"}
                 PROVE  /\ cmd[w] = "set" => VectorStored(w)'
                        /\ phase[w] = "waiting" /\ wire'[w][1].reply = "ok" =>
                             /\ cmd[w] = "vset" => VectorStored(w)'
                             /\ cmd[w] = "set" => env'[inserts[ver[w]]] >= ver[w]
      BY <1>k DEF DoneInStep
    <2>1. phase[w] = "waiting" /\ i = 1 /\ r = Request(w)
      BY <1>t, <1>f, <1>p DEF WriterInv, InStep
    <2>2. r.op = cmd[w] /\ r.ver = ver[w]
      BY <2>1 DEF Request
    <2>3. ASSUME cmd[w] = "set" PROVE VectorStored(w)'
      <3>1. VectorStored(w)
        BY <1>t, <2>1, <2>3 DEF WriterInv, DoneInStep
      <3>2. ASSUME NEW id \in Writes[w], inserts[ver[w]] = id
            PROVE  /\ VecAt(id)' # 0 => VecAt(id)' >= ver[w]
                   /\ drops = 0 => VecAt(id)' # 0
        BY <1>n, <1>p, <2>2, <2>3, <3>1, <3>2 DEF VectorStored
      <3>3. QED
        BY <1>k, <3>2 DEF VectorStored
    <2>4. ASSUME cmd[w] = "vset", wire'[w][1].reply = "ok" PROVE VectorStored(w)'
      <3>1. ver[w] # 0 /\ k = "ok"
        BY <1>t, <1>f, <2>1, <2>4 DEF TypeOK
      <3>2. ASSUME NEW id \in Writes[w], inserts[ver[w]] = id
            PROVE  VecAt(id)' = ver[w]
        BY <1>n, <1>p, <2>2, <2>4, <3>1, <3>2
      <3>3. QED
        BY <1>k, <1>n, <3>1, <3>2 DEF VectorStored
    <2>5. ASSUME cmd[w] = "set", wire'[w][1].reply = "ok"
          PROVE  env'[inserts[ver[w]]] >= ver[w]
      BY <1>n, <1>p, <1>f, <2>1, <2>2, <2>5
    <2>6. QED
      BY <2>3, <2>4, <2>5
  <1>5. AckedInv'
    <2>1. ASSUME NEW id \in Ids
          PROVE  /\ env'[id] >= acked[id]
                 /\ VecAt(id)' # 0 => VecAt(id)' >= acked[id]
                 /\ drops = 0 /\ acked[id] # 0 => VecAt(id)' # 0
      <3>1. /\ env[id] >= acked[id]
            /\ VecAt(id) # 0 => VecAt(id) >= acked[id]
            /\ drops = 0 /\ acked[id] # 0 => VecAt(id) # 0
        BY <1>t DEF AckedInv
      <3>2. QED
        BY <1>n, <1>p, <3>1
    <2>2. QED
      BY <1>k, <2>1 DEF AckedInv
  <1>6. QueryTypes' /\ QueryInv'
    <2>1. \A id \in Ids : acked'[id] \in Nat /\ acked[id] <= acked'[id]
      BY <1>k, <1>n
    <2>2. QED
      BY <1>k, <2>1, QueriesStay DEF OrderInv
  <1>7. QED
    BY <1>1, <1>2, <1>3, <1>4, <1>5, <1>6 DEF OrderInv, WriterInv

\* The steps of a query.
LEMMA OrderQuery ==
    ASSUME TypeInv, QueryTypes, OrderInv, NEW r \in Readers,
           BeginQuery(r) \/ Search(r) \/ Fetch(r) \/ EndsEarly(r)
    PROVE  QueryTypes' /\ OrderInv'
  <1>t. TypeOK /\ AckedInv /\ QueryInv
    BY DEF TypeInv, OrderInv
  <1>q. /\ since \in [Readers -> [Ids -> Nat]] /\ cand = [x \in Readers |-> cand[x]]
        /\ qphase \in [Readers -> {"idle", "search", "fetch"}]
    BY <1>t DEF QueryTypes, TypeOK
  <1>k. UNCHANGED <<serverVars, writerVars>>
    BY DEF BeginQuery, Search, Fetch, EndsEarly
  <1>v. \A id : VecAt(id)' = VecAt(id)
    BY <1>k DEF VecAt, serverVars
  <1>n. \A id \in Ids : acked[id] \in Nat
    BY Facts
  <1>1. ASSUME NEW w \in Writers
        PROVE  WriterInv(w)'
    BY <1>k, <1>v, OthersStay DEF OrderInv, serverVars, writerVars
  <1>2. AckedInv'
    BY <1>t, <1>k, <1>v DEF AckedInv, serverVars, writerVars
  <1>3. CASE BeginQuery(r)
    <2>1. /\ since' = [since EXCEPT ![r] = acked] /\ cand' = cand
          /\ qphase' = [qphase EXCEPT ![r] = "search"]
      BY <1>3 DEF BeginQuery
    <2>2. acked \in [Ids -> Nat] /\ acked' = acked
      BY <1>t, <1>k, <1>n DEF TypeOK, writerVars
    <2>3. QueryTypes'
      BY <1>q, <2>1, <2>2 DEF QueryTypes
    <2>4. QueryInv'
      BY <1>t, <1>q, <1>n, <2>1, <2>2 DEF QueryInv
    <2>5. QED
      BY <1>1, <1>2, <2>3, <2>4 DEF OrderInv
  <1>4. CASE Search(r)
    <2>1. PICK near \in SUBSET Stored \ {{}} :
             cand' = [cand EXCEPT ![r] = [id \in near |-> index.vec[id]]]
      BY <1>4 DEF Search
    <2>2. /\ index # NoIndex /\ since' = since /\ acked' = acked
          /\ qphase' = [qphase EXCEPT ![r] = "fetch"]
      BY <1>4 DEF Search, writerVars
    <2>3. /\ cand'[r] = [id \in near |-> index.vec[id]]
          /\ \A x \in Readers : x # r => cand'[x] = cand[x]
      BY <1>q, <2>1
    <2>4. ASSUME NEW id \in near
          PROVE  id \in Ids /\ index.vec[id] >= since[r][id]
      <3>1. id \in Ids /\ VecAt(id) = index.vec[id] /\ VecAt(id) # 0
        BY <2>1, <2>2 DEF Stored, VecAt
      <3>2. VecAt(id) >= acked[id] /\ since[r][id] <= acked[id]
        BY <1>t, <3>1 DEF AckedInv, QueryInv
      <3>3. VecAt(id) \in Nat /\ acked[id] \in Nat /\ since[r][id] \in Nat
        BY <1>q, <3>1, Facts
      <3>4. QED
        BY <3>1, <3>2, <3>3
    <2>5. QueryTypes'
      BY <1>q, <2>1, <2>2 DEF QueryTypes
    <2>6. QueryInv'
      <3>1. \A x \in Readers : \A id \in Ids : since'[x][id] <= acked'[id]
        BY <1>t, <2>2 DEF QueryInv
      <3>2. DOMAIN cand'[r] = near
        BY <2>3
      <3>3. \A id \in near : id \in Ids /\ cand'[r][id] >= since'[r][id]
        BY <2>2, <2>3, <2>4
      <3>4. ASSUME NEW x \in Readers, x # r, qphase'[x] = "fetch"
            PROVE  /\ DOMAIN cand'[x] \subseteq Ids
                   /\ \A id \in DOMAIN cand'[x] : cand'[x][id] >= since'[x][id]
        <4>1. qphase[x] = "fetch" /\ cand'[x] = cand[x]
          BY <1>q, <2>2, <2>3, <3>4
        <4>2. QED
          BY <1>t, <2>2, <4>1 DEF QueryInv
      <3>5. QED
        BY <3>1, <3>2, <3>3, <3>4 DEF QueryInv
    <2>7. QED
      BY <1>1, <1>2, <2>5, <2>6 DEF OrderInv
  <1>5. CASE Fetch(r) \/ EndsEarly(r)
    <2>1. /\ since' = [since EXCEPT ![r] = NothingAcked] /\ acked' = acked
          /\ cand' = [cand EXCEPT ![r] = <<>>]
          /\ qphase' = [qphase EXCEPT ![r] = "idle"]
      BY <1>k, <1>5 DEF Fetch, EndsEarly, EndQuery, writerVars
    <2>2. NothingAcked \in [Ids -> Nat] /\ \A id \in Ids : NothingAcked[id] = 0
      BY DEF NothingAcked
    <2>3. QueryTypes'
      BY <1>q, <2>1, <2>2 DEF QueryTypes
    <2>4. QueryInv'
      BY <1>t, <1>q, <1>n, <2>1, <2>2 DEF QueryInv
    <2>5. QED
      BY <1>1, <1>2, <2>3, <2>4 DEF OrderInv
  <1>6. QED
    BY <1>3, <1>4, <1>5

LEMMA OrderStep ==
    ASSUME OneWriterPerId, TypeInv, QueryTypes, OrderInv, [Next]_vars
    PROVE  QueryTypes' /\ OrderInv'
  <1>1. CASE UNCHANGED vars
    <2>1. UNCHANGED <<index, env, inserts, drops, phase, cmd, ver, wire, failed, acked,
                      qphase, cand, since>>
      BY <1>1 DEF vars, serverVars, writerVars, queryVars
    <2>2. \A w \in Writers : WriterInv(w)'
      BY <2>1, OthersStay DEF OrderInv, VecAt
    <2>3. QueryTypes' /\ QueryInv' /\ AckedInv'
      BY <2>1 DEF OrderInv, QueryTypes, QueryInv, AckedInv, VecAt
    <2>4. QED
      BY <2>2, <2>3 DEF OrderInv
  <1>2. QED
    BY <1>1, OrderQuiet, OrderSend, OrderRecv, OrderServe, OrderQuery DEF Next

\* The inductive invariant.
LEMMA StoreSafe == ASSUME OneWriterPerId PROVE Spec => [](TypeInv /\ QueryTypes /\ OrderInv)
  <1>1. Init => TypeInv /\ QueryTypes /\ OrderInv
    BY TypeInit, InitOrder
  <1>2. TypeInv /\ QueryTypes /\ OrderInv /\ [Next]_vars
          => (TypeInv /\ QueryTypes /\ OrderInv)'
    BY TypeStep, OrderStep
  <1>3. QED
    BY <1>1, <1>2, PTL DEF Spec

\* writer.rs:72: what insert acknowledged is stored, vector and envelope, for
\* any number of writers, each with ids of its own, whatever fails afterwards.
THEOREM AckedStored == Spec => []AckedIsStored
  <1>1. CASE OneWriterPerId
    <2>1. TypeInv /\ QueryTypes /\ OrderInv => AckedIsStored
      <3> SUFFICES ASSUME TypeInv, OrderInv, NEW id \in Ids, acked[id] # 0
                   PROVE  /\ env[id] >= acked[id]
                          /\ drops = 0 => index # NoIndex /\ index.vec[id] >= acked[id]
        BY DEF AckedIsStored
      <3>1. /\ env[id] >= acked[id]
            /\ VecAt(id) # 0 => VecAt(id) >= acked[id]
            /\ drops = 0 => VecAt(id) # 0
        BY DEF OrderInv, AckedInv
      <3>2. QED
        BY <3>1 DEF VecAt
    <2>2. QED
      BY <1>1, <2>1, StoreSafe, PTL
  <1>2. CASE ~ OneWriterPerId
    <2>1. AckedIsStored
      BY <1>2 DEF AckedIsStored
    <2>2. QED
      BY <2>1, PTL
  <1>3. QED
    BY <1>1, <1>2

\* No hit of a query is older than what was acknowledged when it began.
THEOREM QueriesReadAcked == Spec => []ReadsAcked
  <1>1. CASE OneWriterPerId
    <2>1. TypeInv /\ QueryTypes /\ OrderInv => ReadsAcked
      <3> SUFFICES ASSUME TypeInv, QueryTypes, OrderInv,
                          NEW r \in Readers, qphase[r] = "fetch", NEW h \in Hits(r)
                   PROVE  h.env >= since[r][h.id] /\ h.vec >= since[r][h.id]
        BY DEF ReadsAcked
      <3>1. PICK id \in DOMAIN cand[r] : h = [id |-> id, vec |-> cand[r][id], env |-> env[id]]
        BY DEF Hits
      <3>2. id \in Ids /\ cand[r][id] >= since[r][id] /\ since[r][id] <= acked[id]
        BY DEF OrderInv, QueryInv
      <3>3. env[id] >= acked[id]
        BY <3>2 DEF OrderInv, AckedInv
      <3>4. env[id] \in Nat /\ acked[id] \in Nat /\ since[r][id] \in Nat
        BY <3>2, Facts DEF QueryTypes
      <3>5. QED
        BY <3>1, <3>2, <3>3, <3>4
    <2>2. QED
      BY <1>1, <2>1, StoreSafe, PTL
  <1>2. CASE ~ OneWriterPerId
    <2>1. ReadsAcked
      BY <1>2 DEF ReadsAcked
    <2>2. QED
      BY <2>1, PTL
  <1>3. QED
    BY <1>1, <1>2
=============================================================================
