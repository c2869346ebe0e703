----------------------------- MODULE RemoteQuery -----------------------------
(***************************************************************************)
(* The life of a Resp3Tenant as its caller sees it: a location is parsed   *)
(* and opened, the index is found, and queries are answered from what the  *)
(* server holds.  Connections and the order of calls are the matter of     *)
(* PooledTenant, OwnedTenant and RecordStore; here the matter is what is   *)
(* in the replies: search results, and envelopes in every form that a      *)
(* writer may have used, whole or damaged.                                 *)
(***************************************************************************)
EXTENDS EnvelopeCodec, LocationParser, FiniteSets

CONSTANTS
    Endpoint, Credentials,  \* of the server
    Ids,                    \* records
    Inputs,                 \* what may be written for each: pairs of envelope and encoder
    TopKs,
    OVERSAMPLE, MIN_CANDIDATES,
    NoDocument,
    MaxText,                \* bound on the length of a location
    Fragile,                \* records whose document may be damaged, once
    MaxDamaged              \* bound on the length of a document that is damaged

ASSUME QueryAssumption ==
    /\ Ids \subseteq Nat /\ IsFiniteSet(Ids) /\ Fragile \subseteq Ids
    /\ TopKs \subseteq 0 .. Limit[4] - 1
    /\ OVERSAMPLE \in Nat /\ MIN_CANDIDATES \in Nat
    /\ MaxText \in Nat /\ MaxDamaged \in Nat

Envelopes == {input[1] : input \in UNION {Inputs[id] : id \in Ids}}

\* What is written are envelopes, of tags that are UTF-8.
ASSUME InputsAssumption ==
    /\ \A id \in Ids : \A input \in Inputs[id] : input[2] \in Encoders
    /\ Envelopes \subseteq [shareable : BOOLEAN, tags : Seq(Seq(Bytes \ {InvalidUtf8})),
                            payload : Seq(Bytes)]
    /\ NoEnvelope \notin Envelopes
    /\ NoDocument \notin [bytes : Seq(Bytes), json : Envelopes \cup {NoEnvelope}]

\* zstd restores what it has compressed, and a checksum fits four bytes.
ASSUME ExternalAssumption ==
    \A env \in Envelopes :
      /\ Compress(env.payload) \in Seq(Bytes)
      /\ IsFrame(Compress(env.payload))
      /\ Inflate(Compress(env.payload)) = env.payload
      /\ \A zstd \in BOOLEAN : Crc(Body(env, zstd)) \in 0 .. Limit[4] - 1

\* The counts and lengths that encode_binary_inner narrows without a look.
Fits(env, zstd) ==
    /\ Len(env.tags) < Limit[U16]
    /\ \A i \in 1 .. Len(env.tags) : Len(env.tags[i]) < Limit[U16]
    /\ Len(StoredPayload(env, zstd)) < Limit[U32]

\* A byte changes, in its low or its high bits.
ByteOff(s, i, d) == [s EXCEPT ![i] = (@ + d) % Base]
OneByteOff(s) == {ByteOff(s, i, d) : i \in 1 .. Len(s), d \in {1, Base \div 2}}

\* Where the checksum ought to be that decode_binary compares.
ChecksumAt(s) ==
    LET c == ReadTags(s, Number(s, 3, U16))
    IN  c.pos + U32 + Number(s, c.pos + 1, U32)

\* A CRC finds every change of one byte.  If the change leads the decoder to
\* look elsewhere, no four bytes there are the checksum of what precedes them
\* by chance.
ASSUME ChecksumAssumption ==
    \A env \in Envelopes, zstd \in BOOLEAN :
      LET body == Body(env, zstd)
          s == EncodeInner(env, zstd)
      IN  /\ \A t \in OneByteOff(body) : Crc(t) # Crc(body)
          /\ Fits(env, zstd) =>
               \A t \in OneByteOff(s) :
                 LET c == ReadTags(t, Number(t, 3, U16))
                     end == ChecksumAt(t)
                 IN  /\ Ensure(t, 2, U16) /\ c.err = "none" /\ Ensure(t, c.pos, U32)
                     /\ Ensure(t, end, 4) /\ end # Len(body)
                     => Number(t, end + 1, 4) # Crc(SubSeq(t, 1, end))

VARIABLES
    text,       \* the location, as it was given
    location,   \* what parse_location made of it
    dim,        \* embedding_dim; 0 before the tenant is open
    written,    \* the envelope last written for each record
    kv,         \* what is stored for it
    phase,      \* where query_filtered stands
    top_k,
    filter,
    candidates, \* what parse_vsearch returned
    at,         \* the candidate the loop looks at
    out,        \* the hits
    err         \* what query_filtered returns, "none" for Ok

peerVars == <<text, location, dim>>
storeVars == <<written, kv>>
queryVars == <<phase, top_k, filter, candidates, at, out, err>>
vars == <<peerVars, storeVars, queryVars>>

NoText == <<"", <<>>>>

Init ==
    /\ text = NoText /\ location = BadLocation /\ dim = 0
    /\ written = [id \in Ids |-> NoEnvelope]
    /\ kv = [id \in Ids |-> NoDocument]
    /\ phase = "closed"
    /\ top_k = 0 /\ filter = "shareable" /\ candidates = <<>> /\ at = 1
    /\ out = <<>> /\ err = "none"

-----------------------------------------------------------------------------
(***************************************************************************)
(* The opener parses a location and connects to what it names              *)
(***************************************************************************)
Texts == UNION {[1 .. n -> {"x", ":", "@", "/"}] : n \in 0 .. MaxText}

Parse(scheme, rest) ==
    /\ phase = "closed"
    /\ text' = <<scheme, rest>>
    /\ location' = ParseLocation(scheme, rest)
    /\ phase' = "parsed"
    /\ UNCHANGED <<dim, storeVars, top_k, filter, candidates, at, out, err>>

\* Any other location, a server that refuses the credentials or has no index.
OpenFails ==
    /\ phase = "parsed"
    /\ phase' = "closed"
    /\ text' = NoText /\ location' = BadLocation
    /\ UNCHANGED <<dim, storeVars, top_k, filter, candidates, at, out, err>>

\* Rows of VINDEX.LIST: the name and the dimension, 0 if it has none; rows
\* that are not text have no name.
Row(name, d) == [name |-> name, dim |-> d]
Listings == {<<>>, <<Row("", 0)>>, <<Row("other", 1)>>, <<Row("hansa", 0), Row("hansa", 2)>>,
             <<Row("", 0), Row("other", 1), Row("hansa", 2), Row("hansa", 3)>>}

\* vindex_info takes the first row of that name, or fails on it.
VindexInfo(rows) ==
    LET named == {i \in 1 .. Len(rows) : rows[i].name = "hansa"}
    IN  IF named = {} THEN 0
        ELSE rows[CHOOSE i \in named : \A j \in named : i <= j].dim

Connect ==
    /\ phase = "parsed"
    /\ location.kind = "resp3"
    /\ location.endpoint = Endpoint /\ location.auth = Credentials
    /\ \E rows \in Listings : dim' = VindexInfo(rows) /\ dim' # 0
    /\ phase' = "idle"
    /\ UNCHANGED <<text, location, storeVars, top_k, filter, candidates, at, out, err>>

-----------------------------------------------------------------------------
(***************************************************************************)
(* What happens to the records meanwhile                                   *)
(***************************************************************************)

\* A writer of this or of another version stores an envelope.
Write(id, env, encoder) ==
    /\ phase = "idle"
    /\ written' = [written EXCEPT ![id] = env]
    /\ kv' = [kv EXCEPT ![id] = Encode(env, encoder)]
    /\ UNCHANGED <<peerVars, queryVars>>

\* What may become of a document: a byte changes, the end is lost, or there is
\* something behind it.  JSON has no checksum: it
\* may read as another envelope.
Damaged(doc) ==
    IF doc.bytes = <<JSON_MAGIC>>
    THEN {Document(doc.bytes, json) : json \in {NoEnvelope} \cup Envelopes}
    ELSE LET s == doc.bytes IN
         {Document(t, NoEnvelope) : t \in OneByteOff(s)}
         \cup {Document(SubSeq(s, 1, n), NoEnvelope) : n \in 0 .. Len(s) - 1}
         \cup {Document(Append(s, 0), NoEnvelope)}

Damage(id) ==
    /\ phase = "idle"
    /\ written[id] # NoEnvelope /\ Len(kv[id].bytes) <= MaxDamaged
    /\ \E encoder \in Encoders : kv[id] = Encode(written[id], encoder)
    /\ \E doc \in Damaged(kv[id]) : kv' = [kv EXCEPT ![id] = doc]
    /\ UNCHANGED <<peerVars, written, queryVars>>

-----------------------------------------------------------------------------
(***************************************************************************)
(* query_filtered                                                          *)
(***************************************************************************)
Smaller(m, n) == IF m <= n THEN m ELSE n
Larger(m, n) == IF m <= n THEN n ELSE m

\* Mutant: the hits so far are returned beside the error.
Fail_KeepsHits(e) ==
    /\ phase' = "answered"
    /\ err' = e
    /\ UNCHANGED out

\* query_filtered returns Err; the hits so far are lost.
Fail(e) ==
    /\ phase' = "answered"
    /\ err' = e
    /\ out' = <<>>

Begin(k, f, length) ==
    /\ phase = "idle"
    /\ top_k' = k /\ filter' = f
    /\ IF length # dim THEN Fail("EmbeddingDimMismatch")
                       ELSE phase' = "search" /\ UNCHANGED <<out, err>>
    /\ UNCHANGED <<peerVars, storeVars, candidates, at>>

\* The multiplication saturates.
Oversample == Larger(Smaller(top_k * OVERSAMPLE, Limit[4] - 1), MIN_CANDIDATES)

\* Frames: "text" is a bulk string that is no number; an id is a u64.
Frame(kind, value) == [kind |-> kind, value |-> value]
IdOk(frame) == frame.kind = "integer" \/ (frame.kind = "bulk" /\ frame.value >= 0)
IdOf(frame) == frame.value % Limit[8]
ScoreOk(frame) == frame.kind \in {"double", "bulk"}

\* The (id, score) pairs of a reply, if every frame is of its kind.
WellFormed(frames) ==
    /\ Len(frames) % 2 = 0
    /\ \A i \in 1 .. Len(frames) : IF i % 2 = 1 THEN IdOk(frames[i]) ELSE ScoreOk(frames[i])
Pairs(frames) ==
    [i \in 1 .. Len(frames) \div 2 |->
       [id |-> IdOf(frames[2 * i - 1]), score |-> frames[2 * i].value]]

\* The server (external) finds as many records as it is asked for, or fewer,
\* some without an envelope; the score of a record is its id here.
Found == UNION {{s \in [1 .. n -> Ids \cup {-1}] : \A i, j \in 1 .. n : s[i] = s[j] => i = j} :
                n \in 0 .. Smaller(Oversample, Cardinality(Ids))}
Reply(found, idKind, scoreKind) ==
    [i \in 1 .. 2 * Len(found) |->
       IF i % 2 = 1 THEN Frame(idKind, found[(i + 1) \div 2])
                    ELSE Frame(scoreKind, found[i \div 2] % Limit[8])]

\* Both round trips: the envelopes do not change while a query runs, which is
\* the matter of RecordStore, so MGET returns what kv holds.
Search ==
    /\ phase = "search"
    /\ \E found \in Found, idKind \in {"bulk", "integer", "text"},
          scoreKind \in {"bulk", "double", "integer"}, cut \in {0, 1} :
         LET whole == Reply(found, idKind, scoreKind)
             frames == SubSeq(whole, 1, Len(whole) - cut)
         IN  IF ~ WellFormed(frames)
             THEN Fail("Protocol") /\ UNCHANGED candidates
             ELSE /\ candidates' = Pairs(frames)
                  /\ phase' = IF candidates' = <<>> THEN "answered" ELSE "loop"
                  /\ UNCHANGED <<out, err>>
    /\ UNCHANGED <<peerVars, storeVars, top_k, filter, at>>

\* VSEARCH or MGET fails, or answers with something other than an array.
CallFails ==
    /\ phase \in {"search", "loop"} /\ at = 1
    /\ Fail("Protocol")
    /\ UNCHANGED <<peerVars, storeVars, top_k, filter, candidates, at>>

\* The caller's filter (external).
Accept(env) ==
    IF filter = "shareable" THEN env.shareable ELSE env.tags # <<>>

Hit(candidate, env) ==
    [record_id |-> candidate.id, similarity |-> candidate.score, payload |-> env.payload]

\* The loop ends with the last candidate.
NextCandidate ==
    /\ at' = at + 1
    /\ phase' = IF at = Len(candidates) THEN "answered" ELSE "loop"

Stored(id) == IF id \in Ids THEN kv[id] ELSE NoDocument

\* Null: there is no envelope.
SkipMissing ==
    /\ phase = "loop"
    /\ Stored(candidates[at].id) = NoDocument
    /\ NextCandidate
    /\ UNCHANGED <<peerVars, storeVars, top_k, filter, candidates, out, err>>

\* The row is neither Bulk nor Null.
RowCorrupted ==
    /\ phase = "loop"
    /\ Fail("IndexCorrupted")
    /\ UNCHANGED <<peerVars, storeVars, top_k, filter, candidates, at>>

Undecodable ==
    /\ phase = "loop"
    /\ Stored(candidates[at].id) # NoDocument
    /\ Decode(Stored(candidates[at].id)).err # "none"
    /\ Fail("EnvelopeDecode")
    /\ UNCHANGED <<peerVars, storeVars, top_k, filter, candidates, at>>

\* Mutant: the loop looks whether it has enough before it takes another hit.
Take_ChecksFirst ==
    /\ phase = "loop"
    /\ Stored(candidates[at].id) # NoDocument
    /\ LET d == Decode(Stored(candidates[at].id)) IN
         /\ d.err = "none"
         /\ out' = IF Accept(d.env) /\ Len(out) < top_k
                   THEN Append(out, Hit(candidates[at], d.env)) ELSE out
    /\ NextCandidate
    /\ UNCHANGED <<peerVars, storeVars, top_k, filter, candidates, err>>

\* The envelope is decoded and the filter asked; the loop ends early as soon
\* as there are top_k hits, which it looks at only after a hit.
Take ==
    /\ phase = "loop"
    /\ Stored(candidates[at].id) # NoDocument
    /\ LET d == Decode(Stored(candidates[at].id)) IN
         /\ d.err = "none"
         /\ out' = IF Accept(d.env) THEN Append(out, Hit(candidates[at], d.env)) ELSE out
    /\ IF out' # out /\ Len(out') >= top_k
       THEN phase' = "answered" /\ UNCHANGED at
       ELSE NextCandidate
    /\ UNCHANGED <<peerVars, storeVars, top_k, filter, candidates, err>>

\* The caller has its answer.
Return ==
    /\ phase = "answered"
    /\ phase' = "idle"
    /\ top_k' = 0 /\ filter' = "shareable" /\ candidates' = <<>> /\ at' = 1
    /\ out' = <<>> /\ err' = "none"
    /\ UNCHANGED <<peerVars, storeVars>>

-----------------------------------------------------------------------------
Next ==
    \/ \E scheme \in Schemes, rest \in Texts : Parse(scheme, rest)
    \/ OpenFails \/ Connect
    \/ \E id \in Ids : \E input \in Inputs[id] : Write(id, input[1], input[2])
    \/ \E id \in Fragile : Damage(id)
    \/ \E k \in TopKs, f \in {"shareable", "tagged"}, length \in 1 .. 2 : Begin(k, f, length)
    \/ Search \/ CallFails
    \/ SkipMissing \/ RowCorrupted \/ Undecodable \/ Take
    \/ Return

Spec == Init /\ [][Next]_vars

-----------------------------------------------------------------------------
(***************************************************************************)
(* Properties                                                              *)
(***************************************************************************)
\* Typing.  A tenant that queries has a dimension; there are hits only while a
\* query runs, and none beside an error.
TypeOK ==
    /\ text \in Schemes \X Texts
    /\ location.kind \in {"path", "resp3", "http", "bad"}
    /\ dim \in 0 .. 3 /\ (dim # 0 <=> phase \notin {"closed", "parsed"})
    /\ \A id \in Ids : /\ written[id] \in Envelopes \cup {NoEnvelope}
                       /\ written[id] = NoEnvelope <=> kv[id] = NoDocument
    /\ phase \in {"closed", "parsed", "idle", "search", "loop", "answered"}
    /\ top_k \in TopKs \cup {0} /\ filter \in {"shareable", "tagged"}
    /\ at \in 1 .. Len(candidates) + 1
    /\ Len(out) <= Larger(top_k, 1)
    /\ out # <<>> => phase \in {"loop", "answered"} /\ err = "none"

\* A resp3 location is accepted exactly if it can be read as location.rs:46 has
\* it, and then there is one such reading and parse_location returns it:
\* credentials never end up in the endpoint, nor a host in the password.
LocationFaithful ==
    phase = "parsed" /\ text[1] = "resp3" =>
        IF Readings(text[2]) = {} THEN location = BadLocation
                                  ELSE Readings(text[2]) = {location}

\* What nothing protects: a JSON document has no checksum, and in a binary one
\* whose lengths have wrapped, tags may be read as lengths.
Unprotected(id) ==
    /\ id \in Ids /\ written[id] # NoEnvelope
    /\ \/ kv[id].json \notin {NoEnvelope, written[id]}
       \/ kv[id].json = NoEnvelope /\ \E zstd \in BOOLEAN : ~ Fits(written[id], zstd)

\* What a query should answer, from the envelopes as they were written: the
\* first top_k candidates the filter accepts.  The loop takes one even if
\* top_k is 0.
Reference ==
    LET hits == {i \in 1 .. Len(candidates) :
                   /\ candidates[i].id \in Ids
                   /\ written[candidates[i].id] # NoEnvelope
                   /\ Accept(written[candidates[i].id])}
        Nth(n) == CHOOSE i \in hits : Cardinality({j \in hits : j <= i}) = n
    IN  [n \in 1 .. Smaller(Larger(top_k, 1), Cardinality(hits)) |->
           Hit(candidates[Nth(n)], written[candidates[Nth(n)].id])]

\* A query that returns Ok returns what was written under each candidate and
\* accepted by the filter, whatever form the envelopes have and whatever was
\* damaged: damage makes a query fail (envelope.rs:245-293), it never changes a
\* payload, and never shows a record that the filter rejects.
OkIsRight ==
    /\ phase = "answered" /\ err = "none"
    /\ \A i \in 1 .. Len(candidates) : ~ Unprotected(candidates[i].id)
    => out = Reference

\* The document is just as some version wrote it, and not beyond what its form
\* can say or the reader inflates.
Intact(id) ==
    LET env == written[id]
        zstd == kv[id].json = NoEnvelope /\ (kv[id].bytes[2] \div 2) % 2 = 1
    IN  /\ \E encoder \in Encoders : kv[id] = Encode(env, encoder)
        /\ \/ kv[id].json # NoEnvelope
           \/ Fits(env, zstd) /\ (zstd => Len(env.payload) <= ZSTD_MAX_DECOMPRESSED_SIZE)

\* An envelope that is intact is never refused: a query fails on an envelope
\* only if that envelope is damaged or was too big for the form it is in.
RefusalIsReal ==
    phase = "answered" /\ err = "EnvelopeDecode" => ~ Intact(candidates[at].id)
=============================================================================
