# A verification of skeg-rigging-net in TLA+

`skeg-rigging-net` lets hansa agents query each other's records over the network: a RESP3 client
with a connection pool (`skeg-rigging-net-resp3`), an HTTP side channel that moves saga files
(`skeg-rigging-net-http`), and the types both share (`skeg-rigging-net`). Paths below are relative to
`src/crates/`; `pool.rs:134` is a line of `skeg-rigging-net-resp3/src/pool.rs`, and so on.

## 1. Inventory

| Part | State | Operations | What is hard | What makes it correct |
| --- | --- | --- | --- | --- |
| **Resp3Pool** (`pool.rs`) | queue of idle connections with time stamps, counter `in_use`, one mutex, one condition variable | `acquire`, `discard`, `Drop`, two getters | the mutex is released during TCP connect and HELLO; one wakeup per freed slot; barging callers; expiry looked at lazily from the front | exact accounting on every path, the cap on sockets, no leak, no double lending, no lost wakeup, every caller served |
| **Resp3Connection** (`connection.rs`) | socket, frame decoder, read buffer | `connect`, `hello`, `send`, `recv`, `call` | replies carry no request id: order is all there is; timeouts leave answers behind | a call reads the reply to its own command |
| **Resp3Tenant** (`tenant.rs`) | connection source (owned + mutex, or pool), cached `dim` and `record_count` | `connect`, `from_pool`, `refresh_record_count`, `query_filtered` | several threads; two round trips per query; errors half way; stale caches; candidates and envelopes of different moments | no reply crosses from one operation to another; hits pass the filter; at most `top_k` |
| **Resp3Writer** (`writer.rs`) | connection, index name, dim | `ensure`, `insert`, `drop_index` | `insert` is two writes; swallowed errors; orphaned envelopes | an insert that returned Ok is stored; the index is the one asked for |
| **RecordEnvelope** (`envelope.rs`) | none (pure codec) | `encode*`, `decode*` | narrowing length fields, reserved bits, CRC range, truncation | decode inverts encode; nothing damaged is accepted |
| **parse_location** (`location.rs`) | none (pure) | `parse_location` | `@` and `:` in credentials | every accepted URL means what it says |
| **SagaServer** (`server.rs`) | directory on disk, stop flag | `serve_until`, `respond_*` | files come and go between two system calls of a handler; one request at a time; callers hang up | an answer was true at some moment of its call; a listing is complete; only a removal makes a request fail |
| **SagaClient, AsyncSagaClient** (`client.rs`, `async_client.rs`) | destination file | `list`, `fetch`, `head`, `fetch_members_raw`, `fetch_to_path` | concurrent fetches, timeouts, crash between write and rename | every call returns; the destination is always a whole saga |

How they interact: a tenant calls into the pool (`with_conn`, `from_pool`), the pool calls
`Resp3Connection::connect` with its mutex released, a closure of the tenant calls `call` on the lent
connection once or twice, and the guard's `Drop` calls back into the pool. Writers and tenants meet
only in the server's index and key-value store. The saga client and server meet over HTTP; the server
and whoever writes sagas meet in the directory.

## 2. Modules

| Module | Models | Kind |
| --- | --- | --- |
| `Resp3Pool` | `pool.rs`, and `connect`/`hello` of `connection.rs` as far as the pool sees them | component |
| `ConnLease` | what the pool promises: leases of at most `Cap` connections | abstract specification |
| `Resp3PoolBurst` | the pool under a finite load, with fairness | liveness wrapper |
| `Resp3Wire` | one connection's FIFO of exchanges; the control of the tenant's closures | operators |
| `PooledTenant` | `ConnSource::Pooled.with_conn` + `Resp3Pool` + `Resp3Wire` + the server | composition |
| `OwnedTenant` | `ConnSource::Owned.with_conn` + `Resp3Wire` + the server | component |
| `RecordStore` | `writer.rs` call by call, the tenant's query, the server's index and key-value store | composition |
| `EnvelopeCodec` | `envelope.rs`: both forms, byte by byte, in narrow integers | operators |
| `LocationParser` | `parse_location`, and every reading its documentation allows | operators |
| `RemoteQuery` | from a location to the hits of a query: `parse_location`, `vindex_info`, `parse_vsearch`, the loop of `query_filtered`, over `EnvelopeCodec` and `LocationParser` | composition |
| `SagaServer` | the serve loop, the four routes system call by system call, the client's calls | composition |
| `SagaCopy` | what `fetch_to_path` promises of its destination | abstract specification |
| `SagaTransfer` | `fetch_to_path` down to its system calls | component |
| `Resp3PoolProofs`, `Resp3WireProofs`, `PooledTenantProofs`, `OwnedTenantProofs`, `RecordStoreProofs`, `SagaTransferProofs`, `SagaServerProofs`, `RemoteQueryProofs` | theorems and lemmas about the module of that name; `RemoteQueryProofs` also about `EnvelopeCodec` and `LocationParser` | proofs |
| `MCRecordStore`, `MCSagaTransfer`, `MCRemoteQuery` | constant functions and inputs of the instances; a checksum and a compressor for `MCRemoteQuery` | model checking |

### Resp3Pool

`idle` and `in_use` are the fields of `PoolState`; `pc` and `conn` say where each thread is and what its
`PooledConnection` holds; `open` is the set of sockets the process really has open, which the code
does not record; `parked` is the wait set of `not_at_cap`. An action is a critical section, or a stretch
of code outside the mutex that others can observe:

| Action | Code |
| --- | --- |
| `Call` | entry of `acquire` |
| `ReuseIdle`, `Reserve`, `Wait` | one turn of the loop, `pool.rs:133-183`: the sweep of expired entries and then, in this order, lend / reserve / wait; each contains the sweep |
| `TcpConnect`, `TcpFail`, `HelloOk`, `HelloFail` | `Resp3Connection::connect`, with the mutex released |
| `Rollback` | the error arm, `pool.rs:167-175` |
| `Discard`, then `DropDiscarded` | `discard` closes the socket before `Drop` locks the mutex |
| `DropReturn` | `Drop` of a connection that is still there |
| `SpuriousWake` | the wakeups `Condvar::wait` may invent |
| `Tick` | time: all entries age together; ages saturate at `IdleTimeout` |

The two getters read state under the mutex and change nothing. `Clone` of a pool shares the state, so
one instance is all clones of a pool. Poisoned mutexes (a panic inside a critical section) are not
modelled: no code between lock and unlock can panic as long as `in_use` does not underflow, which is
what `TypeOK` and `Accounting` show.

### PooledTenant and OwnedTenant

A thread's operation is a list of calls (`Resp3Wire`): `vindex_info` makes one, `query_filtered` makes
VSEARCH and, if that found candidates, MGET. `phase` is where the operation stands (`ready` to send,
`waiting` for a reply, closure returned `ok` or `err`), `wire[c]` the exchanges of connection `c` that
have been sent and not read. The server (external) answers the oldest request first, with a reply of any
kind, at any time or never, and may close a connection. A read may fail at any time (timeout, reset,
parse error), and its answer may come later all the same. A write may fail although the request went out.
`PooledTenant` composes this with every action of `Resp3Pool`; `OwnedTenant` replaces the pool with the
mutex of `ConnSource::Owned`.

### RecordStore

The data of a record is abstracted to its version, the number of the `insert` call that wrote it: `index`
holds the version of each vector, `env` the version of each envelope, so that a vector with another
insert's envelope, or a lost insert, is visible. A writer's operation is a list of calls, each a `Send` and a
`Recv` (or one of their failures) over the writer's own stream:

| Action | Code |
| --- | --- |
| `Ensure` | `Resp3Writer::ensure`: CREATE; an I/O error drops the connection, an error frame is taken for "it exists" (`writer.rs:43-44`) |
| `Insert` | `insert`: VSET, then SET if VSET was answered with +OK; any error ends it where it stands |
| `DropIndex` | `drop_index`: one call; the envelopes stay |
| `SendFails`, `RecvFails` | an I/O error or a timeout; `AfterFailure` says that a writer which is up stays up on the same stream |
| `Close` | the writer is dropped, or its process dies, between any two steps |
| `Serve` (external) | the server executes the oldest request of a connection, or refuses it |
| `BeginQuery`, `Search`, `Fetch`, `EndsEarly` | the two round trips of `query_filtered` |

A query's round trip is one step: the query runs over a pool, whose streams are never out of step
(`PooledTenant!ReplyIsMine`). `acked`, `failed`, `since` and `drops` are history the code does not keep.
The search returns any non-empty set of candidates and the filter may drop any hit, so what is shown of
hits holds whatever is nearest and whatever the filter says.

### RemoteQuery, EnvelopeCodec, LocationParser

`RemoteQuery` is the life of a tenant as its caller sees it, one call after the other: what happens between
the calls of several threads is the matter of the modules above, what is in the replies is the matter here.

| Action | Code |
| --- | --- |
| `Parse` | `parse_location` on any text of `MaxText` characters at most |
| `Connect`, `OpenFails` | connect and `vindex_info` over rows with missing, foreign and repeated names |
| `Write` (external) | a writer of this or another version stores an envelope, with any of the four encoders |
| `Damage` (external) | one byte of a document changes, its end is lost, or something follows it |
| `Begin` | `query_filtered` up to the first call: the check of the dimension, the oversampling |
| `Search`, `CallFails` | the two calls, and `parse_vsearch` on frames of every kind, odd numbers of them included |
| `SkipMissing`, `RowCorrupted`, `Undecodable`, `Take` | one turn of the loop over candidates and rows |
| `Return` | the caller has its answer |

`EnvelopeCodec` keeps the layout of `envelope.rs` (magic, flags, counted tags, counted payload, checksum over
all of it) and shrinks its numbers: a byte has `Base` = 8 values, a u16 is one byte and a u32 two, so that a
tag of eight characters already wraps its length. Decoding follows the cursor's checks in the order of the
code. External are the checksum, the compressor and serde_json (a JSON document is what can be read from it).
The first two are constants, `Crc` and `Compress`, `IsFrame`, `Inflate`; `MCRemoteQuery` gives them values, a
polynomial hash and a frame that shrinks repetitions and grows everything else. What the properties need of them
is assumed by name in `RemoteQuery`, and TLC evaluates it on the instance:

- `InputsAssumption`: what is written are envelopes, with tags that are UTF-8, as `String` guarantees.
- `ExternalAssumption`: zstd restores what it compressed; a checksum fits its four bytes.
- `ChecksumAssumption`, for each envelope that is written: the checksum of its body changes with any one byte, a
  property of CRC-32C; and if the change of a length makes the decoder look for the checksum elsewhere, the four
  bytes there are not, by chance, the checksum of what precedes them. The second part is not a fact about CRC-32C:
  a place has one chance in some 2^32 to look right, and of envelopes that have such a place the properties say nothing.

`LocationParser` takes a text as its scheme and a sequence of the
characters `x : @ /`; `Readings` is the form the documentation of `parse_location` gives, with no order of
search in it.

### SagaServer

Whoever owns the directory (external) publishes and removes whole files at any moment. `server` says where
the loop stands (`check`, `recv`, `stopped`) or which system call the handler is at:

| Action | Code |
| --- | --- |
| `CheckStop`, `TakeNothing`, `TakeRequest` | the loop of `serve_until`: the flag, `recv_timeout`, the dispatch of `handle` |
| `ReadFile`, `StatFile` | `respond_file`: `fs::read` (or the length, for HEAD), then the metadata |
| `SnapshotExists`, `ReadSnapshot` | `respond_members`: `exists`, then the read |
| `OpenDir`, `NextEntry`, `EndOfDir` | `respond_index`: `read_dir`, then one entry at a time with its metadata |
| `Ask`, `GiveUp`, `Forget` | a client's call begins, ends with its timeout, returns |

`read_dir` promises little: an entry that is there throughout is returned once (`must`), one that comes or
goes meanwhile may or may not be (`may`). A caller that gives up leaves its request with the server, which
works it off for nobody. `seen` is history: every version that each file a caller asked about has had since
it asked. A file is its version; the time stamp that goes with it is a version as well, so that contents and
stamp of different versions are told apart.

### SagaTransfer

A publisher (external) replaces or removes one saga file. A fetch asks, gets the version that is there at
some moment of its call or gives up: that an answer is of such a moment is what `SagaServer!AnswersCurrent`
shows of the server. Then it does to the disk what `fs::write` and `fs::rename` do: `Open` creates the
temporary file or cuts the one that is there to nothing, `WriteSome` and `WriteRest` write its two halves to
the file that was opened (whatever its name has become), `Install` renames. Names (`tmp`, `dest`) and files
(`fd`, `content`) are kept apart because the hazard lives in the difference. The temporary name is made from
the destination and the process id, so it belongs to the process (`ProcessOf`), not to the fetch. `DiskFails`
ends a fetch at any step and, like the code, leaves the temporary file behind; `Crash` ends all fetches of a
process. The async client runs the same steps in a blocking task, so it is the same model.

## 3. Runs

| Run | Checks | Instance |
| --- | --- | --- |
| `pool` | typing, accounting, both caps, no leak, exclusive lending, sorted queue, no lost wakeup, complete sweep, refinement of `ConnLease`; every `acquire` returns, the budget comes back | 4 threads, cap 3, 2 idle slots, 4 sockets, timeout 2, 6 calls of `acquire` in all |
| `pool_fresh_doc` (violation) | `pool.rs:22`, `tenant.rs:68`: a fresh socket after a failure | 2 threads, cap 2 |
| `pooled_tenant` | an idle connection owes nobody a reply; a reply is the waiter's own; every borrow ends | 3 threads, cap 2, 1 idle slot |
| `owned_tenant` | threads do not mix, in sync until a call fails, operations return | 2 threads, 4 calls |
| `owned_tenant_skew` (violation) | `connection.rs:99`: call() reads the reply to its command | 2 threads, 4 calls |
| `record_store` | an insert acknowledged in step is stored; no later query returns anything older | 2 writers, an id each, 1 query at a time, 3 inserts, 1 drop |
| `record_store_skew` (violation) | `writer.rs:131`: nothing is left to flush when an insert has returned | 2 writers, 2 inserts |
| `record_store_ensure` (violation) | `writer.rs:25`: ensure ensures the index at its dimension | 2 writers of different dimensions |
| `remote_query` | a location is opened as it reads; an Ok query returns what was written and accepted; nothing intact is refused | 2 records, locations of 5 characters at most, `top_k` 0 to 2, every encoder, envelopes that fit their form and envelopes that do not, one of the two damaged |
| `saga_server` | answers are current, listings complete, failures due to removals; every call returns, the loop stops when told to | 1 caller, 2 sagas and the members snapshot, 4 changes |
| `saga_transfer` | the destination is an atomic copy (`SagaCopy`); Ok means that the version downloaded is there, and fresh; every fetch returns | 2 fetches in 2 processes, 3 files, 3 versions |
| `saga_transfer_shared` (violation) | `client.rs:85`: the saga is written to its destination atomically | 2 fetches in 1 process |

Why the bounds are enough. In `pool` there is a thread more than the cap, so that one is parked while
others return; a socket more than the cap, so that exceeding it is possible; fewer idle slots than the cap,
so that returns overflow the queue; a timeout of two ticks, so that entries of three different ages (fresh,
older, expired) meet in one queue. The load of six calls is what makes liveness hold (below); what safety owes to
it is covered by the proofs, which know no bound. The tenant runs are smaller because their state is larger;
they keep the cap below the number of threads. `MaxCalls` in `OwnedTenant` bounds the life of a connection
to two queries, enough for one to leave an answer to the other. `record_store` lets one id be inserted twice
while the other writer inserts, with a failed call, a crash and a dropped index anywhere: an old and a new
version of one record and a second record that may disturb it. `remote_query` has two records because the
loop over candidates can then skip, fail or stop at the first and at the second; its envelopes include an empty one,
one whose tag count and one whose tag length wrap, one whose payload length does unless it is compressed, and
one that inflates beyond the reader's limit. In `saga_server` one caller suffices: the server handles one request at a time,
and a caller that hangs up and calls again is the second client. Four changes are the initial files and three more: enough
to replace and to remove and publish again, between any two system calls. `saga_transfer` has as many versions
as there can be different ones in play (the one at the destination, the one downloaded, the one published
meanwhile) and one file more than the processes have temporary names. No run uses symmetry, most of them
check liveness.

Fairness. `Resp3PoolBurst` and `Resp3Pool!FairSpec` assume weak fairness of each thread's own steps: the
operating system runs threads, a mutex that becomes free is eventually obtained, and a borrow ends. That
a borrow ends is not an assumption about users: `BorrowsEnd` shows that the pool's `FairSpec`
holds of the composition, where every send and every read ends because of the 5 s socket timeouts
(`connection.rs:27-28`); `OwnedTenant!FairSpec` assumes the same of its threads. Nothing is assumed of the
server, of `Call`, of `Tick` or of `SpuriousWake`. One thing the assumption glosses over: the timeout is per
read, so a server that trickles the bytes of one frame can stretch a call. `SagaServer!FairSpec` assumes that
the thread in `serve_until` runs and that `recv_timeout` returns (100 ms), and that a call is ended by its client's
timeout if by nothing else; not that anybody asks, publishes or sets the flag. It glosses over a client that
reads its response so slowly that the handler blocks. `SagaTransfer!FairSpec` assumes that a fetch is ended
by the timeout of its HTTP client or by the disk.

`CHECK_DEADLOCK FALSE` is set where the load is bounded and the system may come to rest with all work done
(`pool`, `owned_tenant`, the `record_store` runs).

## 4. Proofs

Every safety invariant and every action property that a passing run checks is proved. The theorems hold for every
value of the constants that the modules' assumptions admit: any set of threads, sockets, writers, readers, ids,
fetches, processes and callers (finite where the code counts them), any capacity and timeout, zero included, any
number of calls, inserts, versions and changes, bytes of any size (256 values, a u16 of two bytes and a u32 of
four included), envelopes and locations of any length.

**Resp3PoolProofs** (`PoolAssumption`):

- `TypeCorrect`, `CountIsExact`: typing alone is not inductive, because `in_use - 1` stays a natural
  number only if `in_use` counts something that is there. `CountInv` (typing and `Accounting`) is
  inductive; the cardinality of the set of reserving threads moves with the counter in each action.
- `TotalCapHolds`: the code compares `in_use` alone with `max_total`. `TotalCap` is inductive over
  `CountInv`: a reservation is taken only with an empty queue, lending trades an idle entry for a
  reservation, returning trades it back.
- `QueueSorted`, `SweepIsComplete`: returns append with age 0 and time ages everybody alike, so the queue
  is sorted; hence stopping at the first fresh entry leaves no expired one behind.
- `OwnershipExclusive`, `SocketsAccountedFor`: inductive only together (`OwnInv`): a new socket is
  nobody's because the open ones are exactly those held and queued.
- `WakeupsNotLost`: while somebody is parked, free slots <= threads on their way. A release frees one
  slot and sends one thread on its way; parking happens only when no slot is free.
- `SocketsCapped`, `PoolImplementsLease`: from `OwnInv` and `TotalCap`, every open socket is paid for by
  a reservation or a queue entry, and a thread about to open one holds a reservation without a socket. So
  `ConnLease`'s `Open` is enabled when the pool connects; the other actions map to `Lend`, `Retire`,
  `GiveBack`, `Close` or stutter.

**PooledTenantProofs**. `TenantsUsePool` shows that each step of the composition is a step of the pool or
leaves it alone, so the theorems above hold of it. `TenantTypeCorrect`, `QueuedConnectionsClean` and
`RepliesOwn` follow from `TenantInv`: `OwnInv` of the pool, the typing of streams and operations, `CleanIdle`,
`ReplyIsMine`, and `QuietBetweenCalls` (a thread that is about to send, or done, holds a connection on which
nothing is under way). They need each other: what is lent is quiet because what is queued is clean, what is
returned is clean because only an operation that ended well returns its connection, and a connection
has one holder at a time because the pool says so.

**OwnedTenantProofs**. `OwnedTypeCorrect`, `OwnedInSync`, and `RepliesMatchUntilFailure` (a consequence that no run needs
to state: a reply is read by the thread that asked for it). Typing, the stream and the thread that waits move together,
so `TypeOK`, the stream's being a sequence of exchanges and `InSyncUntilFailure` are inductive only as one.

**RecordStoreProofs** (`StoreAssumption`). `StoreTypeCorrect` needs, beyond `TypeOK`, what the requests of a
stream are about: the writer's own inserts, in the order they were begun. `AckedStored` and
`QueriesReadAcked` are implications from `OneWriterPerId`, and rest on three facts about each
writer. `InOrder`: what is stored for its ids is no newer than the insert it is at, and no newer than any request
of its stream that has not been carried out, so carrying requests out in order never undoes anything. `InStep`:
until a call has failed, the stream holds the one exchange its writer waits for. `DoneInStep`: what was
answered +OK in step was done, and an insert that has come to its SET has its vector stored. `AckedInv`
and `QueryInv` say of the stored versions what the two properties say, with the case of a dropped index.
A step of one writer leaves the facts about another alone (`OthersStay`) because their ids differ.

**SagaTransferProofs** (`SagaAssumption`). `TransferTypeCorrect` holds however fetches share processes;
`DestinationWhole`, `InstallIsFresh` and the refinement `TransferImplementsCopy` assume `OneFetchPerProcess`, the
condition that the violation run shows to be needed. `CopyInv`: a fetch has only its process's temporary file
open, that file holds what it has written so far, and no two names have one file; so nothing writes to a file
once it is at the destination. `FreshInv`: versions go up, and what a fetch got is no older than what was there
when it asked.

**SagaServerProofs** (`ServerAssumption`). `ServerTypeCorrect`, `EveryAnswerCurrent`, `EveryListingComplete`
and `OnlyRemovalFails`, from an invariant that follows a request through its handler: the handler works for a
caller that still waits or for nobody (`JobInv`), who waits has seen what is there now (`WaitInv`), a file
that was read is there, or newer, or gone (`FoundInv`), all that was found has been seen, what may be listed has been
there and what need not be has been away (`SeenInv`), and an answer that was given is a good one (`AnswerInv`).

**RemoteQueryProofs** (the assumptions of `EnvelopeCodec` and `RemoteQuery`, see above). The codec is made of
recursive functions over bytes, and the prover has no induction over data. `NoCounterexample` stands in for it: a
set of natural numbers without 0 that has n whenever it has n + 1 is empty, since it would have a least element
(`NatLessThanWellFounded` and `WFMin` of the library). Each induction below is about a set of counterexamples.

- `RecursionExists`: a recursive function has the values its definition says. It is cited for `Limit`, `Sums`,
  `CodedTags` and `Cursors`.
- `DecodeEncode`: decoding inverts each of the four encoders, if the counts fit. From below: the digits of a number
  are read back as that number; reading depends only on the bytes up to the cursor (`StartsWith`); the cursor
  after i tags has exactly those i tags behind it (`TagsBack`); then the payload and the checksum. That it needs
  `Fits` and the reader's limit is what section 5 says of narrowed lengths and large payloads.
- `QueryTyped`: `TypeOK` alone is not inductive. `TypeInv` adds that the loop has a candidate before it and room
  for one hit more, that there are no candidates before the loop, and that what is stored is a document.
- `RefusalReal`: from `DecodeEncode`'s lemmas, for the one step that returns `EnvelopeDecode`.
- `LocationRead`: `ParseFaithful` splits on where the last `@` and the first `:` before it are, and shows that
  `Readings` allows no others.
- `AnswersRight`, from three invariants together: `TypeInv`; `AsWritten`, a document is what an encoder made of
  the envelope, or that with one damage (without it a document could be anything); and `LoopInv`, while the loop runs its
  hits are the accepted candidates before `at`, in order and complete, and at the end they are all of them or
  `top_k`. `LoopInv` places each hit by its rank among the accepted candidates, because the reference picks them so
  (`RankInjective`). The step that takes a hit needs `DamagedDecode`: a damaged document is refused or decodes to
  what was written. A lost end is noticed by `ensure`, an addition is not looked at, and a changed byte either
  moves the place of the checksum or leaves it there, and then the sum over the body or the stored number differs.

Only model-checked: all liveness (`EveryAcquireReturns`, `BudgetComesBack`, `BorrowsEnd`,
`OperationsReturn`, `FetchReturns`, `CallsReturn`, `ServerStops`), since the prover has no rules for fairness and
ENABLED.

## 5. Findings

1. After a failure the next acquire is lent another idle connection if there is one, against two doc
   comments (`pool_fresh_doc`).
2. An owned tenant keeps its connection after a timed out call, and from then on calls read the late
   answers of their predecessors (`owned_tenant_skew`). The pooled tenant does not (`pooled_tenant`).
3. So does a writer: after a failed call, `insert` returns Ok on replies that belong to earlier calls while
   its envelope is not stored (`record_store_skew`). `AckedStored` shows that this is the only way: as long
   as no call has failed on its connection, an acknowledged insert is stored.
4. `ensure` takes every error frame for "the index exists": also a refused CREATE, and an index of
   another dimension (`record_store_ensure`).
5. Two fetches of one saga in one process share the temporary file, and one may install what the other
   has just cut to nothing (`saga_transfer_shared`). In processes of their own they do not (`saga_transfer`).

Read off the models, without a run of their own:

- `in_use` counts reservations only, although `pool.rs:88` and `pool.rs:197` say borrowed and idle combined; and
  under an endless load a caller at the cap may starve, because a freed slot goes to whoever locks the mutex
  first (`pool` therefore bounds the load).
- `encode_binary*` narrows tag counts, tag lengths and the payload length without a check. Most envelopes that
  do not fit are refused by every reader; some decode as other envelopes, tags read as lengths.
- `encode_binary_zstd` and `encode_binary_smallest` ("Safe default for mixed payloads", `envelope.rs:178`)
  compress payloads of any size, and readers inflate 64 MiB at most: what is larger is written and never
  read again. `envelope.rs:44-47` still says that the zstd bit is rejected.
- The JSON form has no checksum: damage that leaves valid JSON is not noticed.
- `top_k = 0` gives one hit, because the loop looks at the number of hits only after it has taken one.
- An ETag and a Last-Modified may be newer than the body they come with, because the body is read first
  (`AnswersCurrent` allows `version <= stamp`); and they have whole seconds, so two versions of one second share them.
- A saga whose name is in capital hexadecimal digits is listed (`server.rs:155`), but no client asks for it: they write names in lower case.

What the positive results rest on. `AckedIsStored` and `ReadsAcked` assume that every id is inserted over
one connection (`OneWriterPerId`); nothing in the code sees to it, and two writers of one id may leave the
vector of one with the envelope of the other. `OkIsRight` leaves out what nothing protects (JSON, wrapped
lengths), and of damage it knows changes of one byte, lost ends and additions. `SagaServer` and `SagaTransfer` take
files to be replaced as a whole, as `fetch_to_path` itself does it.

## 6. Not modelled, and what is left

- The byte format of RESP3 (crate `skeg-resp3`), `tiny_http`, `ureq` and `reqwest`, the zstd and CRC
  algorithms: other people's code, modelled by what `src/` relies on.
- Reads of part of a frame: `recv` is one step, so a server that trickles bytes is not seen.
- `record_count` and `embedding_dim` after they have gone stale: nothing reads the one, and what a query of the
  wrong dimension gets is up to the server. An MGET reply with fewer rows than keys.
- The validation of names in the server and client, a saga directory that cannot be read, disk errors on the
  server: each ends a request with an error and changes nothing.
- A crash of the machine: `fetch_to_path` does not sync the file before the rename, and what a power
  failure leaves is not modelled. The client side of a poisoned mutex (`pool.rs`, `tenant.rs`).
- `error.rs` and the crate roots, which have no behaviour.

What would add most next: the several-writers case of `RecordStore` under a stated promise, once the code has
one; and `RemoteQuery` with a query interleaved with writes, which would join it with `RecordStore`.
