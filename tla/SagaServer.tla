----------------------------- MODULE SagaServer -----------------------------
(***************************************************************************)
(* SagaServer (server.rs) and the calls of SagaClient and AsyncSagaClient  *)
(* over HTTP: list, fetch, head and fetch_members_raw.  The server handles *)
(* one request at a time, with several system calls on a directory that    *)
(* its owner changes meanwhile.                                            *)
(*                                                                         *)
(* A file is abstracted to its version, the number of the change that put  *)
(* it there; 0 is no file.  Its length, its modification time and its      *)
(* contents are all the version's.                                         *)
(***************************************************************************)
EXTENDS Naturals, FiniteSets

CONSTANTS
    Callers,        \* threads that use a client, each with one call at a time
    Names,          \* sagas that may be in saga_dir
    Snapshot,       \* members.snap
    NoFile, NoCaller,
    MaxChanges      \* bound on the changes of the files, the first of which is
                    \* what is there to begin with

ASSUME ServerAssumption ==
    /\ NoCaller \notin Callers
    /\ Snapshot \notin Names /\ NoFile \notin Names \cup {Snapshot}
    /\ MaxChanges \in Nat \ {0}

Files == Names \cup {Snapshot}

VARIABLES
    disk,       \* the version of each file
    changes,    \* changes so far
    stop,       \* the flag given to serve_until
    server,     \* where serve_until, or the handler it is in, stands
    job,        \* the caller whose request is handled; NoCaller if it hung up
    request,    \* what that request asks for
    found,      \* what the handler has read
    must, may,  \* what read_dir has to return, and may still return
    call,       \* where each call stands
    asked,      \* what it asks for
    answer,     \* what it got
    seen        \* the versions that each file it asked for has had since

diskVars == <<disk, changes>>
jobVars == <<job, request, found, must, may>>
callVars == <<call, asked, answer, seen>>
vars == <<diskVars, stop, server, jobVars, callVars>>

Get(name) == [route |-> "get", file |-> name]
Head(name) == [route |-> "head", file |-> name]
Index == [route |-> "index", file |-> NoFile]
Members == [route |-> "members", file |-> Snapshot]
Nothing == [route |-> "none", file |-> NoFile]
Requests == {Get(n) : n \in Names} \cup {Head(n) : n \in Names} \cup {Index, Members}

\* An answer has a status and, for each file it tells of, the version of its
\* contents (or length) and that of its time stamp.
Part(file, version, stamp) == [file |-> file, version |-> version, stamp |-> stamp]
Answer(status, parts) == [status |-> status, parts |-> parts]
None == Answer("none", {})
Unseen == [f \in Files |-> {}]
LooksAt(r) == IF r = Index THEN Names ELSE {r.file}

Init ==
    /\ disk \in [Files -> {0, 1}] /\ changes = 1
    /\ stop = FALSE /\ server = "check"
    /\ job = NoCaller /\ request = Nothing /\ found = {} /\ must = {} /\ may = {}
    /\ call = [c \in Callers |-> "out"]
    /\ asked = [c \in Callers |-> Nothing]
    /\ answer = [c \in Callers |-> None]
    /\ seen = [c \in Callers |-> Unseen]

-----------------------------------------------------------------------------
(***************************************************************************)
(* The owner of the files (external) puts a whole file in place or removes *)
(* one.  Whether a listing under way returns a file that comes or goes is  *)
(* open.                                                                   *)
(***************************************************************************)
Change(f) ==
    /\ changes < MaxChanges
    /\ changes' = changes + 1
    /\ seen' = [c \in Callers |->
                  IF call[c] = "asked" /\ f \in LooksAt(asked[c])
                  THEN [seen[c] EXCEPT ![f] = @ \cup {disk'[f]}] ELSE seen[c]]
    /\ UNCHANGED <<stop, server, job, request, found, call, asked, answer>>

Publish(f) ==
    /\ disk' = [disk EXCEPT ![f] = changes + 1]
    /\ Change(f)
    /\ may' = IF server = "list" /\ f \in Names THEN may \cup {f} ELSE may
    /\ UNCHANGED must

Remove(f) ==
    /\ disk[f] # 0
    /\ disk' = [disk EXCEPT ![f] = 0]
    /\ Change(f)
    /\ must' = must \ {f}
    /\ UNCHANGED may

-----------------------------------------------------------------------------
(***************************************************************************)
(* serve_until                                                             *)
(***************************************************************************)

\* Somebody sets the flag.
Stop ==
    /\ ~ stop /\ stop' = TRUE
    /\ UNCHANGED <<diskVars, server, jobVars, callVars>>

\* The head of the loop.
CheckStop ==
    /\ server = "check"
    /\ server' = IF stop THEN "stopped" ELSE "recv"
    /\ UNCHANGED <<diskVars, stop, jobVars, callVars>>

\* recv_timeout returns nothing, or an error, which ends the loop.
TakeNothing ==
    /\ server = "recv"
    /\ server' \in {"check", "stopped"}
    /\ UNCHANGED <<diskVars, stop, jobVars, callVars>>

\* recv_timeout returns a request, and handle finds its route.
TakeRequest ==
    /\ server = "recv"
    /\ \E c \in Callers : call[c] = "asked" /\ job' = c /\ request' = asked[c]
    /\ server' = "open"
    /\ UNCHANGED <<diskVars, stop, found, must, may, callVars>>

\* Mutant: the loop goes on to the next request without a look at the flag.
AfterRequest_NoCheck == "recv"

\* Where the loop goes after a request, whatever became of it.
AfterRequest == "check"

\* Mutant: what one handler has found is still there for the next.
Respond_KeepsFound(status, parts) ==
    /\ server' = AfterRequest
    /\ job' = NoCaller /\ request' = Nothing
    /\ must' = {} /\ may' = {}
    /\ IF job = NoCaller
       THEN UNCHANGED <<call, answer>>
       ELSE /\ call' = [call EXCEPT ![job] = "answered"]
            /\ answer' = [answer EXCEPT ![job] = Answer(status, parts)]
    /\ UNCHANGED <<found, asked, seen>>

\* The handler responds, or fails; a request that it drops is answered with an
\* error status.
Respond(status, parts) ==
    /\ server' = AfterRequest
    /\ job' = NoCaller /\ request' = Nothing
    /\ found' = {} /\ must' = {} /\ may' = {}
    /\ IF job = NoCaller
       THEN UNCHANGED <<call, answer>>
       ELSE /\ call' = [call EXCEPT ![job] = "answered"]
            /\ answer' = [answer EXCEPT ![job] = Answer(status, parts)]
    /\ UNCHANGED <<asked, seen>>

-----------------------------------------------------------------------------
(***************************************************************************)
(* respond_file, for GET and HEAD: the bytes, then the metadata            *)
(***************************************************************************)
ReadFile ==
    LET f == request.file IN
    /\ server = "open" /\ request.route \in {"get", "head"}
    /\ IF disk[f] = 0
       THEN Respond("absent", {})
       ELSE /\ found' = {Part(f, disk[f], 0)}
            /\ server' = "stat"
            /\ UNCHANGED <<job, request, must, may, callVars>>
    /\ UNCHANGED <<diskVars, stop>>

\* Mutant: a file that was replaced since it was read is an error too.
StatFile_SameVersion ==
    LET f == request.file IN
    /\ server = "stat"
    /\ IF \E p \in found : p.version # disk[f]
       THEN Respond("error", {})
       ELSE Respond("ok", {[p EXCEPT !.stamp = disk[f]] : p \in found})
    /\ UNCHANGED <<diskVars, stop>>

StatFile ==
    LET f == request.file IN
    /\ server = "stat"
    /\ IF disk[f] = 0
       THEN Respond("error", {})
       ELSE Respond("ok", {[p EXCEPT !.stamp = disk[f]] : p \in found})
    /\ UNCHANGED <<diskVars, stop>>

(***************************************************************************)
(* respond_members: "[]" stands for a snapshot that is not there yet       *)
(***************************************************************************)
SnapshotExists ==
    /\ server = "open" /\ request.route = "members"
    /\ IF disk[Snapshot] = 0
       THEN Respond("ok", {Part(Snapshot, 0, 0)})
       ELSE server' = "read" /\ UNCHANGED <<jobVars, callVars>>
    /\ UNCHANGED <<diskVars, stop>>

ReadSnapshot ==
    /\ server = "read"
    /\ IF disk[Snapshot] = 0
       THEN Respond("error", {})
       ELSE Respond("ok", {Part(Snapshot, disk[Snapshot], disk[Snapshot])})
    /\ UNCHANGED <<diskVars, stop>>

(***************************************************************************)
(* respond_index: the entries that read_dir returns, in any order, and the *)
(* metadata of each.                                                       *)
(***************************************************************************)
Present == {n \in Names : disk[n] # 0}
Listed == {p.file : p \in found}

OpenDir ==
    /\ server = "open" /\ request.route = "index"
    /\ must' = Present /\ may' = Present
    /\ server' = "list"
    /\ UNCHANGED <<diskVars, stop, job, request, found, callVars>>

\* The metadata of an entry that has gone fails the whole listing.
NextEntry(n) ==
    /\ server = "list"
    /\ n \in may \ Listed
    /\ IF disk[n] = 0
       THEN Respond("error", {})
       ELSE /\ found' = found \cup {Part(n, disk[n], disk[n])}
            /\ UNCHANGED <<server, job, request, must, may, callVars>>
    /\ UNCHANGED <<diskVars, stop>>

\* Mutant: the listing ends with the first entry.
EndOfDir_First ==
    /\ server = "list"
    /\ found # {} \/ must = {}
    /\ Respond("ok", found)
    /\ UNCHANGED <<diskVars, stop>>

EndOfDir ==
    /\ server = "list"
    /\ must \subseteq Listed
    /\ Respond("ok", found)
    /\ UNCHANGED <<diskVars, stop>>

ServerStep ==
    \/ CheckStop \/ TakeNothing \/ TakeRequest
    \/ ReadFile \/ StatFile \/ SnapshotExists \/ ReadSnapshot
    \/ OpenDir \/ EndOfDir
    \/ \E n \in Names : NextEntry(n)

-----------------------------------------------------------------------------
(***************************************************************************)
(* The clients                                                             *)
(***************************************************************************)
Request(c) ==
    \E r \in Requests :
      /\ asked' = [asked EXCEPT ![c] = r]
      /\ seen' = [seen EXCEPT ![c] = [f \in Files |-> IF f \in LooksAt(r) THEN {disk[f]} ELSE {}]]

Ask(c) ==
    /\ call[c] = "out"
    /\ call' = [call EXCEPT ![c] = "asked"]
    /\ Request(c)
    /\ UNCHANGED <<diskVars, stop, server, jobVars, answer>>

Forget(c) ==
    /\ call' = [call EXCEPT ![c] = "out"]
    /\ asked' = [asked EXCEPT ![c] = Nothing]
    /\ answer' = [answer EXCEPT ![c] = None]
    /\ seen' = [seen EXCEPT ![c] = Unseen]

\* Mutant: there are no timeouts, only a server that has gone ends the wait.
GiveUp_NoTimeout(c) ==
    /\ call[c] = "asked" /\ server = "stopped"
    /\ Forget(c)
    /\ job' = IF job = c THEN NoCaller ELSE job
    /\ UNCHANGED <<diskVars, stop, server, request, found, must, may>>

\* Mutant: the client goes on to its next request over the same connection.
GiveUp_GoesOn(c) ==
    /\ call[c] = "asked"
    /\ Request(c)
    /\ UNCHANGED <<diskVars, stop, server, jobVars, call, answer>>

\* The client's timeout, or a broken connection: the call returns an error, and
\* what the server still answers reaches nobody.
GiveUp(c) ==
    /\ call[c] = "asked"
    /\ Forget(c)
    /\ job' = IF job = c THEN NoCaller ELSE job
    /\ UNCHANGED <<diskVars, stop, server, request, found, must, may>>

\* The call returns what it got: for an error status Err, and so for "absent",
\* which to head is Ok(None).
Return(c) ==
    /\ call[c] = "answered"
    /\ Forget(c)
    /\ UNCHANGED <<diskVars, stop, server, jobVars>>

CallerStep(c) == GiveUp(c) \/ Return(c)

-----------------------------------------------------------------------------
Next ==
    \/ \E f \in Files : Publish(f) \/ Remove(f)
    \/ Stop \/ ServerStep
    \/ \E c \in Callers : Ask(c) \/ CallerStep(c)

Spec == Init /\ [][Next]_vars

\* The thread in serve_until runs, recv_timeout returns after 100 ms at the
\* latest, and the client's timeouts end its wait.  Nobody has to ask, to stop
\* the server or to change a file.
FairSpec ==
    /\ Spec
    /\ WF_vars(ServerStep)
    /\ \A c \in Callers : WF_vars(CallerStep(c))

-----------------------------------------------------------------------------
(***************************************************************************)
(* Properties                                                              *)
(***************************************************************************)
Versions == 0 .. changes
Parts == [file : Files, version : Versions, stamp : Versions]

\* Typing.  The server holds something of a request only inside its handler.
TypeOK ==
    /\ disk \in [Files -> Versions] /\ changes \in 0 .. MaxChanges
    /\ stop \in BOOLEAN
    /\ server \in {"check", "recv", "open", "stat", "read", "list", "stopped"}
    /\ job \in Callers \cup {NoCaller} /\ request \in Requests \cup {Nothing}
    /\ request # Nothing <=> server \in {"open", "stat", "read", "list"}
    /\ found \subseteq Parts /\ (found # {} => server \in {"stat", "list"})
    /\ must \subseteq may /\ may \subseteq Names
    /\ call \in [Callers -> {"out", "asked", "answered"}]
    /\ \A c \in Callers :
         /\ asked[c] \in Requests \cup {Nothing}
         /\ asked[c] = Nothing <=> call[c] = "out"
         /\ answer[c].status \in {"none", "ok", "absent", "error"}
         /\ answer[c].parts \subseteq Parts
         /\ seen[c] \in [Files -> SUBSET Versions]

Answered(c, route, status) ==
    call[c] = "answered" /\ asked[c].route \in route /\ answer[c].status = status

\* Whatever an answer says was true of the file it names at some moment of the
\* call: the directory is read on every request (server.rs:34), so nothing in
\* it is older than the call; it is about what was asked for; the
\* contents are never newer than the time stamp that comes with them (they may
\* be older: they are read first); and absent means absent.
AnswersCurrent ==
    \A c \in Callers :
      /\ \A p \in answer[c].parts :
           /\ p.version \in seen[c][p.file] /\ p.stamp \in seen[c][p.file]
           /\ p.version <= p.stamp
      /\ Answered(c, {"get", "head"}, "absent") => 0 \in seen[c][asked[c].file]

\* A listing leaves out no saga that was there all the time, and lists none
\* twice, whatever else comes and goes while the directory is read.
ListingComplete ==
    \A c \in Callers : Answered(c, {"index"}, "ok") =>
      /\ \A n \in Names : 0 \notin seen[c][n] => \E p \in answer[c].parts : p.file = n
      /\ \A p, q \in answer[c].parts : p.file = q.file => p = q

\* With a disk that works, a request fails only because a file that it looks at
\* was removed after the call began: never because files are published.
FailsOnRemovalOnly ==
    \A c \in Callers : Answered(c, {"get", "head", "index", "members"}, "error") =>
      \E f \in LooksAt(asked[c]) : 0 \in seen[c][f] /\ seen[c][f] # {0}

\* Every call returns, also from a server that has gone.
CallsReturn == \A c \in Callers : call[c] # "out" ~> call[c] = "out"

\* serve_until returns once the flag is set, however many requests come in.
ServerStops == stop ~> server = "stopped"
=============================================================================
