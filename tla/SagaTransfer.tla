---------------------------- MODULE SagaTransfer ----------------------------
(***************************************************************************)
(* fetch_to_path (client.rs, and its async sibling): a fetch downloads a   *)
(* saga, which is replaced and removed at its origin meanwhile, writes it  *)
(* to a temporary file and renames that to its destination.  What happens  *)
(* between the request and its answer is the matter of SagaServer.         *)
(*                                                                         *)
(* The temporary file is named after the destination and the process, so   *)
(* fetches of one process share it.  A file is an inode: a fetch keeps     *)
(* writing to the inode it opened, whatever its name has become.  Its      *)
(* content is two parts, each of the version that wrote it last; 0 is a    *)
(* part that is not there.                                                 *)
(***************************************************************************)
EXTENDS Naturals, FiniteSets

CONSTANTS
    Fetches,        \* calls of fetch_to_path for one saga and destination
    Processes,      \* process ids
    ProcessOf,      \* the process each fetch runs in
    Inodes,         \* files on the disk of the destination
    NoFile,
    MaxVersions     \* bound on the versions published

ASSUME SagaAssumption ==
    /\ ProcessOf \in [Fetches -> Processes]
    /\ NoFile \notin Inodes
    /\ MaxVersions \in Nat

VARIABLES
    saga,       \* the version in saga_dir; 0 if there is none
    published,  \* number of versions published so far
    fetch,      \* where each fetch stands
    since,      \* the version in saga_dir when its request was sent
    body,       \* the version it got
    tmp,        \* each process's temporary file
    dest,       \* the destination
    fd,         \* the file each fetch has open
    content     \* what is in the files

sourceVars == <<saga, published>>
diskVars == <<tmp, dest, fd, content>>
vars == <<sourceVars, fetch, since, body, diskVars>>

Empty == <<0, 0>>

Init ==
    /\ saga = 0 /\ published = 0
    /\ fetch = [f \in Fetches |-> "out"]
    /\ since = [f \in Fetches |-> 0]
    /\ body = [f \in Fetches |-> 0]
    /\ tmp = [p \in Processes |-> NoFile]
    /\ dest = NoFile
    /\ fd = [f \in Fetches |-> NoFile]
    /\ content = [i \in Inodes |-> Empty]

-----------------------------------------------------------------------------
(***************************************************************************)
(* The publisher (external) replaces the file in one step, or removes it.  *)
(***************************************************************************)
Publish ==
    /\ published < MaxVersions
    /\ published' = published + 1
    /\ saga' = published'
    /\ UNCHANGED <<fetch, since, body, diskVars>>

Remove ==
    /\ saga # 0
    /\ saga' = 0
    /\ UNCHANGED <<published, fetch, since, body, diskVars>>

-----------------------------------------------------------------------------
(***************************************************************************)
(* fetch_to_path                                                           *)
(***************************************************************************)
Ask(f) ==
    /\ fetch[f] = "out"
    /\ fetch' = [fetch EXCEPT ![f] = "asked"]
    /\ since' = [since EXCEPT ![f] = saga]
    /\ UNCHANGED <<sourceVars, body, diskVars>>

\* fetch_to_path returns; nothing of it is kept.
Return(f) ==
    /\ fetch' = [fetch EXCEPT ![f] = "out"]
    /\ since' = [since EXCEPT ![f] = 0]
    /\ body' = [body EXCEPT ![f] = 0]

\* The version that is there at one moment of the call (SagaServer's
\* AnswersCurrent) arrives.
Download(f) ==
    /\ fetch[f] = "asked"
    /\ saga # 0
    /\ fetch' = [fetch EXCEPT ![f] = "got"]
    /\ body' = [body EXCEPT ![f] = saga]
    /\ UNCHANGED <<sourceVars, since, diskVars>>

\* Mutant: there is no timeout, so only a saga that is absent ends the call.
GiveUp_NoTimeout(f) ==
    /\ fetch[f] = "asked"
    /\ saga = 0
    /\ Return(f)
    /\ UNCHANGED <<sourceVars, diskVars>>

\* An error status, the client's timeout, or a broken connection.
GiveUp(f) ==
    /\ fetch[f] = "asked"
    /\ Return(f)
    /\ UNCHANGED <<sourceVars, diskVars>>

InUse == {dest} \cup {tmp[p] : p \in Processes} \cup {fd[f] : f \in Fetches}

\* Mutant: a temporary file that is there is taken for a finished download.
Open_Resumes(f) ==
    /\ fetch[f] = "got"
    /\ LET p == ProcessOf[f] IN
         IF tmp[p] # NoFile
         THEN /\ fetch' = [fetch EXCEPT ![f] = "written"]
              /\ UNCHANGED <<tmp, fd, content>>
         ELSE /\ fetch' = [fetch EXCEPT ![f] = "open"]
              /\ \E i \in Inodes \ InUse :
                   /\ tmp' = [tmp EXCEPT ![p] = i]
                   /\ fd' = [fd EXCEPT ![f] = i]
                   /\ content' = [content EXCEPT ![i] = Empty]
    /\ UNCHANGED <<sourceVars, since, body, dest>>

\* fs::write opens the temporary file: a new one, or the one that is there,
\* cut to nothing, whoever else has it open.
Open(f) ==
    /\ fetch[f] = "got"
    /\ LET p == ProcessOf[f] IN
         \E i \in Inodes :
           /\ IF tmp[p] = NoFile THEN i \notin InUse ELSE i = tmp[p]
           /\ tmp' = [tmp EXCEPT ![p] = i]
           /\ fd' = [fd EXCEPT ![f] = i]
           /\ content' = [content EXCEPT ![i] = Empty]
    /\ fetch' = [fetch EXCEPT ![f] = "open"]
    /\ UNCHANGED <<sourceVars, since, body, dest>>

\* ... and writes to it, in more than one piece,
WriteSome(f) ==
    /\ fetch[f] = "open"
    /\ content' = [content EXCEPT ![fd[f]][1] = body[f]]
    /\ fetch' = [fetch EXCEPT ![f] = "half"]
    /\ UNCHANGED <<sourceVars, since, body, tmp, dest, fd>>

\* ... the last of which is followed by close.
WriteRest(f) ==
    /\ fetch[f] = "half"
    /\ content' = [content EXCEPT ![fd[f]][2] = body[f]]
    /\ fd' = [fd EXCEPT ![f] = NoFile]
    /\ fetch' = [fetch EXCEPT ![f] = "written"]
    /\ UNCHANGED <<sourceVars, since, body, tmp, dest>>

\* Mutant: the file is renamed while it is still being written.
Install_Early(f) ==
    /\ fetch[f] \in {"half", "written"}
    /\ tmp[ProcessOf[f]] # NoFile
    /\ dest' = tmp[ProcessOf[f]]
    /\ tmp' = [tmp EXCEPT ![ProcessOf[f]] = NoFile]
    /\ fd' = [fd EXCEPT ![f] = NoFile]
    /\ Return(f)
    /\ UNCHANGED <<sourceVars, content>>

\* fs::rename puts the file that has the temporary name in the place of the
\* destination; fetch_to_path returns Ok.
Install(f) ==
    /\ fetch[f] = "written"
    /\ tmp[ProcessOf[f]] # NoFile
    /\ dest' = tmp[ProcessOf[f]]
    /\ tmp' = [tmp EXCEPT ![ProcessOf[f]] = NoFile]
    /\ Return(f)
    /\ UNCHANGED <<sourceVars, fd, content>>

\* Mutant: the error path leaves the file open.
DiskFails_KeepsOpen(f) ==
    /\ fetch[f] \in {"got", "open", "half", "written"}
    /\ Return(f)
    /\ UNCHANGED <<sourceVars, tmp, dest, fd, content>>

\* The temporary name is gone, or the disk fails at any point: fetch_to_path
\* returns Err and leaves the temporary file as it is.
DiskFails(f) ==
    /\ fetch[f] \in {"got", "open", "half", "written"}
    /\ fd' = [fd EXCEPT ![f] = NoFile]
    /\ Return(f)
    /\ UNCHANGED <<sourceVars, tmp, dest, content>>

FetchStep(f) ==
    GiveUp(f) \/ Open(f) \/ WriteSome(f) \/ WriteRest(f) \/ Install(f) \/ DiskFails(f)

\* A process dies with its fetches; its temporary file stays, and a later
\* process may have its id.
Crash(p) ==
    LET dead == {f \in Fetches : ProcessOf[f] = p} IN
    /\ \E f \in dead : fetch[f] # "out"
    /\ fetch' = [f \in Fetches |-> IF f \in dead THEN "out" ELSE fetch[f]]
    /\ since' = [f \in Fetches |-> IF f \in dead THEN 0 ELSE since[f]]
    /\ body' = [f \in Fetches |-> IF f \in dead THEN 0 ELSE body[f]]
    /\ fd' = [f \in Fetches |-> IF f \in dead THEN NoFile ELSE fd[f]]
    /\ UNCHANGED <<sourceVars, tmp, dest, content>>

-----------------------------------------------------------------------------
Next ==
    \/ Publish \/ Remove
    \/ \E f \in Fetches : Ask(f) \/ Download(f) \/ FetchStep(f)
    \/ \E p \in Processes : Crash(p)

Spec == Init /\ [][Next]_vars

\* The client's timeouts and the disk end every call; nobody has to publish,
\* to ask or to answer.
FairSpec == Spec /\ \A f \in Fetches : WF_vars(FetchStep(f))

-----------------------------------------------------------------------------
(***************************************************************************)
(* Properties                                                              *)
(***************************************************************************)
Versions == 0 .. published

\* Typing.  A fetch has a file open only while it writes, and a name stands for
\* a file of its own.
TypeOK ==
    /\ saga \in Versions /\ published \in 0 .. MaxVersions
    /\ fetch \in [Fetches -> {"out", "asked", "got", "open", "half", "written"}]
    /\ since \in [Fetches -> Versions] /\ body \in [Fetches -> Versions]
    /\ tmp \in [Processes -> Inodes \cup {NoFile}]
    /\ dest \in Inodes \cup {NoFile}
    /\ fd \in [Fetches -> Inodes \cup {NoFile}]
    /\ content \in [Inodes -> Versions \X Versions]
    /\ \A f \in Fetches :
         /\ fd[f] # NoFile <=> fetch[f] \in {"open", "half"}
         /\ body[f] # 0 <=> fetch[f] \in {"got", "open", "half", "written"}
    /\ \A p \in Processes : tmp[p] # NoFile => tmp[p] # dest

Whole(i) == content[i][1] = content[i][2] /\ content[i][1] # 0

\* client.rs:85 says a saga is written to its destination atomically: at every
\* moment the destination is absent or a whole saga.
DestWhole == dest # NoFile => Whole(dest)

\* fetch_to_path that returns Ok has put the very version it downloaded at the
\* destination, and one no older than what was being served when it was called,
\* whatever crashed fetches have left on the disk.
InstallsFresh ==
    [][\A f \in Fetches :
         Install(f) => /\ content[dest'] = <<body[f], body[f]>>
                       /\ body[f] >= since[f]]_vars

\* The version at the destination; a torn file is none that was published.
DestVersion ==
    IF dest = NoFile THEN 0
    ELSE IF Whole(dest) THEN content[dest][1] ELSE published + 1

Copy == INSTANCE SagaCopy WITH copy <- DestVersion

\* Fetches in processes of their own, with crashes and disk failures anywhere,
\* implement the copy that client.rs:85 promises.
ImplementsCopy == Copy!CopySpec

\* Every fetch returns, also when the saga is removed or its origin is silent.
FetchReturns == \A f \in Fetches : fetch[f] # "out" ~> fetch[f] = "out"
=============================================================================
