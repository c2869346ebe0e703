------------------------- MODULE SagaTransferProofs -------------------------
(***************************************************************************)
(* Theorems about SagaTransfer, for every number of fetches, processes,    *)
(* files and versions.                                                     *)
(***************************************************************************)
EXTENDS SagaTransfer, TLAPS

\* No two processes have one temporary file.
NamesApart ==
    \A p, q \in Processes : p # q /\ tmp[p] # NoFile => tmp[p] # tmp[q]

TypeInv == TypeOK /\ NamesApart

\* Versions only go up, and what a fetch got is no older than what was there
\* when it asked.
FreshInv ==
    /\ TypeInv
    /\ saga \in {0, published}
    /\ \A f \in Fetches : body[f] # 0 => body[f] >= since[f]

\* What client.rs:97 needs to be right: the temporary file of a process has
\* one user.
OneFetchPerProcess ==
    \A f, g \in Fetches : ProcessOf[f] = ProcessOf[g] => f = g

\* A fetch writes to its own temporary file, and what it has written so far is
\* there.
Mine(f) ==
    LET p == ProcessOf[f] IN
    /\ fd[f] # NoFile => fd[f] = tmp[p]
    /\ fetch[f] = "half" => content[tmp[p]][1] = body[f]
    /\ fetch[f] = "written" =>
         tmp[p] # NoFile /\ content[tmp[p]] = <<body[f], body[f]>>

CopyInv ==
    /\ TypeInv
    /\ DestWhole
    /\ \A f \in Fetches : Mine(f)

-----------------------------------------------------------------------------
(***************************************************************************)
(* What the steps do to the files                                          *)
(***************************************************************************)
LEMMA Halves ==
    ASSUME NEW S, NEW x \in S \X S, NEW v \in S
    PROVE  /\ [x EXCEPT ![1] = v] = <<v, x[2]>>
           /\ [x EXCEPT ![2] = v] = <<x[1], v>>
  OBVIOUS

LEMMA ContentAfterWriteSome ==
    ASSUME TypeOK, NEW f \in Fetches, WriteSome(f)
    PROVE  /\ fd[f] \in Inodes /\ body[f] \in Versions
           /\ content' = [content EXCEPT ![fd[f]] = <<body[f], content[fd[f]][2]>>]
  <1>1. fd[f] \in Inodes /\ body[f] \in Versions
    BY SagaAssumption DEF TypeOK, WriteSome, SagaAssumption
  <1>2. content[fd[f]] \in Versions \X Versions
    BY <1>1 DEF TypeOK
  <1>3. content' = [content EXCEPT ![fd[f]] = [content[fd[f]] EXCEPT ![1] = body[f]]]
    BY DEF WriteSome
  <1>4. [content[fd[f]] EXCEPT ![1] = body[f]] = <<body[f], content[fd[f]][2]>>
    BY <1>1, <1>2, Halves
  <1>5. QED
    BY <1>1, <1>3, <1>4

LEMMA ContentAfterWriteRest ==
    ASSUME TypeOK, NEW f \in Fetches, WriteRest(f)
    PROVE  /\ fd[f] \in Inodes /\ body[f] \in Versions
           /\ content' = [content EXCEPT ![fd[f]] = <<content[fd[f]][1], body[f]>>]
  <1>1. fd[f] \in Inodes /\ body[f] \in Versions
    BY SagaAssumption DEF TypeOK, WriteRest, SagaAssumption
  <1>2. content[fd[f]] \in Versions \X Versions
    BY <1>1 DEF TypeOK
  <1>3. content' = [content EXCEPT ![fd[f]] = [content[fd[f]] EXCEPT ![2] = body[f]]]
    BY DEF WriteRest
  <1>4. [content[fd[f]] EXCEPT ![2] = body[f]] = <<content[fd[f]][1], body[f]>>
    BY <1>1, <1>2, Halves
  <1>5. QED
    BY <1>1, <1>3, <1>4

-----------------------------------------------------------------------------
(***************************************************************************)
(* Typing                                                                  *)
(***************************************************************************)
LEMMA TypeInit == Init => TypeInv
  BY SagaAssumption DEF Init, TypeInv, TypeOK, NamesApart, Versions, Empty, SagaAssumption

LEMMA TypeStep == TypeInv /\ [Next]_vars => TypeInv'
  <1> SUFFICES ASSUME TypeInv, [Next]_vars PROVE TypeInv'
    OBVIOUS
  <1> USE SagaAssumption DEF SagaAssumption
  <1>t. TypeOK /\ NamesApart /\ published \in Nat
    BY DEF TypeInv, TypeOK
  <1>1. CASE Publish
    <2>1. \A v \in Versions : v \in Versions'
      BY <1>t, <1>1 DEF Publish, Versions
    <2>2. content' \in [Inodes -> Versions' \X Versions']
      BY <1>t, <1>1, <2>1 DEF Publish, TypeOK, diskVars
    <2>3. QED
      BY <1>t, <1>1, <2>1, <2>2 DEF Publish, TypeInv, TypeOK, NamesApart, diskVars, Versions
  <1>2. CASE Remove
    BY <1>t, <1>2 DEF Remove, TypeInv, TypeOK, NamesApart, diskVars, Versions
  <1>3. ASSUME NEW f \in Fetches, Ask(f) PROVE TypeInv'
    BY <1>t, <1>3 DEF Ask, TypeInv, TypeOK, NamesApart, sourceVars, diskVars, Versions
  <1>4. ASSUME NEW f \in Fetches, Download(f) PROVE TypeInv'
    BY <1>t, <1>4 DEF Download, TypeInv, TypeOK, NamesApart, sourceVars, diskVars, Versions
  <1>5. ASSUME NEW f \in Fetches, GiveUp(f) PROVE TypeInv'
    BY <1>t, <1>5 DEF GiveUp, Return, TypeInv, TypeOK, NamesApart, sourceVars, diskVars, Versions
  <1>6. ASSUME NEW f \in Fetches, Open(f) PROVE TypeInv'
    <2> DEFINE p == ProcessOf[f]
    <2>1. p \in Processes
      OBVIOUS
    <2>2. PICK i \in Inodes :
             /\ IF tmp[p] = NoFile THEN i \notin InUse ELSE i = tmp[p]
             /\ tmp' = [tmp EXCEPT ![p] = i]
             /\ fd' = [fd EXCEPT ![f] = i]
             /\ content' = [content EXCEPT ![i] = Empty]
      BY <1>6 DEF Open
    <2>3. i # NoFile /\ i # dest /\ \A q \in Processes : q # p => tmp[q] # i
      BY <1>t, <2>1, <2>2 DEF TypeOK, NamesApart, InUse
    <2>4. content' \in [Inodes -> Versions \X Versions]
      BY <1>t, <2>2 DEF TypeOK, Empty, Versions
    <2> HIDE DEF p
    <2>5. NamesApart'
      BY <1>t, <2>1, <2>2, <2>3 DEF TypeOK, NamesApart
    <2>6. TypeOK'
      BY <1>t, <1>6, <2>1, <2>2, <2>3, <2>4 DEF Open, TypeOK, sourceVars, Versions
    <2>7. QED
      BY <2>5, <2>6 DEF TypeInv
  <1>7. ASSUME NEW f \in Fetches, WriteSome(f) PROVE TypeInv'
    <2>1. content' \in [Inodes -> Versions \X Versions]
      BY <1>t, <1>7, ContentAfterWriteSome DEF TypeOK
    <2>2. QED
      BY <1>t, <1>7, <2>1 DEF WriteSome, TypeInv, TypeOK, NamesApart, sourceVars, Versions
  <1>8. ASSUME NEW f \in Fetches, WriteRest(f) PROVE TypeInv'
    <2>1. content' \in [Inodes -> Versions \X Versions]
      BY <1>t, <1>8, ContentAfterWriteRest DEF TypeOK
    <2>2. QED
      BY <1>t, <1>8, <2>1 DEF WriteRest, TypeInv, TypeOK, NamesApart, sourceVars, Versions
  <1>9. ASSUME NEW f \in Fetches, Install(f) PROVE TypeInv'
    <2>1. ProcessOf[f] \in Processes /\ fd[f] = NoFile
      BY <1>t, <1>9 DEF Install, TypeOK
    <2>2. \A q \in Processes : tmp'[q] # NoFile => tmp'[q] # dest'
      BY <1>t, <1>9, <2>1 DEF Install, TypeOK, NamesApart
    <2>3. NamesApart'
      BY <1>t, <1>9, <2>1 DEF Install, TypeOK, NamesApart
    <2>4. QED
      BY <1>t, <1>9, <2>1, <2>2, <2>3 DEF Install, Return, TypeInv, TypeOK, sourceVars, Versions
  <1>10. ASSUME NEW f \in Fetches, DiskFails(f) PROVE TypeInv'
    BY <1>t, <1>10 DEF DiskFails, Return, TypeInv, TypeOK, NamesApart, sourceVars, Versions
  <1>11. ASSUME NEW p \in Processes, Crash(p) PROVE TypeInv'
    BY <1>t, <1>11 DEF Crash, TypeInv, TypeOK, NamesApart, sourceVars, Versions
  <1>12. CASE UNCHANGED vars
    BY <1>t, <1>12 DEF vars, sourceVars, diskVars, TypeInv, TypeOK, NamesApart, Versions
  <1>13. QED
    BY <1>1, <1>2, <1>3, <1>4, <1>5, <1>6, <1>7, <1>8, <1>9, <1>10, <1>11, <1>12
       DEF Next, FetchStep

\* A fetch has a file open only while it writes to it, and no file has two
\* names, however fetches share processes, fail and crash.
THEOREM TransferTypeCorrect == Spec => []TypeOK
  <1>1. TypeInv => TypeOK
    BY DEF TypeInv
  <1>2. QED
    BY <1>1, TypeInit, TypeStep, PTL DEF Spec

-----------------------------------------------------------------------------
(***************************************************************************)
(* Freshness                                                               *)
(***************************************************************************)
LEMMA FreshInit == Init => FreshInv
  BY TypeInit DEF Init, FreshInv

LEMMA FreshStep == FreshInv /\ [Next]_vars => FreshInv'
  <1> SUFFICES ASSUME FreshInv, [Next]_vars PROVE FreshInv'
    OBVIOUS
  <1>t. TypeInv' /\ TypeOK
    BY TypeStep DEF FreshInv, TypeInv
  <1> USE DEF FreshInv
  <1>1. CASE Publish
    BY <1>t, <1>1 DEF Publish
  <1>2. CASE Remove
    BY <1>t, <1>2 DEF Remove
  <1>3. ASSUME NEW f \in Fetches, Ask(f) PROVE FreshInv'
    BY <1>t, <1>3 DEF Ask, sourceVars, TypeOK
  <1>4. ASSUME NEW f \in Fetches, Download(f) PROVE FreshInv'
    BY <1>t, <1>4 DEF Download, sourceVars, TypeOK, Versions
  <1>5. ASSUME NEW f \in Fetches, Return(f), UNCHANGED sourceVars PROVE FreshInv'
    BY <1>t, <1>5 DEF Return, sourceVars, TypeOK
  <1>6. ASSUME NEW f \in Fetches, UNCHANGED <<sourceVars, since, body>> PROVE FreshInv'
    BY <1>t, <1>6 DEF sourceVars
  <1>7. ASSUME NEW f \in Fetches, FetchStep(f) PROVE FreshInv'
    BY <1>5, <1>6, <1>7
       DEF FetchStep, GiveUp, Open, WriteSome, WriteRest, Install, DiskFails
  <1>8. ASSUME NEW p \in Processes, Crash(p) PROVE FreshInv'
    BY <1>t, <1>8 DEF Crash, sourceVars, TypeOK
  <1>9. CASE UNCHANGED vars
    BY <1>t, <1>9 DEF vars, sourceVars
  <1>10. QED
    BY <1>1, <1>2, <1>3, <1>4, <1>7, <1>8, <1>9 DEF Next

-----------------------------------------------------------------------------
(***************************************************************************)
(* The destination, if every process has one fetch at a time               *)
(***************************************************************************)
LEMMA CopyInit == Init => CopyInv
  BY TypeInit, SagaAssumption DEF Init, CopyInv, Mine, DestWhole, SagaAssumption

\* The step of one fetch leaves what the others have written alone.
LEMMA OthersStay ==
    ASSUME OneFetchPerProcess, TypeOK, CopyInv, NEW f \in Fetches, NEW g \in Fetches, f # g,
           NEW i \in Inodes, NEW x,
           i = tmp[ProcessOf[f]] \/ i \notin InUse,
           content' = [content EXCEPT ![i] = x],
           fetch'[g] = fetch[g], body'[g] = body[g], fd'[g] = fd[g],
           tmp'[ProcessOf[g]] = tmp[ProcessOf[g]]
    PROVE  Mine(g)'
  <1> DEFINE q == ProcessOf[g]
  <1>1. q \in Processes /\ ProcessOf[f] \in Processes /\ q # ProcessOf[f]
    BY SagaAssumption DEF SagaAssumption, OneFetchPerProcess
  <1>2. Mine(g)
    BY DEF CopyInv
  <1>3. fetch[g] \in {"half", "written"} => tmp[q] \in Inodes
    BY <1>1, <1>2, SagaAssumption DEF Mine, TypeOK, SagaAssumption
  <1>4. tmp[q] \in Inodes => tmp[q] # i
    BY <1>1, SagaAssumption DEF CopyInv, TypeInv, NamesApart, InUse, SagaAssumption
  <1>5. fetch[g] \in {"half", "written"} => content'[tmp[q]] = content[tmp[q]]
    BY <1>3, <1>4 DEF TypeOK
  <1>6. QED
    BY <1>2, <1>5 DEF Mine

LEMMA CopyStep ==
    ASSUME OneFetchPerProcess
    PROVE  CopyInv /\ [Next]_vars => CopyInv'
  <1> SUFFICES ASSUME CopyInv, [Next]_vars PROVE CopyInv'
    OBVIOUS
  <1> USE SagaAssumption DEF SagaAssumption
  <1>t. TypeOK /\ NamesApart /\ DestWhole /\ TypeInv' /\ \A g \in Fetches : Mine(g)
    BY TypeStep DEF CopyInv, TypeInv
  <1>1. ASSUME NEW f \in Fetches, UNCHANGED diskVars,
               fetch'[f] \notin {"half", "written"},
               \A g \in Fetches \ {f} : fetch'[g] = fetch[g] /\ body'[g] = body[g]
        PROVE  CopyInv'
    BY <1>t, <1>1 DEF CopyInv, diskVars, DestWhole, Whole, Mine
  <1>2. CASE Publish \/ Remove \/ UNCHANGED vars
    BY <1>t, <1>2
       DEF Publish, Remove, vars, sourceVars, diskVars, CopyInv, DestWhole, Whole, Mine
  <1>3. ASSUME NEW f \in Fetches, Ask(f) \/ Download(f) \/ GiveUp(f) PROVE CopyInv'
    BY <1>t, <1>1, <1>3 DEF Ask, Download, GiveUp, Return, TypeOK
  <1>4. ASSUME NEW f \in Fetches, Open(f) PROVE CopyInv'
    <2> DEFINE p == ProcessOf[f]
    <2>1. PICK i \in Inodes :
             /\ IF tmp[p] = NoFile THEN i \notin InUse ELSE i = tmp[p]
             /\ tmp' = [tmp EXCEPT ![p] = i]
             /\ fd' = [fd EXCEPT ![f] = i]
             /\ content' = [content EXCEPT ![i] = Empty]
      BY <1>4 DEF Open
    <2>2. /\ p \in Processes /\ i # dest
          /\ fetch' = [fetch EXCEPT ![f] = "open"] /\ body' = body /\ dest' = dest
      BY <1>t, <1>4, <2>1 DEF Open, TypeOK, InUse
    <2>3. DestWhole'
      BY <1>t, <2>1, <2>2 DEF TypeOK, DestWhole, Whole
    <2>4. Mine(f)'
      BY <1>t, <2>1, <2>2 DEF TypeOK, Mine
    <2>5. ASSUME NEW g \in Fetches, f # g PROVE Mine(g)'
      <3>1. ProcessOf[g] # p /\ ProcessOf[g] \in Processes
        BY <2>5 DEF OneFetchPerProcess
      <3>2. /\ fetch'[g] = fetch[g] /\ body'[g] = body[g] /\ fd'[g] = fd[g]
            /\ tmp'[ProcessOf[g]] = tmp[ProcessOf[g]]
        BY <1>t, <2>1, <2>2, <2>5, <3>1 DEF TypeOK
      <3>3. QED
        BY <1>t, <2>1, <2>5, <3>2, OthersStay
    <2>6. QED
      BY <1>t, <2>3, <2>4, <2>5 DEF CopyInv
  <1>5. ASSUME NEW f \in Fetches, WriteSome(f) PROVE CopyInv'
    <2> DEFINE i == fd[f]  x == <<body[f], content[fd[f]][2]>>
    <2>1. /\ i \in Inodes /\ content' = [content EXCEPT ![i] = x]
          /\ fetch' = [fetch EXCEPT ![f] = "half"]
          /\ tmp' = tmp /\ dest' = dest /\ fd' = fd /\ body' = body
      BY <1>t, <1>5, ContentAfterWriteSome DEF WriteSome
    <2>2. i = tmp[ProcessOf[f]] /\ ProcessOf[f] \in Processes /\ i # dest
      BY <1>t, <2>1 DEF Mine, TypeOK
    <2>3. x[1] = body[f]
      OBVIOUS
    <2> HIDE DEF i, x
    <2>4. DestWhole'
      BY <1>t, <2>1, <2>2 DEF TypeOK, DestWhole, Whole
    <2>5. Mine(f)'
      <3>1. content'[tmp[ProcessOf[f]]] = x
        BY <1>t, <2>1, <2>2 DEF TypeOK
      <3>2. QED
        BY <1>t, <2>1, <2>2, <2>3, <3>1 DEF TypeOK, Mine
    <2>6. ASSUME NEW g \in Fetches, f # g PROVE Mine(g)'
      <3>1. fetch'[g] = fetch[g]
        BY <1>t, <2>1, <2>6 DEF TypeOK
      <3>2. QED
        BY <1>t, <2>1, <2>2, <2>6, <3>1, OthersStay
    <2>7. QED
      BY <1>t, <2>4, <2>5, <2>6 DEF CopyInv
  <1>6. ASSUME NEW f \in Fetches, WriteRest(f) PROVE CopyInv'
    <2> DEFINE i == fd[f]  x == <<content[fd[f]][1], body[f]>>
    <2>1. /\ i \in Inodes /\ content' = [content EXCEPT ![i] = x]
          /\ fetch[f] = "half" /\ fetch' = [fetch EXCEPT ![f] = "written"]
          /\ fd' = [fd EXCEPT ![f] = NoFile]
          /\ tmp' = tmp /\ dest' = dest /\ body' = body
      BY <1>t, <1>6, ContentAfterWriteRest DEF WriteRest
    <2>2. i = tmp[ProcessOf[f]] /\ ProcessOf[f] \in Processes /\ i # dest
      BY <1>t, <2>1 DEF Mine, TypeOK
    <2>3. x = <<body[f], body[f]>>
      BY <1>t, <2>1, <2>2 DEF Mine
    <2> HIDE DEF i, x
    <2>4. DestWhole'
      BY <1>t, <2>1, <2>2 DEF TypeOK, DestWhole, Whole
    <2>5. Mine(f)'
      <3>1. content'[tmp[ProcessOf[f]]] = <<body[f], body[f]>>
        BY <1>t, <2>1, <2>2, <2>3 DEF TypeOK
      <3>2. QED
        BY <1>t, <2>1, <2>2, <3>1 DEF TypeOK, Mine
    <2>6. ASSUME NEW g \in Fetches, f # g PROVE Mine(g)'
      <3>1. fetch'[g] = fetch[g] /\ fd'[g] = fd[g]
        BY <1>t, <2>1, <2>6 DEF TypeOK
      <3>2. QED
        BY <1>t, <2>1, <2>2, <2>6, <3>1, OthersStay
    <2>7. QED
      BY <1>t, <2>4, <2>5, <2>6 DEF CopyInv
  <1>7. ASSUME NEW f \in Fetches, Install(f) PROVE CopyInv'
    <2>1. /\ tmp' = [tmp EXCEPT ![ProcessOf[f]] = NoFile] /\ dest' = tmp[ProcessOf[f]]
          /\ fetch' = [fetch EXCEPT ![f] = "out"] /\ body' = [body EXCEPT ![f] = 0]
          /\ fd' = fd /\ content' = content /\ fetch[f] = "written"
      BY <1>7 DEF Install, Return
    <2>2. /\ content[tmp[ProcessOf[f]]] = <<body[f], body[f]>>
          /\ tmp[ProcessOf[f]] # NoFile /\ body[f] # 0 /\ fd[f] = NoFile
          /\ ProcessOf[f] \in Processes
      BY <1>t, <2>1 DEF Mine, TypeOK
    <2>3. DestWhole'
      BY <2>1, <2>2 DEF DestWhole, Whole
    <2>4. Mine(f)'
      BY <1>t, <2>1, <2>2 DEF TypeOK, Mine
    <2>5. ASSUME NEW g \in Fetches, f # g PROVE Mine(g)'
      <3>1. ProcessOf[g] # ProcessOf[f] /\ ProcessOf[g] \in Processes
        BY <2>5 DEF OneFetchPerProcess
      <3>2. QED
        BY <1>t, <2>1, <2>5, <3>1 DEF TypeOK, Mine
    <2>6. QED
      BY <1>t, <2>3, <2>4, <2>5 DEF CopyInv
  <1>8. ASSUME NEW f \in Fetches, DiskFails(f) PROVE CopyInv'
    <2>1. DestWhole'
      BY <1>t, <1>8 DEF DiskFails, DestWhole, Whole
    <2>2. ASSUME NEW g \in Fetches PROVE Mine(g)'
      BY <1>t, <1>8 DEF DiskFails, Return, TypeOK, Mine
    <2>3. QED
      BY <1>t, <2>1, <2>2 DEF CopyInv
  <1>9. ASSUME NEW p \in Processes, Crash(p) PROVE CopyInv'
    <2>1. DestWhole'
      BY <1>t, <1>9 DEF Crash, DestWhole, Whole
    <2>2. ASSUME NEW g \in Fetches PROVE Mine(g)'
      BY <1>t, <1>9 DEF Crash, TypeOK, Mine
    <2>3. QED
      BY <1>t, <2>1, <2>2 DEF CopyInv
  <1>10. QED
    BY <1>2, <1>3, <1>4, <1>5, <1>6, <1>7, <1>8, <1>9 DEF Next, FetchStep

LEMMA CopyInvariant ==
    ASSUME OneFetchPerProcess
    PROVE  Spec => []CopyInv
  <1>1. CopyInv /\ [Next]_vars => CopyInv'
    BY CopyStep
  <1>2. QED
    BY <1>1, CopyInit, PTL DEF Spec

\* client.rs:85: with one fetch per process at a time, the destination is
\* absent or a whole saga at every moment.
THEOREM DestinationWhole ==
    ASSUME OneFetchPerProcess
    PROVE  Spec => []DestWhole
  <1>1. CopyInv => DestWhole
    BY DEF CopyInv
  <1>2. QED
    BY <1>1, CopyInvariant, PTL

\* client.rs:106: what fetch_to_path installs is what it downloaded, and no older than
\* what was served when it was called, whatever crashed fetches left behind.
THEOREM InstallIsFresh ==
    ASSUME OneFetchPerProcess
    PROVE  Spec => InstallsFresh
  <1>1. ASSUME CopyInv, FreshInv, NEW f \in Fetches, Install(f)
        PROVE  content[dest'] = <<body[f], body[f]>> /\ body[f] >= since[f]
    BY <1>1 DEF CopyInv, TypeInv, TypeOK, FreshInv, Mine, Install
  <1> DEFINE Fresh == \A f \in Fetches :
                        Install(f) => /\ content[dest'] = <<body[f], body[f]>>
                                      /\ body[f] >= since[f]
  <1>2. CopyInv /\ FreshInv /\ [Next]_vars => [Fresh]_vars
    BY <1>1
  <1>3. Spec => []FreshInv
    BY FreshInit, FreshStep, PTL DEF Spec
  <1>4. Spec => []CopyInv
    BY CopyInvariant
  <1> HIDE DEF Fresh
  <1>5. Spec => [][Fresh]_vars
    BY <1>2, <1>3, <1>4, PTL DEF Spec
  <1>6. QED
    BY <1>5 DEF InstallsFresh, Fresh

-----------------------------------------------------------------------------
(***************************************************************************)
(* Refinement                                                              *)
(***************************************************************************)
LEMMA CopyInitMaps == Init => Copy!CopyInit
  BY DEF Init, Copy!CopyInit, DestVersion

\* Only Install changes the version at the destination, to one that was
\* published.
LEMMA CopyStepMaps ==
    ASSUME OneFetchPerProcess, CopyInv, CopyInv', [Next]_vars
    PROVE  [Copy!Publish \/ Copy!Install]_<<published, DestVersion>>
  <1> USE SagaAssumption DEF SagaAssumption
  <1>t. TypeOK /\ DestWhole /\ DestWhole' /\ \A g \in Fetches : Mine(g)
    BY DEF CopyInv, TypeInv
  <1>d. /\ DestVersion = IF dest = NoFile THEN 0 ELSE content[dest][1]
        /\ DestVersion' = IF dest' = NoFile THEN 0 ELSE content'[dest'][1]
    BY <1>t DEF DestVersion, DestWhole
  <1>1. CASE Publish
    BY <1>d, <1>1 DEF Publish, diskVars, Copy!Publish
  <1>2. ASSUME UNCHANGED <<published, dest>>, dest # NoFile => content'[dest] = content[dest]
        PROVE  UNCHANGED <<published, DestVersion>>
    BY <1>d, <1>2
  <1>3. ASSUME NEW f \in Fetches, Install(f) PROVE Copy!Install
    <2>1. dest' = tmp[ProcessOf[f]] /\ content' = content /\ published' = published
      BY <1>3 DEF Install, sourceVars
    <2>2. /\ content[tmp[ProcessOf[f]]] = <<body[f], body[f]>>
          /\ tmp[ProcessOf[f]] # NoFile /\ body[f] # 0 /\ body[f] \in Versions
      BY <1>t, <1>3 DEF Install, Mine, TypeOK
    <2>3. DestVersion' = body[f]
      BY <1>d, <2>1, <2>2
    <2>4. QED
      BY <1>t, <2>1, <2>2, <2>3 DEF Copy!Install, TypeOK, Versions
  <1>4. ASSUME NEW f \in Fetches, Open(f) PROVE UNCHANGED <<published, DestVersion>>
    <2>1. PICK i \in Inodes : i # dest /\ content' = [content EXCEPT ![i] = Empty]
      BY <1>t, <1>4 DEF Open, TypeOK, InUse
    <2>2. QED
      BY <1>t, <1>2, <1>4, <2>1 DEF Open, sourceVars, TypeOK
  <1>5. ASSUME NEW f \in Fetches, WriteSome(f) \/ WriteRest(f)
        PROVE  UNCHANGED <<published, DestVersion>>
    <2>1. fd[f] \in Inodes /\ fd[f] # dest
      BY <1>t, <1>5 DEF WriteSome, WriteRest, Mine, TypeOK
    <2>2. PICK x : content' = [content EXCEPT ![fd[f]] = x]
      BY <1>t, <1>5, ContentAfterWriteSome, ContentAfterWriteRest
    <2>3. UNCHANGED <<published, dest>>
      BY <1>5 DEF WriteSome, WriteRest, sourceVars
    <2>4. QED
      BY <1>t, <1>2, <2>1, <2>2, <2>3 DEF TypeOK
  <1>6. CASE Remove \/ UNCHANGED vars
    BY <1>2, <1>6 DEF Remove, vars, sourceVars, diskVars
  <1>7. ASSUME NEW f \in Fetches, Ask(f) \/ Download(f) \/ GiveUp(f) \/ DiskFails(f)
        PROVE  UNCHANGED <<published, DestVersion>>
    BY <1>2, <1>7 DEF Ask, Download, GiveUp, DiskFails, sourceVars, diskVars
  <1>8. ASSUME NEW p \in Processes, Crash(p) PROVE UNCHANGED <<published, DestVersion>>
    BY <1>2, <1>8 DEF Crash, sourceVars
  <1>9. QED
    BY <1>1, <1>3, <1>4, <1>5, <1>6, <1>7, <1>8 DEF Next, FetchStep

\* client.rs:85: fetches in processes of their own implement an atomic copy of
\* the saga.
THEOREM TransferImplementsCopy ==
    ASSUME OneFetchPerProcess
    PROVE  Spec => ImplementsCopy
  <1>1. CopyInv /\ CopyInv' /\ [Next]_vars
          => [Copy!Publish \/ Copy!Install]_<<published, DestVersion>>
    BY CopyStepMaps
  <1>2. QED
    BY <1>1, CopyInitMaps, CopyInvariant, PTL DEF Spec, ImplementsCopy, Copy!CopySpec
=============================================================================
