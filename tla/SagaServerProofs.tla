--------------------------- MODULE SagaServerProofs ---------------------------
(***************************************************************************)
(* Theorems about SagaServer, for every number of callers, sagas and       *)
(* changes.                                                                *)
(***************************************************************************)
EXTENDS SagaServer, TLAPS

Answers == [status : {"none", "ok", "absent", "error"}, parts : SUBSET Parts]

\* TypeOK, with the domains of the functions.
TypeInv ==
    /\ TypeOK
    /\ asked \in [Callers -> Requests \cup {Nothing}]
    /\ answer \in [Callers -> Answers]
    /\ seen \in [Callers -> [Files -> SUBSET Versions]]

\* The handler works for a caller that still waits for its answer, or for none.
JobInv ==
    /\ request = Nothing => job = NoCaller
    /\ job # NoCaller => call[job] = "asked" /\ asked[job] = request
    /\ server = "stat" => request.route \in {"get", "head"}
    /\ server = "read" => request = Members
    /\ server = "list" => request = Index

\* Whoever waits has seen what is there now, and has no answer yet.
WaitInv ==
    \A c \in Callers :
      /\ call[c] # "answered" => answer[c] = None
      /\ call[c] = "asked" => \A f \in LooksAt(asked[c]) : disk[f] \in seen[c][f]

\* What the handler has found.  A file it has read is there, or has been
\* replaced by a newer one, or is gone.
FoundInv ==
    /\ server = "stat" =>
         /\ found # {}
         /\ \A p \in found :
              /\ p.file = request.file /\ p.version # 0
              /\ disk[p.file] # 0 => p.version <= disk[p.file]
    /\ server = "list" =>
         /\ \A p \in found : p.file \in Names /\ p.version = p.stamp
         /\ \A p, q \in found : p.file = q.file => p = q

\* The same as the caller it works for has seen it: what may be listed has been
\* there, and what need not be listed has been away.
SeenInv ==
    job # NoCaller =>
      /\ \A p \in found : p.version \in seen[job][p.file]
      /\ server = "read" => \E v \in seen[job][Snapshot] : v # 0
      /\ server = "list" =>
           \A n \in Names :
             /\ n \in may => \E v \in seen[job][n] : v # 0
             /\ n \notin must => 0 \in seen[job][n]

\* An answer a to request r of a caller that has seen s.
GoodAnswer(r, a, s) ==
    /\ \A p \in a.parts :
         /\ p.version \in s[p.file] /\ p.stamp \in s[p.file]
         /\ p.version <= p.stamp
    /\ a.status = "absent" /\ r.route \in {"get", "head"} => 0 \in s[r.file]
    /\ a.status = "ok" /\ r.route = "index" =>
         /\ \A n \in Names : 0 \notin s[n] => \E p \in a.parts : p.file = n
         /\ \A p, q \in a.parts : p.file = q.file => p = q
    /\ a.status = "error" => \E f \in LooksAt(r) : 0 \in s[f] /\ s[f] # {0}

AnswerInv ==
    \A c \in Callers : call[c] = "answered" => GoodAnswer(asked[c], answer[c], seen[c])

ServerInv == TypeInv /\ JobInv /\ WaitInv /\ FoundInv /\ SeenInv /\ AnswerInv

-----------------------------------------------------------------------------
LEMMA RequestShapes ==
    /\ Nothing \notin Requests
    /\ \A r \in Requests :
         /\ LooksAt(r) \subseteq Files
         /\ r.route \in {"get", "head"} => r.file \in Names /\ LooksAt(r) = {r.file}
         /\ r.route = "members" => r = Members
         /\ r.route = "index" => r = Index
         /\ r.route \in {"get", "head", "members", "index"}
    /\ LooksAt(Members) = {Snapshot} /\ LooksAt(Index) = Names
    /\ Members.file = Snapshot /\ Members.route = "members" /\ Index.route = "index"
  <1>1. Nothing.route = "none" /\ Index.route = "index" /\ Members.route = "members"
        /\ Members.file = Snapshot /\ Index.file = NoFile
    BY DEF Nothing, Index, Members
  <1>2. \A n : Get(n).route = "get" /\ Head(n).route = "head"
               /\ Get(n).file = n /\ Head(n).file = n
    BY DEF Get, Head
  <1>3. LooksAt(Members) = {Snapshot} /\ LooksAt(Index) = Names
    BY <1>1 DEF LooksAt
  <1>4. ASSUME NEW r \in Requests
        PROVE  /\ r.route \in {"get", "head"} => r.file \in Names /\ LooksAt(r) = {r.file}
               /\ r.route = "members" => r = Members
               /\ r.route = "index" => r = Index
               /\ r.route \in {"get", "head", "members", "index"}
    BY <1>1, <1>2 DEF Requests, LooksAt
  <1>5. \A r \in Requests : LooksAt(r) \subseteq Files
    BY <1>3, <1>4 DEF Files
  <1>6. Nothing \notin Requests
    BY <1>1, <1>4
  <1>7. QED
    BY <1>1, <1>3, <1>4, <1>5, <1>6

\* What a change of the files does.
LEMMA ChangeFacts ==
    ASSUME ServerInv, NEW f \in Files, Publish(f) \/ Remove(f)
    PROVE  /\ changes \in Nat /\ changes' = changes + 1 /\ changes' \in 0 .. MaxChanges
           /\ Versions \subseteq Versions'
           /\ disk \in [Files -> Versions] /\ disk' = [disk EXCEPT ![f] = disk'[f]]
           /\ disk'[f] \in {0, changes'} /\ disk' \in [Files -> Versions']
           /\ seen' \in [Callers -> [Files -> SUBSET Versions']]
           /\ \A c \in Callers :
                /\ call[c] # "asked" => seen'[c] = seen[c]
                /\ \A g \in Files : seen[c][g] \subseteq seen'[c][g]
                /\ call[c] = "asked" /\ f \in LooksAt(asked[c]) => disk'[f] \in seen'[c][f]
           /\ UNCHANGED <<stop, server, job, request, found, call, asked, answer>>
  <1>1. TypeInv /\ TypeOK /\ MaxChanges \in Nat
    BY ServerAssumption DEF ServerInv, TypeInv, ServerAssumption
  <1>2. Change(f)
    BY DEF Publish, Remove
  <1>3. changes \in Nat /\ changes' = changes + 1 /\ changes' \in 0 .. MaxChanges
    BY <1>1, <1>2 DEF TypeOK, Change
  <1>4. Versions \subseteq Versions' /\ 0 \in Versions' /\ changes' \in Versions'
    BY <1>3 DEF Versions
  <1>5. disk \in [Files -> Versions] /\ seen \in [Callers -> [Files -> SUBSET Versions]]
    BY <1>1 DEF TypeOK, TypeInv
  <1>6. disk' = [disk EXCEPT ![f] = disk'[f]] /\ disk'[f] \in {0, changes'}
    BY <1>3, <1>5 DEF Publish, Remove
  <1>7. disk' \in [Files -> Versions']
    BY <1>4, <1>5, <1>6
  <1>8. seen' = [c \in Callers |->
                   IF call[c] = "asked" /\ f \in LooksAt(asked[c])
                   THEN [seen[c] EXCEPT ![f] = seen[c][f] \cup {disk'[f]}] ELSE seen[c]]
    BY <1>2 DEF Change
  <1>9. ASSUME NEW c \in Callers
        PROVE  /\ seen'[c] \in [Files -> SUBSET Versions']
               /\ call[c] # "asked" => seen'[c] = seen[c]
               /\ \A g \in Files : seen[c][g] \subseteq seen'[c][g]
               /\ call[c] = "asked" /\ f \in LooksAt(asked[c]) => disk'[f] \in seen'[c][f]
    <2>1. seen[c] \in [Files -> SUBSET Versions] /\ disk'[f] \in Versions'
      BY <1>4, <1>5, <1>7
    <2>2. seen[c] \in [Files -> SUBSET Versions']
      BY <1>4, <2>1
    <2>3. CASE call[c] = "asked" /\ f \in LooksAt(asked[c])
      <3>1. seen'[c] = [seen[c] EXCEPT ![f] = seen[c][f] \cup {disk'[f]}]
        BY <1>8, <2>3
      <3>2. QED
        BY <2>1, <2>2, <2>3, <3>1
    <2>4. CASE ~ (call[c] = "asked" /\ f \in LooksAt(asked[c]))
      BY <1>8, <2>2, <2>4
    <2>5. QED
      BY <2>3, <2>4
  <1>10. seen' \in [Callers -> [Files -> SUBSET Versions']]
    BY <1>8, <1>9
  <1>11. UNCHANGED <<stop, server, job, request, found, call, asked, answer>>
    BY <1>2 DEF Change
  <1>12. QED
    BY <1>3, <1>4, <1>5, <1>6, <1>7, <1>9, <1>10, <1>11

LEMMA ServerInit == Init => ServerInv
  <1> SUFFICES ASSUME Init PROVE ServerInv
    OBVIOUS
  <1>1. 0 \in Versions /\ 1 \in Versions /\ Versions = 0 .. 1
    BY DEF Init, Versions
  <1>2. TypeInv
    <2>1. disk \in [Files -> Versions]
      BY <1>1 DEF Init
    <2>2. seen \in [Callers -> [Files -> SUBSET Versions]]
      BY DEF Init, Unseen
    <2>3. answer \in [Callers -> Answers]
      BY DEF Init, None, Answer, Answers
    <2>4. changes \in 0 .. MaxChanges
      BY ServerAssumption DEF Init, ServerAssumption
    <2>5. QED
      BY <2>1, <2>2, <2>3, <2>4 DEF Init, TypeInv, TypeOK, Answers
  <1>3. JobInv /\ WaitInv /\ FoundInv /\ SeenInv /\ AnswerInv
    BY DEF Init, JobInv, WaitInv, FoundInv, SeenInv, AnswerInv
  <1>4. QED
    BY <1>2, <1>3 DEF ServerInv

\* A change of the files: what was read stays read, and callers that wait see
\* the change.
LEMMA ChangeKeeps ==
    ASSUME ServerInv, NEW f \in Files, Publish(f) \/ Remove(f)
    PROVE  ServerInv'
  <1>f. /\ changes \in Nat /\ changes' = changes + 1 /\ changes' \in 0 .. MaxChanges
        /\ Versions \subseteq Versions'
        /\ disk \in [Files -> Versions] /\ disk' = [disk EXCEPT ![f] = disk'[f]]
        /\ disk'[f] \in {0, changes'} /\ disk' \in [Files -> Versions']
        /\ seen' \in [Callers -> [Files -> SUBSET Versions']]
        /\ \A c \in Callers :
             /\ call[c] # "asked" => seen'[c] = seen[c]
             /\ \A g \in Files : seen[c][g] \subseteq seen'[c][g]
             /\ call[c] = "asked" /\ f \in LooksAt(asked[c]) => disk'[f] \in seen'[c][f]
        /\ UNCHANGED <<stop, server, job, request, found, call, asked, answer>>
    BY ChangeFacts
  <1>i. TypeInv /\ JobInv /\ WaitInv /\ FoundInv /\ SeenInv /\ AnswerInv /\ TypeOK
    BY DEF ServerInv, TypeInv
  <1>1. Parts \subseteq Parts'
    BY <1>f DEF Parts
  <1>2. must' \subseteq may' /\ may' \subseteq Names
    BY <1>i DEF TypeOK, Publish, Remove
  <1>3. TypeOK'
    BY <1>f, <1>i, <1>1, <1>2 DEF TypeOK
  <1>4. TypeInv'
    BY <1>f, <1>i, <1>1, <1>3 DEF TypeInv, Answers
  <1>5. JobInv'
    BY <1>f, <1>i DEF JobInv
  <1>6. WaitInv'
    <2> SUFFICES ASSUME NEW c \in Callers, call[c] = "asked", NEW g \in LooksAt(asked[c])
                 PROVE  disk'[g] \in seen'[c][g]
      BY <1>f, <1>i DEF WaitInv, None, Answer
    <2>1. g \in Files
      <3>1. asked[c] \in Requests
        BY <1>i DEF TypeInv, TypeOK
      <3>2. QED
        BY <3>1, RequestShapes
    <2>2. CASE g = f
      BY <1>f, <2>2
    <2>3. CASE g # f
      BY <1>f, <1>i, <2>1, <2>3 DEF WaitInv
    <2>4. QED
      BY <2>2, <2>3
  <1>7. FoundInv'
    <2>1. \A p \in found : p.file \in Files /\ p.version \in Nat /\ p.version <= changes
      BY <1>f, <1>i DEF TypeOK, Parts, Versions
    <2>2. ASSUME NEW p \in found, disk[p.file] # 0 => p.version <= disk[p.file],
                 disk'[p.file] # 0
          PROVE  p.version <= disk'[p.file]
      <3>1. CASE p.file = f
        BY <1>f, <2>1, <2>2, <3>1
      <3>2. CASE p.file # f
        BY <1>f, <2>1, <2>2, <3>2
      <3>3. QED
        BY <3>1, <3>2
    <2>3. QED
      BY <1>f, <1>i, <2>2 DEF FoundInv
  <1>8. SeenInv'
    <2> SUFFICES ASSUME job # NoCaller
                 PROVE  SeenInv'
      BY <1>f DEF SeenInv
    <2>1. job \in Callers /\ call[job] = "asked" /\ asked[job] = request
      BY <1>i DEF TypeOK, JobInv
    <2>2. \A p \in found : p.version \in seen'[job][p.file]
      BY <1>f, <1>i, <2>1 DEF SeenInv, TypeOK, Parts
    <2>3. server = "read" => \E v \in seen'[job][Snapshot] : v # 0
      BY <1>f, <1>i, <2>1 DEF SeenInv, Files
    <2>4. ASSUME server = "list", NEW n \in Names
          PROVE  /\ n \in may' => \E v \in seen'[job][n] : v # 0
                 /\ n \notin must' => 0 \in seen'[job][n]
      <3>1. n \in Files /\ (n = f => disk'[f] \in seen'[job][f])
        BY <1>f, <1>i, <2>1, <2>4, RequestShapes DEF JobInv, Files
      <3>2. seen[job][n] \subseteq seen'[job][n]
        BY <1>f, <2>1, <3>1
      <3>3. CASE Publish(f)
        <4>1. may' \subseteq may \cup {f} /\ must' = must /\ disk'[f] = changes'
          BY <1>f, <2>4, <3>3 DEF Publish
        <4>2. QED
          BY <1>f, <1>i, <2>4, <3>1, <3>2, <4>1 DEF SeenInv
      <3>4. CASE Remove(f)
        <4>1. may' = may /\ must' = must \ {f} /\ disk'[f] = 0
          BY <1>f, <3>4 DEF Remove
        <4>2. QED
          BY <1>i, <2>4, <3>1, <3>2, <4>1 DEF SeenInv
      <3>5. QED
        BY <3>3, <3>4
    <2>5. QED
      BY <1>f, <2>2, <2>3, <2>4 DEF SeenInv
  <1>9. AnswerInv'
    BY <1>f, <1>i DEF AnswerInv, GoodAnswer
  <1>10. QED
    BY <1>4, <1>5, <1>6, <1>7, <1>8, <1>9 DEF ServerInv

\* A handler that responds well leaves nothing behind.
LEMMA RespondKeeps ==
    ASSUME ServerInv, NEW status \in {"ok", "absent", "error"}, NEW parts \in SUBSET Parts,
           server \in {"open", "stat", "read", "list"},
           job # NoCaller => GoodAnswer(request, Answer(status, parts), seen[job]),
           Respond(status, parts), UNCHANGED <<diskVars, stop>>
    PROVE  ServerInv'
  <1>i. TypeInv /\ JobInv /\ WaitInv /\ FoundInv /\ SeenInv /\ AnswerInv /\ TypeOK
    BY DEF ServerInv, TypeInv
  <1>1. /\ server' = "check" /\ job' = NoCaller /\ request' = Nothing
        /\ found' = {} /\ must' = {} /\ may' = {}
        /\ UNCHANGED <<asked, seen, disk, changes, stop>>
    BY DEF Respond, AfterRequest, diskVars
  <1>2. Answer(status, parts) \in Answers
    BY DEF Answer, Answers
  <1>3. CASE job = NoCaller
    <2>1. UNCHANGED <<call, answer>>
      BY <1>3 DEF Respond
    <2>2. TypeInv'
      BY <1>i, <1>1, <2>1 DEF TypeInv, TypeOK, Versions, Parts, Answers
    <2>3. JobInv' /\ WaitInv' /\ FoundInv' /\ SeenInv' /\ AnswerInv'
      BY <1>i, <1>1, <2>1 DEF JobInv, WaitInv, FoundInv, SeenInv, AnswerInv, GoodAnswer
    <2>4. QED
      BY <2>2, <2>3 DEF ServerInv
  <1>4. CASE job # NoCaller
    <2>1. /\ job \in Callers /\ call[job] = "asked" /\ asked[job] = request
          /\ call' = [call EXCEPT ![job] = "answered"]
          /\ answer' = [answer EXCEPT ![job] = Answer(status, parts)]
      BY <1>i, <1>4 DEF Respond, TypeOK, JobInv
    <2>2. answer' \in [Callers -> Answers]
      BY <1>i, <1>2, <2>1 DEF TypeInv
    <2>3. TypeOK'
      <3>1. \A c \in Callers : /\ answer'[c].status \in {"none", "ok", "absent", "error"}
                               /\ answer'[c].parts \subseteq Parts'
        BY <1>1, <2>2 DEF Answers, Parts, Versions
      <3>2. call' \in [Callers -> {"out", "asked", "answered"}]
        BY <1>i, <2>1 DEF TypeOK
      <3>3. \A c \in Callers : asked'[c] = Nothing <=> call'[c] = "out"
        BY <1>i, <1>1, <2>1 DEF TypeOK
      <3>4. QED
        BY <1>i, <1>1, <3>1, <3>2, <3>3 DEF TypeOK, Versions
    <2>4. TypeInv'
      BY <1>i, <1>1, <2>2, <2>3 DEF TypeInv, Versions, Answers, Parts
    <2>5. JobInv' /\ FoundInv' /\ SeenInv'
      BY <1>1 DEF JobInv, FoundInv, SeenInv
    <2>6. \A c \in Callers : c # job => call'[c] = call[c] /\ answer'[c] = answer[c]
      BY <1>i, <2>1 DEF TypeOK, TypeInv
    <2>7. call'[job] = "answered" /\ answer'[job] = Answer(status, parts)
      BY <1>i, <2>1 DEF TypeOK, TypeInv
    <2>8. WaitInv'
      BY <1>i, <1>1, <2>1, <2>6, <2>7 DEF WaitInv
    <2>9. AnswerInv'
      BY <1>i, <1>1, <1>4, <2>1, <2>6, <2>7 DEF AnswerInv, GoodAnswer
    <2>10. QED
      BY <2>4, <2>5, <2>8, <2>9 DEF ServerInv
  <1>5. QED
    BY <1>3, <1>4

-----------------------------------------------------------------------------
(***************************************************************************)
(* The handlers                                                            *)
(***************************************************************************)

\* A caller whose request is handled sees what is there now.
LEMMA JobSees ==
    ASSUME ServerInv, job # NoCaller
    PROVE  /\ job \in Callers /\ seen[job] \in [Files -> SUBSET Versions]
           /\ request \in Requests
           /\ \A f \in LooksAt(request) : f \in Files /\ disk[f] \in seen[job][f]
  <1>1. job \in Callers /\ call[job] = "asked" /\ asked[job] = request /\ request \in Requests
    BY DEF ServerInv, TypeInv, TypeOK, JobInv
  <1>2. QED
    BY <1>1, RequestShapes DEF ServerInv, TypeInv, WaitInv

LEMMA ReadFileKeeps ==
    ASSUME ServerInv, ReadFile
    PROVE  ServerInv'
  <1>i. /\ TypeInv /\ JobInv /\ WaitInv /\ FoundInv /\ SeenInv /\ AnswerInv /\ TypeOK
        /\ disk \in [Files -> Versions]
    BY DEF ServerInv, TypeInv, TypeOK
  <1> DEFINE f == request.file
  <1>1. server = "open" /\ request.route \in {"get", "head"} /\ UNCHANGED <<diskVars, stop>>
    BY DEF ReadFile
  <1>2. request \in Requests /\ f \in Names /\ f \in Files /\ LooksAt(request) = {f}
    BY <1>1, <1>i, RequestShapes DEF TypeOK, Nothing, Files
  <1>3. CASE disk[f] = 0
    <2>1. Respond("absent", {})
      BY <1>3 DEF ReadFile
    <2>2. job # NoCaller => GoodAnswer(request, Answer("absent", {}), seen[job])
      BY <1>2, <1>3, JobSees DEF GoodAnswer, Answer
    <2>3. QED
      BY <1>1, <2>1, <2>2, RespondKeeps
  <1>4. CASE disk[f] # 0
    <2>1. /\ found' = {Part(f, disk[f], 0)} /\ server' = "stat"
          /\ UNCHANGED <<job, request, must, may, call, asked, answer, seen,
                         disk, changes, stop>>
      BY <1>1, <1>4 DEF ReadFile, callVars, diskVars
    <2>2. \A p \in found' : p.file = f /\ p.version = disk[f] /\ p \in Parts
      <3>1. disk[f] \in Versions /\ 0 \in Versions
        BY <1>i, <1>2 DEF TypeOK, Versions
      <3>2. QED
        BY <1>2, <2>1, <3>1 DEF Part, Parts
    <2>3. TypeInv'
      <3>1. TypeOK'
        BY <1>i, <1>1, <2>1, <2>2 DEF TypeOK, Versions, Parts
      <3>2. QED
        BY <1>i, <2>1, <3>1 DEF TypeInv, Versions, Parts, Answers
    <2>4. JobInv' /\ WaitInv' /\ AnswerInv'
      BY <1>i, <1>1, <2>1 DEF JobInv, WaitInv, AnswerInv, GoodAnswer
    <2>5. FoundInv'
      BY <1>4, <2>1, <2>2, <1>i, <1>2 DEF FoundInv, Versions, TypeOK
    <2>6. SeenInv'
      BY <1>2, <2>1, <2>2, JobSees DEF SeenInv
    <2>7. QED
      BY <2>3, <2>4, <2>5, <2>6 DEF ServerInv
  <1>5. QED
    BY <1>3, <1>4

LEMMA StatFileKeeps ==
    ASSUME ServerInv, StatFile
    PROVE  ServerInv'
  <1>i. /\ TypeInv /\ JobInv /\ FoundInv /\ SeenInv /\ TypeOK
        /\ disk \in [Files -> Versions] /\ found \subseteq Parts
    BY DEF ServerInv, TypeInv, TypeOK
  <1> DEFINE f == request.file
  <1>1. server = "stat" /\ request.route \in {"get", "head"} /\ UNCHANGED <<diskVars, stop>>
    BY <1>i DEF StatFile, JobInv
  <1>2. request \in Requests /\ f \in Names /\ f \in Files /\ LooksAt(request) = {f}
    BY <1>1, <1>i, RequestShapes DEF TypeOK, Nothing, Files
  <1>3. CASE disk[f] = 0
    <2>1. Respond("error", {})
      BY <1>3 DEF StatFile
    <2>2. job # NoCaller => GoodAnswer(request, Answer("error", {}), seen[job])
      <3> SUFFICES ASSUME job # NoCaller
                   PROVE  0 \in seen[job][f] /\ seen[job][f] # {0}
        BY <1>2 DEF GoodAnswer, Answer
      <3>1. 0 \in seen[job][f]
        BY <1>2, <1>3, JobSees
      <3>2. PICK p \in found : p.file = f /\ p.version # 0
        BY <1>i, <1>1 DEF FoundInv
      <3>3. p.version \in seen[job][f]
        BY <1>i, <3>2 DEF SeenInv
      <3>4. QED
        BY <3>1, <3>2, <3>3
    <2>3. QED
      BY <1>1, <2>1, <2>2, RespondKeeps
  <1>4. CASE disk[f] # 0
    <2> DEFINE parts == {[p EXCEPT !.stamp = disk[f]] : p \in found}
    <2>1. Respond("ok", parts)
      BY <1>4 DEF StatFile
    <2>2. ASSUME NEW p \in found
          PROVE  LET s == [p EXCEPT !.stamp = disk[f]] IN
                 /\ s \in Parts /\ s.file = f /\ s.version = p.version /\ s.stamp = disk[f]
                 /\ p.file = f /\ p.version <= disk[f]
      <3>1. p \in Parts /\ p.file = f /\ p.version <= disk[f]
        BY <1>i, <1>1, <1>4 DEF FoundInv
      <3>2. disk[f] \in Versions
        BY <1>i, <1>2
      <3>3. QED
        BY <3>1, <3>2 DEF Parts
    <2>3. parts \in SUBSET Parts
      BY <2>2
    <2>4. job # NoCaller => GoodAnswer(request, Answer("ok", parts), seen[job])
      <3> SUFFICES ASSUME job # NoCaller, NEW s \in parts
                   PROVE  s.version \in seen[job][s.file] /\ s.stamp \in seen[job][s.file]
                            /\ s.version <= s.stamp
        BY <1>1 DEF GoodAnswer, Answer
      <3>1. disk[f] \in seen[job][f]
        BY <1>2, JobSees
      <3>2. PICK p \in found : s = [p EXCEPT !.stamp = disk[f]]
        OBVIOUS
      <3>3. p.version \in seen[job][p.file]
        BY <1>i DEF SeenInv
      <3>4. QED
        BY <2>2, <3>1, <3>2, <3>3
    <2>5. QED
      BY <1>1, <2>1, <2>3, <2>4, RespondKeeps
  <1>5. QED
    BY <1>3, <1>4

LEMMA SnapshotKeeps ==
    ASSUME ServerInv, SnapshotExists \/ ReadSnapshot
    PROVE  ServerInv'
  <1>i. /\ TypeInv /\ JobInv /\ WaitInv /\ FoundInv /\ SeenInv /\ AnswerInv /\ TypeOK
        /\ disk \in [Files -> Versions]
    BY DEF ServerInv, TypeInv, TypeOK
  <1>1. server \in {"open", "read"} /\ UNCHANGED <<diskVars, stop>>
    BY DEF SnapshotExists, ReadSnapshot
  <1>2. request = Members /\ LooksAt(request) = {Snapshot} /\ Snapshot \in Files
        /\ request.route = "members"
    BY <1>i, RequestShapes DEF SnapshotExists, ReadSnapshot, JobInv, TypeOK, Nothing, Files
  <1>3. job # NoCaller => disk[Snapshot] \in seen[job][Snapshot]
    BY <1>2, JobSees
  <1>4. ASSUME disk[Snapshot] = 0 \/ ReadSnapshot, NEW v \in {disk[Snapshot]},
               Respond("ok", {Part(Snapshot, v, v)})
        PROVE  ServerInv'
    <2>1. Part(Snapshot, v, v) \in Parts /\ v \in Nat
      BY <1>i, <1>2, <1>4 DEF Part, Parts, Versions
    <2>2. job # NoCaller
            => GoodAnswer(request, Answer("ok", {Part(Snapshot, v, v)}), seen[job])
      BY <1>2, <1>3, <2>1 DEF GoodAnswer, Answer, Part
    <2>3. QED
      BY <1>1, <1>4, <2>1, <2>2, RespondKeeps
  <1>5. CASE SnapshotExists /\ disk[Snapshot] = 0
    BY <1>4, <1>5 DEF SnapshotExists
  <1>6. CASE SnapshotExists /\ disk[Snapshot] # 0
    <2>1. /\ server = "open" /\ server' = "read"
          /\ UNCHANGED <<job, request, found, must, may, call, asked, answer, seen,
                         disk, changes, stop>>
      BY <1>6 DEF SnapshotExists, jobVars, callVars, diskVars
    <2>2. found = {}
      BY <1>i, <2>1 DEF TypeOK
    <2>3. TypeInv'
      BY <1>i, <2>1, <2>2 DEF TypeInv, TypeOK, Versions, Parts, Answers
    <2>4. JobInv' /\ WaitInv' /\ AnswerInv' /\ FoundInv'
      BY <1>i, <1>2, <2>1 DEF JobInv, WaitInv, AnswerInv, GoodAnswer, FoundInv
    <2>5. SeenInv'
      BY <1>3, <1>6, <2>1, <2>2 DEF SeenInv
    <2>6. QED
      BY <2>3, <2>4, <2>5 DEF ServerInv
  <1>7. CASE ReadSnapshot /\ disk[Snapshot] # 0
    BY <1>4, <1>7 DEF ReadSnapshot
  <1>8. CASE ReadSnapshot /\ disk[Snapshot] = 0
    <2>1. Respond("error", {}) /\ server = "read"
      BY <1>8 DEF ReadSnapshot
    <2>2. job # NoCaller => GoodAnswer(request, Answer("error", {}), seen[job])
      <3> SUFFICES ASSUME job # NoCaller
                   PROVE  0 \in seen[job][Snapshot] /\ seen[job][Snapshot] # {0}
        BY <1>2 DEF GoodAnswer, Answer
      <3>1. PICK v \in seen[job][Snapshot] : v # 0
        BY <1>i, <2>1 DEF SeenInv
      <3>2. QED
        BY <1>3, <1>8, <3>1
    <2>3. QED
      BY <1>1, <2>1, <2>2, RespondKeeps
  <1>9. QED
    BY <1>5, <1>6, <1>7, <1>8

LEMMA OpenDirKeeps ==
    ASSUME ServerInv, OpenDir
    PROVE  ServerInv'
  <1>i. /\ TypeInv /\ JobInv /\ WaitInv /\ FoundInv /\ AnswerInv /\ TypeOK
        /\ disk \in [Files -> Versions]
    BY DEF ServerInv, TypeInv, TypeOK
  <1>1. /\ server = "open" /\ server' = "list" /\ must' = Present /\ may' = Present
        /\ UNCHANGED <<job, request, found, call, asked, answer, seen, disk, changes, stop>>
    BY DEF OpenDir, callVars, diskVars
  <1>2. request = Index /\ LooksAt(request) = Names /\ found = {}
    BY <1>i, <1>1, RequestShapes DEF OpenDir, TypeOK, Nothing
  <1>3. TypeInv'
    BY <1>i, <1>1, <1>2 DEF TypeInv, TypeOK, Versions, Parts, Answers, Present
  <1>4. JobInv' /\ WaitInv' /\ FoundInv' /\ AnswerInv'
    BY <1>i, <1>1, <1>2 DEF JobInv, WaitInv, FoundInv, AnswerInv, GoodAnswer
  <1>5. SeenInv'
    BY <1>1, <1>2, JobSees DEF SeenInv, Present
  <1>6. QED
    BY <1>3, <1>4, <1>5 DEF ServerInv

LEMMA NextEntryKeeps ==
    ASSUME ServerInv, NEW n \in Names, NextEntry(n)
    PROVE  ServerInv'
  <1>i. /\ TypeInv /\ JobInv /\ WaitInv /\ FoundInv /\ SeenInv /\ AnswerInv /\ TypeOK
        /\ disk \in [Files -> Versions]
    BY DEF ServerInv, TypeInv, TypeOK
  <1>1. server = "list" /\ n \in may \ Listed /\ UNCHANGED <<diskVars, stop>>
    BY DEF NextEntry
  <1>2. request = Index /\ LooksAt(request) = Names /\ n \in Files
    BY <1>i, <1>1, RequestShapes DEF JobInv, Files
  <1>3. job # NoCaller => disk[n] \in seen[job][n]
    BY <1>2, JobSees
  <1>4. CASE disk[n] = 0
    <2>1. Respond("error", {})
      BY <1>4 DEF NextEntry
    <2>2. job # NoCaller => GoodAnswer(request, Answer("error", {}), seen[job])
      <3> SUFFICES ASSUME job # NoCaller
                   PROVE  0 \in seen[job][n] /\ seen[job][n] # {0}
        BY <1>2 DEF GoodAnswer, Answer
      <3>1. PICK v \in seen[job][n] : v # 0
        BY <1>i, <1>1 DEF SeenInv
      <3>2. QED
        BY <1>3, <1>4, <3>1
    <2>3. QED
      BY <1>1, <2>1, <2>2, RespondKeeps
  <1>5. CASE disk[n] # 0
    <2> DEFINE new == Part(n, disk[n], disk[n])
    <2>1. /\ found' = found \cup {new}
          /\ UNCHANGED <<server, job, request, must, may, call, asked, answer, seen,
                         disk, changes, stop>>
      BY <1>1, <1>5 DEF NextEntry, callVars, diskVars
    <2>2. new \in Parts /\ new.file = n /\ new.version = disk[n] /\ new.stamp = disk[n]
      BY <1>i, <1>2 DEF Part, Parts
    <2> HIDE DEF new
    <2>3. TypeInv'
      BY <1>i, <1>1, <2>1, <2>2 DEF TypeInv, TypeOK, Versions, Parts, Answers
    <2>4. JobInv' /\ WaitInv' /\ AnswerInv'
      BY <1>i, <2>1 DEF JobInv, WaitInv, AnswerInv, GoodAnswer
    <2>5. \A p \in found : p.file # n
      BY <1>1 DEF Listed
    <2>6. FoundInv'
      BY <1>i, <1>1, <2>1, <2>2, <2>5 DEF FoundInv
    <2>7. SeenInv'
      BY <1>i, <1>1, <1>3, <2>1, <2>2 DEF SeenInv
    <2>8. QED
      BY <2>3, <2>4, <2>6, <2>7 DEF ServerInv
  <1>6. QED
    BY <1>4, <1>5

LEMMA EndOfDirKeeps ==
    ASSUME ServerInv, EndOfDir
    PROVE  ServerInv'
  <1>i. /\ JobInv /\ FoundInv /\ SeenInv /\ TypeOK
        /\ found \in SUBSET Parts
    BY DEF ServerInv, TypeInv, TypeOK
  <1>1. /\ server = "list" /\ must \subseteq Listed /\ Respond("ok", found)
        /\ UNCHANGED <<diskVars, stop>>
    BY DEF EndOfDir
  <1>2. request.route = "index"
    BY <1>i, <1>1, RequestShapes DEF JobInv
  <1>3. job # NoCaller => GoodAnswer(request, Answer("ok", found), seen[job])
    <2> SUFFICES ASSUME job # NoCaller
                 PROVE  /\ \A p \in found :
                             /\ p.version \in seen[job][p.file] /\ p.stamp \in seen[job][p.file]
                             /\ p.version <= p.stamp
                        /\ \A n \in Names : 0 \notin seen[job][n] => \E p \in found : p.file = n
                        /\ \A p, q \in found : p.file = q.file => p = q
      BY <1>2 DEF GoodAnswer, Answer
    <2>1. \A p \in found : p.version = p.stamp /\ p.version \in Nat
      BY <1>i, <1>1 DEF FoundInv, Parts, Versions
    <2>2. \A n \in Names : 0 \notin seen[job][n] => \E p \in found : p.file = n
      BY <1>i, <1>1 DEF SeenInv, Listed
    <2>3. QED
      BY <1>i, <1>1, <2>1, <2>2 DEF FoundInv, SeenInv
  <1>4. QED
    BY <1>i, <1>1, <1>3, RespondKeeps

\* The loop between two requests.
LEMMA LoopKeeps ==
    ASSUME ServerInv, CheckStop \/ TakeNothing \/ TakeRequest \/ Stop
    PROVE  ServerInv'
  <1>i. /\ TypeInv /\ JobInv /\ WaitInv /\ FoundInv /\ SeenInv /\ AnswerInv /\ TypeOK
    BY DEF ServerInv, TypeInv
  <1>k. UNCHANGED <<found, must, may, call, asked, answer, seen, disk, changes>>
    BY DEF CheckStop, TakeNothing, TakeRequest, Stop, jobVars, callVars, diskVars
  <1>1. CASE CheckStop \/ TakeNothing
    <2>1. /\ server \in {"check", "recv"} /\ server' \in {"check", "recv", "stopped"}
          /\ UNCHANGED <<job, request, stop>>
      BY <1>1 DEF CheckStop, TakeNothing, jobVars
    <2>2. TypeInv'
      BY <1>i, <1>k, <2>1 DEF TypeInv, TypeOK, Versions, Parts, Answers
    <2>3. JobInv' /\ WaitInv' /\ FoundInv' /\ SeenInv' /\ AnswerInv'
      BY <1>i, <1>k, <2>1 DEF JobInv, WaitInv, FoundInv, SeenInv, AnswerInv, GoodAnswer
    <2>4. QED
      BY <2>2, <2>3 DEF ServerInv
  <1>2. CASE Stop
    <2>1. stop' = TRUE /\ UNCHANGED <<server, job, request>>
      BY <1>2 DEF Stop, jobVars
    <2>2. TypeInv'
      BY <1>i, <1>k, <2>1 DEF TypeInv, TypeOK, Versions, Parts, Answers
    <2>3. JobInv' /\ WaitInv' /\ FoundInv' /\ SeenInv' /\ AnswerInv'
      BY <1>i, <1>k, <2>1 DEF JobInv, WaitInv, FoundInv, SeenInv, AnswerInv, GoodAnswer
    <2>4. QED
      BY <2>2, <2>3 DEF ServerInv
  <1>3. CASE TakeRequest
    <2>1. PICK c \in Callers : call[c] = "asked" /\ job' = c /\ request' = asked[c]
      BY <1>3 DEF TakeRequest
    <2>2. server = "recv" /\ server' = "open" /\ stop' = stop
      BY <1>3 DEF TakeRequest
    <2>3. asked[c] \in Requests /\ asked[c] # Nothing /\ found = {}
      BY <1>i, <2>1, <2>2 DEF TypeInv, TypeOK
    <2>4. TypeInv'
      BY <1>i, <1>k, <2>1, <2>2, <2>3 DEF TypeInv, TypeOK, Versions, Parts, Answers
    <2>5. JobInv' /\ WaitInv' /\ FoundInv' /\ SeenInv' /\ AnswerInv'
      BY <1>i, <1>k, <2>1, <2>2, <2>3
      DEF JobInv, WaitInv, FoundInv, SeenInv, AnswerInv, GoodAnswer
    <2>6. QED
      BY <2>4, <2>5 DEF ServerInv
  <1>4. QED
    BY <1>1, <1>2, <1>3

-----------------------------------------------------------------------------
(***************************************************************************)
(* The clients                                                             *)
(***************************************************************************)
LEMMA AskKeeps ==
    ASSUME ServerInv, NEW c \in Callers, Ask(c)
    PROVE  ServerInv'
  <1>i. /\ TypeInv /\ JobInv /\ WaitInv /\ FoundInv /\ SeenInv /\ AnswerInv /\ TypeOK
        /\ disk \in [Files -> Versions]
    BY DEF ServerInv, TypeInv, TypeOK
  <1> DEFINE saw(r) == [f \in Files |-> IF f \in LooksAt(r) THEN {disk[f]} ELSE {}]
  <1>1. PICK r \in Requests : /\ asked' = [asked EXCEPT ![c] = r]
                              /\ seen' = [seen EXCEPT ![c] = saw(r)]
    BY DEF Ask, Request
  <1>2. /\ call[c] = "out" /\ call' = [call EXCEPT ![c] = "asked"]
        /\ UNCHANGED <<disk, changes, stop, server, job, request, found, must, may, answer>>
    BY DEF Ask, diskVars, jobVars
  <1>3. saw(r) \in [Files -> SUBSET Versions]
    BY <1>i
  <1>4. /\ call'[c] = "asked" /\ asked'[c] = r /\ seen'[c] = saw(r)
        /\ \A d \in Callers : d # c => /\ call'[d] = call[d] /\ asked'[d] = asked[d]
                                       /\ seen'[d] = seen[d]
    BY <1>i, <1>1, <1>2 DEF TypeInv, TypeOK
  <1>5. seen' \in [Callers -> [Files -> SUBSET Versions]]
    BY <1>i, <1>1, <1>3 DEF TypeInv
  <1>6. TypeOK'
    <2>1. r # Nothing
      BY RequestShapes
    <2>2. \A d \in Callers : /\ asked'[d] \in Requests \cup {Nothing}
                             /\ asked'[d] = Nothing <=> call'[d] = "out"
                             /\ seen'[d] \in [Files -> SUBSET Versions]
      BY <1>i, <1>4, <1>5, <2>1 DEF TypeInv, TypeOK
    <2>3. call' \in [Callers -> {"out", "asked", "answered"}]
      BY <1>i, <1>2 DEF TypeOK
    <2>4. QED
      BY <1>i, <1>2, <2>2, <2>3 DEF TypeOK, Versions, Parts
  <1>7. TypeInv'
    BY <1>i, <1>1, <1>2, <1>5, <1>6 DEF TypeInv, Versions, Parts, Answers
  <1>8. job # c
    BY <1>i, <1>2, ServerAssumption DEF JobInv, ServerAssumption
  <1>9. JobInv'
    BY <1>i, <1>2, <1>4, <1>8 DEF JobInv, TypeOK
  <1>10. WaitInv'
    <2>1. \A f \in LooksAt(r) : disk[f] \in saw(r)[f]
      BY RequestShapes
    <2>2. QED
      BY <1>i, <1>2, <1>4, <2>1 DEF WaitInv
  <1>11. FoundInv' /\ SeenInv'
    BY <1>i, <1>2, <1>4, <1>8 DEF FoundInv, SeenInv, TypeOK
  <1>12. AnswerInv'
    BY <1>i, <1>2, <1>4 DEF AnswerInv, GoodAnswer
  <1>13. QED
    BY <1>7, <1>9, <1>10, <1>11, <1>12 DEF ServerInv

\* A call that ends takes what it knows with it; the server may go on with its
\* request, for nobody.
LEMMA CallerKeeps ==
    ASSUME ServerInv, NEW c \in Callers, CallerStep(c)
    PROVE  ServerInv'
  <1>i. TypeInv /\ JobInv /\ WaitInv /\ FoundInv /\ SeenInv /\ AnswerInv /\ TypeOK
    BY DEF ServerInv, TypeInv
  <1>1. /\ call' = [call EXCEPT ![c] = "out"]
        /\ asked' = [asked EXCEPT ![c] = Nothing]
        /\ answer' = [answer EXCEPT ![c] = None]
        /\ seen' = [seen EXCEPT ![c] = Unseen]
        /\ UNCHANGED <<disk, changes, stop, server, request, found, must, may>>
    BY DEF CallerStep, GiveUp, Return, Forget, diskVars, jobVars
  <1>2. job' \in {job, NoCaller} /\ job' # c
    <2>1. CASE GiveUp(c)
      BY <2>1, ServerAssumption DEF GiveUp, ServerAssumption
    <2>2. CASE Return(c)
      BY <1>i, <2>2, ServerAssumption DEF Return, jobVars, JobInv, ServerAssumption
    <2>3. QED
      BY <2>1, <2>2 DEF CallerStep
  <1>3. None \in Answers /\ Unseen \in [Files -> SUBSET Versions]
    BY DEF None, Answer, Answers, Unseen
  <1>4. /\ call'[c] = "out" /\ asked'[c] = Nothing /\ answer'[c] = None
        /\ \A d \in Callers : d # c => /\ call'[d] = call[d] /\ asked'[d] = asked[d]
                                       /\ answer'[d] = answer[d] /\ seen'[d] = seen[d]
    BY <1>i, <1>1 DEF TypeInv, TypeOK
  <1>5. /\ answer' \in [Callers -> Answers]
        /\ seen' \in [Callers -> [Files -> SUBSET Versions]]
    BY <1>i, <1>1, <1>3 DEF TypeInv
  <1>6. TypeOK'
    <2>1. \A d \in Callers : /\ asked'[d] \in Requests \cup {Nothing}
                             /\ asked'[d] = Nothing <=> call'[d] = "out"
                             /\ answer'[d].status \in {"none", "ok", "absent", "error"}
                             /\ answer'[d].parts \subseteq Parts
                             /\ seen'[d] \in [Files -> SUBSET Versions]
      BY <1>i, <1>4, <1>5 DEF TypeInv, TypeOK, Answers
    <2>2. call' \in [Callers -> {"out", "asked", "answered"}]
      BY <1>i, <1>1 DEF TypeOK
    <2>3. job' \in Callers \cup {NoCaller}
      BY <1>i, <1>2 DEF TypeOK
    <2>4. QED
      BY <1>i, <1>1, <2>1, <2>2, <2>3 DEF TypeOK, Versions, Parts
  <1>7. TypeInv'
    BY <1>i, <1>1, <1>5, <1>6 DEF TypeInv, Versions, Parts, Answers
  <1>8. JobInv'
    BY <1>i, <1>1, <1>2, <1>4 DEF JobInv, TypeOK
  <1>9. WaitInv'
    BY <1>i, <1>1, <1>4 DEF WaitInv
  <1>10. FoundInv' /\ SeenInv'
    BY <1>i, <1>1, <1>2, <1>4 DEF FoundInv, SeenInv, TypeOK
  <1>11. AnswerInv'
    BY <1>i, <1>4 DEF AnswerInv, GoodAnswer
  <1>12. QED
    BY <1>7, <1>8, <1>9, <1>10, <1>11 DEF ServerInv

-----------------------------------------------------------------------------
LEMMA ServerStepKeeps == ServerInv /\ [Next]_vars => ServerInv'
  <1> SUFFICES ASSUME ServerInv, [Next]_vars PROVE ServerInv'
    OBVIOUS
  <1>1. ASSUME NEW f \in Files, Publish(f) \/ Remove(f) PROVE ServerInv'
    BY <1>1, ChangeKeeps
  <1>2. CASE ServerStep
    BY <1>2, LoopKeeps, ReadFileKeeps, StatFileKeeps, SnapshotKeeps, OpenDirKeeps,
       NextEntryKeeps, EndOfDirKeeps DEF ServerStep
  <1>3. CASE Stop
    BY <1>3, LoopKeeps
  <1>4. ASSUME NEW c \in Callers, Ask(c) \/ CallerStep(c) PROVE ServerInv'
    BY <1>4, AskKeeps, CallerKeeps
  <1>5. CASE UNCHANGED vars
    BY <1>5 DEF vars, diskVars, jobVars, callVars, ServerInv, TypeInv, TypeOK, JobInv,
      WaitInv, FoundInv, SeenInv, AnswerInv, GoodAnswer, Versions, Parts, Answers
  <1>6. QED
    BY <1>1, <1>2, <1>3, <1>4, <1>5 DEF Next

LEMMA ServerInvariant == Spec => []ServerInv
  BY ServerInit, ServerStepKeeps, PTL DEF Spec

\* server.rs:98: the server holds something of a request only inside its handler,
\* and a call has an answer only to something it asked.
THEOREM ServerTypeCorrect == Spec => []TypeOK
  <1>1. ServerInv => TypeOK
    BY DEF ServerInv, TypeInv
  <1>2. QED
    BY <1>1, ServerInvariant, PTL

\* server.rs:34: whatever an answer says was so at some moment of the call, however
\* often the files change between the system calls of a handler.
THEOREM EveryAnswerCurrent == Spec => []AnswersCurrent
  <1>1. ServerInv => AnswersCurrent
    <2> SUFFICES ASSUME ServerInv, NEW c \in Callers
                 PROVE  /\ \A p \in answer[c].parts :
                             /\ p.version \in seen[c][p.file] /\ p.stamp \in seen[c][p.file]
                             /\ p.version <= p.stamp
                        /\ Answered(c, {"get", "head"}, "absent")
                             => 0 \in seen[c][asked[c].file]
      BY DEF AnswersCurrent
    <2>1. CASE call[c] = "answered"
      BY <2>1 DEF ServerInv, AnswerInv, GoodAnswer, Answered
    <2>2. CASE call[c] # "answered"
      <3>1. answer[c].parts = {}
        BY <2>2 DEF ServerInv, WaitInv, None, Answer
      <3>2. QED
        BY <2>2, <3>1 DEF Answered
    <2>3. QED
      BY <2>1, <2>2
  <1>2. QED
    BY <1>1, ServerInvariant, PTL

\* server.rs:138: a listing leaves out nothing that was there all the time.
THEOREM EveryListingComplete == Spec => []ListingComplete
  <1>1. ServerInv => ListingComplete
    BY DEF ServerInv, AnswerInv, GoodAnswer, ListingComplete, Answered
  <1>2. QED
    BY <1>1, ServerInvariant, PTL

\* server.rs:158: with a disk that works, only the removal of a file makes a
\* request fail.
THEOREM OnlyRemovalFails == Spec => []FailsOnRemovalOnly
  <1>1. ServerInv => FailsOnRemovalOnly
    BY DEF ServerInv, AnswerInv, GoodAnswer, FailsOnRemovalOnly, Answered
  <1>2. QED
    BY <1>1, ServerInvariant, PTL
=============================================================================
