------------------------ MODULE SessionArchiverProofs ------------------------
(***************************************************************************)
(* What holds of SessionArchiver for any number of helpers, sessions, log  *)
(* files, shutdowns and viewers, and any clock.                            *)
(***************************************************************************)
EXTENDS SessionArchiver, TLAPS

\* Every step of the system is one of these; used to split Next in each proof.
LEMMA NextCases ==
  ASSUME Next
  PROVE  \/ ControllerStart \/ ControllerQuit \/ StartSession \/ SessionGetsLong
         \/ EndSession \/ StageFile \/ FinishStaging \/ MachineDown
         \/ \E h \in Helper : HelperStep(h)
         \/ \E s \in Session : ViewerOpens(s) \/ ViewerCloses(s)
  BY DEF Next, Controller

\* The archive values the steps write are archives, whatever files they hold.
LEMMA ArchiveType ==
  /\ Absent \in Archive
  /\ \A fs \in SUBSET LogFile : Torn(fs) \in Archive /\ Whole(fs) \in Archive
  BY DEF Absent, Torn, Whole, Archive

\* CleanFolder removes one file, or is done with the folder: removed or held.
CleanResult(h) ==
  /\ pc[h] = "clean"
  /\ UNCHANGED <<ctlVars, partial, zip, handles, todo, envVars, histVars>>
  /\ \/ pend' = pend
     \/ \E f \in pend[folder[h]] : pend' = [pend EXCEPT ![folder[h]] = @ \ {f}]
  /\ pendDir' = pendDir \/ pendDir' = pendDir \ {folder[h]}
  /\ \/ UNCHANGED <<pc, folder, got>>
     \/ /\ pc' = [pc EXCEPT ![h] = "prune"] \/ pc' = [pc EXCEPT ![h] = "list"]
        /\ folder' = [folder EXCEPT ![h] = 0] /\ got' = [got EXCEPT ![h] = {}]

LEMMA CleanCases ==
  ASSUME NEW h \in Helper, CleanFolder(h)
  PROVE  CleanResult(h)
<1>1. ~(todo[h] = {}) \/ todo[h] = {}
  OBVIOUS
<1>2. QED
  BY <1>1 DEF CleanFolder, CleanResult, Goto, Forget

\* Type correctness: no interleaving of controller, helpers, viewers and
\* shutdowns leaves the ranges the code gives its variables.
THEOREM TypeCorrect == Spec => []TypeOK
<1>1. Init => TypeOK
  <2> SUFFICES ASSUME Init PROVE TypeOK
    OBVIOUS
  <2>1. /\ partial \in [Session -> Archive] /\ zip \in [Session -> Archive]
        /\ pend \in [Session -> SUBSET LogFile] /\ staged \in [Session -> SUBSET LogFile]
    BY ArchiveType DEF Init
  <2>2. /\ pc \in [Helper -> HelperPC] /\ todo \in [Helper -> SUBSET Session]
        /\ folder \in [Helper -> 0 .. MaxSession] /\ got \in [Helper -> SUBSET LogFile]
    BY ArchiverAssumption DEF Init, HelperPC
  <2>3. session \in 0 .. MaxSession /\ viewers \in 0 .. MaxViewer /\ downs \in 0 .. MaxDown
    BY ArchiverAssumption DEF Init
  <2>4. toMove \in Seq(LogFile) /\ live \subseteq LogFile /\ late \in [Session -> SUBSET LogFile]
    BY DEF Init
  <2>5. QED
    BY <2>1, <2>2, <2>3, <2>4 DEF Init, TypeOK
<1>2. TypeOK /\ [Next]_vars => TypeOK'
  <2> SUFFICES ASSUME TypeOK, [Next]_vars PROVE TypeOK'
    OBVIOUS
  <2> USE ArchiverAssumption
  <2>1. CASE ControllerStart
    BY <2>1 DEF ControllerStart, SpawnHelper, TypeOK, HelperPC, diskVars, envVars
  <2>2. CASE ControllerQuit
    BY <2>2 DEF ControllerQuit, TypeOK, diskVars, envVars, helpVars, histVars
  <2>3. CASE StartSession
    <3>1. session' \in Session /\ session' \in 0 .. MaxSession
      BY <2>3 DEF StartSession, TypeOK, Session
    <3>2. QED
      BY <2>3, <3>1 DEF StartSession, TypeOK, diskVars, envVars, helpVars, histVars
  <2>4. CASE SessionGetsLong
    BY <2>4 DEF SessionGetsLong, TypeOK, diskVars, envVars, helpVars, histVars
  <2>5. CASE EndSession
    <3>1. session \in Session
      BY <2>5 DEF EndSession, TypeOK
    <3>2. QED
      BY <2>5, <3>1 DEF EndSession, TypeOK, envVars, helpVars, histVars
  <2>6. CASE StageFile
    <3>1. Head(toMove) \in LogFile /\ Tail(toMove) \in Seq(LogFile)
      BY <2>6 DEF StageFile, TypeOK
    <3>2. /\ pend' \in [Session -> SUBSET LogFile] /\ staged' \in [Session -> SUBSET LogFile]
          /\ late' \in [Session -> SUBSET LogFile]
          /\ live' \subseteq LogFile /\ moved' \in BOOLEAN /\ toMove' \in Seq(LogFile)
      <4>1. session \in Session
        BY <2>6 DEF StageFile, TypeOK
      <4>2. late' = late \/ late' = [late EXCEPT ![session] = @ \cup {Head(toMove)}]
        BY <2>6 DEF StageFile
      <4>3. \/ pend' = pend /\ staged' = staged
            \/ /\ pend' = [pend EXCEPT ![session] = @ \cup {Head(toMove)}]
               /\ staged' = [staged EXCEPT ![session] = @ \cup {Head(toMove)}]
        BY <2>6 DEF StageFile
      <4>4. late' \in [Session -> SUBSET LogFile]
        BY <3>1, <4>1, <4>2 DEF TypeOK
      <4>5. /\ pend' \in [Session -> SUBSET LogFile]
            /\ staged' \in [Session -> SUBSET LogFile]
        <5>1. /\ pend \in [Session -> SUBSET LogFile]
              /\ staged \in [Session -> SUBSET LogFile]
          BY DEF TypeOK
        <5>2. pend' \in [Session -> SUBSET LogFile]
          BY ONLY <3>1, <4>1, <4>3, <5>1
        <5>3. staged' \in [Session -> SUBSET LogFile]
          BY ONLY <3>1, <4>1, <4>3, <5>1
        <5>4. QED
          BY <5>2, <5>3
      <4>6. live' \subseteq LogFile /\ moved' \in BOOLEAN
        BY <2>6 DEF StageFile, TypeOK
      <4>7. toMove' \in Seq(LogFile)
        BY <2>6, <3>1 DEF StageFile
      <4>8. QED
        BY <4>4, <4>5, <4>6, <4>7
    <3>3. QED
      BY <2>6, <3>2 DEF StageFile, TypeOK, envVars, helpVars
  <2>7. CASE FinishStaging
    BY <2>7 DEF FinishStaging, SpawnHelper, TypeOK, HelperPC, envVars
  <2>8. CASE MachineDown
    <3>1. /\ pc' \in [Helper -> HelperPC] /\ todo' \in [Helper -> SUBSET Session]
          /\ folder' \in [Helper -> 0 .. MaxSession] /\ got' \in [Helper -> SUBSET LogFile]
      BY <2>8 DEF MachineDown, HelperPC
    <3>2. downs' \in 0 .. MaxDown /\ handles' \subseteq Helper /\ held' \subseteq Session
      BY <2>8 DEF MachineDown, TypeOK
    <3>3. toMove' \in Seq(LogFile) /\ ctl' = "off" /\ moved' = FALSE /\ excused' = TRUE
      BY <2>8 DEF MachineDown
    <3>4. QED
      BY <2>8, <3>1, <3>2, <3>3 DEF MachineDown, TypeOK, diskVars
  <2>9. ASSUME NEW h \in Helper, HelperStep(h) PROVE TypeOK'
    <3> USE DEF TypeOK, HelperPC, Goto
    <3>1. CASE CreateMutex(h)
      BY <3>1 DEF CreateMutex, ctlVars, diskVars, envVars, histVars
    <3>2. CASE LeaveToOther(h)
      BY <3>2 DEF LeaveToOther, ctlVars, diskVars, envVars, histVars
    <3>3. CASE ScanQueue(h)
      BY <3>3 DEF ScanQueue, ctlVars, diskVars, envVars, histVars
    <3>4. CASE Release(h) \/ Recheck(h)
      BY <3>4 DEF Release, Recheck, ctlVars, diskVars, envVars, histVars
    <3>5. CASE ListFolder(h)
      <4> PICK s \in todo[h] : ListFolder(h)!(s)
        BY <3>5 DEF ListFolder
      <4>1. s \in Session /\ s \in 0 .. MaxSession /\ pend[s] \in SUBSET LogFile
        BY DEF Session
      <4>2. Torn(pend[s]) \in Archive
        BY <4>1, ArchiveType
      <4>3. todo' \in [Helper -> SUBSET Session] /\ folder' \in [Helper -> 0 .. MaxSession]
            /\ got' \in [Helper -> SUBSET LogFile]
        BY <4>1
      <4>4. partial' \in [Session -> Archive]
        BY <4>1, <4>2
      <4>5. pc' \in [Helper -> HelperPC]
        BY <4>1
      <4>6. zip' = zip /\ pend' = pend /\ pendDir' = pendDir /\ handles' = handles
        BY <4>1
      <4>7. UNCHANGED <<ctlVars, envVars, staged, pruned, excused, deserted>>
        BY <4>1
      <4>8. late' \in [Session -> SUBSET LogFile]
        BY <4>1
      <4>9. QED
        BY <4>3, <4>4, <4>5, <4>6, <4>7, <4>8 DEF ctlVars, envVars
    <3>6. CASE TarEnds(h)
      <4>1. Whole(got[h]) \in Archive /\ Absent \in Archive
        BY ArchiveType
      <4>2. partial' \in [Session -> Archive] /\ pc' \in [Helper -> HelperPC]
        <5>1. CASE partial' = [partial EXCEPT ![folder[h]] = Whole(got[h])]
          BY <3>6, <4>1, <5>1 DEF TarEnds
        <5>2. CASE partial' = [partial EXCEPT ![folder[h]] = Absent]
          BY <3>6, <4>1, <5>2 DEF TarEnds
        <5>3. QED
          BY <3>6, <5>1, <5>2 DEF TarEnds
      <4>3. QED
        BY <3>6, <4>2 DEF TarEnds, ctlVars, envVars, histVars
    <3>7. CASE Publish(h)
      <4>1. Absent \in Archive
        BY ArchiveType
      <4>2. zip' \in [Session -> Archive] /\ partial' \in [Session -> Archive]
        BY <3>7, <4>1 DEF Publish
      <4>3. pc' \in [Helper -> HelperPC]
        BY <3>7 DEF Publish
      <4>4. QED
        BY <3>7, <4>2, <4>3 DEF Publish, ctlVars, envVars, histVars
    <3>8. CASE CleanFolder(h)
      <4>0. CleanResult(h)
        BY <3>8, CleanCases
      <4>1. pend' \in [Session -> SUBSET LogFile]
        <5>1. pend \in [Session -> SUBSET LogFile]
          OBVIOUS
        <5>2. CASE pend' = pend
          BY <5>1, <5>2
        <5>3. ASSUME NEW f \in pend[folder[h]], pend' = [pend EXCEPT ![folder[h]] = @ \ {f}]
              PROVE  pend' \in [Session -> SUBSET LogFile]
          BY ONLY <5>1, <5>3
        <5>4. QED
          BY <4>0, <5>2, <5>3 DEF CleanResult
      <4>2. pendDir' \subseteq Session /\ pc' \in [Helper -> HelperPC]
        BY <4>0 DEF CleanResult
      <4>3. folder' \in [Helper -> 0 .. MaxSession] /\ got' \in [Helper -> SUBSET LogFile]
        <5>1. 0 \in 0 .. MaxSession
          BY ArchiverAssumption
        <5>2. folder' \in [Helper -> 0 .. MaxSession]
          BY ONLY <4>0, <5>1, TypeOK DEF CleanResult, TypeOK
        <5>3. got' \in [Helper -> SUBSET LogFile]
          BY ONLY <4>0, TypeOK DEF CleanResult, TypeOK
        <5>4. QED
          BY <5>2, <5>3
      <4>4. UNCHANGED <<ctlVars, partial, zip, handles, todo, envVars, histVars>>
        BY <4>0 DEF CleanResult
      <4>5. QED
        BY <4>1, <4>2, <4>3, <4>4 DEF ctlVars, envVars, histVars
    <3>9. CASE Prune(h)
      <4>1. Absent \in Archive
        BY ArchiveType
      <4>2. QED
        BY <3>9, <4>1 DEF Prune, ToPrune, Published, ctlVars, envVars
    <3>10. CASE Fail(h)
      BY <3>10 DEF Fail, Forget, ctlVars, diskVars, envVars
    <3>11. QED
      BY <2>9, <3>1, <3>2, <3>3, <3>4, <3>5, <3>6, <3>7, <3>8, <3>9, <3>10 DEF HelperStep
  <2>10. ASSUME NEW s \in Session, ViewerOpens(s) \/ ViewerCloses(s) PROVE TypeOK'
    BY <2>10 DEF ViewerOpens, ViewerCloses, TypeOK, ctlVars, diskVars, helpVars, histVars
  <2>11. CASE UNCHANGED vars
    BY <2>11 DEF TypeOK, vars, ctlVars, diskVars, helpVars, envVars, histVars
  <2>12. QED
    BY <2>1, <2>2, <2>3, <2>4, <2>5, <2>6, <2>7, <2>8, <2>9, <2>10, <2>11, NextCases
<1>3. QED
  BY <1>1, <1>2, PTL DEF Spec

-----------------------------------------------------------------------------

\* No interleaving of any number of helpers puts two of them on the queue: the
\* helper that created the mutex object keeps a handle for as long as it works.
THEOREM QueueHasOneOwner == Spec => []OneQueueOwner
<1>1. Init => OneQueueOwner
  BY DEF Init, OneQueueOwner, InQueue
<1>2. TypeOK /\ OneQueueOwner /\ [Next]_vars => OneQueueOwner'
  <2> SUFFICES ASSUME TypeOK, OneQueueOwner, [Next]_vars PROVE OneQueueOwner'
    OBVIOUS
  <2> USE DEF OneQueueOwner, InQueue, TypeOK
  <2>1. ASSUME SpawnHelper, UNCHANGED handles PROVE OneQueueOwner'
    BY <2>1 DEF SpawnHelper
  <2>2. CASE ControllerStart
    BY <2>1, <2>2 DEF ControllerStart
  <2>3. CASE FinishStaging
    BY <2>1, <2>3 DEF FinishStaging
  <2>4. CASE ControllerQuit \/ StartSession \/ SessionGetsLong \/ EndSession \/ StageFile
    BY <2>4 DEF ControllerQuit, StartSession, SessionGetsLong, EndSession, StageFile, helpVars
  <2>5. CASE MachineDown
    BY <2>5 DEF MachineDown
  <2>6. ASSUME NEW h \in Helper, HelperStep(h) PROVE OneQueueOwner'
    <3>1. CASE CreateMutex(h)
      BY <3>1 DEF CreateMutex, Goto
    <3>2. CASE LeaveToOther(h) \/ Fail(h)
      BY <3>2 DEF LeaveToOther, Fail, Goto
    <3>3. CASE ScanQueue(h) \/ Release(h) \/ Recheck(h)
      BY <3>3 DEF ScanQueue, Release, Recheck, Goto
    <3>4. CASE ListFolder(h)
      <4>1. pc[h] = "list" /\ handles' = handles
        BY <3>4 DEF ListFolder
      <4>2. pc' \in {[pc EXCEPT ![h] = l] : l \in {"fail", "clean", "tar"}}
        BY <3>4 DEF ListFolder, Goto
      <4>3. QED
        BY <4>1, <4>2
    <3>5. CASE TarEnds(h) \/ Publish(h) \/ Prune(h)
      BY <3>5 DEF TarEnds, Publish, Prune, Goto
    <3>6. CASE CleanFolder(h)
      BY <3>6 DEF CleanFolder, Goto
    <3>7. QED
      BY <2>6, <3>1, <3>2, <3>3, <3>4, <3>5, <3>6 DEF HelperStep
  <2>7. ASSUME NEW s \in Session, ViewerOpens(s) \/ ViewerCloses(s) PROVE OneQueueOwner'
    BY <2>7 DEF ViewerOpens, ViewerCloses, helpVars
  <2>8. CASE UNCHANGED vars
    BY <2>8 DEF vars, helpVars
  <2>9. QED
    BY <2>2, <2>3, <2>4, <2>5, <2>6, <2>7, <2>8, NextCases
<1>3. QED
  BY <1>1, <1>2, TypeCorrect, PTL DEF Spec

-----------------------------------------------------------------------------
\* What the owner of the queue holds in its hands: the files it listed were
\* staged, and what it is about to publish is the complete archive of them.
OwnWork ==
  /\ \A s \in Session : pend[s] \subseteq staged[s]
  /\ \A h \in Helper :
       pc[h] \in {"tar", "publish"} =>
         folder[h] \in Session /\ got[h] # {} /\ got[h] \subseteq staged[folder[h]]
  /\ \A h \in Helper : pc[h] = "publish" => partial[folder[h]] = Whole(got[h])

ContentInv == PublishedComplete /\ OwnWork

\* Which sessions have staged nothing yet, where every staged file is that a
\* helper could have listed, and what the owner knows of the folder it works on.
KeptInv ==
  /\ ctl = "staging" /\ ~moved => staged[session] = {}
  /\ \A s \in Session : s > session \/ (s = session /\ ctl = "session") => staged[s] = {}
  /\ \A s \in Session \ pruned :
       staged[s] \ late[s] \subseteq IF zip[s].there THEN zip[s].files ELSE pend[s]
  /\ \A h \in Helper :
       pc[h] \in {"tar", "publish"} =>
         /\ ~zip[folder[h]].there
         /\ got[h] \subseteq pend[folder[h]] /\ pend[folder[h]] \subseteq got[h] \cup late[folder[h]]
  /\ \A h \in Helper :
       pc[h] = "clean" =>
         folder[h] \in Session /\ (zip[folder[h]].there \/ pend[folder[h]] \subseteq late[folder[h]])

\* ContentInv, the inductive strengthening of PublishedComplete, is an invariant.
LEMMA ContentInvariant == Spec => []ContentInv
<1>1. Init => ContentInv
  BY DEF Init, ContentInv, PublishedComplete, OwnWork, Published, Absent
<1>2. TypeOK /\ OneQueueOwner /\ ContentInv /\ [Next]_vars => ContentInv'
  <2> SUFFICES ASSUME TypeOK, OneQueueOwner, ContentInv, [Next]_vars PROVE ContentInv'
    OBVIOUS
  <2> USE DEF ContentInv, PublishedComplete, OwnWork, Published, TypeOK
  <2>1. CASE ControllerStart
    BY <2>1 DEF ControllerStart, SpawnHelper, diskVars
  <2>2. CASE ControllerQuit \/ StartSession \/ SessionGetsLong \/ EndSession
    BY <2>2 DEF ControllerQuit, StartSession, SessionGetsLong, EndSession,
                diskVars, helpVars, histVars
  <2>3. CASE StageFile
    <3>1. session \in Session /\ UNCHANGED <<pc, folder, got, partial, zip>>
      BY <2>3 DEF StageFile, helpVars
    <3>2. PICK f \in {Head(toMove)} :
            \/ pend' = pend /\ staged' = staged
            \/ /\ pend' = [pend EXCEPT ![session] = @ \cup {f}]
               /\ staged' = [staged EXCEPT ![session] = @ \cup {f}]
      BY <2>3 DEF StageFile
    <3>3. \A s \in Session : pend'[s] \subseteq staged'[s] /\ staged[s] \subseteq staged'[s]
      BY <3>1, <3>2
    <3>4. PublishedComplete'
      BY <3>1, <3>3
    <3>5. OwnWork'
      BY <3>1, <3>3
    <3>6. QED
      BY <3>4, <3>5
  <2>4. CASE FinishStaging
    BY <2>4 DEF FinishStaging, SpawnHelper
  <2>5. CASE MachineDown
    BY <2>5 DEF MachineDown, diskVars
  <2>6. ASSUME NEW h \in Helper, HelperStep(h) PROVE ContentInv'
    <3> USE DEF OneQueueOwner, InQueue, Goto
    <3>1. CASE \/ CreateMutex(h) \/ LeaveToOther(h) \/ ScanQueue(h) \/ Release(h) \/ Recheck(h)
               \/ Fail(h)
      BY <3>1 DEF CreateMutex, LeaveToOther, ScanQueue, Release, Recheck, Fail, diskVars, histVars
    <3>2. CASE ListFolder(h)
      BY <3>2 DEF ListFolder, histVars
    <3>3. CASE TarEnds(h)
      <4>1. /\ pc[h] = "tar" /\ UNCHANGED <<pend, zip, folder, got, staged>>
            /\ folder[h] \in Session
        BY <3>3 DEF TarEnds, histVars
      <4>2. \A g \in Helper : g # h => pc[g] \notin {"tar", "publish"} /\ pc'[g] = pc[g]
        BY <3>3, <4>1 DEF TarEnds
      <4>3. CASE partial' = [partial EXCEPT ![folder[h]] = Whole(got[h])] /\ pc'[h] = "publish"
        BY <4>1, <4>2, <4>3
      <4>4. CASE pc'[h] = "fail"
        BY <4>1, <4>2, <4>4
      <4>5. QED
        BY <3>3, <4>3, <4>4 DEF TarEnds
    <3>4. CASE Publish(h)
      <4>1. /\ pc[h] = "publish" /\ UNCHANGED <<pend, folder, got, staged>>
            /\ folder[h] \in Session /\ partial[folder[h]] = Whole(got[h])
        BY <3>4 DEF Publish, histVars
      <4>2. \A g \in Helper : pc'[g] \notin {"tar", "publish"}
        BY <3>4, <4>1 DEF Publish
      <4>3. CASE zip' = zip
        BY <4>1, <4>2, <4>3
      <4>4. CASE zip' = [zip EXCEPT ![folder[h]] = Whole(got[h])]
        BY <4>1, <4>2, <4>4 DEF Whole
      <4>5. zip' = zip \/ zip' = [zip EXCEPT ![folder[h]] = Whole(got[h])]
        BY <3>4, <4>1 DEF Publish
      <4>6. QED
        BY <4>3, <4>4, <4>5
    <3>5. CASE CleanFolder(h)
      <4>1. /\ pc[h] = "clean" /\ UNCHANGED <<zip, partial, staged>>
            /\ pc'[h] \in {"clean", "prune", "list"}
        BY <3>5, CleanCases DEF CleanResult, histVars
      <4>0. CleanResult(h)
        BY <3>5, CleanCases
      <4>2. \A g \in Helper : g # h => pc'[g] = pc[g] /\ folder'[g] = folder[g] /\ got'[g] = got[g]
        BY ONLY <4>0, TypeOK DEF CleanResult, TypeOK
      <4>3. \A s \in Session : pend'[s] \subseteq pend[s]
        <5>1. pend \in [Session -> SUBSET LogFile]
          OBVIOUS
        <5>2. CASE pend' = pend
          BY <5>2
        <5>3. ASSUME NEW f \in pend[folder[h]], pend' = [pend EXCEPT ![folder[h]] = @ \ {f}]
              PROVE  \A s \in Session : pend'[s] \subseteq pend[s]
          BY ONLY <5>1, <5>3
        <5>4. QED
          BY <4>0, <5>2, <5>3 DEF CleanResult
      <4>4. QED
        BY <4>1, <4>2, <4>3
    <3>6. CASE Prune(h)
      BY <3>6 DEF Prune, Absent
    <3>7. QED
      BY <2>6, <3>1, <3>2, <3>3, <3>4, <3>5, <3>6 DEF HelperStep
  <2>7. ASSUME NEW s \in Session, ViewerOpens(s) \/ ViewerCloses(s) PROVE ContentInv'
    BY <2>7 DEF ViewerOpens, ViewerCloses, diskVars, helpVars, histVars
  <2>8. CASE UNCHANGED vars
    BY <2>8 DEF vars, diskVars, helpVars, histVars
  <2>9. QED
    BY <2>1, <2>2, <2>3, <2>4, <2>5, <2>6, <2>7, <2>8, NextCases
<1>3. QED
  BY <1>1, <1>2, TypeCorrect, QueueHasOneOwner, PTL DEF Spec

\* "a published name is always a complete archive", for every number of helpers,
\* crashes and failures, whether or not staging overlaps a helper.
THEOREM ArchivesAreComplete == Spec => []PublishedComplete
<1>1. ContentInv => PublishedComplete
  BY DEF ContentInv
<1>2. QED
  BY <1>1, ContentInvariant, PTL

-----------------------------------------------------------------------------

-----------------------------------------------------------------------------

\* However helpers overlap with staging and with each other, crash and fail, no
\* file is lost that was in its pending folder when a helper listed it, or that no
\* helper had listed yet.
THEOREM StagedLogsAreKept == Spec => []NoStagedLogLost
<1>1. Init => KeptInv
  BY DEF Init, KeptInv, Absent
<1>2. ASSUME TypeOK, OneQueueOwner, ContentInv, KeptInv, [Next]_vars
      PROVE KeptInv'
  <2> USE <1>2 DEF KeptInv, TypeOK
  <2>1. CASE ControllerStart
    BY <2>1 DEF ControllerStart, SpawnHelper, diskVars
  <2>2. CASE ControllerQuit \/ SessionGetsLong
    BY <2>2 DEF ControllerQuit, SessionGetsLong, diskVars, helpVars, histVars
  <2>3. CASE StartSession
    <3>1. /\ ctl' = "session" /\ session' = session + 1 /\ session \in Nat
          /\ UNCHANGED <<staged, zip, pend, pruned, late, pc, folder, got>>
      BY <2>3 DEF StartSession, diskVars, helpVars, histVars
    <3>2. \A s \in Session : s > session' \/ s = session' => s > session
      BY <3>1 DEF Session
    <3>3. QED
      BY <3>1, <3>2
  <2>4. CASE EndSession
    BY <2>4 DEF EndSession, helpVars, histVars
  <2>5. CASE StageFile
    <3> DEFINE f == Head(toMove)
    <3>1. /\ session \in Session /\ ctl = "staging" /\ ctl' = "staging"
          /\ UNCHANGED <<session, zip, pruned, pc, folder, got>>
      BY <2>5 DEF StageFile, helpVars
    <3>2. CASE UNCHANGED <<pend, staged, late, moved>>
      BY <3>1, <3>2
    <3>3. CASE /\ pend' = [pend EXCEPT ![session] = @ \cup {f}]
               /\ staged' = [staged EXCEPT ![session] = @ \cup {f}]
               /\ late' = IF Listed(session) THEN [late EXCEPT ![session] = @ \cup {f}] ELSE late
               /\ moved' = TRUE
      <4>1. /\ pend'[session] = pend[session] \cup {f}
            /\ staged'[session] = staged[session] \cup {f}
            /\ late[session] \subseteq late'[session]
            /\ Listed(session) => late'[session] = late[session] \cup {f}
        BY <3>1, <3>3
      <4>2. \A s \in Session : s # session =>
              pend'[s] = pend[s] /\ staged'[s] = staged[s] /\ late'[s] = late[s]
        BY <3>1, <3>3
      <4>3. \A s \in Session \ pruned :
              staged'[s] \ late'[s] \subseteq IF zip[s].there THEN zip[s].files ELSE pend'[s]
        <5>1. session \notin pruned /\ zip[session].there =>
                staged'[session] \ late'[session] \subseteq zip[session].files
          BY <3>1, <4>1 DEF Listed
        <5>2. session \notin pruned /\ ~zip[session].there =>
                staged'[session] \ late'[session] \subseteq pend'[session]
          BY <3>1, <4>1
        <5>3. QED
          BY <4>2, <5>1, <5>2
      <4>4. ASSUME NEW h \in Helper, pc[h] \in {"tar", "publish"}
            PROVE  /\ ~zip[folder[h]].there /\ got[h] \subseteq pend'[folder[h]]
                   /\ pend'[folder[h]] \subseteq got[h] \cup late'[folder[h]]
        <5>1. CASE folder[h] = session
          BY <3>1, <4>1, <4>4, <5>1 DEF Listed
        <5>2. CASE folder[h] # session
          BY <4>2, <4>4, <5>2 DEF ContentInv, OwnWork
        <5>3. QED
          BY <5>1, <5>2
      <4>5. ASSUME NEW h \in Helper, pc[h] = "clean"
            PROVE  /\ folder[h] \in Session
                   /\ zip[folder[h]].there \/ pend'[folder[h]] \subseteq late'[folder[h]]
        <5>1. CASE folder[h] = session
          BY <3>1, <4>1, <4>5, <5>1 DEF Listed
        <5>2. CASE folder[h] # session
          BY <4>2, <4>5, <5>2
        <5>3. QED
          BY <5>1, <5>2
      <4>6. \A s \in Session : s > session => staged'[s] = {}
        BY <3>1, <4>2
      <4>7. QED
        BY <3>1, <3>3, <4>3, <4>4, <4>5, <4>6
    <3>4. QED
      BY <2>5, <3>2, <3>3 DEF StageFile
  <2>6. CASE FinishStaging
    <3>1. /\ session \in Session /\ ctl = "staging" /\ ctl' = "idle"
          /\ UNCHANGED <<session, zip, staged, pruned, late, folder, got>>
      BY <2>6 DEF FinishStaging
    <3>2. pend' = pend
      <4>1. CASE moved
        BY <2>6, <4>1 DEF FinishStaging
      <4>2. CASE ~moved
        <5>1. pend[session] = {}
          BY <3>1, <4>2 DEF ContentInv, OwnWork
        <5>2. pend' = [pend EXCEPT ![session] = {}]
          BY <2>6, <4>2 DEF FinishStaging
        <5>3. [pend EXCEPT ![session] = {}] = pend
          BY ONLY <5>1, TypeOK DEF TypeOK
        <5>4. QED
          BY <5>2, <5>3
      <4>3. QED
        BY <4>1, <4>2
    <3>3. \A h \in Helper : pc'[h] \in {"none", "start"} \/ pc'[h] = pc[h]
      BY <2>6 DEF FinishStaging, SpawnHelper
    <3>4. QED
      BY <3>1, <3>2, <3>3
  <2>7. CASE MachineDown
    BY <2>7 DEF MachineDown, diskVars
  <2>8. ASSUME NEW h \in Helper, HelperStep(h) PROVE KeptInv'
    <3> USE <2>8 DEF OneQueueOwner, InQueue, Goto
    <3>0. CASE CreateMutex(h)
      <4>1. /\ pc[h] = "start" /\ pc'[h] \in {"none", "scan", "busy"}
            /\ UNCHANGED <<ctl, session, moved, pend, zip, folder, got, staged, pruned, late>>
        <5>1. pc' = [pc EXCEPT ![h] = "none"] \/ pc' = [pc EXCEPT ![h] = "scan"]
              \/ pc' = [pc EXCEPT ![h] = "busy"]
          BY <3>0 DEF CreateMutex
        <5>2. QED
          BY <3>0, <5>1 DEF CreateMutex, diskVars, ctlVars
      <4>2. \A g \in Helper : g # h => pc'[g] = pc[g]
        BY <3>0 DEF CreateMutex
      <4>3. QED
        BY <4>1, <4>2
    <3>1. CASE LeaveToOther(h) \/ ScanQueue(h) \/ Release(h) \/ Recheck(h) \/ Fail(h)
      <4>1. CASE LeaveToOther(h)
        BY <4>1 DEF LeaveToOther, diskVars, ctlVars, histVars
      <4>2. CASE ScanQueue(h)
        <5>1. /\ pc' \in {[pc EXCEPT ![h] = l] : l \in {"release", "list"}}
              /\ UNCHANGED <<ctl, session, moved, pend, zip, folder, got, staged, pruned, late>>
          BY <4>2 DEF ScanQueue, diskVars, ctlVars, histVars
        <5>2. \A g \in Helper : pc'[g] \in {"release", "list"} \/ pc'[g] = pc[g]
          BY ONLY <5>1, TypeOK DEF TypeOK
        <5>3. QED
          BY ONLY <5>1, <5>2, KeptInv DEF KeptInv
      <4>3. CASE Release(h) \/ Recheck(h)
        BY <4>3 DEF Release, Recheck, diskVars, ctlVars, histVars
      <4>4. CASE Fail(h)
        BY <4>4 DEF Fail, Forget, diskVars, ctlVars
      <4>5. QED
        BY <3>1, <4>1, <4>2, <4>3, <4>4
    <3>2. CASE ListFolder(h)
      <4> PICK s \in todo[h] : ListFolder(h)!(s)
        BY <3>2 DEF ListFolder
      <4>1. /\ pc[h] = "list" /\ s \in Session /\ folder'[h] = s /\ got'[h] = pend[s]
            /\ UNCHANGED <<ctl, session, moved, pend, zip, staged, pruned>>
        BY DEF ctlVars
      <4>2. \A g \in Helper : g # h =>
              /\ pc'[g] = pc[g] /\ pc[g] \notin InQueue
              /\ folder'[g] = folder[g] /\ got'[g] = got[g]
        BY <4>1
      <4>3. CASE late' = late /\ pc'[h] = "fail"
        BY <4>1, <4>2, <4>3
      <4>4. CASE late' = late /\ pc'[h] = "clean" /\ (pend[s] = {} \/ zip[s].there)
        BY <4>1, <4>2, <4>4
      <4>5. CASE late' = [late EXCEPT ![s] = @ \ pend[s]] /\ pc'[h] = "tar" /\ ~zip[s].there
        <5>1. late'[s] = late[s] \ pend[s] /\ \A t \in Session : t # s => late'[t] = late[t]
          BY <4>1, <4>5
        <5>2. \A t \in Session \ pruned :
                staged[t] \ late'[t] \subseteq IF zip[t].there THEN zip[t].files ELSE pend[t]
          BY <4>1, <4>5, <5>1
        <5>3. \A g \in Helper : pc'[g] # "clean" /\ (pc'[g] \in {"tar", "publish"} => g = h)
          BY <4>2, <4>5
        <5>4. got'[h] = pend'[s] /\ ~zip'[s].there /\ folder'[h] = s
          BY <4>1, <4>5
        <5>5. QED
          BY <4>1, <5>2, <5>3, <5>4
      <4>6. QED
        BY <4>1, <4>3, <4>4, <4>5
    <3>3. CASE TarEnds(h)
      <4>1. /\ pc[h] = "tar" /\ pc'[h] \in {"publish", "fail"}
            /\ UNCHANGED <<ctl, session, moved, pend, zip, folder, got, staged, pruned, late>>
        BY <3>3 DEF TarEnds, histVars, ctlVars
      <4>2. \A g \in Helper : g # h => pc'[g] = pc[g]
        BY <3>3 DEF TarEnds
      <4>3. QED
        BY <4>1, <4>2
    <3>4. CASE Publish(h)
      <4> DEFINE s == folder[h]
      <4>1. /\ pc[h] = "publish" /\ s \in Session
            /\ partial[s] = Whole(got[h]) /\ ~zip[s].there
            /\ got[h] \subseteq pend[s] /\ pend[s] \subseteq got[h] \cup late[s]
        BY <3>4 DEF Publish, ContentInv, OwnWork
      <4>2. UNCHANGED <<ctl, session, moved, pend, folder, got, staged, pruned, late>>
        BY ONLY <3>4 DEF Publish, histVars, ctlVars
      <4>3. \/ zip' = zip /\ pc'[h] = "fail"
            \/ zip' = [zip EXCEPT ![s] = Whole(got[h])] /\ pc'[h] = "clean"
        BY <3>4, <4>1 DEF Publish
      <4>4. \A g \in Helper : g # h => pc'[g] = pc[g] /\ pc[g] \notin InQueue
        BY <3>4, <4>1 DEF Publish
      <4>5. CASE zip' = zip /\ pc'[h] = "fail"
        BY <4>1, <4>2, <4>4, <4>5
      <4>6. CASE zip' = [zip EXCEPT ![s] = Whole(got[h])] /\ pc'[h] = "clean"
        <5>1. zip'[s].there /\ zip'[s].files = got[h]
          BY <4>1, <4>6 DEF Whole
        <5>2. \A t \in Session : t # s => zip'[t] = zip[t]
          BY <4>6
        <5>3. \A t \in Session \ pruned :
                staged[t] \ late[t] \subseteq IF zip'[t].there THEN zip'[t].files ELSE pend[t]
          BY <4>1, <5>1, <5>2
        <5>4. \A g \in Helper : /\ pc'[g] \notin {"tar", "publish"}
                                /\ pc'[g] = "clean" => g = h
          BY <4>4, <4>6
        <5>5. QED
          BY <4>1, <4>2, <5>1, <5>3, <5>4
      <4>7. QED
        BY <4>3, <4>5, <4>6
    <3>5. CASE CleanFolder(h)
      <4> DEFINE s == folder[h]
      <4>1. /\ pc[h] = "clean" /\ s \in Session
            /\ zip[s].there \/ pend[s] \subseteq late[s]
            /\ UNCHANGED <<ctl, session, moved, zip, staged, pruned, late>>
        BY <3>5 DEF CleanFolder, Forget, histVars, ctlVars
      <4>2. \A g \in Helper : g # h => pc'[g] = pc[g] /\ pc[g] \notin InQueue
        BY <3>5, <4>1 DEF CleanFolder, Forget
      <4>3. (\A t \in Session : t # s => pend'[t] = pend[t]) /\ pend'[s] \subseteq pend[s]
        BY <3>5 DEF CleanFolder, Forget
      <4>4. \/ pc'[h] \in {"prune", "list"} 
            \/ pc'[h] = "clean" /\ folder'[h] = s
        BY <3>5, <4>1 DEF CleanFolder, Forget
      <4>6. \A f \in pend[s] : f \in pend'[s] \/ f \in late[s] \/ zip[s].there
        BY <4>1
      <4>7. \A t \in Session \ pruned :
              staged[t] \ late[t] \subseteq IF zip[t].there THEN zip[t].files ELSE pend'[t]
        BY <4>1, <4>3, <4>6
      <4>8. \A g \in Helper : pc'[g] \notin {"tar", "publish"} /\ (pc'[g] = "clean" => g = h)
        BY <4>2, <4>4
      <4>9. QED
        BY <4>1, <4>3, <4>4, <4>7, <4>8
    <3>6. CASE Prune(h)
      BY <3>6 DEF Prune, Absent, ctlVars
    <3>7. QED
      BY <2>8, <3>0, <3>1, <3>2, <3>3, <3>4, <3>5, <3>6 DEF HelperStep
  <2>9. ASSUME NEW s \in Session, ViewerOpens(s) \/ ViewerCloses(s) PROVE KeptInv'
    BY <2>9 DEF ViewerOpens, ViewerCloses, diskVars, helpVars, histVars, ctlVars
  <2>10. CASE UNCHANGED vars
    BY <2>10 DEF vars, diskVars, helpVars, histVars, ctlVars
  <2>11. QED
    BY <2>1, <2>2, <2>3, <2>4, <2>5, <2>6, <2>7, <2>8, <2>9, <2>10, NextCases
<1>3. KeptInv /\ PublishedComplete => NoStagedLogLost
  <2> SUFFICES ASSUME KeptInv, PublishedComplete, NEW s \in Session, s \notin pruned
               PROVE  staged[s] \ late[s]
                        \subseteq pend[s] \cup (IF zip[s].whole THEN zip[s].files ELSE {})
    BY DEF NoStagedLogLost
  <2>1. staged[s] \ late[s] \subseteq IF zip[s].there THEN zip[s].files ELSE pend[s]
    BY DEF KeptInv
  <2>2. zip[s].there => zip[s].whole
    BY DEF PublishedComplete, Published
  <2>3. QED
    BY <2>1, <2>2
<1>4. ContentInv => PublishedComplete
  BY DEF ContentInv
<1>5. TypeOK /\ OneQueueOwner /\ ContentInv /\ KeptInv /\ [Next]_vars => KeptInv'
  BY <1>2
<1>6. QED
  BY <1>1, <1>3, <1>4, <1>5, TypeCorrect, QueueHasOneOwner, ContentInvariant, PTL DEF Spec

-----------------------------------------------------------------------------
\* NoPendingMissed with what it rests on: a handle to the mutex belongs to the
\* owner of the queue, who looks once more after letting go of it, or to a helper
\* that is backing off.
AnsweredInv ==
  /\ \A h \in handles : pc[h] \in InQueue \cup {"busy"}
  /\ NoPendingMissed

\* "work staged after the last scan is either seen here or picked up by the helper
\* that was launched with it": with any number of helpers, in whatever order they
\* start, back off and leave while folders are staged, a waiting folder has a helper
\* that will look at it, unless one failed or backed off from helpers that were all
\* backing off themselves.
THEOREM PendingIsAnswered == Spec => []NoPendingMissed
<1>1. Init => AnsweredInv
  BY DEF Init, AnsweredInv, NoPendingMissed, Waiting
<1>2. ASSUME TypeOK, AnsweredInv, [Next]_vars
      PROVE  AnsweredInv'
  <2> USE <1>2 DEF TypeOK, AnsweredInv, NoPendingMissed, Waiting, WillLook, InQueue
  <2>1. ASSUME SpawnHelper, UNCHANGED handles PROVE AnsweredInv'
    BY <2>1 DEF SpawnHelper
  <2>2. CASE ControllerStart
    <3>1. UNCHANGED <<handles, pendDir>> /\ ctl = "off" /\ ctl' = "idle"
      BY <2>2 DEF ControllerStart, diskVars
    <3>2. CASE pendDir = {}
      BY <2>2, <3>1, <3>2 DEF ControllerStart
    <3>3. CASE pendDir # {}
      BY <2>1, <2>2, <3>1, <3>3 DEF ControllerStart
    <3>4. QED
      BY <3>2, <3>3
  <2>3. CASE ControllerQuit \/ StartSession \/ SessionGetsLong
    BY <2>3 DEF ControllerQuit, StartSession, SessionGetsLong, diskVars, helpVars, histVars
  <2>4. CASE EndSession
    BY <2>4 DEF EndSession, helpVars, histVars
  <2>5. CASE StageFile
    BY <2>5 DEF StageFile, helpVars
  <2>6. CASE FinishStaging
    <3>1. ctl = "staging" /\ ctl' = "idle" /\ UNCHANGED <<handles, session>>
      BY <2>6 DEF FinishStaging
    <3>2. CASE moved
      BY <2>1, <2>6, <3>1, <3>2 DEF FinishStaging
    <3>3. CASE ~moved
      BY <2>6, <3>1, <3>3 DEF FinishStaging
    <3>4. QED
      BY <3>2, <3>3
  <2>7. CASE MachineDown
    BY <2>7 DEF MachineDown, diskVars
  <2>8. ASSUME NEW h \in Helper, HelperStep(h) PROVE AnsweredInv'
    <3> USE <2>8 DEF Goto
    <3>1. CASE CreateMutex(h)
      <4>1. pc[h] = "start" /\ h \notin handles /\ UNCHANGED <<ctl, session, pendDir>>
            /\ \A g \in Helper : g # h => pc'[g] = pc[g]
        BY <3>1 DEF CreateMutex, ctlVars, diskVars
      <4>2. CASE excused' = TRUE /\ handles' = handles
        BY <4>1, <4>2
      <4>3. CASE handles = {} /\ pc'[h] = "scan" /\ handles' = {h}
        BY <4>1, <4>3
      <4>4. CASE /\ handles # {} /\ pc'[h] = "busy" /\ handles' = handles \cup {h}
                 /\ deserted' = (deserted \/ \A g \in handles : pc[g] = "busy")
        <5>1. ~deserted' => \E g \in handles : pc[g] # "busy" /\ g # h /\ pc[g] \in InQueue
          BY <4>1, <4>4
        <5>2. ~deserted' => \E g \in Helper : WillLook(g)'
          BY <4>1, <5>1
        <5>3. \A g \in handles' : pc'[g] \in InQueue \cup {"busy"}
          BY <4>1, <4>4
        <5>4. QED
          BY <5>2, <5>3
      <4>5. QED
        BY <3>1, <4>2, <4>3, <4>4 DEF CreateMutex
    <3>2. CASE LeaveToOther(h)
      BY <3>2 DEF LeaveToOther, ctlVars, diskVars, histVars
    <3>3. CASE Recheck(h)
      BY <3>3 DEF Recheck, ctlVars, diskVars, histVars
    <3>4. CASE Release(h)
      BY <3>4 DEF Release, ctlVars, diskVars, histVars
    <3>5. CASE Fail(h)
      BY <3>5 DEF Fail, ctlVars, diskVars
    <3>6. ASSUME pc[h] \in InQueue, pc'[h] \in InQueue,
                 \A g \in Helper : g # h => pc'[g] = pc[g], pendDir' \subseteq pendDir,
                 UNCHANGED <<ctl, session, handles, excused, deserted>>
          PROVE  AnsweredInv'
      <4>1. WillLook(h)'
        BY <3>6
      <4>2. QED
        BY <3>6, <4>1
    <3>7. CASE ScanQueue(h)
      <4>1. pc[h] = "scan" /\ UNCHANGED <<ctl, session, handles, excused, deserted, pendDir>>
        BY <3>7 DEF ScanQueue, ctlVars, diskVars, histVars
      <4>2. pc' \in {[pc EXCEPT ![h] = l] : l \in {"release", "list"}}
        BY <3>7 DEF ScanQueue
      <4>3. QED
        BY <3>6, <4>1, <4>2
    <3>8. CASE ListFolder(h)
      <4>1. pc[h] = "list" /\ UNCHANGED <<ctl, session, handles, excused, deserted, pendDir>>
        BY <3>8 DEF ListFolder, ctlVars
      <4>2. pc' \in {[pc EXCEPT ![h] = l] : l \in {"fail", "clean", "tar"}}
        BY <3>8 DEF ListFolder
      <4>3. QED
        BY <3>6, <4>1, <4>2
    <3>9. CASE TarEnds(h) \/ Publish(h) \/ Prune(h)
      <4>1. /\ pc[h] \in {"tar", "publish", "prune"}
            /\ UNCHANGED <<ctl, session, handles, excused, deserted, pendDir>>
        BY <3>9 DEF TarEnds, Publish, Prune, ctlVars, histVars
      <4>2. pc' \in {[pc EXCEPT ![h] = l] : l \in {"publish", "fail", "clean", "scan"}}
        BY <3>9 DEF TarEnds, Publish, Prune
      <4>3. QED
        BY <3>6, <4>1, <4>2
    <3>10. CASE CleanFolder(h)
      <4>1. /\ pc[h] = "clean" /\ pendDir' \subseteq pendDir
            /\ UNCHANGED <<ctl, session, handles, excused, deserted>>
        BY <3>10 DEF CleanFolder, ctlVars, histVars
      <4>2. pc' = pc \/ pc' \in {[pc EXCEPT ![h] = l] : l \in {"prune", "list"}}
        BY <3>10 DEF CleanFolder, Forget
      <4>3. QED
        BY <3>6, <4>1, <4>2
    <3>11. QED
      BY <2>8, <3>1, <3>2, <3>3, <3>4, <3>5, <3>7, <3>8, <3>9, <3>10 DEF HelperStep
  <2>9. ASSUME NEW s \in Session, ViewerOpens(s) \/ ViewerCloses(s) PROVE AnsweredInv'
    BY <2>9 DEF ViewerOpens, ViewerCloses, ctlVars, diskVars, helpVars, histVars
  <2>10. CASE UNCHANGED vars
    BY <2>10 DEF vars, ctlVars, diskVars, helpVars, histVars
  <2>11. QED
    BY <2>2, <2>3, <2>4, <2>5, <2>6, <2>7, <2>8, <2>9, <2>10, NextCases
<1>3. TypeOK /\ AnsweredInv /\ [Next]_vars => AnsweredInv'
  BY <1>2
<1>4. AnsweredInv => NoPendingMissed
  BY DEF AnsweredInv
<1>5. QED
  BY <1>1, <1>3, <1>4, TypeCorrect, PTL DEF Spec
=============================================================================
