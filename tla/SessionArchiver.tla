--------------------------- MODULE SessionArchiver ---------------------------
(***************************************************************************)
(* The per-session log archive (app_shell/session_logs.cpp, its callers in *)
(* app_state.cpp and main.cpp).                                            *)
(*                                                                         *)
(* The controller moves the files of a long session, one rename at a time, *)
(* into a pending folder and spawns a detached helper process.  Helpers    *)
(* share a named Windows mutex; the one that created it compresses every   *)
(* pending folder, publishes it under its final name, removes the folder   *)
(* and prunes the archives to the newest Keep.  Everything on disk         *)
(* survives a shutdown or a power cut; processes and handles do not.       *)
(*                                                                         *)
(* A session is identified by its number in start order.  Stem[s] is the   *)
(* rank of the file name session_archive_stem builds for it: the name      *)
(* comes from the local clock, so it need not follow the start order.      *)
(***************************************************************************)
EXTENDS Naturals, Sequences, FiniteSets

CONSTANTS
  Helper,       \* identities of helper processes; bounds how many run at once
  LogNames,     \* session_log_names(): the live files of a session, in order
  MaxSession,   \* bound on the number of sessions
  MaxDown,      \* bound on shutdowns and power cuts
  MaxViewer,    \* bound on how often another program holds a pending folder
  Keep,         \* kSessionArchiveKeep
  Stem,         \* rank of each session's archive name
  StageErrors   \* may create_directories or a rename of the staging fail?

Session == 1 .. MaxSession
LogFile == {LogNames[i] : i \in DOMAIN LogNames}

ASSUME ArchiverAssumption ==
  /\ MaxSession \in Nat /\ MaxDown \in Nat /\ MaxViewer \in Nat /\ Keep \in Nat
  /\ LogNames \in Seq(LogFile)
  /\ Stem \in [Session -> Nat]
  /\ \A s, t \in Session : Stem[s] = Stem[t] => s = t
  /\ StageErrors \in BOOLEAN

VARIABLES
  ctl,         \* controller: "off", "idle", "session" or "staging"
  session,     \* number of the latest session, 0 before the first
  long,        \* the latest session ran past kSessionArchiveMinSeconds
  live,        \* files of the latest session still in the log directory
  toMove,      \* staging: names still to be renamed
  moved,       \* staging: did any rename succeed?
  pendDir,     \* sessions whose pending folder exists
  pend,        \* files inside each pending folder
  partial,     \* content of <stem>.partial
  zip,         \* content of <stem>.zip
  handles,     \* helpers with an open handle to the mutex object
  pc,          \* program counter of each helper
  todo,        \* folders the helper's current pass has yet to archive
  folder,      \* folder the helper archives now
  got,         \* files the helper listed in the folder it works on
  held,        \* sessions whose pending folder another program holds open
  viewers,     \* how often that happened
  downs,       \* shutdowns and power cuts so far
  staged,      \* history: the files of each session that reached its folder
  pruned,      \* history: sessions whose archive was pruned
  late,        \* history: files moved into a folder whose listing a helper had taken
  excused,     \* history: a spawn, an archive or the machine failed the queue
  deserted     \* history: a helper left the queue to helpers that were all leaving

ctlVars  == <<ctl, session, long, live, toMove, moved>>
diskVars == <<pendDir, pend, partial, zip>>
helpVars == <<handles, pc, todo, folder, got>>
envVars  == <<held, viewers, downs>>
histVars == <<staged, pruned, late, excused, deserted>>
vars == <<ctlVars, diskVars, helpVars, envVars, histVars>>

\* An archive file: absent, or present and complete or torn, with the files in it.
Absent == [there |-> FALSE, whole |-> FALSE, files |-> {}]
Archive == [there : BOOLEAN, whole : BOOLEAN, files : SUBSET LogFile]
Torn(fs) == [there |-> TRUE, whole |-> FALSE, files |-> fs]
Whole(fs) == [there |-> TRUE, whole |-> TRUE, files |-> fs]
Published == {s \in Session : zip[s].there}

HelperPC == {"none", "start", "busy", "scan", "list", "tar", "publish", "clean",
             "prune", "release", "recheck", "fail"}
\* The steps a helper takes as the owner of the queue.
InQueue == {"scan", "list", "tar", "publish", "clean", "prune", "release", "fail"}

TypeOK ==
  /\ ctl \in {"off", "idle", "session", "staging"}
  /\ session \in 0 .. MaxSession /\ long \in BOOLEAN
  /\ ctl \in {"session", "staging"} => session \in Session
  /\ live \subseteq LogFile /\ toMove \in Seq(LogFile) /\ moved \in BOOLEAN
  /\ pendDir \subseteq Session /\ pend \in [Session -> SUBSET LogFile]
  /\ partial \in [Session -> Archive] /\ zip \in [Session -> Archive]
  /\ handles \subseteq Helper /\ pc \in [Helper -> HelperPC]
  /\ todo \in [Helper -> SUBSET Session] /\ folder \in [Helper -> 0 .. MaxSession]
  /\ got \in [Helper -> SUBSET LogFile]
  /\ held \subseteq Session /\ viewers \in 0 .. MaxViewer /\ downs \in 0 .. MaxDown
  /\ staged \in [Session -> SUBSET LogFile] /\ pruned \subseteq Session
  /\ late \in [Session -> SUBSET LogFile]
  /\ excused \in BOOLEAN /\ deserted \in BOOLEAN

Init ==
  /\ ctl = "off" /\ session = 0 /\ long = FALSE /\ live = {}
  /\ toMove = <<>> /\ moved = FALSE
  /\ pendDir = {} /\ pend = [s \in Session |-> {}]
  /\ partial = [s \in Session |-> Absent] /\ zip = [s \in Session |-> Absent]
  /\ handles = {} /\ pc = [h \in Helper |-> "none"]
  /\ todo = [h \in Helper |-> {}]
  /\ folder = [h \in Helper |-> 0] /\ got = [h \in Helper |-> {}]
  /\ held = {} /\ viewers = 0 /\ downs = 0
  /\ staged = [s \in Session |-> {}] /\ pruned = {}
  /\ late = [s \in Session |-> {}] /\ excused = FALSE /\ deserted = FALSE

(***************************************************************************)
(* Controller.                                                             *)
(***************************************************************************)

\* spawn_session_archiver: CreateProcessW starts one more helper, which has yet
\* to look at everything that is pending, or fails.
SpawnHelper ==
  \/ \E h \in Helper :
       /\ pc[h] = "none"
       /\ pc' = [pc EXCEPT ![h] = "start"]
       /\ excused' = FALSE /\ deserted' = FALSE
  \/ pc' = pc /\ excused' = TRUE /\ UNCHANGED deserted

\* bootstrap: archive what a previous run could not finish.
ControllerStart ==
  /\ ctl = "off"
  /\ ctl' = "idle"
  /\ IF pendDir # {} THEN SpawnHelper ELSE UNCHANGED <<pc, excused, deserted>>
  /\ UNCHANGED <<session, long, live, toMove, moved, diskVars, handles, todo, folder, got,
                 envVars, staged, pruned, late>>

\* The window is closed with no engine running; helpers outlive the controller.
ControllerQuit ==
  /\ ctl = "idle"
  /\ ctl' = "off"
  /\ UNCHANGED <<session, long, live, toMove, moved, diskVars, helpVars, envVars, histVars>>

\* start_engine: clear_session_logs, then the engine writes fresh files.
StartSession ==
  /\ ctl = "idle" /\ session < MaxSession
  /\ ctl' = "session" /\ session' = session + 1 /\ long' = FALSE
  /\ live' \in SUBSET LogFile
  /\ UNCHANGED <<toMove, moved, diskVars, helpVars, envVars, histVars>>

\* The session passes kSessionArchiveMinSeconds.
SessionGetsLong ==
  /\ ctl = "session" /\ ~long
  /\ long' = TRUE
  /\ UNCHANGED <<ctl, session, live, toMove, moved, diskVars, helpVars, envVars, histVars>>

\* finish_session_logs up to the first rename: short sessions are left alone.
EndSession ==
  /\ ctl = "session"
  /\ IF ~long
     THEN ctl' = "idle" /\ UNCHANGED <<toMove, moved, pendDir>>
     ELSE \/ /\ ctl' = "staging" /\ toMove' = LogNames /\ moved' = FALSE
             /\ pendDir' = pendDir \cup {session}
          \/ /\ StageErrors
             /\ ctl' = "idle" /\ UNCHANGED <<toMove, moved, pendDir>>
  /\ UNCHANGED <<session, long, live, pend, partial, zip, helpVars, envVars, histVars>>

\* A helper has taken its listing of the folder: it will not see what comes now.
Listed(s) ==
  zip[s].there \/ \E h \in Helper : folder[h] = s /\ pc[h] \in {"tar", "publish", "clean"}

\* stage_session_logs, one file: absent files are skipped, a rename can fail.
StageFile ==
  LET f == Head(toMove) IN
  /\ ctl = "staging" /\ toMove # <<>>
  /\ toMove' = Tail(toMove)
  /\ \/ /\ f \in live /\ session \in pendDir
        /\ live' = live \ {f} /\ moved' = TRUE
        /\ pend' = [pend EXCEPT ![session] = @ \cup {f}]
        /\ staged' = [staged EXCEPT ![session] = @ \cup {f}]
        /\ late' = IF Listed(session) THEN [late EXCEPT ![session] = @ \cup {f}] ELSE late
     \/ /\ f \notin live \/ session \notin pendDir \/ StageErrors
        /\ UNCHANGED <<live, moved, pend, staged, late>>
  /\ UNCHANGED <<ctl, session, long, pendDir, partial, zip, helpVars, envVars, pruned,
                 excused, deserted>>

\* stage_session_logs' tail: nothing moved drops the folder, else spawn a helper.
FinishStaging ==
  /\ ctl = "staging" /\ toMove = <<>>
  /\ ctl' = "idle" /\ moved' = FALSE
  /\ IF moved
     THEN SpawnHelper /\ UNCHANGED <<pendDir, pend>>
     ELSE /\ pendDir' = pendDir \ {session}
          /\ pend' = [pend EXCEPT ![session] = {}]
          /\ UNCHANGED <<pc, excused, deserted>>
  /\ UNCHANGED <<session, long, live, toMove, partial, zip, handles, todo, folder, got,
                 envVars, staged, pruned, late>>

(***************************************************************************)
(* Helper: run_session_archiver.                                           *)
(***************************************************************************)
Goto(h, label) == pc' = [pc EXCEPT ![h] = label]

\* CreateMutexW: ERROR_ALREADY_EXISTS says only that the object exists, which
\* is true while any process holds a handle to it, one that is itself turned
\* away included (deserted: only those).  No handle at all: exit 1.
CreateMutex(h) ==
  /\ pc[h] = "start"
  /\ \/ /\ Goto(h, IF handles = {} THEN "scan" ELSE "busy")
        /\ handles' = handles \cup {h}
        /\ deserted' = (deserted \/ (handles # {} /\ \A g \in handles : pc[g] = "busy"))
        /\ UNCHANGED excused
     \/ /\ Goto(h, "none")
        /\ excused' = TRUE /\ UNCHANGED <<handles, deserted>>
  /\ UNCHANGED <<ctlVars, diskVars, todo, folder, got, envVars, staged, pruned, late>>

\* ERROR_ALREADY_EXISTS: CloseHandle and exit 0.
LeaveToOther(h) ==
  /\ pc[h] = "busy"
  /\ Goto(h, "none")
  /\ handles' = handles \ {h}
  /\ UNCHANGED <<ctlVars, diskVars, todo, folder, got, envVars, histVars>>

\* archive_one has returned: what it worked on is gone.
Forget(h) == folder' = [folder EXCEPT ![h] = 0] /\ got' = [got EXCEPT ![h] = {}]

\* list_pending: the folders of this pass, or the queue is empty.
ScanQueue(h) ==
  /\ pc[h] = "scan"
  /\ IF pendDir = {}
     THEN Goto(h, "release") /\ UNCHANGED todo
     ELSE Goto(h, "list") /\ todo' = [todo EXCEPT ![h] = pendDir]
  /\ UNCHANGED <<ctlVars, diskVars, handles, folder, got, envVars, histVars>>

\* Mutant: the helper that found the queue empty leaves without a second look.
ReleaseMutant(h) ==
  /\ pc[h] = "release"
  /\ Goto(h, "none")
  /\ handles' = handles \ {h}
  /\ UNCHANGED <<ctlVars, diskVars, todo, folder, got, envVars, histVars>>

\* ReleaseMutex and CloseHandle, some time after the empty list.
Release(h) ==
  /\ pc[h] = "release"
  /\ Goto(h, "recheck")
  /\ handles' = handles \ {h}
  /\ UNCHANGED <<ctlVars, diskVars, todo, folder, got, envVars, histVars>>

\* Having let go of the mutex, look once more; take it again if work arrived.
Recheck(h) ==
  /\ pc[h] = "recheck"
  /\ Goto(h, IF pendDir = {} THEN "none" ELSE "start")
  /\ UNCHANGED <<ctlVars, diskVars, handles, todo, folder, got, envVars, histVars>>

\* archive_one takes the folder with the oldest name and lists it: an empty or
\* already published folder only needs removing.
ListFolder(h) ==
  \E s \in todo[h] :
    /\ pc[h] = "list"
    /\ \A t \in todo[h] : Stem[s] <= Stem[t]
    /\ todo' = [todo EXCEPT ![h] = @ \ {s}]
    /\ folder' = [folder EXCEPT ![h] = s]
    /\ got' = [got EXCEPT ![h] = pend[s]]
    /\ IF s \notin pendDir
       THEN Goto(h, "fail") /\ UNCHANGED <<partial, late>>
       ELSE IF pend[s] = {} \/ zip[s].there
       THEN Goto(h, "clean") /\ UNCHANGED <<partial, late>>
       ELSE /\ Goto(h, "tar") /\ partial' = [partial EXCEPT ![s] = Torn(pend[s])]
            /\ late' = [late EXCEPT ![s] = @ \ pend[s]]
    /\ UNCHANGED <<ctlVars, pendDir, pend, zip, handles, envVars, staged, pruned, excused,
                   deserted>>

\* Mutant: the exit code of tar.exe is not looked at.
TarEndsMutant(h) ==
  LET s == folder[h] IN
  /\ pc[h] = "tar"
  /\ \E whole \in BOOLEAN :
       partial' = [partial EXCEPT ![s] = IF whole THEN Whole(got[h]) ELSE Torn(got[h])]
  /\ Goto(h, "publish")
  /\ UNCHANGED <<ctlVars, pendDir, pend, zip, handles, todo, folder, got, envVars, histVars>>

\* tar.exe finishes the partial file, or fails and the partial file is removed.
TarEnds(h) ==
  LET s == folder[h] IN
  /\ pc[h] = "tar"
  /\ \/ /\ got[h] \subseteq pend[s]
        /\ partial' = [partial EXCEPT ![s] = Whole(got[h])]
        /\ Goto(h, "publish")
     \/ /\ partial' = [partial EXCEPT ![s] = Absent]
        /\ Goto(h, "fail")
  /\ UNCHANGED <<ctlVars, pendDir, pend, zip, handles, todo, folder, got, envVars, histVars>>

\* Mutant: the folder is removed whether or not the archive got its name.
PublishMutant(h) ==
  LET s == folder[h] IN
  /\ pc[h] = "publish"
  /\ zip' = [zip EXCEPT ![s] = partial[s]] \/ zip' = zip
  /\ Goto(h, "clean")
  /\ partial' = [partial EXCEPT ![s] = Absent]
  /\ UNCHANGED <<ctlVars, pendDir, pend, handles, todo, folder, got, envVars, histVars>>

\* MoveFileExW to the final name, or a failure that removes the partial file.
Publish(h) ==
  LET s == folder[h] IN
  /\ pc[h] = "publish"
  /\ \/ /\ zip' = [zip EXCEPT ![s] = partial[s]]
        /\ Goto(h, "clean")
     \/ /\ zip' = zip
        /\ Goto(h, "fail")
  /\ partial' = [partial EXCEPT ![s] = Absent]
  /\ UNCHANGED <<ctlVars, pendDir, pend, handles, todo, folder, got, envVars, histVars>>

\* remove_all(pending), one file at a time; archive_one ignores its error when
\* another program holds the folder, and the pass goes on.
CleanFolder(h) ==
  LET s == folder[h]
      nextFolder == Goto(h, IF todo[h] = {} THEN "prune" ELSE "list") /\ Forget(h) IN
  /\ pc[h] = "clean"
  /\ \/ /\ s \notin held
        /\ \E f \in pend[s] : pend' = [pend EXCEPT ![s] = @ \ {f}]
        /\ UNCHANGED <<pendDir, pc, folder, got>>
     \/ /\ s \notin held /\ pend[s] = {}
        /\ pendDir' = pendDir \ {s}
        /\ nextFolder /\ UNCHANGED pend
     \/ /\ s \in held
        /\ nextFolder /\ UNCHANGED <<pendDir, pend>>
  /\ UNCHANGED <<ctlVars, partial, zip, handles, todo, envVars, histVars>>

\* session_archives_to_prune: every archive with Keep or more names after it.
ToPrune == {s \in Published :
              Cardinality({t \in Published : Stem[t] > Stem[s]}) >= Keep}

\* prune_archives, then around the loop.
Prune(h) ==
  /\ pc[h] = "prune"
  /\ zip' = [s \in Session |-> IF s \in ToPrune THEN Absent ELSE zip[s]]
  /\ pruned' = pruned \cup ToPrune
  /\ Goto(h, "scan")
  /\ UNCHANGED <<ctlVars, pendDir, pend, partial, handles, todo, folder, got, envVars, staged, late, excused,
                 deserted>>

\* Mutant: a failure is retried at once instead of at the next start.
FailMutant(h) ==
  /\ pc[h] = "fail"
  /\ Goto(h, "scan")
  /\ excused' = TRUE
  /\ UNCHANGED <<ctlVars, diskVars, handles, todo, folder, got, envVars, staged, pruned, late,
                 deserted>>

\* write_error, release the mutex, exit 2: the folder waits for the next start.
Fail(h) ==
  /\ pc[h] = "fail"
  /\ Goto(h, "none")
  /\ handles' = handles \ {h}
  /\ excused' = TRUE
  /\ todo' = [todo EXCEPT ![h] = {}] /\ Forget(h)
  /\ UNCHANGED <<ctlVars, diskVars, envVars, staged, pruned, late, deserted>>

HelperStep(h) ==
  \/ CreateMutex(h) \/ LeaveToOther(h) \/ ScanQueue(h) \/ Release(h) \/ Recheck(h)
  \/ ListFolder(h) \/ TarEnds(h) \/ Publish(h) \/ CleanFolder(h)
  \/ Prune(h) \/ Fail(h)

(***************************************************************************)
(* Environment.                                                            *)
(***************************************************************************)

\* Shutdown, logoff or power cut: on_end_session does not stage the session.
MachineDown ==
  /\ downs < MaxDown
  /\ downs' = downs + 1
  /\ ctl' = "off" /\ toMove' = <<>> /\ moved' = FALSE
  /\ handles' = {} /\ pc' = [h \in Helper |-> "none"]
  /\ todo' = [h \in Helper |-> {}]
  /\ folder' = [h \in Helper |-> 0] /\ got' = [h \in Helper |-> {}]
  /\ held' = {} /\ excused' = TRUE
  /\ UNCHANGED <<session, long, live, diskVars, viewers, staged, pruned, late, deserted>>

\* A viewer, an indexer or a virus scanner opens a file of a pending folder.
ViewerOpens(s) ==
  /\ viewers < MaxViewer /\ s \in pendDir \ held
  /\ viewers' = viewers + 1 /\ held' = held \cup {s}
  /\ UNCHANGED <<ctlVars, diskVars, helpVars, downs, histVars>>

ViewerCloses(s) ==
  /\ s \in held
  /\ held' = held \ {s}
  /\ UNCHANGED <<ctlVars, diskVars, helpVars, viewers, downs, histVars>>

Controller ==
  \/ ControllerStart \/ ControllerQuit \/ StartSession \/ SessionGetsLong
  \/ EndSession \/ StageFile \/ FinishStaging

Next ==
  \/ Controller
  \/ \E h \in Helper : HelperStep(h)
  \/ MachineDown
  \/ \E s \in Session : ViewerOpens(s) \/ ViewerCloses(s)

Spec == Init /\ [][Next]_vars

\* Running helpers keep being scheduled, and no viewer keeps a folder for ever.
FairSpec ==
  /\ Spec
  /\ \A h \in Helper : WF_vars(HelperStep(h))
  /\ \A s \in Session : WF_vars(ViewerCloses(s))

-----------------------------------------------------------------------------
(***************************************************************************)
(* Properties.                                                             *)
(***************************************************************************)

\* A helper works on the queue only while it holds the mutex handle it created,
\* so two helpers never compress, publish or prune at the same time although
\* the code tests the object's existence and never its ownership.
OneQueueOwner ==
  /\ \A h \in Helper : pc[h] \in InQueue => h \in handles
  /\ \A g, h \in Helper : pc[g] \in InQueue /\ pc[h] \in InQueue => g = h

\* "a published name is always a complete archive": no crash, tar failure or
\* half-staged folder puts a torn file under the final name, and what is
\* published holds files the session really staged.
PublishedComplete ==
  \A s \in Published : zip[s].whole /\ zip[s].files # {} /\ zip[s].files \subseteq staged[s]

\* Every file that reached a pending folder is still in the folder or in the
\* complete archive, unless that archive was pruned: neither crashes between
\* the steps nor failing or overlapping helpers lose a log, except a file that
\* was moved in after a helper had listed the folder.
NoStagedLogLost ==
  \A s \in Session :
    s \notin pruned =>
      staged[s] \ late[s] \subseteq pend[s] \cup (IF zip[s].whole THEN zip[s].files ELSE {})

\* Said and not so (session_logs.cpp:319, "the logs are not lost"): a helper still
\* at work when the next session is staged lists its folder half filled, archives
\* that and removes the rest with the folder.
EveryLogIsKept ==
  \A s \in Session :
    s \notin pruned =>
      staged[s] \subseteq pend[s] \cup (IF zip[s].whole THEN zip[s].files ELSE {})

\* The folders handed over to the helpers: one still being filled is not.
Waiting == pendDir \ IF ctl = "staging" THEN {session} ELSE {}

\* A helper that will look at the queue before it ends.
WillLook(h) == pc[h] \notin {"none", "busy"}

\* "work staged after the last scan is either seen here or picked up by the helper
\* that was launched with it": however helpers start, back off and leave while
\* folders are staged, a waiting folder has a helper that will look at it, unless
\* one failed or backed off when every handle belonged to one backing off itself.
NoPendingMissed ==
  Waiting # {} /\ ~excused /\ ~deserted => \E h \in Helper : WillLook(h)

\* Said and not so (session_logs.h:63-65, "the running one re-checks for new work
\* before it lets go, so no pending folder is missed"): the re-check finds the
\* folder, but the handle of the helper that backed off turns the owner away too.
EveryPendingIsAnswered ==
  Waiting # {} /\ ~excused => \E h \in Helper : WillLook(h)

\* A helper does not run for ever: its outer loop ends once the queue is empty,
\* also when removals of an archived folder fail for a while.
HelperTerminates == \A h \in Helper : pc[h] # "none" ~> pc[h] = "none"

=============================================================================
