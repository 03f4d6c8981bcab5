--------------------------- MODULE EngineSupervisor ---------------------------
(***************************************************************************)
(* How the controller (RayNeo Spatial) supervises the engine               *)
(* (spatial_desk.exe): EngineClient of app_shell/engine_client.cpp, the    *)
(* part of app_shell/app_state.cpp and app_window.cpp that drives it, and  *)
(* what an engine process does as far as its controller can tell           *)
(* (app/spatial_desk.cpp).                                                 *)
(*                                                                         *)
(* Two kinds of actors interleave:                                       *)
(*   - the controller's UI thread: a poll of the engine (split where it    *)
(*     reads the window and where it reads the process, because an engine  *)
(*     may die in between), the user's clicks, quitting, logging off;      *)
(*   - engines, the one this controller launched and those launched by     *)
(*     hand or left over by a controller that crashed.                     *)
(* Clocks are actions: the 45 s grace of a stop request runs out           *)
(* (GraceOver), 30 s pass since the start (StartOverdue).                  *)
(***************************************************************************)
EXTENDS Naturals

CONSTANTS
    Engines,    \* slots for engine processes, reused once nothing names them
    None,       \* no engine: a null HANDLE or HWND
    MaxClicks,  \* bound: user actions on the controller, and its restarts
    MaxHand     \* bound: engines the user launches by hand

ASSUME ConstantsAssumption ==
    /\ None \notin Engines
    /\ MaxClicks \in Nat
    /\ MaxHand \in Nat

VARIABLES
    (* the engines *)
    phase,      \* phase[e]: how far the process of slot e has got
    told,       \* told[e]: the quit message reached its window (g_app->quit)
    took,       \* took[e]: it took the display topology over (TopologyGuard::armed)
    code,       \* code[e]: the exit code it has or is heading for, 0 or 1
    panel,      \* the laptop panel: on, off, or off and reported to the user
    (* EngineClient *)
    process,    \* process_: the engine this controller launched and has not reaped
    window,     \* window_: the engine whose window it last found
    stopReq, graceOver, killed, startRep, overdue,
    state, alive,  \* fields of snapshot_: state and process_alive
    (* AppState and the UI thread *)
    sessionOpen,  \* session_open: a launched session whose logs are not yet finished
    pending,      \* display_recovery_pending
    prev,         \* the state poll_engine saw before it polled
    ui,           \* the UI thread is free or inside a poll
    late,         \* a poll has run since the grace was over
    quit,         \* how far the controller has got with quitting
    clicks, hands \* used up of MaxClicks and MaxHand

engineVars == <<phase, told, took, code, panel>>
stopVars   == <<stopReq, graceOver, late>>
clientVars == <<process, window, stopVars, killed, startRep, overdue,
                state, alive>>
appVars    == <<sessionOpen, pending, prev, ui, quit>>
bounds     == <<clicks, hands>>
vars       == <<engineVars, clientVars, appVars, bounds>>

Phases     == {"none", "boot", "setup", "window", "closing", "unwind", "dead"}
Live       == {"boot", "setup", "window", "closing", "unwind"}
WithWindow == {"window", "closing"}
States     == {"Stopped", "Starting", "Running", "Stopping", "Exited", "Failed"}

TypeOK ==
    /\ phase \in [Engines -> Phases]
    /\ told \in [Engines -> BOOLEAN] /\ took \in [Engines -> BOOLEAN]
    /\ code \in [Engines -> {0, 1}]
    /\ panel \in {"on", "off", "reported"}
    /\ process \in Engines \cup {None} /\ window \in Engines \cup {None}
    /\ stopReq \in BOOLEAN /\ graceOver \in BOOLEAN /\ late \in BOOLEAN
    /\ killed \in BOOLEAN /\ startRep \in BOOLEAN /\ overdue \in BOOLEAN
    /\ state \in States /\ prev \in States
    /\ alive \in BOOLEAN /\ sessionOpen \in BOOLEAN /\ pending \in BOOLEAN
    /\ ui \in {"free", "polling"}
    /\ quit \in {"no", "wait", "leaving", "gone", "crashed", "logoff"}
    /\ clicks \in 0..MaxClicks /\ hands \in 0..MaxHand

Init ==
    /\ phase = [e \in Engines |-> "none"]
    /\ told = [e \in Engines |-> FALSE] /\ took = [e \in Engines |-> FALSE]
    /\ code = [e \in Engines |-> 0] /\ panel = "on"
    /\ clicks = 0 /\ hands = 0
    /\ process = None /\ window = None
    /\ stopReq = FALSE /\ graceOver = FALSE /\ late = FALSE
    /\ killed = FALSE /\ startRep = FALSE /\ overdue = FALSE
    /\ state = "Stopped" /\ prev = "Stopped"
    /\ alive = FALSE
    /\ sessionOpen = FALSE /\ pending = FALSE /\ ui = "free" /\ quit = "no"

-----------------------------------------------------------------------------
(* Engine processes.                                                       *)

Unused(e) ==
    /\ phase[e] \notin Live
    /\ e \notin {process, window}

(* CreateProcess, by this controller or by hand.                           *)
Spawn(e) ==
    /\ Unused(e)
    /\ phase' = [phase EXCEPT ![e] = "boot"]
    /\ code' = [code EXCEPT ![e] = 0]

(* The process of slot e ends with exit code c; its window goes with it.   *)
Ends(e, c) ==
    /\ phase' = [phase EXCEPT ![e] = "dead"]
    /\ code' = [code EXCEPT ![e] = c]
    /\ told' = [told EXCEPT ![e] = FALSE]
    /\ took' = [took EXCEPT ![e] = FALSE]

MutexTaken(e) == \E f \in Engines \ {e} : phase[f] \in Live \ {"boot"}

HandLaunch(e) ==
    /\ hands < MaxHand
    /\ hands' = hands + 1
    /\ Spawn(e)
    /\ UNCHANGED <<told, took, panel, clientVars, appVars, clicks>>

(* The single-instance guard: a second engine exits with code 1.           *)
Boot(e) ==
    /\ phase[e] = "boot"
    /\ IF MutexTaken(e)
         THEN Ends(e, 1)
         ELSE /\ phase' = [phase EXCEPT ![e] = "setup"]
              /\ UNCHANGED <<told, took, code>>
    /\ UNCHANGED <<panel, clientVars, appVars, bounds>>

(* Workspace mode detaches the laptop panel before there is a window.      *)
TakeOver(e) ==
    /\ phase[e] = "setup" /\ ~took[e]
    /\ took' = [took EXCEPT ![e] = TRUE]
    /\ panel' = "off"
    /\ UNCHANGED <<phase, told, code, clientVars, appVars, bounds>>

(* Startup fails before or in the takeover, whose own rollback may fail    *)
(* and leave the panel detached.                                           *)
TakeOverFails(e) ==
    /\ phase[e] = "setup" /\ ~took[e]
    /\ Ends(e, 1)
    /\ panel' \in {panel, "off"}
    /\ UNCHANGED <<clientVars, appVars, bounds>>

OpenWindow(e) ==
    /\ phase[e] = "setup"
    /\ phase' = [phase EXCEPT ![e] = "window"]
    /\ UNCHANGED <<told, took, code, panel, clientVars, appVars, bounds>>

(* Startup fails after the takeover: the window, if there is one, is       *)
(* destroyed first, then TopologyGuard restores the displays.              *)
StartupFails(e) ==
    /\ \/ phase[e] = "setup" /\ took[e]
       \/ phase[e] = "window"
    /\ phase' = [phase EXCEPT ![e] = "unwind"]
    /\ code' = [code EXCEPT ![e] = 1]
    /\ UNCHANGED <<told, took, panel, clientVars, appVars, bounds>>

(* The render loop ends: asked to by the controller, by the user's hotkey  *)
(* or --seconds (code 0), or by a fatal error (code 1).                    *)
Close(e, c) ==
    /\ phase[e] = "window"
    /\ phase' = [phase EXCEPT ![e] = "closing"]
    /\ code' = [code EXCEPT ![e] = c]
    /\ UNCHANGED <<told, took, panel, clientVars, appVars, bounds>>

Obey(e) == told[e] /\ Close(e, 0)
LoopEnds(e) == \E c \in {0, 1} : Close(e, c)
(* The displays are restored, or not, and the process exits: a failed      *)
(* restore makes the exit code 1.                                          *)
Finish(e) ==
    /\ phase[e] \in {"closing", "unwind"}
    /\ \E restored \in BOOLEAN :
         /\ Ends(e, IF took[e] /\ ~restored THEN 1 ELSE code[e])
         /\ panel' = IF ~took[e] THEN panel ELSE IF restored THEN "on" ELSE "off"
    /\ UNCHANGED <<clientVars, appVars, bounds>>

(* An engine dies without running any of its shutdown.                     *)
Crash(e) ==
    /\ phase[e] \in Live
    /\ Ends(e, 1)
    /\ UNCHANGED <<panel, clientVars, appVars, bounds>>

-----------------------------------------------------------------------------
(* EngineClient.                                                           *)

IsWindow(w) == w # None /\ phase[w] \in WithWindow
Busy == process # None \/ window # None

(* What FindWindowW may return: with the single-instance guard at most one *)
(* engine has a window.                                                    *)
FindWindow ==
    LET shown == {e \in Engines : phase[e] \in WithWindow}
    IN  IF shown = {} THEN {None} ELSE shown

(* request_stop: send Quit to the window, if one is known or found, and    *)
(* start the grace. A null process leaves a terminal state alone.          *)
RequestStop(to) ==
    /\ window' = to
    /\ told' = [e \in Engines |-> told[e] \/ (e = to /\ phase[e] \in WithWindow)]
    /\ stopReq' = (stopReq \/ process # None \/ to # None)
    /\ graceOver' = FALSE /\ late' = FALSE
StateAfterStop(to) ==
    IF process # None \/ to # None THEN "Stopping"
    ELSE IF state \in {"Failed", "Exited"} THEN state ELSE "Stopped"

StopTargets == IF window = None THEN FindWindow ELSE {window}

Click == quit = "no" /\ ui = "free" /\ clicks < MaxClicks /\ clicks' = clicks + 1

(* start_engine when a hand-launched engine shows a window: adopt it.      *)
Adopt ==
    /\ Click /\ ~Busy
    /\ window' \in FindWindow \ {None}
    /\ state' = "Running"
    /\ alive' = FALSE
    /\ UNCHANGED <<engineVars, process, stopVars, killed, startRep, overdue,
                   appVars, hands>>

(* start_engine otherwise: launch, and open a session.                     *)
Launch(e) ==
    /\ Click /\ ~Busy /\ FindWindow = {None}
    /\ Spawn(e)
    /\ process' = e /\ window' = None
    /\ state' = "Starting"
    /\ alive' = TRUE
    /\ stopReq' = FALSE /\ graceOver' = FALSE /\ late' = FALSE
    /\ killed' = FALSE /\ startRep' = FALSE /\ overdue' = FALSE
    /\ sessionOpen' = TRUE
    /\ UNCHANGED <<told, took, panel, pending, prev, ui, quit, hands>>

(* stop_engine.                                                            *)
Stop ==
    /\ Click
    /\ \E to \in StopTargets : RequestStop(to) /\ state' = StateAfterStop(to)
    /\ UNCHANGED <<phase, took, code, panel, process, killed, startRep, overdue, alive,
                   appVars, hands>>

(* send_command: only its hold on a window outlives it.                    *)
Command ==
    /\ Click
    /\ \E to \in StopTargets :
         window' = IF process # None /\ (to # process \/ ~IsWindow(to)) THEN None ELSE to
    /\ UNCHANGED <<engineVars, process, stopVars, killed, startRep, overdue,
                   state, alive, appVars, hands>>

(* SetDisplayConfig(Extend): brings the panel back, or fails and says so.  *)
Recovered(p) == IF p = "on" THEN {"on"} ELSE {"on", "reported"}

(* The Recover displays button.                                            *)
RecoverDisplays ==
    /\ Click
    /\ panel' \in Recovered(panel)
    /\ UNCHANGED <<phase, told, took, code, clientVars, appVars, hands>>

(* The start of poll_engine and of EngineClient::poll: a dead window is    *)
(* dropped and another one looked for. (The query that poll then sends to  *)
(* the window is a subject of ViewComfort; nothing here depends on it.)     *)
PollWindow ==
    /\ quit \in {"no", "wait"} /\ ui = "free"
    /\ ui' = "polling"
    /\ prev' = state
    /\ \E w \in FindWindow :
         LET foreign == process # None /\ w # process
         IN  window' = IF IsWindow(window) THEN window ELSE IF foreign THEN None ELSE w
    /\ UNCHANGED <<engineVars, process, stopVars, killed, startRep, overdue,
                   state, alive, sessionOpen, pending, quit, bounds>>

SettleEarlyMutant ==  \* the session ends with the failure, not with the process
    LET failed == state' = "Failed" /\ state' # prev
    IN  /\ sessionOpen' = (sessionOpen /\ state' # "Failed")
        /\ pending' = (alive' /\ (pending \/ failed))
        /\ panel' \in IF ~alive' /\ (pending \/ failed) THEN Recovered(panel) ELSE {panel}
        /\ ui' = "free"
        /\ quit' = IF /\ quit = "wait"
                      /\ \/ process' = None /\ window' = None
                         \/ state' = "Failed" /\ ~alive'
                     THEN "leaving" ELSE quit

SettleForgetMutant ==  \* no deferred recovery
    LET failed == state' = "Failed" /\ state' # prev
    IN  /\ sessionOpen' = (sessionOpen /\ alive')
        /\ pending' = FALSE
        /\ panel' \in IF ~alive' /\ (pending \/ failed) THEN Recovered(panel) ELSE {panel}
        /\ ui' = "free"
        /\ quit' = IF /\ quit = "wait"
                      /\ \/ process' = None /\ window' = None
                         \/ state' = "Failed" /\ ~alive'
                     THEN "leaving" ELSE quit

(* The rest of poll_engine, once EngineClient::poll has set state' and     *)
(* alive': the session's logs, the deferred display recovery, and the      *)
(* reaction to a new state. A quit waiting for the engine may end here.    *)
Settle ==
    LET failed == state' = "Failed" /\ state' # prev
    IN  /\ sessionOpen' = (sessionOpen /\ alive')
        /\ pending' = (alive' /\ (pending \/ failed))
        /\ panel' \in IF ~alive' /\ (pending \/ failed) THEN Recovered(panel) ELSE {panel}
        /\ ui' = "free"
        /\ quit' = IF /\ quit = "wait"
                      /\ \/ process' = None /\ window' = None
                         \/ state' = "Failed" /\ ~alive'
                     THEN "leaving" ELSE quit

OwnLives == process # None /\ phase[process] \in Live

PollStoppingMutant ==  \* an engine that has already failed is not terminated
    /\ ui = "polling" /\ OwnLives /\ stopReq
    /\ alive' = TRUE
    /\ IF graceOver /\ state # "Failed"
         THEN Ends(process, 1) /\ killed' = TRUE /\ state' = "Failed"
         ELSE /\ state' = IF state = "Failed" THEN "Failed" ELSE "Stopping"
              /\ UNCHANGED <<phase, told, took, code, killed>>
    /\ late' = graceOver
    /\ UNCHANGED <<process, window, stopReq, graceOver, startRep, overdue, prev, bounds>>
    /\ Settle

(* poll: the owned process runs and a stop has been asked for.             *)
PollStopping ==
    /\ ui = "polling" /\ OwnLives /\ stopReq
    /\ alive' = TRUE
    /\ IF graceOver
         THEN Ends(process, 1) /\ killed' = TRUE /\ state' = "Failed"
         ELSE /\ state' = IF state = "Failed" THEN "Failed" ELSE "Stopping"
              /\ UNCHANGED <<phase, told, took, code, killed>>
    /\ late' = graceOver
    /\ UNCHANGED <<process, window, stopReq, graceOver, startRep, overdue,
                   prev, bounds>>
    /\ Settle
(* poll: the owned process runs, nobody asked it to stop. After 30 s       *)
(* without a window the client asks for that itself.                       *)
PollRunning ==
    /\ ui = "polling" /\ OwnLives /\ ~stopReq
    /\ alive' = TRUE
    /\ IF window = None /\ ~startRep /\ overdue
         THEN /\ \E to \in StopTargets : RequestStop(to)
              /\ startRep' = TRUE /\ state' = "Failed"
         ELSE /\ state' = IF window # None THEN "Running" ELSE IF startRep THEN state ELSE "Starting"
              /\ UNCHANGED <<told, window, stopVars, startRep>>
    /\ UNCHANGED <<phase, took, code, process, killed, overdue, prev, bounds>>
    /\ Settle
(* poll: the owned process has exited. note_status_failure can still turn  *)
(* Exited into Failed, only while the client holds on to its dead window.  *)
PollReaped ==
    /\ ui = "polling" /\ process # None /\ ~OwnLives
    /\ process' = None /\ alive' = FALSE
    /\ state' \in IF killed THEN {"Failed"}
                  ELSE IF stopReq THEN {"Stopped"}
                  ELSE IF code[process] = 0
                         THEN IF window = None THEN {"Exited"} ELSE {"Exited", "Failed"}
                  ELSE {"Failed"}
    /\ stopReq' = FALSE /\ killed' = FALSE /\ overdue' = FALSE /\ late' = graceOver
    /\ UNCHANGED <<phase, told, took, code, window, graceOver, startRep,
                   prev, bounds>>
    /\ Settle

(* poll: this controller owns no process; what it sees is a foreign        *)
(* window, or nothing.                                                     *)
PollForeign ==
    /\ ui = "polling" /\ process = None
    /\ alive' = FALSE
    /\ IF window # None
         THEN /\ state' = IF ~stopReq THEN "Running" ELSE IF graceOver THEN "Failed" ELSE "Stopping"
              /\ stopReq' = (stopReq /\ ~graceOver)
         ELSE /\ state' = IF state \in {"Starting", "Running", "Stopping"} THEN "Stopped" ELSE state
              /\ stopReq' = FALSE
    /\ late' = graceOver
    /\ UNCHANGED <<phase, told, took, code, process, window, graceOver, killed, startRep,
                   overdue, prev, bounds>>
    /\ Settle

PollProcess == PollStopping \/ PollRunning \/ PollReaped \/ PollForeign

-----------------------------------------------------------------------------
(* Quitting, crashing and logging off.                                     *)

(* on_close: hide, ask the engine to stop and wait for it.                 *)
Quit ==
    /\ Click
    /\ IF Busy
         THEN /\ quit' = "wait"
              /\ \E to \in StopTargets : RequestStop(to) /\ state' = StateAfterStop(to)
         ELSE /\ quit' = "leaving"
              /\ UNCHANGED <<window, told, stopVars, state>>
    /\ UNCHANGED <<phase, took, code, panel, process, killed, startRep, overdue, alive, sessionOpen, pending, prev, ui, hands>>

QuitTimeoutSoonMutant ==  \* the wait does not cover the grace
    /\ quit = "wait" /\ ui = "free"
    /\ quit' = "leaving"
    /\ UNCHANGED <<engineVars, clientVars, sessionOpen, pending, prev, ui, bounds>>
(* stop_engine_for_quit gives up after 60 s. The grace is over after 45 s  *)
(* and the loop polls every 100 ms, so while there is an owned process at  *)
(* least one poll has run since.                                           *)
QuitTimeout ==
    /\ quit = "wait" /\ ui = "free"
    /\ process = None \/ late
    /\ quit' = "leaving"
    /\ UNCHANGED <<engineVars, clientVars, sessionOpen, pending, prev, ui, bounds>>

(* on_destroy: a last quit message to whatever is still there.             *)
Leave ==
    /\ quit = "leaving"
    /\ quit' = "gone"
    /\ IF Busy
         THEN \E to \in StopTargets : RequestStop(to) /\ state' = StateAfterStop(to)
         ELSE UNCHANGED <<window, told, stopVars, state>>
    /\ UNCHANGED <<phase, took, code, panel, process, killed, startRep, overdue, alive, sessionOpen, pending, prev, ui, bounds>>

(* The controller dies; its engine goes on.                                *)
ControllerCrash ==
    /\ quit \in {"no", "wait"} /\ clicks < MaxClicks
    /\ quit' = "crashed" /\ ui' = "free" /\ clicks' = clicks + 1
    /\ UNCHANGED <<engineVars, clientVars, sessionOpen, pending, prev, hands>>

(* A new controller starts: it knows nothing of the engines.               *)
Restart ==
    /\ quit \in {"gone", "crashed"} /\ clicks < MaxClicks
    /\ clicks' = clicks + 1
    /\ process' = None /\ window' = None
    /\ stopReq' = FALSE /\ graceOver' = FALSE /\ late' = FALSE
    /\ killed' = FALSE /\ startRep' = FALSE /\ overdue' = FALSE
    /\ state' = "Stopped" /\ prev' = "Stopped"
    /\ alive' = FALSE
    /\ sessionOpen' = FALSE /\ pending' = FALSE /\ ui' = "free" /\ quit' = "no"
    /\ UNCHANGED <<engineVars, hands>>

(* on_end_session: ask to quit without waiting; an owned engine without a  *)
(* window is terminated outright.                                          *)
EndSession ==
    /\ quit \in {"no", "wait"} /\ ui = "free"
    /\ quit' = "logoff"
    /\ IF Busy
         THEN \E to \in StopTargets :
                /\ window' = to /\ stopReq' = TRUE /\ graceOver' = FALSE /\ late' = FALSE
                /\ state' = StateAfterStop(to)
                /\ IF OwnLives /\ to = None
                     THEN Ends(process, 1)
                     ELSE /\ told' = [e \in Engines |->
                                        told[e] \/ (e = to /\ phase[e] \in WithWindow)]
                          /\ UNCHANGED <<phase, took, code>>
         ELSE UNCHANGED <<window, stopVars, state, phase, told, took, code>>
    /\ UNCHANGED <<panel, process, killed, startRep, overdue, alive,
                   sessionOpen, pending, prev, ui, bounds>>

(* The clocks.                                                             *)
GraceOver ==
    /\ stopReq /\ ~graceOver
    /\ graceOver' = TRUE
    /\ UNCHANGED <<engineVars, process, window, stopReq, late, killed, startRep, overdue,
                   state, alive, appVars, bounds>>

StartOverdue ==
    /\ process # None /\ ~overdue
    /\ overdue' = TRUE
    /\ UNCHANGED <<engineVars, process, window, stopVars, killed, startRep, state, alive,
                   appVars, bounds>>

-----------------------------------------------------------------------------
EngineStep(e) ==
    \/ HandLaunch(e) \/ Boot(e) \/ TakeOver(e) \/ TakeOverFails(e) \/ OpenWindow(e)
    \/ StartupFails(e) \/ Obey(e) \/ LoopEnds(e) \/ Finish(e) \/ Crash(e)

UserStep ==
    \/ Adopt \/ Stop \/ Command \/ RecoverDisplays \/ Quit
    \/ \E e \in Engines : Launch(e)

Next ==
    \/ \E e \in Engines : EngineStep(e)
    \/ UserStep
    \/ PollWindow \/ PollProcess
    \/ QuitTimeout \/ Leave \/ ControllerCrash \/ Restart \/ EndSession
    \/ GraceOver \/ StartOverdue

Spec == Init /\ [][Next]_vars

(* The health timer keeps polling, the quit loop too; time passes; a       *)
(* message with a timeout returns; the quit loop checks its 60 s on every  *)
(* turn. Nothing is assumed of engines.                                    *)
FairSpec ==
    /\ Spec
    /\ WF_vars(PollWindow) /\ WF_vars(PollProcess)
    /\ SF_vars(QuitTimeout) /\ WF_vars(Leave) /\ WF_vars(GraceOver) /\ WF_vars(StartOverdue)

-----------------------------------------------------------------------------
(* Properties.                                                             *)

Serving == quit \in {"no", "wait"}

(* Quitting never orphans the engine: when the controller has gone the way *)
(* of on_close and stop_engine_for_quit, the engine it launched is dead.   *)
NoOrphan == quit = "gone" => ~OwnLives

(* What the dashboard shows between polls is settled: Stopped and Exited   *)
(* mean there is no process left to stop or to own, and once the process   *)
(* is reaped neither its session's logs nor a display recovery are owed.   *)
SettledIsDone ==
    ui = "free" /\ Serving =>
        /\ state \in {"Stopped", "Exited"} => process = None
        /\ process = None => ~sessionOpen /\ ~pending

(* poll_engine finishes (moves away) a session's logs only once the engine *)
(* that writes them is dead.                                               *)
LogsAfterEngine ==
    [][Serving /\ sessionOpen /\ ~sessionOpen' => ~OwnLives]_vars

(* An engine terminated after the grace is reported as failed, never as    *)
(* stopped, however the user's clicks fall between kill and reap.          *)
KillIsFailure ==
    [][Serving /\ killed /\ ~killed' => process' = None /\ state' = "Failed"]_vars

(* When the death of an owned engine is reported as a failure, the laptop  *)
(* panel has been brought back in the same poll, or the user told that it  *)
(* could not be, whether the failure was seen now or while it still ran.   *)
FailureRecoversPanel ==
    [][Serving /\ process # None /\ process' = None /\ state' = "Failed"
         => panel' # "off"]_vars

(* Every wait of the controller ends: a stop that was asked for (the        *)
(* engine obeys, is killed, or is reported as not answering), a start (in a *)
(* window, or in a failure after the start timeout), and the bounded wait   *)
(* of a quit, whatever the engine does.                                     *)
EveryWaitEnds ==
    /\ stopReq ~> (~stopReq \/ ~Serving)
    /\ state = "Starting" ~> (state # "Starting" \/ ~Serving)
    /\ quit = "wait" ~> quit # "wait"

(* Said by the documentation, and not so: a stopped engine, if it has a    *)
(* window to be asked at, is terminated only after ignoring the question.  *)
ForcedOnlyIfIgnored ==
    [][~killed /\ killed' /\ phase[process] = "window" => told[process]]_vars

(* Said by the comments, and not so: an engine that died leaves no         *)
(* detached panel behind once its controller has reaped it.                *)
NoDarkPanel ==
    ui = "free" /\ Serving /\ ~Busy /\ (\A e \in Engines : phase[e] \notin Live)
        => panel # "off"

=============================================================================
