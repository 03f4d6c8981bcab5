------------------------------ MODULE EngineBoot ------------------------------
(***************************************************************************)
(* The engine's life outside its frames (run_main, src/app/spatial_desk.cpp *)
(* 770-1212 and 1693-1747): the checks before anything is touched, the      *)
(* takeover of the displays, the choice of the monitor to render on, the    *)
(* window, and the way back on every exit; with the status file it writes,  *)
(* the controller that starts it and reads that file (app_state.cpp), and   *)
(* the display changes that come from outside.                              *)
(*                                                                         *)
(* Takeover and restore are one step here: DisplayTopology has theirs.      *)
(***************************************************************************)
EXTENDS GlassesRecovery

CONSTANTS
  Engines,     \* processes of spatial_desk.exe
  Controller,  \* the controller, as a caller of the glasses recovery
  Laptop,      \* the internal display
  Options,     \* arguments an engine may get: [workspace : BOOLEAN, given : BOOLEAN]
  Worlds,      \* what may be plugged in at first: [Display -> Link]
  MaxPass      \* passes of the wait for the glasses (15)

NoEngine == "no engine"
NoReport == [state |-> "none", by |-> NoEngine]
NoOptions == [workspace |-> FALSE, given |-> FALSE]
NoArrangement == [on |-> {}, chief |-> NoDisplay]

ASSUME BootAssumption ==
  /\ Callers = Engines \cup {Controller} /\ Controller \notin Engines
  /\ NoEngine \notin Engines /\ "outside" \notin Callers
  /\ Options \subseteq [workspace : BOOLEAN, given : BOOLEAN]
  /\ Laptop \in Plain /\ MaxPass \in Nat
  /\ \A w \in Worlds :
       /\ w \in [Display -> Link] /\ \E d \in Plain \cup Tcl : w[d] = "attached"
       /\ \A d \in Virtual : w[d] = "unplugged"    \* the driver plugs them for a client

VARIABLES
  pc,        \* where each engine is in run_main
  options,   \* its arguments: workspace (virtual displays), monitor given
  passes,    \* passes of its wait for the glasses
  chosen,    \* the display it renders on
  pristine,  \* the arrangement it took over: displays and primary
  armed,     \* topology_guard.armed
  failure,   \* why it ended
  file,      \* the status file
  ctl,       \* the controller: what it does, its engine
  old,       \* history: the engines that had ended when the controller last launched
  home,      \* history: the arrangement at first
  touched    \* history: who has changed the displays

displayVars == <<link, primary>>
budgetVars == <<faults, troubled>>
engineVars == <<pc, options, passes, chosen, pristine, armed, failure>>
historyVars == <<old, home>>
vars == <<glassesVars, engineVars, file, ctl, historyVars, touched>>

Places ==
  {"off", "args", "guard", "inputs", "snapshot", "recover", "takeover", "select", "wait",
   "waiting", "window", "bind", "run", "unwind", "ended"}
Alive(e) == pc[e] \notin {"off", "ended"}
Inside(e) == Alive(e) /\ pc[e] \notin {"args", "guard"}
Windowed == {e \in Engines : pc[e] \in {"bind", "run"}}
Arrangement == [on |-> Attached, chief |-> primary]
Arrangements == [on : SUBSET Display, chief : Display \cup {NoDisplay}]

TypeOK ==
  /\ GlassesTypeOK /\ pc \in [Engines -> Places]
  /\ options \in [Engines -> [workspace : BOOLEAN, given : BOOLEAN]]
  /\ passes \in [Engines -> 0 .. MaxPass] /\ chosen \in [Engines -> Display \cup {NoDisplay}]
  /\ pristine \in [Engines -> Arrangements] /\ armed \in [Engines -> BOOLEAN]
  /\ failure \in [Engines -> {"none", "fault", "second", "no glasses"}]
  /\ file \in [state : {"none", "starting", "ready", "stopped", "failed"}, by : Engines \cup {NoEngine}]
  /\ ctl \in [does : {"idle", "healing", "busy"}, engine : Engines \cup {NoEngine}]
  /\ old \subseteq Engines /\ home \in Arrangements /\ touched \subseteq Callers \cup {"outside"}

Init ==
  /\ link \in Worlds
  /\ primary \in {d \in Plain \cup Tcl : link[d] = "attached"}
  /\ rec = [c \in Callers |-> Resting] /\ faults = 0 /\ troubled = {}
  /\ pc = [e \in Engines |-> "off"]
  /\ options = [e \in Engines |-> NoOptions]
  /\ passes = [e \in Engines |-> 0] /\ chosen = [e \in Engines |-> NoDisplay]
  /\ pristine = [e \in Engines |-> NoArrangement]
  /\ armed = [e \in Engines |-> FALSE] /\ failure = [e \in Engines |-> "none"]
  /\ file = NoReport /\ ctl = [does |-> "idle", engine |-> NoEngine]
  /\ old = {} /\ home = [on |-> Attached, chief |-> primary]
  /\ touched = {}

Slip == Fault /\ UNCHANGED troubled

\* publish_status: a report the file cannot take (a reader has it open) is dropped.
Published(e, state) == file' = [state |-> state, by |-> e]
Publish(e, state) == (Published(e, state) /\ Fine) \/ (UNCHANGED file /\ Slip)

At(e, place) == pc' = [pc EXCEPT ![e] = place]


\* What the process knew is gone with it.
Ends(e) ==
  /\ At(e, "ended")
  /\ options' = [options EXCEPT ![e] = NoOptions] /\ passes' = [passes EXCEPT ![e] = 0]
  /\ chosen' = [chosen EXCEPT ![e] = NoDisplay]
  /\ pristine' = [pristine EXCEPT ![e] = NoArrangement]
  /\ armed' = [armed EXCEPT ![e] = FALSE]

\* Mutant: the guard is disarmed on an early return.
FailsMutant(e, why) ==
  /\ failure' = [failure EXCEPT ![e] = why]
  /\ At(e, "ended") /\ Published(e, "failed")

\* A return with a failed report: the guard's destructor follows once it is armed.
Fails(e, why) ==
  /\ failure' = [failure EXCEPT ![e] = why]
  /\ At(e, IF armed[e] THEN "unwind" ELSE "ended")
  /\ Published(e, "failed")
Breaks(e) == Fails(e, "fault") /\ Slip

\* parse_args and the checks of the values; a path not reached by then stays unknown.
Args(e) ==
  /\ pc[e] = "args"
  /\ \/ At(e, "guard") /\ Publish(e, "starting") /\ UNCHANGED failure
     \/ Breaks(e)
     \/ /\ At(e, "ended") /\ failure' = [failure EXCEPT ![e] = "fault"]
        /\ Slip /\ UNCHANGED file
  /\ UNCHANGED <<displayVars, rec, options, passes, chosen, pristine, armed, ctl, historyVars>>

\* The single-instance mutex.
Guard(e) ==
  /\ pc[e] = "guard"
  /\ IF \E o \in Engines : Inside(o)
     THEN Fails(e, "second") /\ Fine
     ELSE \/ At(e, "inputs") /\ Fine /\ UNCHANGED <<failure, file>>
          \/ Breaks(e)
  /\ UNCHANGED <<displayVars, rec, options, passes, chosen, pristine, armed, ctl, historyVars>>

\* The orientation calibration and the layout.
Inputs(e) ==
  /\ pc[e] = "inputs"
  /\ \/ /\ At(e, IF options[e].workspace THEN "snapshot" ELSE "select")
        /\ Fine /\ UNCHANGED <<failure, file>>
     \/ Breaks(e)
  /\ UNCHANGED <<displayVars, rec, options, passes, chosen, pristine, armed, ctl, historyVars>>

GlassesAttached == {d \in Attached : is_glasses_display(d)}

\* snapshot_attached_displays, find_internal_display, and the look for the glasses.
Snapshot(e) ==
  /\ pc[e] = "snapshot"
  /\ \/ /\ pristine' = [pristine EXCEPT ![e] = Arrangement]
        /\ IF options[e].given \/ GlassesAttached # {}
           THEN At(e, "takeover") /\ UNCHANGED rec
           ELSE At(e, "recover") /\ BeginRecovery(e)
        /\ Fine /\ UNCHANGED <<failure, file>>
     \/ Breaks(e) /\ UNCHANGED <<pristine, rec>>
  /\ UNCHANGED <<displayVars, options, passes, chosen, armed, ctl, historyVars>>

Recovering(e) ==
  /\ pc[e] \in {"recover", "waiting"} /\ RecoveryStep(e)
  /\ UNCHANGED <<engineVars, file, ctl, historyVars>>

\* The rescan after the recovery.
Rescan(e) ==
  /\ pc[e] = "recover" /\ rec[e].pc = "done"
  /\ rec' = [rec EXCEPT ![e] = Resting]
  /\ IF GlassesAttached # {}
     THEN At(e, "takeover") /\ UNCHANGED <<failure, file>>
     ELSE Fails(e, "no glasses")
  /\ Fine
  /\ UNCHANGED <<displayVars, options, passes, chosen, pristine, armed, ctl, historyVars>>

\* connect, plan and apply_workspace_topology, which rolls itself back; then the guard is armed.
TakeOver(e) ==
  /\ pc[e] = "takeover"
  /\ \/ /\ \E centre \in Virtual : Desktop((Attached \ {Laptop}) \cup Virtual, centre)
        /\ armed' = [armed EXCEPT ![e] = TRUE]
        /\ At(e, "select") /\ Fine /\ UNCHANGED <<failure, file>>
     \/ Breaks(e) /\ UNCHANGED <<link, primary, armed>>
  /\ UNCHANGED <<rec, options, passes, chosen, pristine, ctl, historyVars>>

Renders(e, d) == chosen' = [chosen EXCEPT ![e] = d] /\ At(e, "window")

\* The monitor: the one given by its place in the list, glasses, a display that
\* is not virtual, rather not the primary.
Automatic ==
  LET real == Attached \ Virtual
  IN IF GlassesAttached # {} THEN GlassesAttached
     ELSE IF real \ {primary} # {} THEN real \ {primary} ELSE real

Select(e) ==
  /\ pc[e] = "select"
  /\ \/ /\ \E d \in (IF options[e].given THEN Attached ELSE Automatic) : Renders(e, d)
        /\ Fine /\ UNCHANGED <<failure, file>>
     \/ options[e].given /\ (Breaks(e) \/ (Attached = {} /\ Fails(e, "fault") /\ Fine)) /\ UNCHANGED chosen
     \/ /\ ~options[e].given /\ Automatic = {}
        /\ At(e, "wait") /\ Fine /\ UNCHANGED <<chosen, failure, file>>
  /\ UNCHANGED <<displayVars, rec, options, passes, pristine, armed, ctl, historyVars>>

\* A pass of the wait: a recovery, a second, and another look for glasses only.
BeginPass(e) ==
  /\ pc[e] = "wait" /\ passes[e] < MaxPass
  /\ BeginRecovery(e) /\ At(e, "waiting")
  /\ UNCHANGED <<displayVars, budgetVars, options, passes, chosen, pristine, armed, failure, file,
                 ctl, historyVars>>

EndPass(e) ==
  /\ pc[e] = "waiting" /\ rec[e].pc = "done"
  /\ rec' = [rec EXCEPT ![e] = Resting]
  /\ passes' = [passes EXCEPT ![e] = @ + 1]
  /\ IF GlassesAttached # {}
     THEN \E d \in GlassesAttached : Renders(e, d)
     ELSE At(e, "wait") /\ UNCHANGED chosen
  /\ UNCHANGED <<displayVars, budgetVars, options, pristine, armed, failure, file, ctl, historyVars>>

\* After the last pass any display that is not virtual will do.
FallBack(e) ==
  /\ pc[e] = "wait" /\ passes[e] = MaxPass
  /\ IF Attached \ Virtual # {}
     THEN (\E d \in Attached \ Virtual : Renders(e, d)) /\ UNCHANGED <<failure, file>>
     ELSE Fails(e, "no glasses") /\ UNCHANGED chosen
  /\ UNCHANGED <<glassesVars, options, passes, pristine, armed, ctl, historyVars>>

\* The window, the renderer and its layout; "ready" is published before the captures are bound.
Window(e) ==
  /\ pc[e] = "window"
  /\ \/ At(e, "bind") /\ Publish(e, "ready") /\ UNCHANGED failure
     \/ Breaks(e)
  /\ UNCHANGED <<displayVars, rec, options, passes, chosen, pristine, armed, ctl, historyVars>>

Bind(e) ==
  /\ pc[e] = "bind"
  /\ \/ At(e, "run") /\ Fine /\ UNCHANGED <<failure, file>>
     \/ options[e].workspace /\ Breaks(e)
  /\ UNCHANGED <<displayVars, rec, options, passes, chosen, pristine, armed, ctl, historyVars>>

\* The report of every second.
Heartbeat(e) ==
  /\ pc[e] = "run" /\ Publish(e, "ready")
  /\ UNCHANGED <<displayVars, rec, engineVars, ctl, historyVars>>

\* restore_display_topology: the virtual displays go, what was attached comes back.
Restore(e) ==
  Desktop((Attached \cup {d \in pristine[e].on : link[d] # "unplugged"}) \ Virtual, pristine[e].chief)

\* The end of the loop, asked for or fatal, with the restore; it disarms whatever came of it.
Finish(e) ==
  /\ pc[e] = "run"
  /\ \/ /\ IF armed[e] THEN Restore(e) ELSE UNCHANGED displayVars
        /\ UNCHANGED failure /\ Publish(e, "stopped")
     \/ /\ IF armed[e] THEN Restore(e) ELSE UNCHANGED displayVars
        /\ failure' = [failure EXCEPT ![e] = "fault"]
        /\ Published(e, "failed") /\ Slip
     \/ /\ armed[e] /\ Desktop(Attached \ Virtual, primary)
        /\ failure' = [failure EXCEPT ![e] = "fault"]
        /\ Published(e, "failed") /\ Suffers("stuck")
  /\ Ends(e)
  /\ UNCHANGED <<rec, ctl, historyVars>>

\* ~TopologyGuard, on every early return.
Unwind(e) ==
  /\ pc[e] = "unwind"
  /\ \/ Restore(e) /\ Publish(e, "failed")
     \/ /\ Desktop(Attached \ Virtual, primary)
        /\ Suffers("stuck") /\ UNCHANGED file
  /\ Ends(e)
  /\ UNCHANGED <<rec, failure, ctl, historyVars>>

\* The process dies; the driver takes its displays back.
Kill(e) ==
  /\ Alive(e) /\ Suffers("killed")
  /\ Desktop(Attached \ Virtual, primary)
  /\ Ends(e) /\ failure' = [failure EXCEPT ![e] = "fault"]
  /\ rec' = [rec EXCEPT ![e] = Resting]
  /\ UNCHANGED <<file, ctl, historyVars>>

Launched(e) ==
  /\ pc[e] = "off" /\ At(e, "args")
  /\ \E o \in Options : options' = [options EXCEPT ![e] = o]

\* By hand, with the status path of the controller.
LaunchByHand(e) ==
  /\ Launched(e)
  /\ UNCHANGED <<glassesVars, passes, chosen, pristine, armed, failure, file, ctl, historyVars>>

(* The controller *)

\* Mutant: the file of the run before stays.
LaunchesMutant(e) ==
  /\ Launched(e)
  /\ ctl' = [does |-> "busy", engine |-> e]
  /\ old' = {o \in Engines : pc[o] = "ended"} /\ UNCHANGED file

\* start_engine from the removal of the status file on.
Launches(e) ==
  /\ Launched(e)
  /\ file' = NoReport
  /\ ctl' = [does |-> "busy", engine |-> e]
  /\ old' = {o \in Engines : pc[o] = "ended"}

\* start_engine: a window is adopted; without glasses a recovery comes first.
Start ==
  /\ ctl.does = "idle"
  /\ \/ /\ \E e \in Windowed : ctl' = [ctl EXCEPT !.does = "busy", !.engine = e]
        /\ UNCHANGED <<pc, options, file, rec, old>>
     \/ /\ Windowed = {}
        /\ \E e \in Engines : GlassesAttached # {} /\ Launches(e)
        /\ UNCHANGED rec
     \/ /\ Windowed = {} /\ GlassesAttached = {} /\ \E e \in Engines : pc[e] = "off"
        /\ BeginRecovery(Controller)
        /\ ctl' = [ctl EXCEPT !.does = "healing"]
        /\ UNCHANGED <<pc, options, file, old>>
  /\ UNCHANGED <<displayVars, budgetVars, passes, chosen, pristine, armed, failure, home>>

Healing ==
  /\ ctl.does = "healing" /\ RecoveryStep(Controller)
  /\ UNCHANGED <<engineVars, file, ctl, historyVars>>

\* The start goes on, or is blocked (as it is here when there is no process left to launch).
Healed ==
  /\ ctl.does = "healing" /\ rec[Controller].pc = "done"
  /\ rec' = [rec EXCEPT ![Controller] = Resting]
  /\ \/ GlassesAttached # {} /\ \E e \in Engines : Launches(e)
     \/ /\ GlassesAttached = {} \/ \A e \in Engines : pc[e] # "off"
        /\ ctl' = [ctl EXCEPT !.does = "idle"]
        /\ UNCHANGED <<pc, options, file, old>>
  /\ UNCHANGED <<displayVars, budgetVars, passes, chosen, pristine, armed, failure, home>>

\* recover_display_topology: every display that is plugged in is extended to.
Extend == Desktop({d \in Display : link[d] # "unplugged"}, primary)

\* poll_engine: what the file says is shown, if it is fresh, while the controller's engine is alive.
Shown == IF ctl.does = "busy" /\ Alive(ctl.engine) THEN file ELSE NoReport

\* poll_engine: the controller's engine has ended.
Poll ==
  /\ ctl.does = "busy" /\ ~Alive(ctl.engine)
  /\ ctl' = [does |-> "idle", engine |-> NoEngine]
  /\ IF failure[ctl.engine] = "none" THEN UNCHANGED displayVars ELSE Extend
  /\ UNCHANGED <<rec, budgetVars, engineVars, file, historyVars>>

(* What happens outside *)

\* The glasses or the television come and go, or the user disconnects one in Settings.
Flap ==
  /\ Suffers("flap")
  /\ \E d \in Branded \cup Tcl :
       \/ link[d] # "attached" /\ Attach(d)
       \/ /\ link[d] = "attached"
          /\ \E to \in Link \ {"attached"} : link' = [link EXCEPT ![d] = to]
          /\ primary' \in (IF primary # d THEN {primary}
                           ELSE IF Attached = {d} THEN {NoDisplay} ELSE Attached \ {d})
  /\ UNCHANGED <<rec, engineVars, file, ctl, historyVars>>

\* Everything is over: both engines ran, and the controller has seen it.
Done == (\A e \in Engines : pc[e] = "ended") /\ ctl.does = "idle" /\ UNCHANGED <<glassesVars, engineVars, file, ctl, historyVars>>

EngineStep(e) ==
  \/ Args(e) \/ Guard(e) \/ Inputs(e) \/ Snapshot(e) \/ Recovering(e) \/ Rescan(e) \/ TakeOver(e)
  \/ Select(e) \/ BeginPass(e) \/ EndPass(e) \/ FallBack(e) \/ Window(e) \/ Bind(e)
  \/ Heartbeat(e) \/ Finish(e) \/ Unwind(e)

By(who) == touched' = IF link' = link THEN touched ELSE touched \cup {who}

Next ==
  \/ \E e \in Engines : (EngineStep(e) \/ LaunchByHand(e)) /\ By(e)
  \/ (Start \/ Healing \/ Healed \/ Poll) /\ By(Controller)
  \/ ((\E e \in Engines : Kill(e)) \/ Flap \/ Done) /\ By("outside")

Spec == Init /\ [][Next]_vars

(***************************************************************************)
(* Properties                                                              *)
(***************************************************************************)
NoTelevision == \A d \in Tcl : link[d] = "unplugged"

\* With the glasses plugged in, however deeply disconnected, an engine left to
\* choose finds them: it neither gives up without them nor renders elsewhere,
\* unless Windows refuses, displays change meanwhile, or a TCL display is there
\* to be taken for them (run_main 894-952, 1024-1129).
GlassesAreFound ==
  troubled = {} /\ NoTelevision /\ (\E d \in Branded : link[d] # "unplugged") =>
    \A e \in Engines :
      /\ failure[e] # "no glasses"
      /\ options[e].workspace /\ ~options[e].given => chosen[e] \in Branded \cup {NoDisplay}

\* A path recovery that reports failure leaves on the desktop what it found,
\* if nobody else changed displays and Windows took its undo
\* (reactivate_glasses_path: the snapshot is taken before the path is added).
FailedRecoveryLeavesNoTrace ==
  \A c \in Callers :
    rec[c].pc = "done" /\ ~rec[c].recovered /\ rec[c].undone /\ touched \subseteq {c} =>
      Attached = rec[c].found

\* Whatever way the engines ended, short of a kill or a restore that failed,
\* the displays of before are attached and the primary is the old one.
HomeAgain ==
  troubled = {} /\ (\A e \in Engines : ~Alive(e)) =>
    /\ home.on \subseteq Attached /\ Attached \cap Virtual = {}
    /\ primary = home.chief

\* The controller never shows the report of an engine that had ended before it
\* launched the one it has (start_engine removes the file, poll_engine asks for freshness).
ShownIsCurrent == Shown.by \notin old

(* Said and not so: each of these is violated, see README.md. *)

\* A TCL television that is the user's primary display is not taken for the
\* glasses (vdd_selftest.cpp 43-46): after the takeover it no longer is the
\* primary one, and matches.
PrimaryTelevisionIsLeft ==
  \A e \in Engines : ~options[e].given /\ home.chief \in Tcl => chosen[e] # home.chief

\* A TCL display does not hide the branded glasses (display_config.cpp
\* 1433-1434): it does once both are attached, if Windows lists it first.
TelevisionShadowsNothing ==
  \A e \in Engines : ~options[e].given /\ chosen[e] \in Tcl => Attached \cap Branded = {}

\* The controller does not extend the displays under a running engine
\* (app_state.cpp 569-571): the failure it recovers from may be that of a
\* second instance.
NoExtendUnderATakeover ==
  [][\A e \in Engines : armed[e] /\ ctl.does = "busy" /\ ctl'.does = "idle" => link' = link]_vars
===============================================================================
