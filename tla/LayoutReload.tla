---------------------------- MODULE LayoutReload ----------------------------
(***************************************************************************)
(* The engine's main loop and the layout file (src/app/spatial_desk.cpp     *)
(* 846-1421): the layout is loaded at start and watched by its write time; *)
(* a reload resizes the set of virtual displays, moves their desktops,      *)
(* gives the layout to the renderer and rebinds the captures, and undoes    *)
(* all that when one of the steps fails, or quits when the undo fails too.  *)
(*                                                                         *)
(* A layout is the sequence of its screens' yaw angles in the order of      *)
(* their vdd_index; the rest of a screen changes none of these steps.       *)
(***************************************************************************)
EXTENDS VddClient

CONSTANTS
  Layouts,        \* the layouts a user saves
  MaxEdits,       \* bound on how often the file is written
  EditsAtStart    \* the file may be written while the engine starts

ASSUME LayoutAssumption ==
  /\ \A l \in Layouts : l \in Seq(Int) /\ Len(l) \in 1 .. MaximumDisplays
  /\ MaxEdits \in Nat /\ EditsAtStart \in BOOLEAN

NoLayout == <<>>
Torn == NoLayout  \* a file that does not parse or validate, as one without screens

VARIABLES
  file,           \* what the layout file holds
  written,        \* its write time
  seen,           \* layout_write_time, the watermark
  read,           \* write_time, as this turn read it
  forced,         \* state.reload_layout
  layout,         \* the layout in force
  shown,          \* the layout the renderer has
  captures,       \* the displays captured, in the order of the screens
  workspace_plan, \* the desktops as last planned and placed
  virtual_displays, \* the displays as last configured, what captures bind to
  reload_plan,    \* the plan of the start, then of each reload
  candidate,      \* the layout of this reload
  astray,         \* a refused move has left desktops where no plan in force has them
  done,           \* what this reload has changed: displays, plan, renderer
  pc,             \* where the engine is
  quit,           \* state.quit
  engine_failed   \* the exit code

fileVars == <<file, written>>
watchVars == <<seen, read, forced>>
deskVars == <<astray, virtual_displays>>
sceneVars == <<layout, shown, captures, workspace_plan, deskVars>>
reloadVars == <<reload_plan, candidate, done>>
exitVars == <<quit, engine_failed>>
vars == <<vddVars, fileVars, watchVars, sceneVars, reloadVars, exitVars, pc>>

Starting == {"load", "connect", "connecting", "take over", "show", "watch"}
Undoing == {"undo", "undo resize", "undo place", "undo bind"}
Reloading == {"read", "resize", "plan", "place", "render", "bind"} \cup Undoing

TypeOK ==
  /\ VddTypeOK
  /\ file \in Layouts \cup {Torn}
  /\ {written, seen, read} \subseteq 0 .. MaxEdits /\ forced \in BOOLEAN
  /\ {layout, shown, candidate} \subseteq Layouts \cup {NoLayout}
  /\ captures \in Seq(Index)
  /\ \A p \in {workspace_plan, reload_plan, virtual_displays} :
       p \in Seq([driver : Index, x : -MaximumDisplays .. MaximumDisplays])
  /\ done \subseteq {"displays", "plan", "renderer"}
  /\ pc \in Starting \cup Reloading \cup {"turn", "pings", "shutdown", "ended"}
  /\ {quit, engine_failed, astray} \subseteq BOOLEAN

Init ==
  /\ VddInit
  /\ file \in Layouts \cup {Torn} /\ written = 0 /\ seen = 0 /\ read = 0 /\ forced = FALSE
  /\ layout = NoLayout /\ shown = NoLayout /\ candidate = NoLayout
  /\ captures = <<>> /\ workspace_plan = <<>> /\ reload_plan = <<>>
  /\ virtual_displays = <<>>
  /\ astray = FALSE /\ done = {} /\ pc = "load"
  /\ quit = FALSE /\ engine_failed = FALSE

--------------------------------------------------------------------------------
(* Planning the desktops.                                                   *)

Abs(n) == IF n < 0 THEN -n ELSE n

\* The pair <<a, b>> sorts at or before <<c, d>>.
SortsBefore(p, q) == p[1] < q[1] \/ (p[1] = q[1] /\ p[2] =< q[2])

\* The rank nearest straight ahead, the lower driver index on a tie.
SelectCenter(yaws, drivers) ==
  CHOOSE r \in DOMAIN yaws :
    \A s \in DOMAIN yaws :
      SortsBefore(<<Abs(yaws[r]), drivers[r]>>, <<Abs(yaws[s]), drivers[s]>>)

\* Desktop positions in units of a desktop's width: the center at 0, the
\* screens to its left in yaw order to the left, the others to the right.
PlanDesktops(yaws, drivers) ==
  LET center == SelectCenter(yaws, drivers)
      Left == {r \in DOMAIN yaws : r # center /\ yaws[r] < 0}
      Right == {r \in DOMAIN yaws : r # center /\ yaws[r] >= 0}
      Key(r) == <<yaws[r], drivers[r]>>
      Position(r) ==
        CASE r = center -> 0
          [] r \in Left -> -Cardinality({s \in Left : SortsBefore(Key(r), Key(s))})
          [] r \in Right -> Cardinality({s \in Right : SortsBefore(Key(s), Key(r))})
  IN [r \in DOMAIN yaws |-> [driver |-> drivers[r], x |-> Position(r)]]

Drivers(plan) == {plan[r].driver : r \in DOMAIN plan}

(* reposition_virtual_displays: every planned display must be enumerated;  *)
(* Windows takes the new arrangement, or refuses it and the one before is   *)
(* committed back, or refuses that as well and some desktops have moved.    *)
Repositions(plan) ==
  /\ Drivers(plan) \subseteq listed
  /\ astray' = FALSE /\ virtual_displays' = plan
RepositionFails(plan) ==
  /\ UNCHANGED virtual_displays
  /\ \/ UNCHANGED astray
     \/ Drivers(plan) \subseteq listed /\ astray' = TRUE

(* bind_desktop_captures binds the configured displays in order, or none:   *)
(* the captures in force are replaced only when every screen has one.       *)
Binds(scene) ==
  /\ Len(scene) = Len(virtual_displays)
  /\ captures' = [r \in DOMAIN virtual_displays |-> virtual_displays[r].driver]

--------------------------------------------------------------------------------
(* The user, or the controller's Save and reload: the file changes, whole   *)
(* when it is replaced atomically, torn when an editor writes in place.     *)
Edit ==
  /\ written < MaxEdits /\ pc # "ended" /\ (EditsAtStart \/ pc \notin Starting)
  /\ file' \in (Layouts \cup {Torn}) \ {file} /\ written' = written + 1
  /\ UNCHANGED <<vddVars, watchVars, sceneVars, reloadVars, exitVars, pc>>

(* The engine starts.  A failure ends it with exit code 1.                  *)
StartFails ==
  /\ pc' = "ended" /\ engine_failed' = TRUE

LoadAtStart ==
  /\ pc = "load"
  /\ \/ file # Torn /\ layout' = file /\ pc' = "connect" /\ UNCHANGED engine_failed
     \/ file = Torn /\ StartFails /\ UNCHANGED layout
  /\ UNCHANGED <<vddVars, fileVars, watchVars, shown, captures, workspace_plan, deskVars,
                 reloadVars, quit>>

\* VddClient::connect up to the resize: the driver is not ready, or it is.
Connect ==
  /\ pc = "connect"
  /\ \/ /\ open' = TRUE /\ pingFailures' = 0 /\ BeginResize(Len(layout))
        /\ pc' = "connecting" /\ UNCHANGED engine_failed
     \/ StartFails /\ UNCHANGED <<open, pingFailures, call>>
  /\ UNCHANGED <<driver, listed, display_indices, hung, fileVars, watchVars, sceneVars, reloadVars, quit>>

Connected ==
  /\ pc = "connecting" /\ ResizeReturnsTrue
  /\ reload_plan' = PlanDesktops(layout, display_indices)
  /\ call' = NoCall /\ pc' = "take over"
  /\ UNCHANGED <<driver, listed, open, display_indices, pingFailures, hung, fileVars, watchVars,
                 sceneVars, candidate, done, exitVars>>

ConnectFails ==
  /\ pc = "connecting" /\ ResizeReturnsFalse /\ Disconnect /\ StartFails
  /\ UNCHANGED <<fileVars, watchVars, sceneVars, reloadVars, quit>>

(* apply_workspace_topology: it waits until Windows lists every display,    *)
(* then places them; or it fails and the displays are disconnected.         *)
TakeOver ==
  /\ pc = "take over"
  /\ \/ /\ Repositions(reload_plan) /\ workspace_plan' = reload_plan /\ pc' = "show"
        /\ UNCHANGED <<vddVars, engine_failed>>
     \/ Disconnect /\ StartFails /\ UNCHANGED <<workspace_plan, deskVars>>
  /\ UNCHANGED <<fileVars, watchVars, layout, shown, captures, reloadVars, quit>>

(* The window, the renderer with the layout, the captures.  A failure       *)
(* returns from run_main and the topology guard restores and disconnects.   *)
Show ==
  /\ pc = "show"
  /\ \/ /\ shown' = layout /\ Binds(layout) /\ pc' = "watch"
        /\ UNCHANGED <<vddVars, engine_failed>>
     \/ Disconnect /\ StartFails /\ UNCHANGED <<shown, captures>>
  /\ UNCHANGED <<fileVars, watchVars, layout, workspace_plan, deskVars, reloadVars, quit>>

\* The write time is first read here, long after the file was.
Watch ==
  /\ pc = "watch" /\ seen' = written /\ pc' = "turn"
  /\ UNCHANGED <<vddVars, fileVars, read, forced, sceneVars, reloadVars, exitVars>>

Start == LoadAtStart \/ Connect \/ Connected \/ ConnectFails \/ TakeOver \/ Show \/ Watch

--------------------------------------------------------------------------------
(* A turn of the main loop.  The state is read again at every step: the     *)
(* file, the driver and Windows go on meanwhile.                            *)
Turning == pc = "turn"

\* A hotkey, the controller's quit message, or the time the run was given.
AskQuit ==
  /\ Turning /\ quit' = TRUE
  /\ UNCHANGED <<vddVars, fileVars, watchVars, sceneVars, reloadVars, pc, engine_failed>>

\* The controller's reload message; before the loop nothing listens to it.
AskReload ==
  /\ Turning /\ forced' = TRUE
  /\ UNCHANGED <<vddVars, fileVars, seen, read, sceneVars, reloadVars, exitVars, pc>>

\* Between two checks of the write time, half a second apart, turns pass it by.
SkipReload ==
  /\ Turning /\ ~forced /\ pc' = "pings"
  /\ UNCHANGED <<vddVars, fileVars, watchVars, sceneVars, reloadVars, exitVars>>

\* The write time is read before the file, so a write between the two is
\* loaded now and loaded again at the next check.
Check ==
  /\ Turning /\ (forced \/ written # seen)
  /\ read' = written /\ forced' = FALSE /\ done' = {} /\ pc' = "read"
  /\ UNCHANGED <<vddVars, fileVars, seen, sceneVars, reload_plan, candidate, exitVars>>

ReadLayout ==
  /\ pc = "read"
  /\ \/ file = Torn /\ pc' = "undo" /\ UNCHANGED <<candidate, done, call>>
     \/ /\ file # Torn /\ candidate' = file
        /\ \/ /\ Len(file) = Len(layout) /\ pc' = "plan"
              /\ UNCHANGED <<done, call>>
           \/ /\ Len(file) # Len(layout) /\ pc' = "resize"
              /\ done' = done \cup {"displays"} /\ BeginResize(Len(file))
  /\ UNCHANGED <<driver, listed, open, display_indices, pingFailures, hung, fileVars, watchVars,
                 sceneVars, reload_plan, exitVars>>

Resized ==
  /\ pc = "resize"
  /\ \/ ResizeReturnsTrue /\ pc' = "plan"
     \/ ResizeReturnsFalse /\ pc' = "undo"
  /\ call' = NoCall
  /\ UNCHANGED <<driver, listed, open, display_indices, pingFailures, hung, fileVars, watchVars,
                 sceneVars, reloadVars, exitVars>>

Plan ==
  /\ pc = "plan"
  /\ \/ /\ Len(candidate) # Count /\ pc' = "undo" /\ UNCHANGED reload_plan
     \/ /\ Len(candidate) = Count
        /\ reload_plan' = PlanDesktops(candidate, display_indices)
        /\ pc' = IF reload_plan' # workspace_plan THEN "place" ELSE "render"
  /\ UNCHANGED <<vddVars, fileVars, watchVars, sceneVars, candidate, done, exitVars>>

Place ==
  /\ pc = "place"
  /\ \/ Repositions(reload_plan) /\ done' = done \cup {"plan"} /\ pc' = "render"
     \/ RepositionFails(reload_plan) /\ pc' = "undo" /\ UNCHANGED done
  /\ UNCHANGED <<vddVars, fileVars, watchVars, layout, shown, captures, workspace_plan,
                 reload_plan, candidate, exitVars>>

\* Renderer::set_layout builds the new scene aside and swaps it in at the end.
Render ==
  /\ pc = "render"
  /\ \/ shown' = candidate /\ done' = done \cup {"renderer"} /\ pc' = "bind"
     \/ pc' = "undo" /\ UNCHANGED <<shown, done>>
  /\ UNCHANGED <<vddVars, fileVars, watchVars, layout, captures, workspace_plan, deskVars,
                 reload_plan, candidate, exitVars>>

\* Mutant: the write time is taken when the reload is done.
BindLateMutant ==
  /\ pc = "bind"
  /\ \/ /\ Binds(candidate) /\ layout' = candidate /\ workspace_plan' = reload_plan
        /\ seen' = written /\ pc' = "pings"
     \/ pc' = "undo" /\ UNCHANGED <<layout, captures, workspace_plan, seen>>
  /\ UNCHANGED <<vddVars, fileVars, read, forced, shown, deskVars, reloadVars, exitVars>>

\* The captures bind and the reload is committed, the watermark with it.
Bind ==
  /\ pc = "bind"
  /\ \/ /\ Binds(candidate) /\ layout' = candidate /\ workspace_plan' = reload_plan
        /\ seen' = read /\ pc' = "pings"
     \/ pc' = "undo" /\ UNCHANGED <<layout, captures, workspace_plan, seen>>
  /\ UNCHANGED <<vddVars, fileVars, read, forced, shown, deskVars, reloadVars, exitVars>>

(* The undo of a failed reload.  What cannot be undone ends the engine.     *)
GiveUp == quit' = TRUE /\ engine_failed' = TRUE

\* Mutant: only a changed number of displays is undone.
UndoCountMutant ==
  /\ pc = "undo"
  /\ \/ "renderer" \notin done /\ UNCHANGED <<shown, exitVars>>
     \/ "renderer" \in done /\ shown' = layout /\ UNCHANGED exitVars
     \/ "renderer" \in done /\ GiveUp /\ UNCHANGED shown
  /\ \/ /\ "displays" \in done
        /\ BeginResize(Len(layout)) /\ pc' = "undo resize"
     \/ "displays" \notin done /\ pc' = "pings" /\ UNCHANGED call
  /\ UNCHANGED <<driver, listed, open, display_indices, pingFailures, hung, fileVars, watchVars,
                 layout, captures, workspace_plan, deskVars, done>>
  /\ reload_plan' = <<>> /\ candidate' = NoLayout

\* From here on nothing looks at the candidate and its plan.
Undo ==
  /\ pc = "undo"
  /\ \/ "renderer" \notin done /\ UNCHANGED <<shown, exitVars>>
     \/ "renderer" \in done /\ shown' = layout /\ UNCHANGED exitVars
     \/ "renderer" \in done /\ GiveUp /\ UNCHANGED shown
  /\ \/ /\ done \cap {"displays", "plan"} # {}
        /\ BeginResize(Len(layout)) /\ pc' = "undo resize"
     \/ done \cap {"displays", "plan"} = {} /\ pc' = "pings" /\ UNCHANGED call
  /\ UNCHANGED <<driver, listed, open, display_indices, pingFailures, hung, fileVars, watchVars,
                 layout, captures, workspace_plan, deskVars, done>>
  /\ reload_plan' = <<>> /\ candidate' = NoLayout

UndoResize ==
  /\ pc = "undo resize"
  /\ \/ ResizeReturnsTrue /\ pc' = "undo place" /\ UNCHANGED exitVars
     \/ ResizeReturnsFalse /\ pc' = "pings" /\ GiveUp
  /\ call' = NoCall
  /\ UNCHANGED <<driver, listed, open, display_indices, pingFailures, hung, fileVars, watchVars,
                 sceneVars, reloadVars>>

UndoPlace ==
  /\ pc = "undo place"
  /\ \/ Repositions(workspace_plan) /\ pc' = "undo bind" /\ UNCHANGED exitVars
     \/ RepositionFails(workspace_plan) /\ pc' = "pings" /\ GiveUp
  /\ UNCHANGED <<vddVars, fileVars, watchVars, layout, shown, captures, workspace_plan, reloadVars>>

UndoBind ==
  /\ pc = "undo bind"
  /\ \/ Binds(layout) /\ UNCHANGED exitVars
     \/ GiveUp /\ UNCHANGED captures
  /\ pc' = "pings"
  /\ UNCHANGED <<vddVars, fileVars, watchVars, layout, shown, workspace_plan, deskVars, reloadVars>>

Reload == SkipReload \/ Check \/ ReadLayout \/ Resized \/ Plan \/ Place \/ Render \/ Bind
UndoReload == Undo \/ UndoResize \/ UndoPlace \/ UndoBind

\* Mutant: the failures are reported and the loop goes on.
CheckPingsMutant ==
  /\ pc = "pings"
  /\ \/ pingFailures = FatalPings /\ engine_failed' = TRUE /\ UNCHANGED quit
     \/ pingFailures # FatalPings /\ UNCHANGED exitVars
  /\ \/ quit' /\ pc' = "shutdown" /\ captures' = <<>>
     \/ ~quit' /\ pc' = "turn" /\ UNCHANGED captures
  /\ UNCHANGED <<vddVars, fileVars, watchVars, layout, shown, workspace_plan, deskVars, reloadVars>>

\* Each turn goes on to read the consecutive failures of the keepalive thread;
\* the loop ends at its top when quit is set, and lets go of the captures.
CheckPings ==
  /\ pc = "pings"
  /\ \/ pingFailures = FatalPings /\ GiveUp
     \/ pingFailures # FatalPings /\ UNCHANGED exitVars
  /\ \/ quit' /\ pc' = "shutdown" /\ captures' = <<>>
     \/ ~quit' /\ pc' = "turn" /\ UNCHANGED captures
  /\ UNCHANGED <<vddVars, fileVars, watchVars, layout, shown, workspace_plan, deskVars, reloadVars>>

\* restore_display_topology disconnects the displays first; a restore that
\* fails makes the exit code 1.
Shutdown ==
  /\ pc = "shutdown" /\ Disconnect /\ pc' = "ended"
  /\ engine_failed' \in {engine_failed, TRUE}
  /\ UNCHANGED <<fileVars, watchVars, sceneVars, reloadVars, quit>>

Engine ==
  \/ Start \/ Reload \/ UndoReload \/ CheckPings \/ Shutdown
  \/ ResizeStep /\ UNCHANGED <<fileVars, watchVars, sceneVars, reloadVars, exitVars, pc>>

\* Where the engine calls the client.  A ping that hangs while it is elsewhere is
\* one that does not end, and is in the way of its next call.
Calling == pc \in {"connecting", "take over", "show", "resize", "undo resize", "shutdown"}

Outside ==
  \/ Edit \/ AskReload \/ AskQuit
  \/ (Keepalive \/ (Hang /\ Calling) \/ Enumerate)
     /\ UNCHANGED <<fileVars, watchVars, sceneVars, reloadVars, exitVars, pc>>

Next == Engine \/ Outside

(* Fairness: the engine's thread runs and every call it makes returns, but  *)
(* for an ioctl of a driver that hangs.  Nothing is assumed of the driver,  *)
(* Windows, the user or the pings.                                          *)
Spec == Init /\ [][Next]_vars
FairSpec == Spec /\ WF_vars(Engine)

--------------------------------------------------------------------------------
(* Properties.                                                              *)

\* What add_display might have taken of the driver, and the client does not track.
Unknown == {i \in driver : i < MaximumDisplays} \ Range(display_indices)

\* Between two reloads of a running engine the layout, the renderer, the plan,
\* the desktops configured, the captures and the displays of the client speak of
\* the same screens, which exist, each once: a reload is taken as a whole or not at
\* all.  (An undone shrink may list the displays in another order; the plan in force
\* keeps its own.  A display that the driver made and add_display gave up on may
\* stand in for one of the client's.)
Consistent ==
  Turning =>
    /\ shown = layout /\ Count = Len(layout)
    /\ workspace_plan = PlanDesktops(layout, captures)
    /\ virtual_displays = workspace_plan
    /\ IsInjective(display_indices)
    /\ Range(captures) \cup Range(display_indices) \subseteq driver
    /\ Unknown = {} => Range(captures) = Range(display_indices)

\* Once the write time of the file is the one the engine remembers, the
\* layout in force is the file's: no saved layout is forgotten.
WatermarkIsHonest == Turning /\ seen = written => layout = file

\* A reload ends, undone or not, and the loop that owns the window comes back;
\* pings that go on failing end the engine, in whatever it was doing.  Both unless
\* the driver hangs on a request that it was told to cancel.
ReloadEnds ==
  /\ pc \in Reloading ~> pc \in {"turn", "ended"} \/ hung
  /\ pingFailures = FatalPings ~> pc = "ended" \/ hung \/ pingFailures # FatalPings

(* Said and not so: each of these is violated, see README.md. *)

\* A driver that does not answer any more ends the engine (spatial_desk.cpp 1412-1416).
DeadDriverIsNoticed == hung ~> pc = "ended"

\* Between two reloads the screens show the displays the client will remove.
CapturesAreTracked == Turning => Range(captures) = Range(display_indices)

\* Between two reloads the desktops stand where the plan puts them
\* (display_config.h 249-250).
DeskFollowsPlan == Turning => ~astray

===============================================================================
