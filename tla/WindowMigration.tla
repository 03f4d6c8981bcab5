--------------------------- MODULE WindowMigration ---------------------------
(***************************************************************************)
(* What becomes of the user's windows and of the taskbar while the laptop   *)
(* panel is away (src/vdd/display_config.cpp 352-680, 1166-1264, 2045-2144, *)
(* and the controller's share in app_state.cpp).  Windows on the panel are  *)
(* recorded before the takeover, moved to the centre desktop, and moved     *)
(* home at the end, if the displays could be restored; Windows minimises    *)
(* windows in waves when displays go, and Explorer drops the taskbar's      *)
(* auto-hide when it builds a new tray.                                     *)
(*                                                                         *)
(* A place is a part of the desktop's coordinates.  The panel at home and   *)
(* the centre desktop are both at the origin: what was on the one is, by    *)
(* its rectangle, on the other.                                             *)
(***************************************************************************)
EXTENDS Naturals, FiniteSets

CONSTANTS
  Windows,    \* top-level windows that are not the shell's and answer messages
  Quiet,      \* polls without a repair that end a repair loop (3)
  Steady,     \* polls the taskbar must hold to be let alone (6)
  Budget,     \* polls of the taskbar after which it is let alone anyhow (30)
  MaxSession, MaxWaves, MaxUser, MaxFlips

ASSUME WindowsAssumption ==
  {Quiet, Steady, Budget, MaxSession, MaxWaves, MaxUser, MaxFlips} \subseteq Nat \ {0}

VARIABLES
  phase,       \* where the engine is with the displays
  win,         \* the windows
  recorded,    \* migrated_windows: in it and plain, in it and zoomed, or not in it
  was_iconic,  \* the windows minimised when the restore began
  centred,     \* have_center: the place of the panel could be read
  quiet,       \* polls of a repair loop without a repair
  coming,      \* waves of Windows still to come
  bar,         \* the taskbar hides itself
  saved,       \* taskbar_state of the takeover
  tracked,     \* taskbar_state_at_engine_start of the controller
  steady,      \* polls the taskbar has held
  polls,       \* polls of the taskbar
  flips,       \* times Explorer will still drop auto-hide
  sessions, users,
  wish,        \* history: what the user last asked of each window and of the taskbar
  dropped,     \* history: Explorer has dropped auto-hide in this session
  late,        \* history: a wave came after the repairs, and no session has passed since
  failed       \* history: the last restore of the displays failed

loopVars == <<quiet, coming>>
barVars == <<bar, saved, tracked, steady, polls, flips>>
deskHistory == <<sessions, users, wish, dropped, late, failed>>
deskVars == <<phase, win, recorded, was_iconic, centred, loopVars, barVars, deskHistory>>

Place == {"origin", "aside", "side", "glasses"}
Phases ==
  {"idle", "recorded", "aside", "placed", "repair", "session", "restore", "back", "home",
   "taskbar", "sticky", "ended", "gone"}

DeskTypeOK ==
  /\ phase \in Phases
  /\ win \in [Windows -> [open : BOOLEAN, at : Place, iconic : BOOLEAN, zoomed : BOOLEAN]]
  /\ recorded \in [Windows -> {"no", "plain", "zoomed"}] /\ was_iconic \subseteq Windows
  /\ centred \in BOOLEAN /\ quiet \in 0 .. Quiet /\ coming \in 0 .. MaxWaves
  /\ {bar, saved, tracked} \subseteq BOOLEAN /\ steady \in 0 .. Steady
  /\ polls \in 0 .. Budget /\ flips \in 0 .. MaxFlips
  /\ sessions \in 0 .. MaxSession /\ users \in 0 .. MaxUser
  /\ wish \in [iconic : SUBSET Windows, touched : SUBSET Windows, bar : BOOLEAN]
  /\ {dropped, late, failed} \subseteq BOOLEAN

DeskInit ==
  /\ phase = "idle"
  /\ win \in [Windows -> [open : {TRUE}, at : {"origin", "glasses"}, iconic : BOOLEAN, zoomed : BOOLEAN]]
  /\ recorded = [w \in Windows |-> "no"] /\ was_iconic = {} /\ centred = FALSE
  /\ quiet = 0 /\ coming = 0
  /\ bar = TRUE /\ saved = TRUE /\ tracked = TRUE /\ steady = 0 /\ polls = 0 /\ flips = 0
  /\ sessions = 0 /\ users = 0
  /\ wish = [iconic |-> {w \in Windows : win[w].iconic}, touched |-> {}, bar |-> TRUE]
  /\ dropped = FALSE /\ late = FALSE /\ failed = FALSE

\* The parts of the desktop that are on a display.
Live ==
  CASE phase \in {"aside", "placed"} -> Place
    [] phase \in {"repair", "session", "restore"} -> {"origin", "side", "glasses"}
    [] OTHER -> {"origin", "glasses"}

Is(w) == win[w].open /\ win[w].iconic
Ends == {"ended", "gone"}
Moves(to) == phase' = to

(* The takeover *)

\* snapshot_laptop_windows; the controller and the takeover note the taskbar.
Record ==
  /\ phase = "idle" /\ sessions < MaxSession
  /\ recorded' = [w \in Windows |->
       IF ~win[w].open \/ win[w].iconic \/ win[w].at # "origin" THEN "no"
       ELSE IF win[w].zoomed THEN "zoomed" ELSE "plain"]
  /\ saved' = bar /\ tracked' = bar
  /\ sessions' = sessions + 1 /\ wish' = [wish EXCEPT !.touched = {}, !.bar = bar] /\ dropped' = FALSE
  /\ Moves("recorded")
  /\ UNCHANGED <<win, was_iconic, centred, loopVars, bar, steady, polls, flips, users, late, failed>>

\* The centre desktop takes the origin, and the panel's windows ride aside with it.
Arrange ==
  /\ phase = "recorded"
  /\ win' = [w \in Windows |-> IF win[w].at = "origin" THEN [win[w] EXCEPT !.at = "aside"] ELSE win[w]]
  /\ Moves("aside")
  /\ UNCHANGED <<recorded, was_iconic, centred, loopVars, barVars, deskHistory>>

\* move_recorded_window: unminimised, moved, and maximised again if it was.
Moved(w) == [win[w] EXCEPT !.iconic = FALSE, !.at = "origin", !.zoomed = recorded[w] = "zoomed"]

\* place_windows_on_center, unless the panel's place cannot be read.
PlaceOnCentre ==
  /\ phase = "aside"
  /\ \/ /\ win' = [w \in Windows |->
              IF recorded[w] # "no" /\ win[w].open /\ ~win[w].iconic THEN Moved(w) ELSE win[w]]
        /\ centred' = TRUE
     \/ centred' = FALSE /\ UNCHANGED win
  /\ Moves("placed")
  /\ UNCHANGED <<recorded, was_iconic, loopVars, barVars, deskHistory>>

\* Displays went: a shown window there is moved to the primary display, a
\* minimised one keeps its rectangle.  Waves of minimising follow.
Leaving(places) ==
  [w \in Windows |-> IF win[w].at \in places /\ ~win[w].iconic
                     THEN [win[w] EXCEPT !.at = "origin"] ELSE win[w]]
Gone(places) ==
  /\ win' = Leaving(places)
  /\ quiet' = 0 /\ coming' \in 0 .. MaxWaves

\* The panel is detached; Explorer may build a new tray.
DetachPanel ==
  /\ phase = "placed"
  /\ Gone({"aside"})
  /\ bar' \in {bar, FALSE} /\ dropped' = (dropped \/ bar' # bar)
  /\ Moves("repair")
  /\ UNCHANGED <<recorded, was_iconic, centred, saved, tracked, steady, polls, flips>>
  /\ UNCHANGED <<sessions, users, wish, late, failed>>

\* A wave minimises windows; the next comes before the repairs have been quiet for long.
Wave ==
  /\ phase \in {"repair", "home", "taskbar"} /\ coming > 0
  /\ \E hit \in SUBSET {w \in Windows : win[w].open} :
       win' = [w \in Windows |-> IF w \in hit THEN [win[w] EXCEPT !.iconic = TRUE] ELSE win[w]]
  /\ coming' = coming - 1
  /\ UNCHANGED <<phase, recorded, was_iconic, centred, quiet, barVars, deskHistory>>

\* One that comes too late for them, with the desktop in place or the displays still going.
LateWave ==
  /\ phase \in Ends /\ ~late
  /\ \E w \in Windows, at \in {"origin", "side"} :
       win[w].open /\ ~win[w].iconic /\ win' = [win EXCEPT ![w].iconic = TRUE, ![w].at = at]
  /\ late' = TRUE
  /\ UNCHANGED <<phase, recorded, was_iconic, centred, loopVars, barVars, sessions, users, wish, dropped, failed>>

\* A poll of a repair loop: quiet ones count, a repair starts the count again.
Polls(repaired) ==
  /\ ~(coming > 0 /\ quiet = Quiet - 1)
  /\ win' = [w \in Windows |-> IF w \in DOMAIN repaired THEN repaired[w] ELSE win[w]]
  /\ quiet' = IF DOMAIN repaired = {} THEN quiet + 1 ELSE 0

RecordedIconic == {w \in Windows : recorded[w] # "no" /\ Is(w)}

\* repair_takeover_wave
RepairTakeover ==
  /\ phase = "repair" /\ centred /\ quiet < Quiet
  /\ Polls([w \in RecordedIconic |-> Moved(w)])
  /\ UNCHANGED <<phase, recorded, was_iconic, centred, coming, barVars, deskHistory>>

Workspace ==
  /\ phase = "repair" /\ (quiet = Quiet \/ ~centred)
  /\ coming' = 0 /\ quiet' = 0 /\ Moves("session")
  /\ UNCHANGED <<win, recorded, was_iconic, centred, barVars, deskHistory>>

(* The session *)

\* poll_engine: the live taskbar state becomes the one to hand back.
Track ==
  /\ phase = "session" /\ tracked # bar
  /\ tracked' = bar
  /\ UNCHANGED <<phase, win, recorded, was_iconic, centred, loopVars, bar, saved, steady, polls, flips, deskHistory>>

\* The user minimises, shows, moves or closes a window.
Use ==
  /\ users < MaxUser /\ users' = users + 1
  /\ phase \notin Ends \cup {"taskbar", "sticky"}
  /\ \E w \in Windows :
       /\ win[w].open
       /\ \/ /\ ~win[w].iconic
             /\ win' = [win EXCEPT ![w].iconic = TRUE]
             /\ wish' = [wish EXCEPT !.iconic = @ \cup {w}, !.touched = @ \cup {w}]
          \/ /\ win[w].iconic
             /\ win' = [win EXCEPT ![w].iconic = FALSE, ![w].at = IF @ \in Live THEN @ ELSE "origin"]
             /\ wish' = [wish EXCEPT !.iconic = @ \ {w}, !.touched = @ \cup {w}]
          \/ /\ ~win[w].iconic
             /\ \E to \in Live \ {win[w].at} : win' = [win EXCEPT ![w].at = to]
             /\ wish' = [wish EXCEPT !.touched = @ \cup {w}]
          \/ /\ win' = [win EXCEPT ![w].open = FALSE]
             /\ UNCHANGED wish
  /\ UNCHANGED <<phase, recorded, was_iconic, centred, loopVars, barVars, sessions, dropped, late, failed>>

\* The user has the taskbar hide itself, or not.
SetBar ==
  /\ users < MaxUser /\ users' = users + 1
  /\ phase = "session"
  /\ bar' = ~bar /\ wish' = [wish EXCEPT !.bar = ~bar]
  /\ UNCHANGED <<phase, win, recorded, was_iconic, centred, loopVars, saved, tracked, steady, polls, flips>>
  /\ UNCHANGED <<sessions, dropped, late, failed>>

(* The restore *)

\* snapshot_iconic_windows, at the end of a session, which a poll of the controller
\* has gone before, or of a takeover that failed.
BeginRestore ==
  /\ \/ phase \in {"aside", "placed", "repair"}
     \/ phase = "session" /\ tracked = bar
  /\ was_iconic' = {w \in Windows : Is(w)}
  /\ wish' = [wish EXCEPT !.touched = {}]
  /\ Moves("restore")
  /\ UNCHANGED <<win, recorded, centred, loopVars, barVars, sessions, users, dropped, late, failed>>

\* restore_pinned_layout: the virtual displays go, the panel is at the origin again.
PanelBack ==
  /\ phase = "restore"
  /\ Gone({"side", "aside"})
  /\ bar' \in {bar, FALSE} /\ flips' \in 0 .. MaxFlips
  /\ failed' = FALSE /\ Moves("back")
  /\ UNCHANGED <<recorded, was_iconic, centred, saved, tracked, steady, polls>>
  /\ UNCHANGED <<sessions, users, wish, dropped, late>>

\* It fails, with displays gone or not: only the taskbar is seen to, and the
\* restore is not tried again.
PanelStaysAway ==
  /\ phase = "restore"
  /\ \E places \in SUBSET {"side", "aside"} : Gone(places)
  /\ bar' \in {bar, FALSE} /\ flips' \in 0 .. MaxFlips
  /\ steady' = 0 /\ polls' = 0
  /\ failed' = TRUE /\ Moves("taskbar")
  /\ UNCHANGED <<recorded, was_iconic, centred, saved, tracked>>
  /\ UNCHANGED <<sessions, users, wish, dropped, late>>

\* restore_windows_home
MoveHome ==
  /\ phase = "back"
  /\ win' = [w \in Windows |-> IF recorded[w] # "no" /\ win[w].open THEN Moved(w) ELSE win[w]]
  /\ Moves("home")
  /\ UNCHANGED <<recorded, was_iconic, centred, loopVars, barVars, deskHistory>>

\* wave_repair_proc: what was minimised before stays so if it is on a display.
DeliberateMutant(w) == w \in was_iconic
Deliberate(w) == w \in was_iconic /\ win[w].at \in Live
StrayWindows == {w \in Windows : recorded[w] = "no" /\ Is(w) /\ ~Deliberate(w)}
Clamped(w) == [win[w] EXCEPT !.iconic = FALSE, !.at = "origin", !.zoomed = FALSE]

\* repair_restore_wave
RepairRestore ==
  /\ phase = "home" /\ quiet < Quiet
  /\ Polls([w \in RecordedIconic \cup StrayWindows |-> IF w \in StrayWindows THEN Clamped(w) ELSE Moved(w)])
  /\ UNCHANGED <<phase, recorded, was_iconic, centred, coming, barVars, deskHistory>>

RepairedMutant ==
  /\ phase = "home" /\ quiet \in {1, Quiet}
  /\ steady' = 0 /\ polls' = 0 /\ quiet' = 0 /\ coming' = 0 /\ Moves("taskbar")
  /\ UNCHANGED <<win, recorded, was_iconic, centred, bar, saved, tracked, flips, deskHistory>>

Repaired ==
  /\ phase = "home" /\ quiet = Quiet
  /\ steady' = 0 /\ polls' = 0 /\ quiet' = 0 /\ coming' = 0 /\ Moves("taskbar")
  /\ UNCHANGED <<win, recorded, was_iconic, centred, bar, saved, tracked, flips, deskHistory>>

ReapplyMutant ==
  /\ phase = "taskbar" /\ steady < Steady
  /\ bar' = saved /\ steady' = Steady
  /\ UNCHANGED <<phase, win, recorded, was_iconic, centred, loopVars, saved, tracked, polls, flips, deskHistory>>

\* reapply_taskbar_state: set on every deviation, until it holds or the time is up.
Reapply ==
  /\ phase = "taskbar" /\ steady < Steady /\ polls < Budget
  /\ ~(flips > 0 /\ steady = Steady - 1)
  /\ IF bar = saved THEN steady' = steady + 1 /\ UNCHANGED bar ELSE bar' = saved /\ steady' = 0
  /\ polls' = polls + 1
  /\ UNCHANGED <<phase, win, recorded, was_iconic, centred, loopVars, saved, tracked, flips, deskHistory>>

\* Explorer drops auto-hide once more.
Flip ==
  /\ phase \in {"taskbar", "sticky"} /\ flips > 0
  /\ flips' = flips - 1 /\ bar' = FALSE
  /\ UNCHANGED <<phase, win, recorded, was_iconic, centred, loopVars, saved, tracked, steady, polls, deskHistory>>

\* The engine ends.  The controller that stopped it, or finds that it failed, sets
\* what it tracked (restore_taskbar_after_churn), and has extended the displays
\* first if it failed; the one whose engine went by a hotkey does neither.
End ==
  /\ phase = "taskbar" /\ (steady = Steady \/ polls = Budget)
  /\ \/ /\ Moves("sticky")
        /\ bar' = tracked
        /\ flips' \in 0 .. MaxFlips
     \/ /\ ~failed /\ Moves("gone")
        /\ bar' = bar /\ flips' = 0
  /\ coming' = 0 /\ late' = FALSE
  /\ UNCHANGED <<win, recorded, was_iconic, centred, quiet, saved, tracked, steady, polls>>
  /\ UNCHANGED <<sessions, users, wish, dropped, failed>>

\* poll_engine, for a while after: set again whenever it differs.
Reassert ==
  /\ phase = "sticky" /\ bar # tracked
  /\ bar' = tracked
  /\ UNCHANGED <<phase, win, recorded, was_iconic, centred, loopVars, saved, tracked, steady, polls, flips, deskHistory>>

LetAlone ==
  /\ phase = "sticky" /\ bar = tracked /\ flips = 0
  /\ Moves("ended")
  /\ UNCHANGED <<win, recorded, was_iconic, centred, loopVars, barVars, deskHistory>>

\* The displays a failed restore left are gone when the user starts again.
Again ==
  /\ phase \in Ends
  /\ was_iconic' = {} /\ recorded' = [w \in Windows |-> "no"] /\ Moves("idle")
  /\ win' = IF failed THEN Leaving({"side", "aside"}) ELSE win
  /\ UNCHANGED <<centred, loopVars, barVars, deskHistory>>

Over == phase = "idle" /\ sessions = MaxSession /\ UNCHANGED deskVars

DeskNext ==
  \/ Record \/ Arrange \/ PlaceOnCentre \/ DetachPanel \/ Wave \/ LateWave \/ RepairTakeover \/ Workspace
  \/ Track \/ Use \/ SetBar \/ BeginRestore \/ PanelBack \/ PanelStaysAway \/ MoveHome
  \/ RepairRestore \/ Repaired \/ Reapply \/ Flip \/ End \/ Reassert \/ LetAlone \/ Again \/ Over

DeskSpec == DeskInit /\ [][DeskNext]_deskVars

(***************************************************************************)
(* Properties                                                              *)
(***************************************************************************)
DeskSettled == phase \in Ends /\ ~late /\ ~failed

BackHome(w) ==
  recorded[w] # "no" /\ win[w].open /\ w \notin wish.touched =>
    win[w] = [open |-> TRUE, at |-> "origin", iconic |-> FALSE, zoomed |-> recorded[w] = "zoomed"]

\* Once the displays are restored, after a session or a takeover that failed
\* anywhere, a window recorded on the panel is back on it, shown, and maximised if
\* it was, unless the user has dealt with it since (restore_windows_home,
\* repair_restore_wave).
RecordedComeHome == DeskSettled => \A w \in Windows : BackHome(w)

\* Once the displays are restored no window is left where there is none, minimised
\* or not: what a late wave or a failed restore stranded in one session, the next
\* one whose restore succeeds brings back (wave_repair_proc).
NothingIsStranded ==
  DeskSettled => \A w \in Windows : win[w].open /\ w \notin wish.touched => win[w].at \in {"origin", "glasses"}

\* After a session that the controller ended, or that failed, the taskbar is as the
\* user has it, after one that a hotkey ended as it was before if it held in time,
\* whatever Explorer did to it while the displays came back, if it had not dropped
\* auto-hide at the detach already (reapply_taskbar_state,
\* restore_taskbar_after_churn, the tracking, the sticky window).
TaskbarComesBack ==
  phase \in Ends /\ ~dropped =>
    IF phase = "ended" THEN bar = wish.bar ELSE steady = Steady => bar = saved

(* Said and not so: each of these is violated, see README.md. *)

\* However the workspace ended the windows come home, as the taskbar is handed
\* back: the churn happened either way (restore_display_topology 2109-2114).
EveryEndBringsThemHome == phase \in Ends /\ ~late => \A w \in Windows : BackHome(w)

\* A window the user minimised during the session stays so (restore_display_topology 2104-2106).
MinimisedStay ==
  DeskSettled => \A w \in was_iconic \cap wish.iconic : win[w].open => win[w].iconic \/ w \in wish.touched

\* Every exit hands the taskbar back as the user had it (start_engine 181-183).
TaskbarIsHandedBack == phase \in Ends => bar = wish.bar
===============================================================================
