---------------------------- MODULE EngineFrames ----------------------------
(***************************************************************************)
(* The frames of the engine's loop (src/app/spatial_desk.cpp 1421-1620):    *)
(* each screen's capture is polled at the rate of its tier, its image and   *)
(* its pointer go to the renderer, and the scene is presented.  A layout    *)
(* reload, taken or undone, replaces parts of that between two frames.      *)
(*                                                                         *)
(* Windows goes on meanwhile: desktops change, the pointer moves, the       *)
(* secure desktop takes the screen, displays and duplications get lost.     *)
(***************************************************************************)
EXTENDS DesktopCapture, FiniteSets

CONSTANTS
  Screens,        \* the screens of the layout are 1 .. Screens
  Interval,       \* frames between two polls, by tier
  FatalFailures,  \* kFatalCaptureFailures
  MaxFaults,      \* bound on the errors of Windows' calls and the reloads
  OnePerOutput    \* Windows refuses a process a second duplication of an output

ASSUME FramesAssumption ==
  /\ {Screens, FatalFailures} \subseteq Nat \ {0} /\ MaxFaults \in Nat
  /\ Interval \in [{"active", "mid", "idle"} -> Nat \ {0}] /\ OnePerOutput \in BOOLEAN

Screen == 1 .. Screens
Nowhere == 0
AllPolled == Screens + 1
TopOfLoop == 0

VARIABLES
  captures,    \* captures
  outputs,     \* what Windows has of the output of each screen
  live,        \* live_texture of each screen: its copy, a texture nobody writes, or none
  cursors,     \* the pointer the renderer has for each screen
  tier,        \* capture_states: tier
  due,         \* capture_states: frames until next_poll_time
  at,          \* the screen the capture loop is at
  failing,     \* frame_capture_failed
  failures,    \* consecutive_capture_failures
  quit,        \* state.quit
  engine_failed,
  secure,      \* the secure desktop (UAC, lock screen) has the screen
  guarded,     \* the screens with protected content on them
  mouse,       \* the screen the pointer is on
  faults,
  dropped      \* history: the screens whose image was consumed and not shown, or thrown away

sceneVars == <<live, cursors>>
tierVars == <<tier, due>>
loopVars == <<at, failing, failures, quit, engine_failed>>
outsideVars == <<secure, guarded, mouse>>
historyVars == <<faults, dropped>>
framesVars == <<captures, outputs, sceneVars, tierVars, loopVars, outsideVars, historyVars>>

Cursor == [visible : BOOLEAN, shape : BOOLEAN]

FramesTypeOK ==
  /\ captures \in [Screen -> Capture] /\ outputs \in [Screen -> Output]
  /\ live \in [Screen -> {"copy", "dead", "none"}] /\ cursors \in [Screen -> Cursor]
  /\ tier \in [Screen -> DOMAIN Interval] /\ due \in [Screen -> Nat]
  /\ at \in 0 .. AllPolled /\ failures \in Nat
  /\ {failing, quit, engine_failed, secure} \subseteq BOOLEAN
  /\ guarded \subseteq Screen /\ dropped \subseteq Screen
  /\ mouse \in Screen \cup {Nowhere} /\ faults \in 0 .. MaxFaults

NoCursor == [visible |-> FALSE, shape |-> FALSE]
NewOutput ==
  [listed |-> TRUE, lost |-> FALSE, first |-> FALSE, presented |-> FALSE, moved |-> FALSE,
   reshaped |-> FALSE]

\* The captures are bound to outputs nobody duplicates yet; the renderer has
\* the labels of the layout.
FramesInit ==
  /\ captures = [s \in Screen |-> [NewCapture EXCEPT !.duplication = TRUE]]
  /\ outputs = [s \in Screen |-> Fresh(NewOutput, TRUE)]
  /\ live = [s \in Screen |-> "none"] /\ cursors = [s \in Screen |-> NoCursor]
  /\ tier = [s \in Screen |-> "mid"] /\ due = [s \in Screen |-> 0]
  /\ at = TopOfLoop /\ failing = FALSE /\ failures = 0 /\ quit = FALSE /\ engine_failed = FALSE
  /\ secure = FALSE /\ guarded = {} /\ mouse = Nowhere /\ faults = 0 /\ dropped = {}

Ended == at = TopOfLoop /\ quit
Running == ~Ended

--------------------------------------------------------------------------------
(* Windows.                                                                 *)

\* Whether DuplicateOutput would refuse this process a duplication.
Refused(s) == secure \/ (OnePerOutput /\ captures[s].duplication)
MayFail == faults < MaxFaults
Fault == MayFail /\ faults' = faults + 1

Behind(c) == [c EXCEPT !.copy = IF @ \in {"current", "masked"} THEN "behind" ELSE @]

DesktopChanges(s) ==
  /\ captures' = [captures EXCEPT ![s] = Behind(@)]
  /\ outputs' = [outputs EXCEPT ![s].presented = captures[s].duplication]
  /\ UNCHANGED <<guarded, mouse, secure, historyVars>>

\* Protected content comes or goes, and the image with it.
Guard(s) ==
  /\ guarded' \in {guarded \cup {s}, guarded \ {s}} \ {guarded}
  /\ captures' = [captures EXCEPT ![s] = Behind(@)]
  /\ outputs' = [outputs EXCEPT ![s].presented = captures[s].duplication]
  /\ UNCHANGED <<mouse, secure, historyVars>>

MouseMoves ==
  /\ mouse' \in Screen \cup {Nowhere}
  /\ outputs' = [s \in Screen |->
       [outputs[s] EXCEPT !.moved = @ \/ (captures[s].duplication /\ s \in {mouse, mouse'})]]
  /\ UNCHANGED <<captures, guarded, secure, historyVars>>

MouseChanges(s) ==
  /\ mouse = s /\ outputs' = [outputs EXCEPT ![s].reshaped = captures[s].duplication]
  /\ UNCHANGED <<captures, guarded, mouse, secure, historyVars>>

\* Every duplication is lost when the secure desktop comes and when it goes.
SecureDesktop ==
  /\ secure' = ~secure /\ (secure' => Fault) /\ (secure => UNCHANGED faults)
  /\ outputs' = [s \in Screen |-> [outputs[s] EXCEPT !.lost = captures[s].duplication]]
  /\ UNCHANGED <<captures, guarded, mouse, dropped>>

\* A display goes, and comes back; a mode change loses the duplication only.
OutputChanges(s) ==
  /\ \E there \in BOOLEAN :
       /\ outputs' = [outputs EXCEPT ![s].listed = there, ![s].lost = captures[s].duplication]
       /\ IF outputs[s].listed THEN Fault ELSE there /\ UNCHANGED faults
  /\ UNCHANGED <<captures, guarded, mouse, secure, dropped>>

Windows ==
  /\ Running
  /\ \/ MouseMoves \/ SecureDesktop
     \/ \E s \in Screen : DesktopChanges(s) \/ Guard(s) \/ MouseChanges(s) \/ OutputChanges(s)
  /\ UNCHANGED <<sceneVars, tierVars, loopVars>>

--------------------------------------------------------------------------------
(* The top of the loop: a layout reload (spatial_desk.cpp 1311-1409) as the *)
(* captures and the renderer see it.                                        *)

Relabel ==  \* Renderer::set_layout, for this layout or back to the one before
  /\ live' = [s \in Screen |-> "none"] /\ cursors' = [s \in Screen |-> NoCursor]

\* bind_desktop_captures: a new capture of every output, or nothing.
Rebind ==
  /\ \A s \in Screen : outputs[s].listed
  /\ \E made \in [Screen -> UNION {CreateDuplication(NewCapture, outputs[s], Refused(s), FALSE) : s \in Screen}] :
       /\ \A s \in Screen : made[s] \in CreateDuplication(NewCapture, outputs[s], Refused(s), FALSE)
       /\ captures' = [s \in Screen |-> made[s].cap]
       /\ outputs' = [s \in Screen |-> made[s].out]

Reloaded ==
  /\ Relabel /\ Rebind
  /\ tier' = [s \in Screen |-> "mid"] /\ due' = [s \in Screen |-> 0]
  /\ dropped' = {} /\ UNCHANGED <<quit, engine_failed>>

(* The undo: the renderer if it had changed, the captures if displays or     *)
(* desktops had; what cannot be undone ends the engine.  A screen goes on    *)
(* showing the texture of a capture that was replaced.                       *)
ReloadUndone ==
  /\ UNCHANGED tierVars
  /\ \E rendered, moved \in BOOLEAN :
       LET kept(s) == IF rendered THEN "none" ELSE live[s]
       IN /\ cursors' = [s \in Screen |-> IF rendered THEN NoCursor ELSE cursors[s]]
          /\ \/ /\ moved /\ Rebind /\ dropped' = {}
                /\ live' = [s \in Screen |-> IF kept(s) = "copy" THEN "dead" ELSE kept(s)]
                /\ UNCHANGED <<quit, engine_failed>>
             \/ /\ ~moved /\ live' = [s \in Screen |-> kept(s)]
                /\ dropped' = IF rendered THEN Screen ELSE dropped
                /\ UNCHANGED <<captures, outputs, quit, engine_failed>>
             \/ /\ live' = [s \in Screen |-> kept(s)]
                /\ quit' = TRUE /\ engine_failed' = TRUE
                /\ UNCHANGED <<captures, outputs, dropped>>

Reload ==
  /\ at = TopOfLoop /\ Running /\ Fault
  /\ Reloaded \/ ReloadUndone
  /\ UNCHANGED <<at, failing, failures, outsideVars>>

\* A hotkey, the controller's quit message, or the time the run was given.
Quit ==
  /\ at = TopOfLoop /\ Running /\ quit' = TRUE
  /\ UNCHANGED <<captures, outputs, sceneVars, tierVars, at, failing, failures, engine_failed,
                 outsideVars, historyVars>>

BeginFrame ==
  /\ at = TopOfLoop /\ Running /\ at' = 1 /\ failing' = FALSE
  /\ UNCHANGED <<captures, outputs, sceneVars, tierVars, failures, quit, engine_failed,
                 outsideVars, historyVars>>

--------------------------------------------------------------------------------
(* The capture loop.                                                        *)

\* The view decides the tier; between the two cones it stays what it was.
Retier(s) ==
  \E where \in {"inside", "between", "beyond"} :
    tier' = [tier EXCEPT ![s] = CASE where = "inside" -> "active"
                                  [] where = "between" -> @
                                  [] where = "beyond" -> "idle"]

Skip(s) ==
  /\ due[s] > 0 /\ Retier(s)
  /\ UNCHANGED <<captures, outputs, sceneVars, due, failing, failures, quit, engine_failed,
                 outsideVars, historyVars>>

\* An update the renderer refused: of the texture (its index is out of range)
\* or of the pointer.
UpdateFails ==
  /\ failing' = TRUE /\ failures' = failures + 1
  /\ IF failures' >= FatalFailures THEN quit' = TRUE /\ engine_failed' = TRUE
     ELSE UNCHANGED <<quit, engine_failed>>

\* Mutant: a masked frame is a frame like any other.
ShowFrameMutant(s, p, seen) ==
  /\ live' = [seen EXCEPT ![s] = IF p.updated THEN "copy" ELSE @]
  /\ cursors' = [cursors EXCEPT ![s].visible = IF p.moved THEN p.visible ELSE @,
                               ![s].shape = @ \/ p.reshaped]
  /\ dropped' = dropped \ {s}
  /\ UNCHANGED <<failing, failures, quit, engine_failed, faults>>

(* A frame goes to the renderer: a masked one takes the texture away and     *)
(* ends there; a pointer that changed is passed on, and may be refused when  *)
(* its shape is unusable, which may lose the shape before.                     *)
ShowFrame(s, p, seen) ==
  IF p.masked
    THEN /\ live' = [seen EXCEPT ![s] = "none"]
         /\ dropped' = dropped \ {s}
         /\ UNCHANGED <<cursors, failing, failures, quit, engine_failed, faults>>
    ELSE /\ live' = [seen EXCEPT ![s] = IF p.updated THEN "copy" ELSE @]
         /\ dropped' = IF p.updated THEN dropped \ {s} ELSE dropped
         /\ \/ /\ cursors' = [cursors EXCEPT ![s].visible = IF p.moved THEN p.visible ELSE @,
                                            ![s].shape = @ \/ p.reshaped]
               /\ UNCHANGED <<failing, failures, quit, engine_failed, faults>>
            \/ /\ p.reshaped /\ UpdateFails /\ Fault
               /\ cursors' \in {[cursors EXCEPT ![s].visible = IF p.moved THEN p.visible ELSE @,
                                                ![s].shape = @ /\ kept] : kept \in BOOLEAN}

\* A texture made anew leaves the view the renderer has on the old one.
Seen(s, p) == IF p.new /\ live[s] = "copy" THEN [live EXCEPT ![s] = "dead"] ELSE live

PollScreen(s) ==
  /\ due[s] = 0 /\ Retier(s) /\ due' = [due EXCEPT ![s] = Interval[tier'[s]]]
  /\ \E mayFail \in {FALSE, MayFail} :
       \E p \in Poll(captures[s], outputs[s], mouse = s, s \in guarded, secure, secure, mayFail) :
         /\ captures' = [captures EXCEPT ![s] = p.cap]
         /\ outputs' = [outputs EXCEPT ![s] = p.out]
         /\ \/ /\ p.kind = "frame" /\ ~mayFail /\ ShowFrame(s, p, Seen(s, p))
            \/ /\ p.kind # "frame"
               /\ live' = Seen(s, p)
               /\ UNCHANGED <<cursors, failing, failures, quit, engine_failed>>
               /\ dropped' = dropped \cup {x \in {s} : p.kind = "failed" /\ p.out # outputs[s]}
               /\ IF mayFail THEN faults' = faults + 1 ELSE UNCHANGED faults
  /\ UNCHANGED outsideVars

CaptureScreen ==
  /\ at \in Screen /\ at' = at + 1
  /\ Skip(at) \/ PollScreen(at)

\* The rest of the frame: the failures are counted, the scene is presented.
EndFrame ==
  /\ at = AllPolled /\ at' = TopOfLoop
  /\ failures' = IF failing THEN failures ELSE 0
  /\ due' = [s \in Screen |-> IF due[s] > 0 THEN due[s] - 1 ELSE 0]
  /\ \/ UNCHANGED <<quit, engine_failed, faults>>
     \/ Fault /\ quit' = TRUE /\ engine_failed' = TRUE
  /\ UNCHANGED <<captures, outputs, sceneVars, tier, failing, outsideVars, dropped>>

Frame == BeginFrame \/ CaptureScreen \/ EndFrame
Done == Ended /\ UNCHANGED framesVars
FramesNext == Frame \/ Reload \/ Quit \/ Windows \/ Done

(* Fairness: the loop goes round.                                           *)
FramesSpec == FramesInit /\ [][FramesNext]_framesVars
FramesFairSpec == FramesSpec /\ WF_framesVars(Frame)
--------------------------------------------------------------------------------
(* Properties.                                                              *)

Drawn(s) == IF live[s] = "copy" THEN captures[s].copy ELSE live[s]
Presenting == at = AllPolled

\* Something that rightly keeps a screen from showing its desktop.
Excused(s) ==
  \/ secure \/ ~outputs[s].listed \/ s \in guarded \cup dropped
  \/ captures[s].backend = "gdi" /\ ~captures[s].surface

\* An image that is not on its screen gets there, through lost duplications,
\* reloads and the fallback, unless its frame was dropped.
CatchesUp == \A s \in Screen : Drawn(s) # "current" ~> Drawn(s) = "current" \/ Excused(s) \/ Ended

\* A scene is never presented with the black image of protected content.
NoBlackFrame ==
  Presenting => \A s \in Screen \ dropped :
    captures[s].backend = "dxgi" => Drawn(s) # "masked"

\* The fallback draws the pointer into the image: the renderer then has none.
OnePointer ==
  Presenting => \A s \in Screen :
    live[s] = "copy" /\ captures[s].backend = "gdi" /\ captures[s].copy # "none" => ~cursors[s].visible
===============================================================================
