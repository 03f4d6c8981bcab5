--------------------------- MODULE GlassesRecovery ---------------------------
(***************************************************************************)
(* Bringing back a glasses display that is plugged in and not part of the   *)
(* desktop (src/vdd/display_config.cpp 1396-1806): first through GDI, which *)
(* still names a display the user disconnected in Settings, then through    *)
(* the display paths, which survive a deeper disconnect.  The engine does   *)
(* it before and after its takeover, the controller before a start.         *)
(*                                                                         *)
(* Positions are left out: a display is attached to the right of the        *)
(* desktop and only moved to where it was if nothing is there.              *)
(***************************************************************************)
EXTENDS Naturals, FiniteSets

CONSTANTS
  Branded,     \* displays whose name or id says smartglasses or rayneo
  Tcl,         \* displays that only say TCL: unbranded glasses, or a television
  Plain,       \* every other display the user has
  Virtual,     \* the displays of the virtual display driver
  Callers,     \* the threads that may run a recovery
  MaxFaults    \* bound on all that goes wrong

NoDisplay == "no display"
Display == Branded \cup Tcl \cup Plain \cup Virtual

ASSUME GlassesAssumption ==
  /\ NoDisplay \notin Display /\ MaxFaults \in Nat
  /\ Branded \cap (Tcl \cup Plain \cup Virtual) = {}
  /\ Tcl \cap (Plain \cup Virtual) = {} /\ Plain \cap Virtual = {}

VARIABLES
  link,      \* how Windows has each display
  primary,   \* the primary display
  rec,       \* each caller's recovery
  faults,    \* how often something went wrong
  troubled   \* history: what changed the displays, or kept them, against the code's will

glassesVars == <<link, primary, rec, faults, troubled>>

\* GDI loses sight of a hidden display, and its path is still there.
Link == {"attached", "detached", "hidden", "unplugged"}
Troubles == {"refused", "flap", "killed", "stuck", "stale undo"}
Resting ==
  [pc |-> "idle", target |-> NoDisplay, left |-> {}, before |-> {}, found |-> {},
   recovered |-> FALSE, undone |-> TRUE]

Recovery ==
  [pc : {"idle", "stage", "commit", "wait", "query", "next", "verify", "undo", "done"},
   target : Display \cup {NoDisplay}, left : SUBSET Display, before : SUBSET Display,
   found : SUBSET Display, recovered : BOOLEAN, undone : BOOLEAN]

GlassesTypeOK ==
  /\ link \in [Display -> Link] /\ primary \in Display \cup {NoDisplay}
  /\ faults \in 0 .. MaxFaults /\ troubled \subseteq Troubles
  /\ rec \in [Callers -> Recovery]

Attached == {d \in Display : link[d] = "attached"}

\* A TCL display counts unless it is the primary one.
is_glasses_display(d) == d \in Branded \/ (d \in Tcl /\ d # primary)
is_glasses_friendly_name(d) == d \in Branded \cup Tcl

\* What find_detached_glasses_display may return: which of two alike is first is the enumeration's.
DetachedGlasses ==
  LET seen(A) == {d \in A : link[d] = "detached"}
  IN IF seen(Branded) # {} THEN seen(Branded) ELSE seen(Tcl)

\* The desktop holds exactly these displays; which becomes primary if chief went is Windows' choice.
Desktop(displays, chief) ==
  /\ link' = [d \in Display |->
                IF d \in displays THEN "attached"
                ELSE IF link[d] # "attached" THEN link[d]
                ELSE IF d \in Virtual THEN "unplugged" ELSE "detached"]
  /\ \/ chief \in displays /\ primary' = chief
     \/ chief \notin displays /\ primary' \in (IF displays = {} THEN {NoDisplay} ELSE displays)

\* Attaching to a free slot never takes the primary away from another display.
Attach(d) == Desktop(Attached \cup {d}, primary)

Goes(c, to) == rec' = [rec EXCEPT ![c].pc = to]
Fine == UNCHANGED <<faults, troubled>>
Fault == faults < MaxFaults /\ faults' = faults + 1
Suffers(trouble) == Fault /\ troubled' = troubled \cup {trouble}
Refused == Suffers("refused")

\* Mutant: only GDI is asked.
BeginRecoveryMutant(c) ==
  /\ rec[c].pc = "idle"
  /\ \/ \E d \in DetachedGlasses : rec' = [rec EXCEPT ![c] = [Resting EXCEPT !.pc = "stage", !.target = d]]
     \/ /\ DetachedGlasses = {}
        /\ rec' = [rec EXCEPT ![c] = [Resting EXCEPT !.pc = "done", !.found = Attached]]

\* The callers' sequence: re-attach what GDI names, else reactivate a path.
BeginRecovery(c) ==
  /\ rec[c].pc = "idle"
  /\ \/ \E d \in DetachedGlasses : rec' = [rec EXCEPT ![c] = [Resting EXCEPT !.pc = "stage", !.target = d]]
     \/ /\ DetachedGlasses = {}
        /\ rec' = [rec EXCEPT ![c] = [Resting EXCEPT !.pc = "query"]]

(* reattach_detached_glasses *)

\* The stored mode, or one the driver lists: refused is refused twice.
Stage(c) ==
  /\ rec[c].pc = "stage"
  /\ \/ Goes(c, "commit") /\ Fine
     \/ Goes(c, "query") /\ Refused
  /\ UNCHANGED <<link, primary>>

\* A commit that fails is repeated to flush the batch: that one may go through.
Commit(c) ==
  /\ rec[c].pc = "commit"
  /\ LET d == rec[c].target
         Lands == IF link[d] = "detached" THEN Attach(d) ELSE UNCHANGED <<link, primary>>
     IN \/ Goes(c, "wait") /\ Lands /\ Fine
        \/ Goes(c, "wait") /\ UNCHANGED <<link, primary>> /\ Refused
        \/ Goes(c, "query") /\ (Lands \/ UNCHANGED <<link, primary>>) /\ Refused

AwaitAttach(c) ==
  /\ rec[c].pc = "wait"
  /\ IF link[rec[c].target] = "attached"
     THEN rec' = [rec EXCEPT ![c] = [Resting EXCEPT !.pc = "done", !.recovered = TRUE]]
     ELSE rec' = [rec EXCEPT ![c] = [Resting EXCEPT !.pc = "query"]]
  /\ UNCHANGED <<link, primary, faults, troubled>>

(* reactivate_glasses_path *)

QueryPaths(c) ==
  /\ rec[c].pc = "query"
  /\ \/ /\ rec' = [rec EXCEPT ![c].pc = "next", ![c].found = Attached,
                     ![c].left = {d \in Display : /\ is_glasses_friendly_name(d)
                                                  /\ link[d] \in {"detached", "hidden"}}]
        /\ Fine
     \/ /\ rec' = [rec EXCEPT ![c].pc = "done", ![c].found = Attached]
        /\ Refused
  /\ UNCHANGED <<link, primary>>

\* Branded candidates come first.
Candidates(c) ==
  IF rec[c].left \cap Branded # {} THEN rec[c].left \cap Branded ELSE rec[c].left

\* Mutant: the snapshot is taken once the path has been added to it.
ApplyPathMutant(c) ==
  /\ rec[c].pc = "next"
  /\ \E d \in Candidates(c) :
       LET Tried == rec' = [rec EXCEPT ![c].pc = "verify", ![c].target = d, ![c].left = @ \ {d},
                              ![c].before = Attached \cup {d}]
       IN /\ link[d] \in {"detached", "hidden"}
          /\ \/ Tried /\ Attach(d) /\ Fine
             \/ Tried /\ UNCHANGED <<link, primary>> /\ Refused

\* A target that became active meanwhile conflicts; refused stored modes are
\* tried once more as the preferred mode.
ApplyPath(c) ==
  /\ rec[c].pc = "next"
  /\ \E d \in Candidates(c) :
       LET Skip == rec' = [rec EXCEPT ![c].left = @ \ {d}]
           Tried == rec' = [rec EXCEPT ![c].pc = "verify", ![c].target = d, ![c].left = @ \ {d},
                              ![c].before = Attached]
       IN \/ /\ link[d] \in {"attached", "unplugged"}
             /\ Skip /\ UNCHANGED <<link, primary, faults, troubled>>
          \/ /\ link[d] \in {"detached", "hidden"}
             /\ \/ Tried /\ Attach(d) /\ Fine
                \/ Tried /\ UNCHANGED <<link, primary>> /\ Refused
                \/ Skip /\ UNCHANGED <<link, primary>> /\ Refused

NoneLeft(c) ==
  /\ rec[c].pc = "next" /\ rec[c].left = {}
  /\ Goes(c, "done")
  /\ UNCHANGED <<link, primary, faults, troubled>>

\* The strict matcher, on the display the activated path drives.
VerifyPath(c) ==
  /\ rec[c].pc = "verify"
  /\ LET d == rec[c].target
     IN IF link[d] = "attached" /\ is_glasses_display(d)
        THEN rec' = [rec EXCEPT ![c] = [Resting EXCEPT !.pc = "done", !.recovered = TRUE]]
        ELSE Goes(c, "undo")
  /\ UNCHANGED <<link, primary, faults, troubled>>

\* The set of before the attempt is applied again, and saved: what else has
\* changed since goes with it.
UndoPath(c) ==
  /\ rec[c].pc = "undo"
  /\ \/ /\ Desktop({d \in rec[c].before : link[d] # "unplugged"}, primary)
        /\ rec' = [rec EXCEPT ![c].pc = "next", ![c].target = NoDisplay, ![c].before = {}]
        /\ troubled' = IF Attached \ {rec[c].target} = rec[c].before THEN troubled
                       ELSE troubled \cup {"stale undo"}
        /\ UNCHANGED faults
     \/ /\ rec' = [rec EXCEPT ![c].pc = "next", ![c].undone = FALSE]
        /\ Refused /\ UNCHANGED <<link, primary>>

RecoveryStep(c) ==
  \/ Stage(c) \/ Commit(c) \/ AwaitAttach(c) \/ QueryPaths(c) \/ ApplyPath(c) \/ NoneLeft(c)
  \/ VerifyPath(c) \/ UndoPath(c)
=============================================================================
