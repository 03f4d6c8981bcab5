---------------------------- MODULE EngineBootProofs ----------------------------
(***************************************************************************)
(* The displays come home, the glasses are found, a failed recovery leaves  *)
(* no trace and a stale report is not shown: for any displays, any number   *)
(* of engines and of recoveries under way at once, and any faults.          *)
(***************************************************************************)
EXTENDS EngineBoot, TLAPS

Armed == {"select", "wait", "waiting", "window", "bind", "run", "unwind"}
Quiet == \A e \in Engines : ~armed[e]

\* Where an engine is and what it holds there; one engine at most is past the mutex.
Room(e) ==
  /\ pc[e] = "off" => chosen[e] = NoDisplay
  /\ pc[e] \in {"snapshot", "recover", "takeover"} \/ armed[e] => options[e].workspace
  /\ armed[e] => pc[e] \in Armed
  /\ pc[e] = "unwind" => armed[e]
  /\ pc[e] = "waiting" => passes[e] < MaxPass
Rooms ==
  /\ \A e \in Engines : Room(e)
  /\ \A e, o \in Engines : Inside(e) /\ Inside(o) => e = o

\* A recovery is run where its caller waits for it, and looks for glasses only.
Aimed == {"stage", "commit", "wait", "verify", "undo"}
Search(c) ==
  /\ rec[c].pc = "idle" => rec[c] = Resting
  /\ rec[c].left \subseteq Branded \cup Tcl
  /\ rec[c].target \in Branded \cup Tcl \cup {NoDisplay}
  /\ rec[c].pc \in Aimed => rec[c].target # NoDisplay
Waits ==
  /\ \A c \in Callers : Search(c)
  /\ \A e \in Engines : rec[e].pc # "idle" => pc[e] \in {"recover", "waiting"}
  /\ rec[Controller].pc # "idle" => ctl.does = "healing"

\* What a path recovery found is on the desktop between its attempts, and under the one it makes.
TraceOf(c) ==
  touched \subseteq {c} /\ ~rec[c].recovered /\ rec[c].undone =>
    /\ rec[c].pc \in {"next", "done"} => Attached = rec[c].found
    /\ rec[c].pc \in {"verify", "undo"} =>
         /\ rec[c].before = rec[c].found /\ rec[c].found \subseteq Attached
         /\ Attached \subseteq rec[c].found \cup {rec[c].target}
Trace == \A c \in Callers : TraceOf(c)

\* The displays of before never go, save the panel during a takeover; what an engine
\* took over from is remembered until the displays are back; no recovery is for one of them.
HomeKnown == home.on \cap Virtual = {} /\ home.chief \in home.on
Kept ==
  /\ \A d \in home.on : link[d] # "unplugged" /\ (d # Laptop => link[d] = "attached")
  /\ \A v \in Virtual : link[v] \in {"attached", "unplugged"}
AsBefore ==
  home.on \subseteq Attached /\ primary = home.chief /\ \A v \in Virtual : link[v] = "unplugged"
Remembers(e) ==
  pc[e] \in {"recover", "takeover"} \/ armed[e] =>
    home.on \subseteq pristine[e].on /\ pristine[e].chief = home.chief
Spares(c) == rec[c].pc \in {"verify", "undo"} => rec[c].target \notin home.on
Homeward ==
  /\ HomeKnown
  /\ troubled = {} =>
       /\ Kept /\ (Quiet => AsBefore)
       /\ \A e \in Engines : Remembers(e)
       /\ \A c \in Callers : Spares(c)

\* With the glasses plugged in every recovery ends with them on the desktop, where they stay.
Wanted == troubled = {} /\ NoTelevision /\ \E d \in Branded : link[d] # "unplugged"
GlassesOn == \E d \in Branded : link[d] = "attached"
RecoveryFinds(c) ==
  /\ rec[c].pc # "undo"
  /\ rec[c].pc \in {"stage", "commit"} =>
       rec[c].target \in Branded /\ link[rec[c].target] \in {"detached", "attached"}
  /\ rec[c].pc \in {"wait", "verify"} =>
       rec[c].target \in Branded /\ link[rec[c].target] = "attached"
  /\ rec[c].pc = "next" =>
       GlassesOn \/ \A d \in Branded : link[d] # "unplugged" => d \in rec[c].left
  /\ rec[c].pc = "done" => GlassesOn
EngineFinds(e) ==
  /\ failure[e] # "no glasses" /\ pc[e] \notin {"wait", "waiting"}
  /\ options[e].workspace /\ ~options[e].given =>
       /\ chosen[e] \in Branded \cup {NoDisplay}
       /\ pc[e] \in {"takeover", "select"} => GlassesOn
Found ==
  Wanted => (\A c \in Callers : RecoveryFinds(c)) /\ (\A e \in Engines : EngineFinds(e))

-----------------------------------------------------------------------------
(***************************************************************************)
(* The operators on the displays.                                           *)
(***************************************************************************)
\* What Desktop does to the displays, whichever are to be on it.
LEMMA DesktopSets ==
  ASSUME NEW displays \in SUBSET Display, NEW chief, Desktop(displays, chief)
  PROVE  /\ Attached' = displays
         /\ chief \in displays => primary' = chief
         /\ primary' \in displays \cup {NoDisplay}
         /\ link \in [Display -> Link] => link' \in [Display -> Link]
         /\ \A d \in Display \ Virtual :
              d \notin displays => link'[d] \in {link[d], "detached"} /\ (link[d] = "unplugged" => link'[d] = "unplugged")
         /\ \A d \in Display \ Virtual : link'[d] = "unplugged" => link[d] = "unplugged"
         /\ \A d \in Virtual \ displays :
              link'[d] = IF link[d] = "attached" THEN "unplugged" ELSE link[d]
<1>1. link' = [d \in Display |->
                IF d \in displays THEN "attached"
                ELSE IF link[d] # "attached" THEN link[d]
                ELSE IF d \in Virtual THEN "unplugged" ELSE "detached"]
  BY Desktop(displays, chief) DEF Desktop
<1>2. Attached' = displays
  BY <1>1 DEF Attached
<1>3. /\ chief \in displays => primary' = chief
      /\ primary' \in displays \cup {NoDisplay}
  BY Desktop(displays, chief) DEF Desktop
<1>4. link \in [Display -> Link] => link' \in [Display -> Link]
  BY <1>1 DEF Link
<1>5. Virtual \subseteq Display
  BY DEF Display
<1>6. QED
  BY <1>1, <1>2, <1>3, <1>4, <1>5

LEMMA AttachedIsDisplay == Attached \subseteq Display
BY DEF Attached

\* No desktop is made of anything but displays.
LEMMA DesktopType ==
  ASSUME NEW displays \in SUBSET (Display \cup {NoDisplay}), NEW chief, Desktop(displays, chief),
         link \in [Display -> Link]
  PROVE  link' \in [Display -> Link] /\ primary' \in Display \cup {NoDisplay}
BY DEF Desktop, Link

-----------------------------------------------------------------------------
(***************************************************************************)
(* Types.                                                                   *)
(***************************************************************************)
LEMMA RestingIsRecovery ==
  /\ Resting \in Recovery
  /\ \A d \in Display : [Resting EXCEPT !.pc = "stage", !.target = d] \in Recovery
  /\ [Resting EXCEPT !.pc = "query"] \in Recovery
  /\ [Resting EXCEPT !.pc = "done", !.recovered = TRUE] \in Recovery
BY DEF Resting, Recovery

\* The changes of one recovery keep to its type.
LEMMA RecoveryChanges ==
  ASSUME NEW r \in Recovery
  PROVE  /\ \A to \in {"commit", "wait", "query", "undo", "done"} : [r EXCEPT !.pc = to] \in Recovery
         /\ [r EXCEPT !.pc = "next", !.target = NoDisplay, !.before = {}] \in Recovery
         /\ [r EXCEPT !.pc = "next", !.undone = FALSE] \in Recovery
BY DEF Recovery

LEMMA BeginRecoveryType ==
  ASSUME rec \in [Callers -> Recovery], NEW c \in Callers, BeginRecovery(c)
  PROVE  rec' \in [Callers -> Recovery]
<1>1. \A d \in DetachedGlasses : d \in Display
  BY DEF DetachedGlasses, Display
<1>2. PICK r \in Recovery : rec' = [rec EXCEPT ![c] = r]
  BY <1>1, RestingIsRecovery, BeginRecovery(c) DEF BeginRecovery
<1>3. QED
  BY <1>2

BudgetOK == faults \in 0 .. MaxFaults /\ troubled \subseteq Troubles

LEMMA BudgetType ==
  ASSUME BudgetOK, UNCHANGED <<faults, troubled>> \/ Slip \/ \E trouble \in Troubles : Suffers(trouble)
  PROVE  BudgetOK'
BY GlassesAssumption DEF BudgetOK, Slip, Suffers, Fault

DisplaysOK == link \in [Display -> Link] /\ primary \in Display \cup {NoDisplay}

LEMMA RecoveryStepType ==
  ASSUME GlassesTypeOK, NEW c \in Callers, RecoveryStep(c)
  PROVE  GlassesTypeOK'
<1>. /\ rec \in [Callers -> Recovery] /\ rec[c] \in Recovery
     /\ BudgetOK /\ DisplaysOK
  BY DEF GlassesTypeOK, BudgetOK, DisplaysOK
<1>1. rec[c].target \in Display \cup {NoDisplay} /\ rec[c].left \subseteq Display
  BY DEF Recovery
<1>2. \A d \in Display \cup {NoDisplay} : Attach(d) => DisplaysOK'
  BY DesktopType DEF Attach, Attached, DisplaysOK
<1>3. UNCHANGED <<link, primary>> => DisplaysOK'
  BY DEF DisplaysOK
<1>4. Fine \/ Refused => BudgetOK'
  BY BudgetType DEF Fine, Refused, Troubles
<1>5. SUFFICES rec' \in [Callers -> Recovery] /\ DisplaysOK' /\ BudgetOK'
  BY DEF GlassesTypeOK, BudgetOK, DisplaysOK
<1>6. CASE Stage(c)
  BY <1>3, <1>4, <1>6, RecoveryChanges DEF Stage, Goes
<1>7. CASE Commit(c)
  BY <1>1, <1>2, <1>3, <1>4, <1>7, RecoveryChanges DEF Commit, Goes
<1>8. CASE AwaitAttach(c)
  BY <1>3, <1>4, <1>8, RestingIsRecovery DEF AwaitAttach, Fine
<1>9. CASE QueryPaths(c)
  <2> DEFINE left == {d \in Display : /\ is_glasses_friendly_name(d)
                                     /\ link[d] \in {"detached", "hidden"}}
  <2>1. \/ rec' = [rec EXCEPT ![c].pc = "next", ![c].found = Attached, ![c].left = left]
        \/ rec' = [rec EXCEPT ![c].pc = "done", ![c].found = Attached]
    BY <1>9 DEF QueryPaths
  <2>0. left \in SUBSET Display
    OBVIOUS
  <2> HIDE DEF left
  <2>2. Attached \in SUBSET Display
    BY AttachedIsDisplay
  <2>3. rec' \in [Callers -> Recovery]
    <3>1. \/ rec' = [rec EXCEPT ![c] = [rec[c] EXCEPT !.pc = "next", !.found = Attached, !.left = left]]
          \/ rec' = [rec EXCEPT ![c] = [rec[c] EXCEPT !.pc = "done", !.found = Attached]]
      BY <2>1
    <3>2. /\ [rec[c] EXCEPT !.pc = "next", !.found = Attached, !.left = left] \in Recovery
          /\ [rec[c] EXCEPT !.pc = "done", !.found = Attached] \in Recovery
      BY <2>0, <2>2 DEF Recovery
    <3>3. QED
      BY <3>1, <3>2
  <2>4. QED
    BY <1>3, <1>4, <1>9, <2>3 DEF QueryPaths
<1>10. CASE ApplyPath(c)
  <2>1. PICK d \in Candidates(c) :
          /\ \/ rec' = [rec EXCEPT ![c].left = @ \ {d}]
             \/ rec' = [rec EXCEPT ![c].pc = "verify", ![c].target = d, ![c].left = @ \ {d},
                              ![c].before = Attached]
          /\ Attach(d) \/ UNCHANGED <<link, primary>>
          /\ Fine \/ Refused
    BY <1>10 DEF ApplyPath, Fine
  <2>2. d \in Display /\ Attached \in SUBSET Display
    BY <1>1, AttachedIsDisplay DEF Candidates
  <2>3. rec' \in [Callers -> Recovery]
    <3>1. \/ rec' = [rec EXCEPT ![c] = [rec[c] EXCEPT !.left = @ \ {d}]]
          \/ rec' = [rec EXCEPT ![c] = [rec[c] EXCEPT !.pc = "verify", !.target = d, !.left = @ \ {d},
                                                   !.before = Attached]]
      BY <2>1
    <3>2. /\ [rec[c] EXCEPT !.left = @ \ {d}] \in Recovery
          /\ [rec[c] EXCEPT !.pc = "verify", !.target = d, !.left = @ \ {d}, !.before = Attached] \in Recovery
      BY <2>2 DEF Recovery
    <3>3. QED
      BY <3>1, <3>2
  <2>4. QED
    BY <1>2, <1>3, <1>4, <2>1, <2>2, <2>3
<1>11. CASE NoneLeft(c)
  BY <1>3, <1>4, <1>11, RecoveryChanges DEF NoneLeft, Goes, Fine
<1>12. CASE VerifyPath(c)
  <2>1. rec' = [rec EXCEPT ![c] = [Resting EXCEPT !.pc = "done", !.recovered = TRUE]]
        \/ rec' = [rec EXCEPT ![c].pc = "undo"]
    BY <1>12 DEF VerifyPath, Goes
  <2>2. rec' \in [Callers -> Recovery]
    BY <2>1, RestingIsRecovery, RecoveryChanges
  <2>3. QED
    BY <1>3, <1>4, <1>12, <2>2 DEF VerifyPath, Fine
<1>13. CASE UndoPath(c)
  <2>1. rec[c].before \subseteq Display
    BY DEF Recovery
  <2>2. rec' \in [Callers -> Recovery]
    BY <1>13, RecoveryChanges DEF UndoPath
  <2>3. DisplaysOK'
    BY <1>3, <1>13, <2>1, DesktopType DEF UndoPath, DisplaysOK
  <2>4. BudgetOK'
    BY <1>4, <1>13 DEF UndoPath, BudgetOK, Troubles
  <2>5. QED
    BY <2>2, <2>3, <2>4
<1>14. QED
  BY <1>6, <1>7, <1>8, <1>9, <1>10, <1>11, <1>12, <1>13 DEF RecoveryStep

\* The parts of TypeOK, by who changes them.
EnginesOK ==
  /\ pc \in [Engines -> Places] /\ options \in [Engines -> [workspace : BOOLEAN, given : BOOLEAN]]
  /\ passes \in [Engines -> 0 .. MaxPass] /\ chosen \in [Engines -> Display \cup {NoDisplay}]
  /\ pristine \in [Engines -> Arrangements] /\ armed \in [Engines -> BOOLEAN]
  /\ failure \in [Engines -> {"none", "fault", "second", "no glasses"}]
State == {"none", "starting", "ready", "stopped", "failed"}
FileOK == file \in [state : State, by : Engines \cup {NoEngine}]
ControllerOK == ctl \in [does : {"idle", "healing", "busy"}, engine : Engines \cup {NoEngine}]
HistoryOK == old \subseteq Engines /\ home \in Arrangements

LEMMA TypeParts ==
  ASSUME touched \subseteq Callers \cup {"outside"}
  PROVE  TypeOK <=> /\ rec \in [Callers -> Recovery] /\ BudgetOK /\ DisplaysOK
                    /\ EnginesOK /\ FileOK /\ ControllerOK /\ HistoryOK
BY DEF TypeOK, GlassesTypeOK, BudgetOK, DisplaysOK, EnginesOK, FileOK, State, ControllerOK, HistoryOK

LEMMA EnginesAreCallers == Engines \subseteq Callers /\ Controller \in Callers
BY BootAssumption

LEMMA PublishType ==
  ASSUME FileOK, BudgetOK, NEW e \in Engines, NEW state \in State, Publish(e, state)
  PROVE  FileOK' /\ BudgetOK'
<1>1. FileOK'
  BY DEF Publish, Published, FileOK
<1>2. QED
  BY <1>1, BudgetType DEF Publish, Fine

\* A failed engine goes to its end, over the guard's destructor if that is armed.
LEMMA FailsType ==
  ASSUME pc \in [Engines -> Places], failure \in [Engines -> {"none", "fault", "second", "no glasses"}],
         NEW e \in Engines, NEW why \in {"fault", "second", "no glasses"}, Fails(e, why)
  PROVE  /\ pc' \in [Engines -> Places] /\ FileOK'
         /\ failure' \in [Engines -> {"none", "fault", "second", "no glasses"}]
<1>1. PICK place \in Places : pc' = [pc EXCEPT ![e] = place]
  BY DEF Fails, At, Places
<1>2. failure' \in [Engines -> {"none", "fault", "second", "no glasses"}]
  BY DEF Fails
<1>3. FileOK'
  BY DEF Fails, Published, FileOK, State
<1>4. QED
  BY <1>1, <1>2, <1>3

LEMMA BreaksType ==
  ASSUME pc \in [Engines -> Places], failure \in [Engines -> {"none", "fault", "second", "no glasses"}],
         BudgetOK, NEW e \in Engines, Breaks(e)
  PROVE  /\ pc' \in [Engines -> Places] /\ FileOK' /\ BudgetOK'
         /\ failure' \in [Engines -> {"none", "fault", "second", "no glasses"}]
BY FailsType, BudgetType DEF Breaks

LEMMA ZeroIsInRange == \A m \in Nat : 0 \in 0 .. m
OBVIOUS

LEMMA EndsType ==
  ASSUME EnginesOK, NEW e \in Engines, Ends(e),
         failure' \in [Engines -> {"none", "fault", "second", "no glasses"}]
  PROVE  EnginesOK'
<1>0. MaxPass \in Nat
  BY BootAssumption
<1>1. NoOptions \in [workspace : BOOLEAN, given : BOOLEAN]
  BY DEF NoOptions
<1>6. 0 \in 0 .. MaxPass
  BY <1>0, ZeroIsInRange
<1>2. NoArrangement \in Arrangements
  BY DEF NoArrangement, Arrangements
<1>3. "ended" \in Places
  BY DEF Places
<1>4. QED
  BY <1>1, <1>2, <1>3, <1>6 DEF Ends, At, EnginesOK

LEMMA RestoreType ==
  ASSUME DisplaysOK, EnginesOK, NEW e \in Engines,
         Restore(e) \/ Desktop(Attached \ Virtual, primary)
  PROVE  DisplaysOK'
<1>1. pristine[e].on \subseteq Display
  BY DEF EnginesOK, Arrangements
<1>2. QED
  BY <1>1, AttachedIsDisplay, DesktopType DEF Restore, DisplaysOK

LEMMA EngineType ==
  ASSUME TypeOK, Rooms, NEW e \in Engines, EngineStep(e)
  PROVE  /\ rec' \in [Callers -> Recovery] /\ BudgetOK' /\ DisplaysOK'
         /\ EnginesOK' /\ FileOK' /\ ControllerOK' /\ HistoryOK'
<1>0. /\ rec \in [Callers -> Recovery] /\ BudgetOK /\ DisplaysOK
      /\ EnginesOK /\ FileOK /\ ControllerOK /\ HistoryOK /\ e \in Callers
  BY TypeParts, EnginesAreCallers DEF TypeOK
<1>1. UNCHANGED <<link, primary>> => DisplaysOK'
  BY <1>0 DEF DisplaysOK
<1>2. Fine => BudgetOK'
  BY <1>0 DEF Fine, BudgetOK
<1>3. UNCHANGED <<ctl, historyVars>> => ControllerOK' /\ HistoryOK'
  BY <1>0 DEF ControllerOK, HistoryOK, historyVars
<1>4. UNCHANGED file => FileOK'
  BY <1>0 DEF FileOK
<1>. DEFINE Failure == {"none", "fault", "second", "no glasses"}
            PCOK == pc' \in [Engines -> Places]
            FailureOK == failure' \in [Engines -> Failure]
<1>5. \A place \in Places : At(e, place) => PCOK
  BY <1>0 DEF At, EnginesOK
<1>6. UNCHANGED failure => FailureOK
  BY <1>0 DEF EnginesOK
<1>7. \A why \in {"fault", "second", "no glasses"} : Fails(e, why) => PCOK /\ FailureOK /\ FileOK'
  BY <1>0, FailsType DEF EnginesOK
<1>8. Breaks(e) => PCOK /\ FailureOK /\ FileOK' /\ BudgetOK'
  BY <1>0, BreaksType DEF EnginesOK
<1>9. \A state \in State : Publish(e, state) => FileOK' /\ BudgetOK'
  BY <1>0, PublishType
<1>10. Slip => BudgetOK'
  BY <1>0, BudgetType
<1>. HIDE DEF PCOK, FailureOK
<1>. USE DEF displayVars, budgetVars, engineVars
<1>11. CASE Args(e)
  <2>1. PCOK /\ FailureOK /\ FileOK' /\ BudgetOK'
    <3>1. CASE At(e, "guard") /\ Publish(e, "starting") /\ UNCHANGED failure
      BY <1>5, <1>6, <1>9, <3>1 DEF Places, State
    <3>2. CASE At(e, "ended") /\ failure' = [failure EXCEPT ![e] = "fault"] /\ Slip /\ UNCHANGED file
      BY <1>0, <1>4, <1>5, <1>10, <3>2 DEF Places, EnginesOK, FailureOK
    <3>3. QED
      BY <1>8, <1>11, <3>1, <3>2 DEF Args
  <2>2. QED
    BY <1>0, <1>1, <1>3, <1>11, <2>1 DEF Args, EnginesOK, PCOK, FailureOK
<1>12. CASE Guard(e)
  <2>1. PCOK /\ FailureOK /\ FileOK' /\ BudgetOK'
    BY <1>2, <1>4, <1>5, <1>6, <1>7, <1>8, <1>12 DEF Guard, Places
  <2>2. QED
    BY <1>0, <1>1, <1>3, <1>12, <2>1 DEF Guard, EnginesOK, PCOK, FailureOK
<1>13. CASE Inputs(e)
  <2>1. PCOK /\ FailureOK /\ FileOK' /\ BudgetOK'
    BY <1>2, <1>4, <1>5, <1>6, <1>8, <1>13 DEF Inputs, Places
  <2>2. QED
    BY <1>0, <1>1, <1>3, <1>13, <2>1 DEF Inputs, EnginesOK, PCOK, FailureOK
<1>14. CASE Snapshot(e)
  <2>1. PCOK /\ FailureOK /\ FileOK' /\ BudgetOK'
    BY <1>2, <1>4, <1>5, <1>6, <1>8, <1>14 DEF Snapshot, Places
  <2>2. Arrangement \in Arrangements
    BY <1>0, AttachedIsDisplay DEF Arrangement, Arrangements, DisplaysOK
  <2>3. pristine' \in [Engines -> Arrangements]
    BY <1>0, <1>14, <2>2 DEF Snapshot, EnginesOK
  <2>4. rec' \in [Callers -> Recovery]
    BY <1>0, <1>14, BeginRecoveryType DEF Snapshot
  <2>5. QED
    BY <1>0, <1>1, <1>3, <1>14, <2>1, <2>3, <2>4 DEF Snapshot, EnginesOK, PCOK, FailureOK
<1>15. CASE Recovering(e)
  <2>1. GlassesTypeOK'
    BY <1>0, <1>15, RecoveryStepType DEF Recovering, TypeOK
  <2>2. QED
    BY <1>0, <1>3, <1>4, <1>15, <2>1 DEF Recovering, GlassesTypeOK, BudgetOK, DisplaysOK, EnginesOK
<1>16. CASE Rescan(e)
  <2>1. PCOK /\ FailureOK /\ FileOK'
    BY <1>4, <1>5, <1>6, <1>7, <1>16 DEF Rescan, Places
  <2>2. rec' \in [Callers -> Recovery]
    BY <1>0, <1>16, RestingIsRecovery DEF Rescan
  <2>3. QED
    BY <1>0, <1>1, <1>2, <1>3, <1>16, <2>1, <2>2 DEF Rescan, EnginesOK, PCOK, FailureOK
<1>17. CASE TakeOver(e)
  <2>1. PCOK /\ FailureOK /\ FileOK' /\ BudgetOK'
    BY <1>2, <1>4, <1>5, <1>6, <1>8, <1>17 DEF TakeOver, Places
  <2>2. DisplaysOK'
    <3>1. \A centre : Desktop((Attached \ {Laptop}) \cup Virtual, centre) => DisplaysOK'
      BY <1>0, AttachedIsDisplay, DesktopType DEF DisplaysOK, Display
    <3>2. QED
      BY <1>1, <1>17, <3>1 DEF TakeOver
  <2>3. armed' \in [Engines -> BOOLEAN]
    BY <1>0, <1>17 DEF TakeOver, EnginesOK
  <2>4. QED
    BY <1>0, <1>3, <1>17, <2>1, <2>2, <2>3 DEF TakeOver, EnginesOK, PCOK, FailureOK
<1>18. \A d \in Display : Renders(e, d) => PCOK /\ chosen' \in [Engines -> Display \cup {NoDisplay}]
  BY <1>0, <1>5 DEF Renders, Places, EnginesOK
<1>19. CASE Select(e)
  <2>1. Attached \subseteq Display /\ Automatic \subseteq Display
    BY AttachedIsDisplay DEF Automatic, GlassesAttached
  <2>2. PCOK /\ FailureOK /\ FileOK' /\ BudgetOK' /\ chosen' \in [Engines -> Display \cup {NoDisplay}]
    <3>1. UNCHANGED chosen => chosen' \in [Engines -> Display \cup {NoDisplay}]
      BY <1>0 DEF EnginesOK
    <3>2. CASE (Breaks(e) \/ (Fails(e, "fault") /\ Fine)) /\ UNCHANGED chosen
      BY <1>2, <1>7, <1>8, <3>1, <3>2
    <3>3. CASE At(e, "wait") /\ Fine /\ UNCHANGED <<chosen, failure, file>>
      BY <1>2, <1>4, <1>5, <1>6, <3>1, <3>3 DEF Places
    <3>4. CASE (\E d \in Display : Renders(e, d)) /\ Fine /\ UNCHANGED <<failure, file>>
      BY <1>2, <1>4, <1>6, <1>18, <3>4
    <3>5. QED
      BY <1>19, <2>1, <3>2, <3>3, <3>4 DEF Select
  <2>3. QED
    BY <1>0, <1>1, <1>3, <1>19, <2>2 DEF Select, EnginesOK, PCOK, FailureOK
<1>20. CASE BeginPass(e)
  <2>1. PCOK
    BY <1>5, <1>20 DEF BeginPass, Places
  <2>2. rec' \in [Callers -> Recovery]
    BY <1>0, <1>20, BeginRecoveryType DEF BeginPass
  <2>3. QED
    BY <1>0, <1>1, <1>3, <1>4, <1>20, <2>1, <2>2 DEF BeginPass, EnginesOK, PCOK, BudgetOK
<1>21. CASE EndPass(e)
  <2>1. PCOK /\ chosen' \in [Engines -> Display \cup {NoDisplay}]
    <3>1. GlassesAttached \subseteq Display
      BY AttachedIsDisplay DEF GlassesAttached
    <3>2. CASE \E d \in GlassesAttached : Renders(e, d)
      BY <1>18, <3>1, <3>2
    <3>3. CASE At(e, "wait") /\ UNCHANGED chosen
      BY <1>0, <1>5, <3>3 DEF Places, EnginesOK
    <3>4. QED
      BY <1>21, <3>2, <3>3 DEF EndPass
  <2>2. rec' \in [Callers -> Recovery]
    BY <1>0, <1>21, RestingIsRecovery DEF EndPass
  <2>3. passes' \in [Engines -> 0 .. MaxPass]
    <3>1. MaxPass \in Nat /\ passes[e] \in 0 .. MaxPass /\ passes[e] < MaxPass
      BY <1>0, <1>21, BootAssumption DEF EnginesOK, Rooms, Room, EndPass
    <3>2. passes[e] + 1 \in 0 .. MaxPass
      BY <3>1
    <3>3. QED
      BY <1>0, <1>21, <3>2 DEF EnginesOK, EndPass
  <2>4. QED
    BY <1>0, <1>1, <1>3, <1>4, <1>21, <2>1, <2>2, <2>3 DEF EndPass, EnginesOK, PCOK, BudgetOK
<1>22. CASE FallBack(e)
  <2>1. CASE (\E d \in Display : Renders(e, d)) /\ UNCHANGED <<failure, file>>
    BY <1>0, <1>1, <1>3, <1>4, <1>18, <1>22, <2>1 DEF FallBack, glassesVars, EnginesOK, PCOK, BudgetOK
  <2>2. CASE Fails(e, "no glasses") /\ UNCHANGED chosen
    BY <1>0, <1>1, <1>3, <1>7, <1>22, <2>2
       DEF FallBack, glassesVars, EnginesOK, PCOK, FailureOK, BudgetOK
  <2>3. QED
    BY <1>22, <2>1, <2>2, AttachedIsDisplay DEF FallBack
<1>23. CASE Window(e)
  <2>1. PCOK /\ FailureOK /\ FileOK' /\ BudgetOK'
    BY <1>5, <1>6, <1>8, <1>9, <1>23 DEF Window, Places, State
  <2>2. QED
    BY <1>0, <1>1, <1>3, <1>23, <2>1 DEF Window, EnginesOK, PCOK, FailureOK
<1>24. CASE Bind(e)
  <2>1. PCOK /\ FailureOK /\ FileOK' /\ BudgetOK'
    BY <1>2, <1>4, <1>5, <1>6, <1>8, <1>24 DEF Bind, Places
  <2>2. QED
    BY <1>0, <1>1, <1>3, <1>24, <2>1 DEF Bind, EnginesOK, PCOK, FailureOK
<1>25. CASE Heartbeat(e)
  BY <1>0, <1>1, <1>3, <1>9, <1>25 DEF Heartbeat, EnginesOK, State
<1>26. \A trouble \in Troubles : Suffers(trouble) => BudgetOK'
  BY <1>0, BudgetType
<1>27. \A state \in State : Published(e, state) => FileOK'
  BY DEF Published, FileOK
<1>28. CASE Finish(e)
  <2>1. DisplaysOK'
    BY <1>0, <1>1, <1>28, RestoreType DEF Finish
  <2>2. FailureOK /\ FileOK' /\ BudgetOK'
    <3>1. CASE UNCHANGED failure /\ Publish(e, "stopped")
      BY <1>6, <1>9, <3>1 DEF State
    <3>2. CASE /\ failure' = [failure EXCEPT ![e] = "fault"] /\ Published(e, "failed")
               /\ Slip \/ Suffers("stuck")
      BY <1>0, <1>10, <1>26, <1>27, <3>2 DEF State, Troubles, FailureOK, EnginesOK
    <3>3. QED
      BY <1>28, <3>1, <3>2 DEF Finish
  <2>3. EnginesOK'
    BY <1>0, <1>28, <2>2, EndsType DEF Finish, FailureOK
  <2>4. QED
    BY <1>0, <1>3, <1>28, <2>1, <2>2, <2>3 DEF Finish
<1>29. CASE Unwind(e)
  <2>1. DisplaysOK'
    BY <1>0, <1>29, RestoreType DEF Unwind
  <2>2. FileOK' /\ BudgetOK'
    BY <1>4, <1>9, <1>26, <1>29 DEF Unwind, State, Troubles
  <2>3. EnginesOK'
    BY <1>0, <1>29, EndsType DEF Unwind, EnginesOK
  <2>4. QED
    BY <1>0, <1>3, <1>29, <2>1, <2>2, <2>3 DEF Unwind
<1>30. QED
  BY <1>11, <1>12, <1>13, <1>14, <1>15, <1>16, <1>17, <1>19, <1>20, <1>21, <1>22, <1>23, <1>24,
     <1>25, <1>28, <1>29 DEF EngineStep

Parts ==
  /\ rec \in [Callers -> Recovery] /\ BudgetOK /\ DisplaysOK
  /\ EnginesOK /\ FileOK /\ ControllerOK /\ HistoryOK

LEMMA LaunchedType ==
  ASSUME EnginesOK, NEW e \in Engines, Launched(e)
  PROVE  pc' \in [Engines -> Places] /\ options' \in [Engines -> [workspace : BOOLEAN, given : BOOLEAN]]
<1>1. PICK o \in [workspace : BOOLEAN, given : BOOLEAN] : options' = [options EXCEPT ![e] = o]
  BY BootAssumption DEF Launched
<1>2. QED
  BY <1>1 DEF Launched, At, EnginesOK, Places

LEMMA LaunchesType ==
  ASSUME EnginesOK, NEW e \in Engines, Launches(e)
  PROVE  /\ pc' \in [Engines -> Places] /\ FileOK' /\ ControllerOK' /\ old' \subseteq Engines
         /\ options' \in [Engines -> [workspace : BOOLEAN, given : BOOLEAN]]
<1>1. FileOK'
  BY DEF Launches, NoReport, FileOK, State
<1>2. QED
  BY <1>1, LaunchedType DEF Launches, ControllerOK

LEMMA ControllerType ==
  ASSUME TypeOK, Start \/ Healing \/ Healed \/ Poll
  PROVE  Parts'
<1>0. /\ rec \in [Callers -> Recovery] /\ BudgetOK /\ DisplaysOK
      /\ EnginesOK /\ FileOK /\ ControllerOK /\ HistoryOK /\ Controller \in Callers
  BY TypeParts, EnginesAreCallers DEF TypeOK
<1>. USE DEF displayVars, budgetVars, engineVars, historyVars, Parts
<1>1. UNCHANGED <<link, primary>> => DisplaysOK'
  BY <1>0 DEF DisplaysOK
<1>2. UNCHANGED <<faults, troubled>> => BudgetOK'
  BY <1>0 DEF BudgetOK
<1>3. UNCHANGED <<pc, options, file, ctl, old, home>>
        => FileOK' /\ HistoryOK' /\ ControllerOK'
  BY <1>0 DEF FileOK, HistoryOK, ControllerOK
<1>. DEFINE CtlOK == /\ pc' \in [Engines -> Places] /\ FileOK' /\ ControllerOK' /\ old' \subseteq Engines
                    /\ options' \in [Engines -> [workspace : BOOLEAN, given : BOOLEAN]]
<1>4. \A e \in Engines : Launches(e) => CtlOK
  BY <1>0, LaunchesType
<1>5. \A does \in {"idle", "healing"} :
        ctl' = [ctl EXCEPT !.does = does] /\ UNCHANGED <<pc, options, file, old>> => CtlOK
  BY <1>0 DEF ControllerOK, EnginesOK, FileOK, HistoryOK
<1>6. CASE Start
  <2>1. CtlOK
    <3>1. CASE \E e \in Windowed : ctl' = [ctl EXCEPT !.does = "busy", !.engine = e]
                 /\ UNCHANGED <<pc, options, file, rec, old>>
      BY <1>0, <3>1 DEF Windowed, ControllerOK, EnginesOK, FileOK, HistoryOK
    <3>2. QED
      BY <1>4, <1>5, <1>6, <3>1 DEF Start
  <2>2. rec' \in [Callers -> Recovery]
    BY <1>0, <1>6, BeginRecoveryType DEF Start
  <2>3. QED
    BY <1>0, <1>1, <1>2, <1>6, <2>1, <2>2 DEF Start, EnginesOK, HistoryOK
<1>7. CASE Healing
  <2>1. GlassesTypeOK'
    BY <1>0, <1>7, RecoveryStepType DEF Healing, TypeOK
  <2>2. QED
    BY <1>0, <1>3, <1>7, <2>1 DEF Healing, GlassesTypeOK, BudgetOK, DisplaysOK, EnginesOK
<1>8. CASE Healed
  <2>1. CtlOK
    BY <1>4, <1>5, <1>8 DEF Healed
  <2>2. rec' \in [Callers -> Recovery]
    BY <1>0, <1>8, RestingIsRecovery DEF Healed
  <2>3. QED
    BY <1>0, <1>1, <1>2, <1>8, <2>1, <2>2 DEF Healed, EnginesOK, HistoryOK
<1>9. CASE Poll
  <2>1. Desktop({d \in Display : link[d] # "unplugged"}, primary) => DisplaysOK'
    BY <1>0, DesktopType DEF DisplaysOK
  <2>2. DisplaysOK'
    BY <1>1, <1>9, <2>1 DEF Poll, Extend
  <2>3. ControllerOK'
    BY <1>9 DEF Poll, ControllerOK
  <2>4. QED
    BY <1>0, <1>2, <1>9, <2>2, <2>3 DEF Poll, EnginesOK, FileOK, HistoryOK
<1>10. QED
  BY <1>6, <1>7, <1>8, <1>9

LEMMA OutsideType ==
  ASSUME TypeOK, (\E e \in Engines : Kill(e) \/ LaunchByHand(e)) \/ Flap \/ Done
  PROVE  Parts'
<1>0. /\ rec \in [Callers -> Recovery] /\ BudgetOK /\ DisplaysOK
      /\ EnginesOK /\ FileOK /\ ControllerOK /\ HistoryOK
  BY TypeParts DEF TypeOK
<1>. USE DEF engineVars, historyVars, Parts
<1>1. UNCHANGED <<file, ctl, old, home>> => FileOK' /\ HistoryOK' /\ ControllerOK'
  BY <1>0 DEF FileOK, HistoryOK, ControllerOK
<1>2. \A trouble \in Troubles : Suffers(trouble) => BudgetOK'
  BY <1>0, BudgetType
<1>3. ASSUME NEW e \in Engines, Kill(e) PROVE Parts'
  <2>1. DisplaysOK'
    BY <1>0, <1>3, RestoreType DEF Kill
  <2>2. EnginesOK'
    BY <1>0, <1>3, EndsType DEF Kill, EnginesOK
  <2>3. rec' \in [Callers -> Recovery]
    BY <1>0, <1>3, RestingIsRecovery DEF Kill
  <2>4. QED
    BY <1>1, <1>2, <1>3, <2>1, <2>2, <2>3 DEF Kill, Troubles
<1>4. ASSUME NEW e \in Engines, LaunchByHand(e) PROVE Parts'
  <2>1. EnginesOK'
    BY <1>0, <1>4, LaunchedType DEF LaunchByHand, EnginesOK
  <2>2. QED
    BY <1>0, <1>1, <1>4, <2>1 DEF LaunchByHand, glassesVars, BudgetOK, DisplaysOK
<1>5. CASE Flap
  <2>1. ASSUME NEW d \in Branded \cup Tcl, Attach(d) PROVE DisplaysOK'
    BY <1>0, <2>1, AttachedIsDisplay, DesktopType DEF Attach, DisplaysOK, Display
  <2>2. ASSUME NEW d \in Branded \cup Tcl, NEW to \in Link, link' = [link EXCEPT ![d] = to],
               primary' \in (IF primary # d THEN {primary}
                             ELSE IF Attached = {d} THEN {NoDisplay} ELSE Attached \ {d})
        PROVE  DisplaysOK'
    BY <1>0, <2>2, AttachedIsDisplay DEF DisplaysOK
  <2>3. DisplaysOK'
    BY <1>5, <2>1, <2>2 DEF Flap
  <2>4. QED
    BY <1>0, <1>1, <1>2, <1>5, <2>3 DEF Flap, Troubles, EnginesOK
<1>6. CASE Done
  BY <1>0, <1>1, <1>6 DEF Done, glassesVars, BudgetOK, DisplaysOK, EnginesOK
<1>7. QED
  BY <1>3, <1>4, <1>5, <1>6

LEMMA InitType == Init => TypeOK /\ Rooms
<1>. SUFFICES ASSUME Init PROVE TypeOK /\ Rooms
  OBVIOUS
<1>1. rec \in [Callers -> Recovery]
  BY RestingIsRecovery DEF Init
<1>2. DisplaysOK
  BY BootAssumption DEF Init, DisplaysOK, Display
<1>3. BudgetOK
  BY GlassesAssumption, ZeroIsInRange DEF Init, BudgetOK
<1>4. MaxPass \in Nat
  BY BootAssumption
<1>5. NoOptions \in [workspace : BOOLEAN, given : BOOLEAN] /\ NoArrangement \in Arrangements
  BY DEF NoOptions, NoArrangement, Arrangements
<1>6. EnginesOK
  BY <1>4, <1>5, ZeroIsInRange DEF Init, EnginesOK, Places
<1>7. FileOK /\ ControllerOK
  BY DEF Init, FileOK, ControllerOK, NoReport, State
<1>8. home \in Arrangements
  BY <1>2, AttachedIsDisplay DEF Init, Arrangements, DisplaysOK
<1>9. Rooms
  BY DEF Init, Rooms, Room, Inside, Alive
<1>10. QED
  BY <1>1, <1>2, <1>3, <1>6, <1>7, <1>8, <1>9, TypeParts DEF Init, HistoryOK

-----------------------------------------------------------------------------
(***************************************************************************)
(* Who moves what.                                                          *)
(***************************************************************************)
SameRow(o) ==
  /\ pc'[o] = pc[o] /\ options'[o] = options[o] /\ passes'[o] = passes[o] /\ chosen'[o] = chosen[o]
  /\ pristine'[o] = pristine[o] /\ armed'[o] = armed[o] /\ failure'[o] = failure[o]

LEMMA SameRowsAreSame ==
  ASSUME UNCHANGED engineVars
  PROVE  \A o \in Engines : SameRow(o)
BY DEF engineVars, SameRow

\* An engine's step is its own.
LEMMA OthersRows ==
  ASSUME TypeOK, NEW e \in Engines, EngineStep(e) \/ Kill(e) \/ LaunchByHand(e),
         NEW o \in Engines \ {e}
  PROVE  SameRow(o)
<1>. EnginesOK
  BY TypeParts DEF TypeOK
<1>. USE DEF EnginesOK, SameRow, At
<1>1. CASE Args(e) \/ Guard(e) \/ Inputs(e)
  BY <1>1 DEF Args, Guard, Inputs, Fails, Breaks
<1>2. CASE Snapshot(e) \/ Rescan(e) \/ TakeOver(e)
  BY <1>2 DEF Snapshot, Rescan, TakeOver, Fails, Breaks
<1>3. CASE Select(e) \/ BeginPass(e) \/ EndPass(e) \/ FallBack(e)
  BY <1>3 DEF Select, BeginPass, EndPass, FallBack, Fails, Breaks, Renders
<1>4. CASE Window(e) \/ Bind(e) \/ Heartbeat(e) \/ Recovering(e)
  BY <1>4 DEF Window, Bind, Heartbeat, Recovering, Fails, Breaks, engineVars
<1>5. CASE Finish(e) \/ Unwind(e) \/ Kill(e)
  BY <1>5 DEF Finish, Unwind, Kill, Ends
<1>6. CASE LaunchByHand(e)
  BY <1>6 DEF LaunchByHand, Launched
<1>7. QED
  BY <1>1, <1>2, <1>3, <1>4, <1>5, <1>6 DEF EngineStep

\* A step keeps an engine in order, and lets it past the mutex only if nobody is.
LEMMA OwnRoom ==
  ASSUME TypeOK, Rooms, NEW e \in Engines, EngineStep(e)
  PROVE  Room(e)' /\ (Inside(e)' => Inside(e) \/ \A o \in Engines : ~Inside(o))
<1>. EnginesOK /\ Room(e)
  BY TypeParts DEF TypeOK, Rooms
<1>. USE DEF EnginesOK, Room, Inside, Alive, At, Armed
<1>0. Fails(e, "fault") \/ Fails(e, "second") \/ Fails(e, "no glasses") => pc'[e] = IF armed[e] THEN "unwind" ELSE "ended"
  BY DEF Fails
<1>1. CASE Args(e) \/ Guard(e) \/ Inputs(e)
  BY <1>0, <1>1 DEF Args, Guard, Inputs, Breaks
<1>2. CASE Snapshot(e) \/ Rescan(e)
  BY <1>0, <1>2 DEF Snapshot, Rescan, Breaks
<1>3. CASE TakeOver(e)
  BY <1>0, <1>3 DEF TakeOver, Breaks
<1>4. CASE Select(e)
  BY <1>0, <1>4 DEF Select, Breaks, Renders
<1>5. CASE BeginPass(e)
  BY <1>5 DEF BeginPass
<1>6. CASE EndPass(e) \/ FallBack(e)
  BY <1>0, <1>6 DEF EndPass, FallBack, Renders
<1>7. CASE Window(e) \/ Bind(e)
  BY <1>0, <1>7 DEF Window, Bind, Breaks
<1>8. CASE Heartbeat(e) \/ Recovering(e)
  BY <1>8 DEF Heartbeat, Recovering, engineVars
<1>9. CASE Finish(e) \/ Unwind(e)
  BY <1>9 DEF Finish, Unwind, Ends
<1>10. QED
  BY <1>1, <1>2, <1>3, <1>4, <1>5, <1>6, <1>7, <1>8, <1>9 DEF EngineStep

LEMMA NextKeepsRooms ==
  ASSUME TypeOK, Rooms, Next
  PROVE  Rooms'
<1>. EnginesOK
  BY TypeParts DEF TypeOK
<1>0. \A o \in Engines : SameRow(o) => Room(o)' /\ (Inside(o)' <=> Inside(o))
  BY DEF Rooms, Room, SameRow, Inside, Alive
<1>1. ASSUME NEW e \in Engines, EngineStep(e)
      PROVE  Rooms'
  <2>1. \A o \in Engines \ {e} : SameRow(o)
    BY <1>1, OthersRows
  <2>2. Room(e)' /\ (Inside(e)' => Inside(e) \/ \A o \in Engines : ~Inside(o))
    BY <1>1, OwnRoom
  <2>3. \A o \in Engines : Room(o)'
    BY <1>0, <2>1, <2>2
  <2>4. \A o, p \in Engines : Inside(o)' /\ Inside(p)' => o = p
    BY <1>0, <2>1, <2>2 DEF Rooms
  <2>5. QED
    BY <2>3, <2>4 DEF Rooms
<1>2. ASSUME NEW e \in Engines, Kill(e) \/ LaunchByHand(e)
      PROVE  Rooms'
  <2>1. \A o \in Engines \ {e} : SameRow(o)
    BY <1>2, OthersRows
  <2>2. Room(e)' /\ ~Inside(e)'
    <3>1. CASE Kill(e)
      BY <3>1 DEF Kill, Ends, At, EnginesOK, Room, Inside, Alive, Armed, NoOptions
    <3>2. CASE LaunchByHand(e)
      BY <3>2 DEF LaunchByHand, Launched, At, EnginesOK, Rooms, Room, Inside, Alive, Armed
    <3>3. QED
      BY <1>2, <3>1, <3>2
  <2>3. QED
    BY <1>0, <2>1, <2>2 DEF Rooms
<1>3. ASSUME NEW e \in Engines, Launches(e),
             UNCHANGED <<passes, chosen, pristine, armed, failure>>
      PROVE  Rooms'
  <2>1. \A o \in Engines \ {e} : SameRow(o)
    BY <1>3 DEF Launches, Launched, At, EnginesOK, SameRow
  <2>2. Room(e)' /\ ~Inside(e)'
    BY <1>3 DEF Launches, Launched, At, EnginesOK, Rooms, Room, Inside, Alive, Armed
  <2>3. QED
    BY <1>0, <2>1, <2>2 DEF Rooms
<1>4. CASE UNCHANGED engineVars
  BY <1>0, <1>4, SameRowsAreSame DEF Rooms
<1>5. Start \/ Healing \/ Healed \/ Poll =>
        \/ UNCHANGED engineVars
        \/ \E e \in Engines : Launches(e) /\ UNCHANGED <<passes, chosen, pristine, armed, failure>>
  BY DEF Start, Healing, Healed, Poll, engineVars
<1>6. Flap \/ Done => UNCHANGED engineVars
  BY DEF Flap, Done
<1>7. QED
  BY <1>1, <1>2, <1>3, <1>4, <1>5, <1>6 DEF Next

(***************************************************************************)
(* Every variable keeps to its type.                                        *)
(***************************************************************************)
LEMMA NextKeepsType ==
  ASSUME TypeOK, Rooms, Next
  PROVE  TypeOK'
<1>1. Parts'
  BY EngineType, ControllerType, OutsideType DEF Next, Parts
<1>2. touched' \subseteq Callers \cup {"outside"}
  BY EnginesAreCallers DEF Next, By, TypeOK
<1>3. QED
  BY <1>1, <1>2 DEF Parts, TypeOK, GlassesTypeOK, BudgetOK, DisplaysOK, EnginesOK, FileOK, State,
                    ControllerOK, HistoryOK

LEMMA RoomsCorrect == Spec => [](TypeOK /\ Rooms)
<1>1. Init => TypeOK /\ Rooms
  BY InitType
<1>2. TypeOK /\ Rooms /\ [Next]_vars => TypeOK' /\ Rooms'
  <2>. SUFFICES ASSUME TypeOK, Rooms, [Next]_vars PROVE TypeOK' /\ Rooms'
    OBVIOUS
  <2>1. CASE Next
    BY <2>1, NextKeepsType, NextKeepsRooms
  <2>2. CASE UNCHANGED vars
    <3>. USE <2>2 DEF vars, glassesVars, engineVars, historyVars
    <3>1. TypeOK'
      BY DEF TypeOK, GlassesTypeOK, Attached
    <3>2. Rooms'
      BY DEF Rooms, Room, Inside, Alive
    <3>3. QED
      BY <3>1, <3>2
  <2>3. QED
    BY <2>1, <2>2
<1>3. QED
  BY <1>1, <1>2, PTL DEF Spec

THEOREM TypeCorrect == Spec => []TypeOK
BY RoomsCorrect, PTL

-----------------------------------------------------------------------------
(***************************************************************************)
(* A stale report is never shown.                                           *)
(***************************************************************************)
Fresh == (\A o \in old : pc[o] = "ended") /\ file.by \notin old

LEMMA NextKeepsFresh ==
  ASSUME TypeOK, Fresh, Next
  PROVE  Fresh'
<1>. EnginesOK /\ FileOK /\ HistoryOK
  BY TypeParts DEF TypeOK
<1>1. ASSUME NEW e \in Engines, EngineStep(e)
      PROVE  Fresh'
  <2>1. Alive(e) /\ e \notin old
    BY <1>1 DEF EngineStep, Args, Guard, Inputs, Snapshot, Recovering, Rescan, TakeOver, Select, BeginPass,
                EndPass, FallBack, Window, Bind, Heartbeat, Finish, Unwind, Alive, Fresh
  <2>2. old' = old
    BY <1>1 DEF EngineStep, Args, Guard, Inputs, Snapshot, Recovering, Rescan, TakeOver, Select, BeginPass,
                EndPass, FallBack, Window, Bind, Heartbeat, Finish, Unwind, historyVars
  <2>3. \A o \in Engines \ {e} : pc'[o] = pc[o]
    BY <1>1, OthersRows DEF SameRow
  <2>4. file' = file \/ file'.by = e
    <3>1. \A state : Publish(e, state) \/ Published(e, state) => file' = file \/ file'.by = e
      BY DEF Publish, Published
    <3>2. \A why : Fails(e, why) => file' = file \/ file'.by = e
      BY <3>1 DEF Fails
    <3>3. Breaks(e) => file' = file \/ file'.by = e
      BY <3>2 DEF Breaks
    <3>4. QED
      BY <1>1, <3>1, <3>2, <3>3
         DEF EngineStep, Args, Guard, Inputs, Snapshot, Recovering, Rescan, TakeOver, Select, BeginPass,
             EndPass, FallBack, Window, Bind, Heartbeat, Finish, Unwind
  <2>5. QED
    BY <2>1, <2>2, <2>3, <2>4 DEF Fresh, HistoryOK
<1>2. ASSUME NEW e \in Engines, Kill(e) \/ LaunchByHand(e)
      PROVE  Fresh'
  <2>1. \A o \in Engines \ {e} : pc'[o] = pc[o]
    BY <1>2, OthersRows DEF SameRow
  <2>2. UNCHANGED <<old, file>> /\ pc[e] # "ended"
    BY <1>2 DEF Kill, LaunchByHand, Launched, Alive, historyVars
  <2>3. QED
    BY <2>1, <2>2 DEF Fresh, HistoryOK
<1>3. ASSUME NEW e \in Engines, Launches(e)
      PROVE  Fresh'
  BY <1>3, BootAssumption DEF Launches, Launched, At, EnginesOK, Fresh, NoReport
<1>4. CASE UNCHANGED <<pc, old, file>>
  BY <1>4 DEF Fresh
<1>5. Start \/ Healing \/ Healed \/ Poll =>
        UNCHANGED <<pc, old, file>> \/ \E e \in Engines : Launches(e)
  BY DEF Start, Healing, Healed, Poll, engineVars, historyVars
<1>6. Flap \/ Done => UNCHANGED <<pc, old, file>>
  BY DEF Flap, Done, engineVars, historyVars
<1>7. QED
  BY <1>1, <1>2, <1>3, <1>4, <1>5, <1>6 DEF Next

(***************************************************************************)
(* The controller never shows the report of an engine that had ended before *)
(* it launched the one it has, however many engines there are.              *)
(***************************************************************************)
THEOREM ReportsAreFresh == Spec => []ShownIsCurrent
<1>1. Init => Fresh
  BY DEF Init, Fresh
<1>2. TypeOK /\ Fresh /\ [Next]_vars => Fresh'
  <2>. SUFFICES ASSUME TypeOK, Fresh, [Next]_vars PROVE Fresh'
    OBVIOUS
  <2>1. CASE UNCHANGED vars
    BY <2>1 DEF vars, engineVars, historyVars, Fresh
  <2>2. CASE Next
    BY <2>2, NextKeepsFresh
  <2>3. QED
    BY <2>1, <2>2
<1>3. TypeOK /\ Fresh => ShownIsCurrent
  BY BootAssumption DEF TypeOK, Fresh, ShownIsCurrent, Shown, NoReport
<1>4. QED
  BY <1>1, <1>2, <1>3, TypeCorrect, PTL DEF Spec

-----------------------------------------------------------------------------
(***************************************************************************)
(* Whose recovery a step moves.                                             *)
(***************************************************************************)
LEMMA DetachedGlassesAreDetached ==
  \A d \in DetachedGlasses : d \in Branded \cup Tcl /\ link[d] = "detached"
BY DEF DetachedGlasses

LEMMA BeginRecoveryShape ==
  ASSUME rec \in [Callers -> Recovery], NEW c \in Callers, BeginRecovery(c)
  PROVE  /\ rec[c].pc = "idle" /\ \A o \in Callers \ {c} : rec'[o] = rec[o]
         /\ \/ /\ rec'[c].pc = "stage" /\ rec'[c].left = {} /\ rec'[c].target \in DetachedGlasses
            \/ /\ rec'[c].pc = "query" /\ rec'[c].left = {} /\ rec'[c].target = NoDisplay
               /\ DetachedGlasses = {}
BY DEF BeginRecovery, Resting

\* The steps that change more than one field, field by field.
LEMMA AwaitAttachShape ==
  ASSUME rec \in [Callers -> Recovery], NEW c \in Callers, AwaitAttach(c)
  PROVE  /\ rec[c].pc = "wait" /\ UNCHANGED <<link, primary, faults, troubled>>
         /\ \A o \in Callers \ {c} : rec'[o] = rec[o]
         /\ rec'[c].left = {} /\ rec'[c].target = NoDisplay
         /\ IF link[rec[c].target] = "attached"
            THEN rec'[c].pc = "done" /\ rec'[c].recovered
            ELSE rec'[c].pc = "query"
<1>1. CASE link[rec[c].target] = "attached"
  <2>1. rec' = [rec EXCEPT ![c] = [Resting EXCEPT !.pc = "done", !.recovered = TRUE]]
    BY <1>1 DEF AwaitAttach
  <2>2. rec'[c] = [Resting EXCEPT !.pc = "done", !.recovered = TRUE] /\ \A o \in Callers \ {c} : rec'[o] = rec[o]
    BY <2>1
  <2>3. QED
    BY <1>1, <2>2 DEF AwaitAttach, Resting
<1>2. CASE link[rec[c].target] # "attached"
  <2>1. rec' = [rec EXCEPT ![c] = [Resting EXCEPT !.pc = "query"]]
    BY <1>2 DEF AwaitAttach
  <2>2. rec'[c] = [Resting EXCEPT !.pc = "query"] /\ \A o \in Callers \ {c} : rec'[o] = rec[o]
    BY <2>1
  <2>3. QED
    BY <1>2, <2>2 DEF AwaitAttach, Resting
<1>3. QED
  BY <1>1, <1>2

LEMMA VerifyPathShape ==
  ASSUME rec \in [Callers -> Recovery], NEW c \in Callers, VerifyPath(c),
         Search(c)
  PROVE  /\ rec[c].pc = "verify" /\ UNCHANGED <<link, primary, faults, troubled>>
         /\ \A o \in Callers \ {c} : rec'[o] = rec[o]
         /\ Search(c)'
         /\ IF link[rec[c].target] = "attached" /\ is_glasses_display(rec[c].target)
            THEN rec'[c].pc = "done" /\ rec'[c].recovered
            ELSE rec'[c] = [rec[c] EXCEPT !.pc = "undo"]
<1>1. CASE link[rec[c].target] = "attached" /\ is_glasses_display(rec[c].target)
  <2>1. rec' = [rec EXCEPT ![c] = [Resting EXCEPT !.pc = "done", !.recovered = TRUE]]
    BY <1>1 DEF VerifyPath
  <2>2. rec'[c] = [Resting EXCEPT !.pc = "done", !.recovered = TRUE] /\ \A o \in Callers \ {c} : rec'[o] = rec[o]
    BY <2>1
  <2>3. QED
    BY <1>1, <2>2 DEF VerifyPath, Resting, Search, Aimed
<1>2. CASE ~(link[rec[c].target] = "attached" /\ is_glasses_display(rec[c].target))
  <2>1. rec' = [rec EXCEPT ![c].pc = "undo"]
    BY <1>2 DEF VerifyPath, Goes
  <2>2. rec'[c] = [rec[c] EXCEPT !.pc = "undo"] /\ \A o \in Callers \ {c} : rec'[o] = rec[o]
    BY <2>1
  <2>3. /\ rec[c].pc = "verify" /\ rec'[c].pc = "undo"
        /\ rec'[c].left = rec[c].left /\ rec'[c].target = rec[c].target
    BY <2>2 DEF Recovery, VerifyPath
  <2>4. Search(c)'
    BY <2>3 DEF Search, Aimed
  <2>5. QED
    BY <1>2, <2>2, <2>4 DEF VerifyPath
<1>3. QED
  BY <1>1, <1>2

LEMMA QueryPathsShape ==
  ASSUME rec \in [Callers -> Recovery], NEW c \in Callers, QueryPaths(c)
  PROVE  /\ rec[c].pc = "query" /\ UNCHANGED <<link, primary>> /\ \A o \in Callers \ {c} : rec'[o] = rec[o]
         /\ rec'[c].pc \in {"next", "done"} /\ rec'[c].found = Attached
         /\ rec'[c].target = rec[c].target /\ rec'[c].recovered = rec[c].recovered /\ rec'[c].undone = rec[c].undone
         /\ rec'[c].pc = "next" => rec'[c].left = {d \in Branded \cup Tcl : link[d] \in {"detached", "hidden"}}
         /\ rec'[c].pc = "done" => rec'[c].left = rec[c].left /\ Refused
<1>. DEFINE Hidden == {d \in Display : is_glasses_friendly_name(d) /\ link[d] \in {"detached", "hidden"}}
<1>1. Hidden = {d \in Branded \cup Tcl : link[d] \in {"detached", "hidden"}}
  BY DEF is_glasses_friendly_name, Display
<1>2. /\ rec[c].pc = "query" /\ UNCHANGED <<link, primary>>
      /\ \/ rec' = [rec EXCEPT ![c].pc = "next", ![c].found = Attached, ![c].left = Hidden]
         \/ rec' = [rec EXCEPT ![c].pc = "done", ![c].found = Attached] /\ Refused
  BY DEF QueryPaths
<1>. HIDE DEF Hidden
<1>3. CASE rec' = [rec EXCEPT ![c].pc = "next", ![c].found = Attached, ![c].left = Hidden]
  BY <1>1, <1>2, <1>3 DEF Recovery
<1>4. CASE rec' = [rec EXCEPT ![c].pc = "done", ![c].found = Attached] /\ Refused
  BY <1>2, <1>4 DEF Recovery
<1>5. QED
  BY <1>2, <1>3, <1>4

LEMMA ApplyPathShape ==
  ASSUME rec \in [Callers -> Recovery], NEW c \in Callers, ApplyPath(c)
  PROVE  /\ rec[c].pc = "next" /\ \A o \in Callers \ {c} : rec'[o] = rec[o]
         /\ rec'[c].found = rec[c].found /\ rec'[c].recovered = rec[c].recovered /\ rec'[c].undone = rec[c].undone
         /\ \E d \in Candidates(c) :
              /\ rec'[c].left = rec[c].left \ {d}
              /\ \/ /\ rec'[c].pc = "next" /\ rec'[c].target = rec[c].target /\ UNCHANGED <<link, primary>>
                    /\ (link[d] \in {"attached", "unplugged"} /\ UNCHANGED troubled) \/ Refused
                 \/ /\ rec'[c].pc = "verify" /\ rec'[c].target = d /\ rec'[c].before = Attached
                    /\ link[d] \in {"detached", "hidden"}
                    /\ (Attach(d) /\ Fine) \/ (UNCHANGED <<link, primary>> /\ Refused)
<1>1. PICK d \in Candidates(c) :
        \/ /\ link[d] \in {"attached", "unplugged"}
           /\ rec' = [rec EXCEPT ![c].left = @ \ {d}] /\ UNCHANGED <<link, primary, faults, troubled>>
        \/ /\ link[d] \in {"detached", "hidden"}
           /\ \/ /\ rec' = [rec EXCEPT ![c].pc = "verify", ![c].target = d, ![c].left = @ \ {d}, ![c].before = Attached]
                 /\ (Attach(d) /\ Fine) \/ (UNCHANGED <<link, primary>> /\ Refused)
              \/ rec' = [rec EXCEPT ![c].left = @ \ {d}] /\ UNCHANGED <<link, primary>> /\ Refused
  BY DEF ApplyPath
<1>2. rec[c].pc = "next"
  BY DEF ApplyPath
<1>3. CASE rec' = [rec EXCEPT ![c].left = @ \ {d}]
  <2>1. rec'[c] = [rec[c] EXCEPT !.left = @ \ {d}] /\ \A o \in Callers \ {c} : rec'[o] = rec[o]
    BY <1>3
  <2>2. /\ rec'[c].left = rec[c].left \ {d} /\ rec'[c].pc = "next" /\ rec'[c].target = rec[c].target
        /\ rec'[c].found = rec[c].found /\ rec'[c].recovered = rec[c].recovered /\ rec'[c].undone = rec[c].undone
    BY <1>2, <2>1 DEF Recovery
  <2>3. /\ UNCHANGED <<link, primary>>
        /\ (link[d] \in {"attached", "unplugged"} /\ UNCHANGED troubled) \/ Refused
    <3>1. rec' # [rec EXCEPT ![c].pc = "verify", ![c].target = d, ![c].left = @ \ {d}, ![c].before = Attached]
      BY <2>2 DEF Recovery
    <3>2. QED
      BY <1>1, <3>1
  <2>4. QED
    BY <1>2, <2>1, <2>2, <2>3
<1>4. CASE rec' = [rec EXCEPT ![c].pc = "verify", ![c].target = d, ![c].left = @ \ {d}, ![c].before = Attached]
  <2>1. /\ rec'[c] = [rec[c] EXCEPT !.pc = "verify", !.target = d, !.left = @ \ {d}, !.before = Attached]
        /\ \A o \in Callers \ {c} : rec'[o] = rec[o]
    BY <1>4
  <2>2. /\ rec'[c].left = rec[c].left \ {d} /\ rec'[c].pc = "verify" /\ rec'[c].target = d
        /\ rec'[c].before = Attached
        /\ rec'[c].found = rec[c].found /\ rec'[c].recovered = rec[c].recovered /\ rec'[c].undone = rec[c].undone
    BY <2>1 DEF Recovery
  <2>3. /\ link[d] \in {"detached", "hidden"}
        /\ (Attach(d) /\ Fine) \/ (UNCHANGED <<link, primary>> /\ Refused)
    <3>1. rec' # [rec EXCEPT ![c].left = @ \ {d}]
      BY <1>2, <2>2 DEF Recovery
    <3>2. QED
      BY <1>1, <3>1
  <2>4. QED
    BY <1>2, <2>1, <2>2, <2>3
<1>5. QED
  BY <1>1, <1>3, <1>4

LEMMA UndoPathShape ==
  ASSUME rec \in [Callers -> Recovery], NEW c \in Callers, UndoPath(c)
  PROVE  /\ rec[c].pc = "undo" /\ \A o \in Callers \ {c} : rec'[o] = rec[o]
         /\ rec'[c].pc = "next" /\ rec'[c].left = rec[c].left
         /\ rec'[c].found = rec[c].found /\ rec'[c].recovered = rec[c].recovered
         /\ \/ /\ rec'[c].target = NoDisplay /\ rec'[c].undone = rec[c].undone
               /\ Desktop({d \in rec[c].before : link[d] # "unplugged"}, primary)
               /\ troubled' = IF Attached \ {rec[c].target} = rec[c].before THEN troubled
                              ELSE troubled \cup {"stale undo"}
            \/ /\ rec'[c].target = rec[c].target /\ rec'[c].undone = FALSE
               /\ Refused /\ UNCHANGED <<link, primary>>
<1>1. CASE rec' = [rec EXCEPT ![c].pc = "next", ![c].target = NoDisplay, ![c].before = {}]
  <2>1. /\ rec'[c] = [rec[c] EXCEPT !.pc = "next", !.target = NoDisplay, !.before = {}]
        /\ \A o \in Callers \ {c} : rec'[o] = rec[o]
    BY <1>1
  <2>2. /\ rec'[c].left = rec[c].left /\ rec'[c].pc = "next" /\ rec'[c].target = NoDisplay
        /\ rec'[c].found = rec[c].found /\ rec'[c].recovered = rec[c].recovered /\ rec'[c].undone = rec[c].undone
        /\ rec'[c].before = {}
    BY <2>1 DEF Recovery
  <2>3. CASE /\ Desktop({d \in rec[c].before : link[d] # "unplugged"}, primary)
             /\ troubled' = IF Attached \ {rec[c].target} = rec[c].before THEN troubled
                            ELSE troubled \cup {"stale undo"}
    BY <2>1, <2>2, <2>3 DEF UndoPath
  <2>4. CASE rec' = [rec EXCEPT ![c].pc = "next", ![c].undone = FALSE] /\ Refused /\ UNCHANGED <<link, primary>>
    <3>1. rec'[c] = [rec[c] EXCEPT !.pc = "next", !.undone = FALSE]
      BY <2>4
    <3>2. rec'[c].undone = FALSE /\ rec'[c].target = rec[c].target
      BY <3>1 DEF Recovery
    <3>3. QED
      BY <2>1, <2>2, <2>4, <3>2 DEF UndoPath
  <2>5. QED
    BY <2>3, <2>4 DEF UndoPath
<1>2. CASE rec' = [rec EXCEPT ![c].pc = "next", ![c].undone = FALSE] /\ Refused /\ UNCHANGED <<link, primary>>
  <2>1. /\ rec'[c] = [rec[c] EXCEPT !.pc = "next", !.undone = FALSE]
        /\ \A o \in Callers \ {c} : rec'[o] = rec[o]
    BY <1>2
  <2>2. /\ rec'[c].left = rec[c].left /\ rec'[c].pc = "next" /\ rec'[c].target = rec[c].target
        /\ rec'[c].found = rec[c].found /\ rec'[c].recovered = rec[c].recovered /\ rec'[c].undone = FALSE
    BY <2>1 DEF Recovery
  <2>3. QED
    BY <1>2, <2>1, <2>2 DEF UndoPath
<1>3. QED
  BY <1>1, <1>2 DEF UndoPath

LEMMA RecoveryStepShape ==
  ASSUME rec \in [Callers -> Recovery], NEW c \in Callers, RecoveryStep(c),
         Search(c)
  PROVE  /\ rec[c].pc \notin {"idle", "done"} /\ rec'[c].pc # "idle"
         /\ Search(c)'
         /\ \A o \in Callers \ {c} : rec'[o] = rec[o]
<1>. NoDisplay \notin Branded \cup Tcl
  BY GlassesAssumption DEF Display
<1>. USE DEF Goes, Recovery, Search, Aimed
<1>1. CASE Stage(c)
  BY <1>1 DEF Stage
<1>2. CASE Commit(c)
  BY <1>2 DEF Commit
<1>3. CASE AwaitAttach(c)
  BY <1>3, AwaitAttachShape
<1>4. CASE QueryPaths(c)
  BY <1>4, QueryPathsShape
<1>5. CASE ApplyPath(c)
  <2>1. Candidates(c) \subseteq Branded \cup Tcl
    BY DEF Candidates
  <2>2. QED
    BY <1>5, <2>1, ApplyPathShape
<1>6. CASE NoneLeft(c)
  BY <1>6 DEF NoneLeft
<1>7. CASE VerifyPath(c)
  BY <1>7, VerifyPathShape
<1>8. CASE UndoPath(c)
  BY <1>8, UndoPathShape
<1>9. QED
  BY <1>1, <1>2, <1>3, <1>4, <1>5, <1>6, <1>7, <1>8 DEF RecoveryStep

\* What a step does to a caller's recovery.
Left(c) == rec'[c] = rec[c]
Dropped(c) == rec'[c] = Resting
Moved(c) == BeginRecovery(c) \/ RecoveryStep(c)

\* An engine's step moves its own recovery, or drops it, or is no step of a recovery.
LEMMA EngineRecovery ==
  ASSUME TypeOK, Waits, NEW e \in Engines, EngineStep(e)
  PROVE  /\ Moved(e) \/ Dropped(e) \/ (Left(e) /\ rec[e].pc = "idle")
         /\ \A o \in Callers \ {e} : Left(o)
         /\ rec'[e].pc # "idle" => pc'[e] \in {"recover", "waiting"}
         /\ UNCHANGED ctl
<1>. /\ rec \in [Callers -> Recovery] /\ EnginesOK /\ e \in Callers /\ Search(e)
  BY TypeParts, EnginesAreCallers DEF TypeOK, Waits
<1>0. rec[e].pc # "idle" => pc[e] \in {"recover", "waiting"}
  BY DEF Waits
<1>. USE DEF Moved, Dropped, Left, At, EnginesOK
<1>1. CASE Args(e) \/ Guard(e) \/ Inputs(e) \/ TakeOver(e) \/ Select(e) \/ FallBack(e) \/ Window(e)
           \/ Bind(e) \/ Heartbeat(e) \/ Finish(e) \/ Unwind(e)
  <2>1. rec' = rec /\ ctl' = ctl /\ pc[e] \notin {"recover", "waiting"}
    BY <1>1 DEF Args, Guard, Inputs, TakeOver, Select, FallBack, Window, Bind, Heartbeat, Finish, Unwind,
                glassesVars
  <2>2. QED
    BY <1>0, <2>1
<1>2. CASE Snapshot(e)
  <2>1. (BeginRecovery(e) /\ At(e, "recover")) \/ rec' = rec
    BY <1>2 DEF Snapshot
  <2>2. pc[e] = "snapshot" /\ ctl' = ctl
    BY <1>2 DEF Snapshot
  <2>3. QED
    BY <1>0, <2>1, <2>2, BeginRecoveryShape
<1>3. CASE Recovering(e)
  BY <1>3, RecoveryStepShape DEF Recovering, engineVars
<1>4. CASE Rescan(e)
  BY <1>4 DEF Rescan, Resting
<1>5. CASE BeginPass(e)
  BY <1>5, BeginRecoveryShape DEF BeginPass
<1>6. CASE EndPass(e)
  BY <1>6 DEF EndPass, Resting
<1>7. QED
  BY <1>1, <1>2, <1>3, <1>4, <1>5, <1>6 DEF EngineStep

LEMMA ControllerRecovery ==
  ASSUME TypeOK, Waits, Start \/ Healing \/ Healed \/ Poll
  PROVE  /\ Moved(Controller) \/ Dropped(Controller) \/ (Left(Controller) /\ rec[Controller].pc = "idle")
         /\ \A o \in Callers \ {Controller} : Left(o)
         /\ rec'[Controller].pc # "idle" => ctl'.does = "healing"
         /\ \A e \in Engines : pc[e] \in {"recover", "waiting"} => pc'[e] = pc[e]
<1>. /\ rec \in [Callers -> Recovery] /\ EnginesOK /\ ControllerOK /\ Controller \in Callers
     /\ Search(Controller)
  BY TypeParts, EnginesAreCallers DEF TypeOK, Waits
<1>0. rec[Controller].pc # "idle" => ctl.does = "healing"
  BY DEF Waits
<1>. USE DEF Moved, Dropped, Left, EnginesOK, ControllerOK
<1>5. \A e \in Engines : Launches(e) => \A o \in Engines : pc[o] \in {"recover", "waiting"} => pc'[o] = pc[o]
  BY DEF Launches, Launched, At
<1>1. CASE Start
  <2>1. ctl.does = "idle" /\ \A o \in Engines : pc[o] \in {"recover", "waiting"} => pc'[o] = pc[o]
    BY <1>1, <1>5 DEF Start
  <2>2. rec' = rec \/ (BeginRecovery(Controller) /\ ctl' = [ctl EXCEPT !.does = "healing"])
    BY <1>1 DEF Start
  <2>3. QED
    BY <1>0, <2>1, <2>2, BeginRecoveryShape
<1>2. CASE Healing
  BY <1>2, RecoveryStepShape DEF Healing, engineVars
<1>3. CASE Healed
  BY <1>3, <1>5 DEF Healed, Resting
<1>4. CASE Poll
  BY <1>0, <1>4 DEF Poll, engineVars
<1>6. QED
  BY <1>1, <1>2, <1>3, <1>4

LEMMA OutsideRecovery ==
  ASSUME TypeOK, Waits, (\E e \in Engines : Kill(e) \/ LaunchByHand(e)) \/ Flap \/ Done
  PROVE  /\ \A c \in Callers : Left(c) \/ Dropped(c)
         /\ \A e \in Engines : Dropped(e) \/ pc[e] \in {"recover", "waiting"} => pc'[e] = pc[e] \/ Dropped(e)
         /\ UNCHANGED ctl
<1>. rec \in [Callers -> Recovery] /\ EnginesOK
  BY TypeParts DEF TypeOK
<1>1. ASSUME NEW e \in Engines, Kill(e)
      PROVE  /\ \A c \in Callers \ {e} : Left(c)
             /\ Dropped(e) /\ \A o \in Engines \ {e} : pc'[o] = pc[o]
             /\ UNCHANGED ctl
  BY <1>1, EnginesAreCallers DEF Kill, Ends, At, Left, Dropped, EnginesOK
<1>2. ASSUME NEW e \in Engines, LaunchByHand(e)
      PROVE  UNCHANGED <<rec, ctl>> /\ \A o \in Engines : pc[o] \in {"recover", "waiting"} => pc'[o] = pc[o]
  BY <1>2 DEF LaunchByHand, Launched, At, EnginesOK, glassesVars
<1>3. Flap \/ Done => UNCHANGED <<rec, ctl, pc>>
  BY DEF Flap, Done, engineVars, glassesVars
<1>4. QED
  BY <1>1, <1>2, <1>3 DEF Left, Dropped

LEMMA NextKeepsWaits ==
  ASSUME TypeOK, Waits, Next
  PROVE  Waits'
<1>. rec \in [Callers -> Recovery] /\ EnginesOK
  BY TypeParts DEF TypeOK
<1>1. ASSUME NEW c \in Callers, Left(c) \/ Dropped(c) \/ Moved(c)
      PROVE  Search(c)'
  <2>1. CASE Left(c)
    BY <2>1 DEF Left, Waits, Search
  <2>2. CASE Dropped(c)
    BY <2>2 DEF Dropped, Resting, Search, Aimed
  <2>3. CASE BeginRecovery(c)
    BY <2>3, BeginRecoveryShape, DetachedGlassesAreDetached, GlassesAssumption DEF Search, Aimed, Display
  <2>4. CASE RecoveryStep(c)
    BY <2>4, RecoveryStepShape DEF Waits
  <2>5. QED
    BY <1>1, <2>1, <2>2, <2>3, <2>4 DEF Moved
<1>2. ASSUME NEW e \in Engines, EngineStep(e)
      PROVE  Waits'
  <2>1. \A c \in Callers : Search(c)'
    BY <1>1, <1>2, EngineRecovery
  <2>2. ASSUME NEW o \in Engines \ {e}, rec'[o].pc # "idle"
        PROVE  pc'[o] \in {"recover", "waiting"}
    <3>1. pc'[o] = pc[o]
      BY <1>2, OthersRows DEF SameRow
    <3>2. rec'[o] = rec[o]
      BY <1>2, EngineRecovery, EnginesAreCallers DEF Left
    <3>3. QED
      BY <2>2, <3>1, <3>2 DEF Waits
  <2>3. rec'[e].pc # "idle" => pc'[e] \in {"recover", "waiting"}
    BY <1>2, EngineRecovery
  <2>4. rec'[Controller].pc # "idle" => ctl'.does = "healing"
    BY <1>2, EngineRecovery, BootAssumption DEF Left, Waits
  <2>5. QED
    BY <2>1, <2>2, <2>3, <2>4 DEF Waits
<1>3. CASE Start \/ Healing \/ Healed \/ Poll
  <2>1. \A c \in Callers : Search(c)'
    BY <1>1, <1>3, ControllerRecovery
  <2>2. ASSUME NEW e \in Engines, rec'[e].pc # "idle"
        PROVE  pc'[e] \in {"recover", "waiting"}
    BY <1>3, <2>2, ControllerRecovery, BootAssumption DEF Left, Waits
  <2>3. QED
    BY <1>3, <2>1, <2>2, ControllerRecovery DEF Waits
<1>4. CASE (\E e \in Engines : Kill(e) \/ LaunchByHand(e)) \/ Flap \/ Done
  <2>1. \A c \in Callers : Search(c)'
    BY <1>1, <1>4, OutsideRecovery
  <2>2. ASSUME NEW e \in Engines, rec'[e].pc # "idle"
        PROVE  pc'[e] \in {"recover", "waiting"}
    BY <1>4, <2>2, OutsideRecovery, EnginesAreCallers DEF Left, Dropped, Resting, Waits
  <2>3. rec'[Controller].pc # "idle" => ctl'.does = "healing"
    BY <1>4, OutsideRecovery, EnginesAreCallers DEF Left, Dropped, Resting, Waits
  <2>4. QED
    BY <2>1, <2>2, <2>3 DEF Waits
<1>5. QED
  BY <1>2, <1>3, <1>4 DEF Next

LEMMA WaitsCorrect == Spec => [](TypeOK /\ Rooms /\ Waits)
<1>1. Init => Waits
  BY EnginesAreCallers DEF Init, Waits, Search, Aimed, Resting
<1>2. TypeOK /\ Waits /\ [Next]_vars => Waits'
  <2>. SUFFICES ASSUME TypeOK, Waits, [Next]_vars PROVE Waits'
    OBVIOUS
  <2>1. CASE UNCHANGED vars
    BY <2>1 DEF vars, glassesVars, engineVars, Waits, Search
  <2>2. CASE Next
    BY <2>2, NextKeepsWaits
  <2>3. QED
    BY <2>1, <2>2
<1>3. QED
  BY <1>1, <1>2, RoomsCorrect, PTL DEF Spec

-----------------------------------------------------------------------------
(***************************************************************************)
(* A failed recovery leaves no trace.                                       *)
(***************************************************************************)
\* Whoever changes the displays is remembered: while that is nobody but the
\* caller, its recovery is the only thing that moves.
LEMMA NobodyElse ==
  ASSUME TypeOK, Waits, Next, NEW c \in Callers
  PROVE  /\ touched \subseteq touched'
         /\ touched' \subseteq {c} =>
              \/ link' = link /\ Left(c)
              \/ Dropped(c) \/ Moved(c) \/ (Left(c) /\ rec[c].pc = "idle")
<1>1. \A who : By(who) => touched \subseteq touched' /\ (who # c /\ touched' \subseteq {c} => link' = link)
  BY DEF By
<1>2. ASSUME NEW e \in Engines, EngineStep(e), By(e)
      PROVE  touched' \subseteq {c} => (link' = link /\ Left(c)) \/ Dropped(c) \/ Moved(c) \/ (Left(c) /\ rec[c].pc = "idle")
  <2>1. CASE c = e
    BY <1>2, <2>1, EngineRecovery
  <2>2. CASE c # e
    BY <1>1, <1>2, <2>2, EngineRecovery
  <2>3. QED
    BY <2>1, <2>2
<1>3. ASSUME NEW e \in Engines, LaunchByHand(e)
      PROVE  link' = link /\ Left(c)
  BY <1>3 DEF LaunchByHand, glassesVars, Left
<1>4. ASSUME Start \/ Healing \/ Healed \/ Poll, By(Controller)
      PROVE  touched' \subseteq {c} => (link' = link /\ Left(c)) \/ Dropped(c) \/ Moved(c) \/ (Left(c) /\ rec[c].pc = "idle")
  <2>1. CASE c = Controller
    BY <1>4, <2>1, ControllerRecovery
  <2>2. CASE c # Controller
    BY <1>1, <1>4, <2>2, ControllerRecovery
  <2>3. QED
    BY <2>1, <2>2
<1>5. ASSUME (\E e \in Engines : Kill(e)) \/ Flap \/ Done, By("outside")
      PROVE  touched' \subseteq {c} => (link' = link /\ Left(c)) \/ Dropped(c)
  BY <1>1, <1>5, OutsideRecovery, BootAssumption
<1>6. QED
  BY <1>1, <1>2, <1>3, <1>4, <1>5 DEF Next

LEMMA RecoveryStepTrace ==
  ASSUME TypeOK, NEW c \in Callers, RecoveryStep(c), TraceOf(c), touched \subseteq touched'
  PROVE  TraceOf(c)'
<1>. /\ rec \in [Callers -> Recovery] /\ DisplaysOK
  BY TypeParts DEF TypeOK
<1>. SUFFICES ASSUME touched' \subseteq {c}, ~rec'[c].recovered, rec'[c].undone
              PROVE  /\ rec'[c].pc \in {"next", "done"} => Attached' = rec'[c].found
                     /\ rec'[c].pc \in {"verify", "undo"} =>
                          /\ rec'[c].before = rec'[c].found /\ rec'[c].found \subseteq Attached'
                          /\ Attached' \subseteq rec'[c].found \cup {rec'[c].target}
  BY DEF TraceOf
<1>0. touched \subseteq {c}
  OBVIOUS
<1>1. CASE Stage(c) \/ Commit(c)
  BY <1>1 DEF Stage, Commit, Goes, Recovery
<1>3. CASE AwaitAttach(c)
  BY <1>3, AwaitAttachShape
<1>4. CASE QueryPaths(c)
  BY <1>4, QueryPathsShape DEF Attached
<1>5. CASE ApplyPath(c)
  <2>1. rec[c].pc = "next" /\ Attached = rec[c].found
    BY <1>0, <1>5, ApplyPathShape DEF TraceOf
  <2>2. \A d \in Candidates(c) : d \in Display
    BY DEF Candidates, Recovery
  <2>3. ASSUME NEW d \in Candidates(c), Attach(d)
        PROVE  Attached' = Attached \cup {d}
    BY <2>2, <2>3, DesktopSets, AttachedIsDisplay DEF Attach
  <2>4. UNCHANGED link => Attached' = Attached
    BY DEF Attached
  <2>5. QED
    BY <1>5, <2>1, <2>3, <2>4, ApplyPathShape
<1>6. CASE NoneLeft(c)
  <2>1. rec' = [rec EXCEPT ![c].pc = "done"] /\ rec[c].pc = "next" /\ link' = link
    BY <1>6 DEF NoneLeft, Goes
  <2>2. rec'[c].pc = "done" /\ rec'[c].found = rec[c].found /\ rec'[c].recovered = rec[c].recovered
        /\ rec'[c].undone = rec[c].undone
    BY <2>1 DEF Recovery
  <2>3. QED
    BY <1>0, <2>1, <2>2 DEF TraceOf, Attached
<1>7. CASE VerifyPath(c)
  <2>1. CASE link[rec[c].target] = "attached" /\ is_glasses_display(rec[c].target)
    <3>1. rec' = [rec EXCEPT ![c] = [Resting EXCEPT !.pc = "done", !.recovered = TRUE]]
      BY <1>7, <2>1 DEF VerifyPath
    <3>2. rec'[c].recovered
      BY <3>1 DEF Resting
    <3>3. QED
      BY <3>2
  <2>2. CASE ~(link[rec[c].target] = "attached" /\ is_glasses_display(rec[c].target))
    <3>1. rec' = [rec EXCEPT ![c].pc = "undo"] /\ rec[c].pc = "verify" /\ link' = link
      BY <1>7, <2>2 DEF VerifyPath, Goes
    <3>2. rec'[c].pc = "undo" /\ rec'[c].found = rec[c].found /\ rec'[c].recovered = rec[c].recovered
          /\ rec'[c].undone = rec[c].undone /\ rec'[c].before = rec[c].before /\ rec'[c].target = rec[c].target
      BY <3>1 DEF Recovery
    <3>3. QED
      BY <1>0, <3>1, <3>2 DEF TraceOf, Attached
  <2>3. QED
    BY <2>1, <2>2
<1>8. CASE UndoPath(c)
  <2>1. /\ rec[c].pc = "undo" /\ rec'[c].pc = "next" /\ rec'[c].found = rec[c].found
        /\ rec'[c].recovered = rec[c].recovered /\ rec'[c].undone = rec[c].undone
        /\ Desktop({d \in rec[c].before : link[d] # "unplugged"}, primary)
    BY <1>8, UndoPathShape
  <2>2. rec[c].before = rec[c].found /\ rec[c].found \subseteq Attached
    BY <1>0, <2>1 DEF TraceOf
  <2>3. {d \in rec[c].before : link[d] # "unplugged"} = rec[c].found
    BY <2>2 DEF Attached
  <2>4. rec[c].found \in SUBSET Display
    BY DEF Recovery
  <2>5. Desktop(rec[c].found, primary)
    BY <2>1, <2>3 DEF Desktop
  <2>6. Attached' = rec[c].found
    BY <2>4, <2>5, DesktopSets
  <2>7. QED
    BY <2>1, <2>6
<1>9. QED
  BY <1>1, <1>3, <1>4, <1>5, <1>6, <1>7, <1>8 DEF RecoveryStep

LEMMA NextKeepsTrace ==
  ASSUME TypeOK, Waits, Trace, Next
  PROVE  Trace'
<1>. SUFFICES ASSUME NEW c \in Callers PROVE TraceOf(c)'
  BY DEF Trace
<1>1. rec \in [Callers -> Recovery] /\ TraceOf(c) /\ touched \subseteq touched'
  BY NobodyElse, TypeParts DEF Trace, TypeOK
<1>2. CASE ~(touched' \subseteq {c})
  BY <1>2 DEF TraceOf
<1>3. CASE link' = link /\ Left(c)
  BY <1>1, <1>3 DEF TraceOf, Left, Attached
<1>4. CASE Dropped(c)
  BY <1>4 DEF TraceOf, Dropped, Resting
<1>5. CASE Left(c) /\ rec[c].pc = "idle"
  BY <1>5 DEF TraceOf, Left
<1>6. CASE BeginRecovery(c)
  BY <1>1, <1>6, BeginRecoveryShape DEF TraceOf
<1>7. CASE RecoveryStep(c)
  BY <1>1, <1>7, RecoveryStepTrace
<1>8. QED
  BY <1>2, <1>3, <1>4, <1>5, <1>6, <1>7, NobodyElse DEF Moved

(***************************************************************************)
(* Whatever a recovery tried, a failed one leaves on the desktop what it    *)
(* found, if nobody else changed displays and Windows took its undo.        *)
(***************************************************************************)
THEOREM NoTraceOfAFailedRecovery == Spec => []FailedRecoveryLeavesNoTrace
<1>1. Init => Trace
  BY DEF Init, Trace, TraceOf, Resting
<1>2. TypeOK /\ Waits /\ Trace /\ [Next]_vars => Trace'
  <2>. SUFFICES ASSUME TypeOK, Waits, Trace, [Next]_vars PROVE Trace'
    OBVIOUS
  <2>1. CASE UNCHANGED vars
    BY <2>1 DEF vars, glassesVars, Trace, TraceOf, Attached
  <2>2. CASE Next
    BY <2>2, NextKeepsTrace
  <2>3. QED
    BY <2>1, <2>2
<1>3. Trace => FailedRecoveryLeavesNoTrace
  BY DEF Trace, TraceOf, FailedRecoveryLeavesNoTrace
<1>4. QED
  BY <1>1, <1>2, <1>3, WaitsCorrect, PTL DEF Spec

-----------------------------------------------------------------------------
(***************************************************************************)
(* The displays come home.                                                  *)
(***************************************************************************)
LEMMA TroubleStays ==
  ASSUME TypeOK, Next
  PROVE  home' = home /\ (troubled' = {} => troubled = {})
<1>1. /\ \A e \in Engines : Breaks(e) \/ Slip => troubled' = troubled
      /\ Fine => troubled' = troubled
      /\ \A trouble : Suffers(trouble) => troubled' # {}
      /\ \A e \in Engines : \A state : Publish(e, state) => troubled' = troubled
  BY DEF Breaks, Slip, Fine, Suffers, Publish
<1>2. \A c \in Callers : RecoveryStep(c) => (troubled' = {} => troubled = {})
  BY DEF RecoveryStep, Stage, Commit, AwaitAttach, QueryPaths, ApplyPath, NoneLeft, VerifyPath, UndoPath,
         Fine, Refused, Suffers
<1>3. ASSUME NEW e \in Engines, EngineStep(e)
      PROVE  home' = home /\ (troubled' = {} => troubled = {})
  <2>1. home' = home
    BY <1>3 DEF EngineStep, Args, Guard, Inputs, Snapshot, Recovering, Rescan, TakeOver, Select, BeginPass,
                EndPass, FallBack, Window, Bind, Heartbeat, Finish, Unwind, historyVars
  <2>2. CASE Recovering(e)
    BY <1>2, <2>1, <2>2, EnginesAreCallers DEF Recovering
  <2>3. CASE ~Recovering(e)
    BY <1>1, <1>3, <2>1, <2>3
       DEF EngineStep, Args, Guard, Inputs, Snapshot, Rescan, TakeOver, Select, BeginPass,
           EndPass, FallBack, Window, Bind, Heartbeat, Finish, Unwind, budgetVars, glassesVars
  <2>4. QED
    BY <2>2, <2>3
<1>4. Start \/ Healing \/ Healed \/ Poll => home' = home /\ (troubled' = {} => troubled = {})
  BY <1>2, EnginesAreCallers DEF Start, Healing, Healed, Poll, historyVars, budgetVars
<1>5. (\E e \in Engines : Kill(e) \/ LaunchByHand(e)) \/ Flap \/ Done
        => home' = home /\ (troubled' = {} => troubled = {})
  BY <1>1 DEF Kill, LaunchByHand, Flap, Done, historyVars, glassesVars
<1>6. QED
  BY <1>3, <1>4, <1>5 DEF Next

\* A display that comes to the desktop harms nothing.
LEMMA AttachIsGentle ==
  ASSUME TypeOK, HomeKnown, Kept, home' = home, NEW d \in Display, link[d] \in {"detached", "hidden"}, Attach(d)
  PROVE  Kept' /\ (AsBefore => AsBefore')
<1>. link \in [Display -> Link] /\ home.on \subseteq Display
  BY DEF TypeOK, GlassesTypeOK, Arrangements
<1>1. d \notin Virtual
  BY DEF Kept
<1>0. Attached \cup {d} \in SUBSET Display /\ Desktop(Attached \cup {d}, primary)
  BY AttachedIsDisplay DEF Attach
<1>2. /\ Attached' = Attached \cup {d}
      /\ primary \in Attached => primary' = primary
      /\ \A o \in Display \ Virtual : link'[o] = "unplugged" => link[o] = "unplugged"
      /\ \A v \in Virtual \ (Attached \cup {d}) :
           link'[v] = IF link[v] = "attached" THEN "unplugged" ELSE link[v]
  BY <1>0, DesktopSets
<1>3. \A v \in Virtual : v \in Display
  BY DEF Display
<1>4. \A v \in Virtual : link'[v] = link[v]
  BY <1>1, <1>2, <1>3 DEF Attached
<1>5. \A o \in home.on : link'[o] # "unplugged" /\ (o # Laptop => link'[o] = "attached")
  BY <1>2 DEF Kept, HomeKnown, Attached
<1>6. Kept'
  BY <1>4, <1>5 DEF Kept
<1>7. ASSUME AsBefore PROVE AsBefore'
  BY <1>2, <1>4, <1>7 DEF AsBefore, HomeKnown
<1>8. QED
  BY <1>6, <1>7

LEMMA RecoveryIsGentle ==
  ASSUME TypeOK, Waits, HomeKnown, Kept, home' = home, troubled = {}, troubled' = {},
         NEW c \in Callers, Spares(c), RecoveryStep(c)
  PROVE  Kept' /\ (AsBefore => AsBefore') /\ Spares(c)'
<1>. /\ rec \in [Callers -> Recovery] /\ link \in [Display -> Link] /\ home.on \subseteq Display
     /\ Search(c)
  BY DEF TypeOK, GlassesTypeOK, Arrangements, Waits
<1>0. ~Refused
  BY DEF Refused, Suffers
<1>. DEFINE Gentle == Kept' /\ (AsBefore => AsBefore')
<1>10. UNCHANGED <<link, primary>> => Gentle
  BY DEF Kept, AsBefore, Attached
<1>11. \A d \in Display : link[d] \in {"detached", "hidden"} /\ Attach(d) => Gentle
  BY AttachIsGentle
<1>. HIDE DEF Gentle
<1>. SUFFICES Gentle /\ Spares(c)'
  BY DEF Gentle
<1>1. CASE Stage(c)
  BY <1>0, <1>1, <1>10 DEF Stage, Goes, Spares, Recovery
<1>2. CASE Commit(c)
  <2>1. rec'[c].pc \in {"wait", "query"}
    BY <1>2 DEF Commit, Goes, Recovery
  <2>2. Gentle
    <3>1. UNCHANGED <<link, primary>> \/ (link[rec[c].target] = "detached" /\ Attach(rec[c].target))
      BY <1>2 DEF Commit
    <3>2. rec[c].target \in Display
      BY <1>2 DEF Commit, Search, Aimed, Display
    <3>3. QED
      BY <1>10, <1>11, <3>1, <3>2
  <2>3. QED
    BY <2>1, <2>2 DEF Spares
<1>3. CASE AwaitAttach(c)
  BY <1>3, <1>10, AwaitAttachShape DEF Spares
<1>4. CASE QueryPaths(c)
  BY <1>4, <1>10, QueryPathsShape DEF Spares
<1>5. CASE ApplyPath(c)
  <2>1. PICK d \in Candidates(c) :
          \/ rec'[c].pc = "next" /\ UNCHANGED <<link, primary>>
          \/ /\ rec'[c].pc = "verify" /\ rec'[c].target = d
             /\ link[d] \in {"detached", "hidden"} /\ Attach(d)
    BY <1>0, <1>5, ApplyPathShape
  <2>2. d \in Branded \cup Tcl /\ d \in Display
    BY DEF Candidates, Display, Search
  <2>3. link[d] \in {"detached", "hidden"} => d \notin home.on
    BY <2>2, BootAssumption, GlassesAssumption DEF Kept
  <2>4. QED
    BY <1>10, <1>11, <2>1, <2>2, <2>3 DEF Spares
<1>6. CASE NoneLeft(c)
  BY <1>6, <1>10 DEF NoneLeft, Goes, Spares, Recovery
<1>7. CASE VerifyPath(c)
  <2>1. CASE rec'[c].pc = "done"
    BY <1>7, <1>10, <2>1, VerifyPathShape DEF Spares
  <2>2. CASE rec'[c].pc # "done"
    <3>1. rec'[c] = [rec[c] EXCEPT !.pc = "undo"] /\ rec[c].pc = "verify"
      BY <1>7, <2>2, VerifyPathShape
    <3>2. rec'[c].target = rec[c].target
      BY <3>1 DEF Recovery
    <3>3. QED
      BY <1>7, <1>10, <3>1, <3>2, VerifyPathShape DEF Spares
  <2>3. QED
    BY <2>1, <2>2
<1>8. CASE UndoPath(c)
  <2>. DEFINE target == rec[c].target
              Before == {d \in rec[c].before : link[d] # "unplugged"}
  <2>1. /\ rec[c].pc = "undo" /\ rec'[c].pc = "next"
        /\ Desktop(Before, primary) /\ Attached \ {target} = rec[c].before
    BY <1>0, <1>8, UndoPathShape
  <2>2. Before = Attached \ {target}
    BY <2>1 DEF Attached
  <2>3. Before \in SUBSET Display
    BY <2>2, AttachedIsDisplay
  <2>4. target \notin home.on /\ target \notin Virtual
    BY <2>1, GlassesAssumption DEF Spares, Display, Search
  <2>. HIDE DEF Before, target
  <2>5. /\ Attached' = Before
        /\ primary \in Before => primary' = primary
        /\ \A d \in Display \ Virtual : link'[d] = "unplugged" => link[d] = "unplugged"
        /\ \A d \in Virtual \ Before : link'[d] = IF link[d] = "attached" THEN "unplugged" ELSE link[d]
    BY <2>1, <2>3, DesktopSets
  <2>6. \A v \in Virtual : v \in Display
    BY DEF Display
  <2>7. \A v \in Virtual : link'[v] = link[v]
    BY <2>2, <2>4, <2>5, <2>6 DEF Attached
  <2>8. \A o \in home.on : link'[o] # "unplugged" /\ (o # Laptop => link'[o] = "attached")
    BY <2>2, <2>4, <2>5 DEF Kept, HomeKnown, Attached
  <2>9. Kept'
    BY <2>7, <2>8 DEF Kept
  <2>10. ASSUME AsBefore PROVE AsBefore'
    BY <2>2, <2>4, <2>5, <2>7, <2>10 DEF AsBefore, HomeKnown
  <2>11. QED
    BY <2>1, <2>9, <2>10 DEF Spares, Gentle
<1>9. QED
  BY <1>1, <1>2, <1>3, <1>4, <1>5, <1>6, <1>7, <1>8 DEF RecoveryStep

\* Only the engine past the mutex may have a takeover to undo.
LEMMA OthersUnarmed ==
  ASSUME TypeOK, Rooms, NEW e \in Engines, Inside(e), NEW o \in Engines \ {e}
  PROVE  ~armed[o]
BY DEF Rooms, Room, Inside, Alive, Armed

\* The restore of a remembered arrangement.
LEMMA RestoreBringsHome ==
  ASSUME TypeOK, HomeKnown, Kept, home' = home, NEW e \in Engines, Remembers(e), armed[e], Restore(e)
  PROVE  Kept' /\ AsBefore'
<1>. /\ link \in [Display -> Link] /\ home.on \subseteq Display /\ pristine[e].on \subseteq Display
  BY DEF TypeOK, GlassesTypeOK, Arrangements
<1>. DEFINE Back == (Attached \cup {d \in pristine[e].on : link[d] # "unplugged"}) \ Virtual
<1>1. Desktop(Back, home.chief) /\ Back \in SUBSET Display
  BY AttachedIsDisplay DEF Restore, Remembers
<1>2. home.on \subseteq Back
  BY DEF HomeKnown, Kept, Remembers
<1>3. \A v \in Virtual : v \notin Back /\ v \in Display
  BY DEF Display
<1>. HIDE DEF Back
<1>4. /\ Attached' = Back
      /\ home.chief \in Back => primary' = home.chief
      /\ \A d \in Virtual \ Back : link'[d] = IF link[d] = "attached" THEN "unplugged" ELSE link[d]
  BY <1>1, DesktopSets
<1>5. \A v \in Virtual : link'[v] = "unplugged"
  BY <1>3, <1>4 DEF Kept
<1>6. QED
  BY <1>2, <1>4, <1>5 DEF Kept, AsBefore, HomeKnown, Attached

LEMMA TakeOverKeeps ==
  ASSUME TypeOK, HomeKnown, Kept, home' = home, NEW centre \in Virtual,
         Desktop((Attached \ {Laptop}) \cup Virtual, centre)
  PROVE  Kept'
<1>. /\ link \in [Display -> Link] /\ home.on \subseteq Display
  BY DEF TypeOK, GlassesTypeOK, Arrangements
<1>. DEFINE Taken == (Attached \ {Laptop}) \cup Virtual
<1>1. Desktop(Taken, centre) /\ Taken \in SUBSET Display
  BY AttachedIsDisplay DEF Display
<1>2. Laptop \notin Virtual
  BY BootAssumption, GlassesAssumption
<1>3. \A d \in home.on : d \notin Virtual /\ (d # Laptop => d \in Taken)
  BY DEF HomeKnown, Kept, Attached
<1>4. \A v \in Virtual : v \in Taken
  OBVIOUS
<1>. HIDE DEF Taken
<1>5. /\ Attached' = Taken
      /\ \A d \in Display \ Virtual : link'[d] = "unplugged" => link[d] = "unplugged"
  BY <1>1, DesktopSets
<1>6. QED
  BY <1>3, <1>4, <1>5 DEF Kept, Attached

LEMMA ExtendKeeps ==
  ASSUME TypeOK, HomeKnown, Kept, home' = home, Extend
  PROVE  Kept' /\ (AsBefore => AsBefore')
<1>. /\ link \in [Display -> Link] /\ home.on \subseteq Display
  BY DEF TypeOK, GlassesTypeOK, Arrangements
<1>. DEFINE Every == {d \in Display : link[d] # "unplugged"}
<1>1. Desktop(Every, primary) /\ Every \in SUBSET Display
  BY DEF Extend
<1>2. home.on \subseteq Every /\ home.on \cap Virtual = {}
  BY DEF Kept, HomeKnown
<1>3. \A v \in Virtual : v \in Display /\ (v \in Every <=> link[v] = "attached")
  BY DEF Kept, Display
<1>. HIDE DEF Every
<1>4. /\ Attached' = Every
      /\ primary \in Every => primary' = primary
      /\ \A d \in Virtual \ Every : link'[d] = IF link[d] = "attached" THEN "unplugged" ELSE link[d]
  BY <1>1, DesktopSets
<1>5. \A v \in Virtual : link'[v] = link[v]
  BY <1>3, <1>4 DEF Attached
<1>6. Kept'
  BY <1>2, <1>4, <1>5 DEF Kept, Attached
<1>7. ASSUME AsBefore PROVE AsBefore'
  BY <1>2, <1>4, <1>5, <1>7 DEF AsBefore, HomeKnown
<1>8. QED
  BY <1>6, <1>7

\* The rest of Homeward before a step that nothing troubles.
Home == HomeKnown /\ Kept /\ (Quiet => AsBefore)

LEMMA SameDisplaysSameHome ==
  ASSUME UNCHANGED <<link, primary>>, home' = home, Kept
  PROVE  Kept' /\ (AsBefore => AsBefore')
BY DEF Kept, AsBefore, Attached

LEMMA EngineKeepsDisplays ==
  ASSUME TypeOK, Rooms, Waits, Home, home' = home, troubled = {}, troubled' = {},
         NEW e \in Engines, Remembers(e), Spares(e), EngineStep(e)
  PROVE  Kept' /\ (Quiet' => AsBefore')
<1>. EnginesOK /\ HomeKnown /\ Kept /\ (Quiet => AsBefore) /\ e \in Callers
  BY TypeParts, EnginesAreCallers DEF TypeOK, Home
<1>0. ~Suffers("stuck") /\ ~Refused
  BY DEF Suffers, Refused
<1>1. CASE UNCHANGED <<link, primary, armed>>
  BY <1>1, SameDisplaysSameHome DEF Quiet
<1>2. CASE Recovering(e)
  <2>1. RecoveryStep(e) /\ armed' = armed
    BY <1>2 DEF Recovering, engineVars
  <2>2. QED
    BY <2>1, RecoveryIsGentle DEF Quiet
<1>3. CASE TakeOver(e)
  <2>1. CASE /\ \E centre \in Virtual : Desktop((Attached \ {Laptop}) \cup Virtual, centre)
             /\ armed' = [armed EXCEPT ![e] = TRUE]
    <3>1. Kept'
      BY <2>1, TakeOverKeeps
    <3>2. ~Quiet'
      BY <2>1 DEF Quiet, EnginesOK
    <3>3. QED
      BY <3>1, <3>2
  <2>2. QED
    BY <1>1, <1>3, <2>1 DEF TakeOver
<1>4. CASE Finish(e) \/ Unwind(e)
  <2>1. armed' = [armed EXCEPT ![e] = FALSE] /\ Inside(e)
    BY <1>4 DEF Finish, Unwind, Ends, Inside, Alive
  <2>2. (armed[e] /\ Restore(e)) \/ (~armed[e] /\ UNCHANGED <<link, primary>>)
    BY <1>0, <1>4 DEF Finish, Unwind, Rooms, Room, displayVars
  <2>3. CASE armed[e] /\ Restore(e)
    BY <2>3, RestoreBringsHome
  <2>4. CASE ~armed[e] /\ UNCHANGED <<link, primary>>
    BY <2>1, <2>4, SameDisplaysSameHome DEF Quiet, EnginesOK
  <2>5. QED
    BY <2>2, <2>3, <2>4
<1>5. CASE Args(e) \/ Guard(e) \/ Inputs(e) \/ Snapshot(e) \/ Rescan(e) \/ Select(e) \/ BeginPass(e)
           \/ EndPass(e) \/ FallBack(e) \/ Window(e) \/ Bind(e) \/ Heartbeat(e)
  BY <1>1, <1>5 DEF Args, Guard, Inputs, Snapshot, Rescan, Select, BeginPass, EndPass, FallBack, Window,
                    Bind, Heartbeat, displayVars, glassesVars, engineVars
<1>6. QED
  BY <1>2, <1>3, <1>4, <1>5 DEF EngineStep

\* What an engine is to bring back it takes from the desktop of before.
LEMMA EngineRemembers ==
  ASSUME TypeOK, Rooms, Home, home' = home, NEW e \in Engines, Remembers(e), EngineStep(e)
  PROVE  Remembers(e)'
<1>. EnginesOK /\ Room(e)
  BY TypeParts DEF TypeOK, Rooms
<1>. USE DEF Remembers, At, EnginesOK
<1>1. \A why : Fails(e, why) => pc'[e] \in {"unwind", "ended"}
  BY DEF Fails
<1>2. CASE Snapshot(e)
  <2>1. CASE pristine' = [pristine EXCEPT ![e] = Arrangement] /\ armed' = armed
    <3>1. Inside(e) /\ ~armed[e]
      BY <1>2 DEF Snapshot, Inside, Alive, Room, Armed
    <3>2. Quiet
      BY <3>1, OthersUnarmed DEF Quiet
    <3>3. home.on \subseteq Attached /\ primary = home.chief
      BY <3>2 DEF Home, AsBefore
    <3>4. QED
      BY <2>1, <3>3 DEF Arrangement
  <2>2. CASE Breaks(e) /\ UNCHANGED <<pristine, armed>>
    BY <1>1, <2>2 DEF Breaks
  <2>3. QED
    BY <1>2, <2>1, <2>2 DEF Snapshot
<1>3. CASE TakeOver(e)
  BY <1>1, <1>3 DEF TakeOver, Breaks
<1>4. CASE Rescan(e)
  BY <1>1, <1>4 DEF Rescan
<1>5. CASE Finish(e) \/ Unwind(e)
  BY <1>5 DEF Finish, Unwind, Ends
<1>6. CASE Args(e) \/ Guard(e) \/ Inputs(e) \/ Select(e) \/ Window(e) \/ Bind(e)
  BY <1>1, <1>6 DEF Args, Guard, Inputs, Select, Window, Bind, Breaks, Renders
<1>7. CASE BeginPass(e) \/ EndPass(e) \/ FallBack(e)
  BY <1>1, <1>7 DEF BeginPass, EndPass, FallBack, Renders
<1>8. CASE Heartbeat(e) \/ Recovering(e)
  BY <1>8 DEF Heartbeat, Recovering, engineVars
<1>9. QED
  BY <1>2, <1>3, <1>4, <1>5, <1>6, <1>7, <1>8 DEF EngineStep

LEMMA SparesStays ==
  ASSUME TypeOK, Waits, Home, home' = home, troubled = {}, troubled' = {},
         NEW c \in Callers, Spares(c), Left(c) \/ Dropped(c) \/ Moved(c)
  PROVE  Spares(c)'
<1>. rec \in [Callers -> Recovery]
  BY TypeParts DEF TypeOK
<1>1. CASE Left(c)
  BY <1>1 DEF Left, Spares
<1>2. CASE Dropped(c)
  BY <1>2 DEF Dropped, Spares, Resting
<1>3. CASE BeginRecovery(c)
  BY <1>3, BeginRecoveryShape DEF Spares
<1>4. CASE RecoveryStep(c)
  BY <1>4, RecoveryIsGentle DEF Home
<1>5. QED
  BY <1>1, <1>2, <1>3, <1>4 DEF Moved

LEMMA NextKeepsHomeward ==
  ASSUME TypeOK, Rooms, Waits, Homeward, Next
  PROVE  Homeward'
<1>. home' = home /\ EnginesOK
  BY TroubleStays, TypeParts DEF TypeOK
<1>1. HomeKnown'
  BY DEF Homeward, HomeKnown
<1>. SUFFICES ASSUME troubled' = {}
              PROVE  /\ Kept' /\ (Quiet' => AsBefore')
                     /\ \A e \in Engines : Remembers(e)'
                     /\ \A c \in Callers : Spares(c)'
  BY <1>1 DEF Homeward
<1>2. troubled = {}
  BY TroubleStays
<1>. /\ HomeKnown /\ Kept /\ (Quiet => AsBefore) /\ Home
     /\ \A e \in Engines : Remembers(e)
     /\ \A c \in Callers : Spares(c)
  BY <1>2 DEF Homeward, Home
<1>3. \A e \in Engines : SameRow(e) => Remembers(e)'
  BY DEF SameRow, Remembers
<1>4. ASSUME NEW e \in Engines, EngineStep(e)
      PROVE  /\ Kept' /\ (Quiet' => AsBefore')
             /\ \A o \in Engines : Remembers(o)'
             /\ \A c \in Callers : Spares(c)'
  <2>1. Kept' /\ (Quiet' => AsBefore')
    BY <1>2, <1>4, EngineKeepsDisplays, EnginesAreCallers
  <2>2. \A o \in Engines : Remembers(o)'
    BY <1>3, <1>4, OthersRows, EngineRemembers
  <2>3. \A c \in Callers : Spares(c)'
    BY <1>2, <1>4, EngineRecovery, SparesStays
  <2>4. QED
    BY <2>1, <2>2, <2>3
<1>5. ASSUME Start \/ Healing \/ Healed \/ Poll
      PROVE  /\ Kept' /\ (Quiet' => AsBefore')
             /\ \A o \in Engines : Remembers(o)'
             /\ \A c \in Callers : Spares(c)'
  <2>1. armed' = armed /\ pristine' = pristine
    BY <1>5 DEF Start, Healing, Healed, Poll, engineVars
  <2>2. UNCHANGED <<link, primary>> \/ Extend \/ RecoveryStep(Controller)
    BY <1>5 DEF Start, Healing, Healed, Poll, displayVars
  <2>3. Kept' /\ (AsBefore => AsBefore')
    BY <1>2, <2>2, SameDisplaysSameHome, ExtendKeeps, RecoveryIsGentle, EnginesAreCallers
  <2>4. \A o \in Engines : pc'[o] \in {"recover", "takeover"} => pc[o] \in {"recover", "takeover"}
    BY <1>5 DEF Start, Healing, Healed, Poll, Launches, Launched, At, engineVars, EnginesOK
  <2>5. \A o \in Engines : Remembers(o)'
    BY <2>1, <2>4 DEF Remembers
  <2>6. \A c \in Callers : Spares(c)'
    BY <1>2, <1>5, ControllerRecovery, SparesStays
  <2>7. QED
    BY <2>1, <2>3, <2>5, <2>6 DEF Quiet
<1>6. ASSUME (\E e \in Engines : Kill(e) \/ LaunchByHand(e)) \/ Flap \/ Done
      PROVE  /\ Kept' /\ (Quiet' => AsBefore')
             /\ \A o \in Engines : Remembers(o)'
             /\ \A c \in Callers : Spares(c)'
  <2>1. \A trouble : ~Suffers(trouble)
    BY DEF Suffers
  <2>2. (\E e \in Engines : LaunchByHand(e)) \/ Done
    BY <1>6, <2>1 DEF Kill, Flap
  <2>3. UNCHANGED <<link, primary, rec, armed, pristine>>
    BY <2>2 DEF LaunchByHand, Done, glassesVars, engineVars
  <2>4. \A o \in Engines : pc'[o] \in {"recover", "takeover"} => pc[o] \in {"recover", "takeover"}
    BY <2>2 DEF LaunchByHand, Launched, At, Done, engineVars, EnginesOK
  <2>5. Kept' /\ (AsBefore => AsBefore')
    BY <2>3, SameDisplaysSameHome
  <2>6. QED
    BY <2>3, <2>4, <2>5 DEF Quiet, Remembers, Spares
<1>7. QED
  BY <1>4, <1>5, <1>6 DEF Next

LEMMA HomewardCorrect == Spec => [](TypeOK /\ Rooms /\ Waits /\ Homeward)
<1>1. Init => Homeward
  <2>. SUFFICES ASSUME Init PROVE Homeward
    OBVIOUS
  <2>1. link \in Worlds /\ primary \in Plain \cup Tcl /\ link[primary] = "attached"
        /\ home = [on |-> Attached, chief |-> primary] /\ primary \in Display
    BY DEF Init, Display
  <2>2. \A v \in Virtual : link[v] = "unplugged"
    BY <2>1, BootAssumption
  <2>3. HomeKnown
    BY <2>1, <2>2 DEF HomeKnown, Attached
  <2>4. Kept /\ AsBefore
    BY <2>1, <2>2 DEF Kept, AsBefore, Attached
  <2>5. \A e \in Engines : Remembers(e)
    BY DEF Init, Remembers
  <2>6. \A c \in Callers : Spares(c)
    BY DEF Init, Spares, Resting
  <2>7. QED
    BY <2>3, <2>4, <2>5, <2>6 DEF Homeward
<1>2. TypeOK /\ Rooms /\ Waits /\ Homeward /\ [Next]_vars => Homeward'
  <2>. SUFFICES ASSUME TypeOK, Rooms, Waits, Homeward, [Next]_vars PROVE Homeward'
    OBVIOUS
  <2>1. CASE UNCHANGED vars
    BY <2>1 DEF vars, glassesVars, engineVars, historyVars, Homeward, HomeKnown, Kept, AsBefore, Quiet,
                Remembers, Spares, Attached
  <2>2. CASE Next
    BY <2>2, NextKeepsHomeward
  <2>3. QED
    BY <2>1, <2>2
<1>3. QED
  BY <1>1, <1>2, WaitsCorrect, PTL DEF Spec

(***************************************************************************)
(* Whatever way the engines ended, and whatever the recoveries did          *)
(* meanwhile, the displays of before are attached, no virtual one is and    *)
(* the primary is the old one, unless Windows refused, an engine was killed *)
(* or a restore failed.                                                     *)
(***************************************************************************)
THEOREM DisplaysComeHome == Spec => []HomeAgain
<1>1. TypeOK /\ Rooms /\ Homeward => HomeAgain
  <2>. SUFFICES ASSUME TypeOK, Rooms, Homeward, troubled = {}, \A e \in Engines : ~Alive(e)
                PROVE  home.on \subseteq Attached /\ Attached \cap Virtual = {} /\ primary = home.chief
    BY DEF HomeAgain
  <2>1. Quiet
    BY DEF Rooms, Room, Quiet, Alive, Armed
  <2>2. AsBefore
    BY <2>1 DEF Homeward
  <2>3. QED
    BY <2>2 DEF AsBefore, Attached
<1>2. QED
  BY <1>1, HomewardCorrect, PTL

-----------------------------------------------------------------------------
(***************************************************************************)
(* The glasses are found.                                                   *)
(***************************************************************************)
\* Nothing is plugged in or out; glasses that are on the desktop stay there.
SamePlugs == \A d \in Display \ Virtual : link'[d] = "unplugged" <=> link[d] = "unplugged"
GlassesStay == \A d \in Branded : link'[d] \in {link[d], "attached"}

LEMMA DesktopKeepsPlugs ==
  ASSUME NEW displays \in SUBSET Display, NEW chief, Desktop(displays, chief),
         \A d \in displays : link[d] # "unplugged" \/ d \in Virtual
  PROVE  SamePlugs /\ ((\A d \in Branded : link[d] = "attached" => d \in displays) => GlassesStay)
<1>1. link' = [d \in Display |->
                IF d \in displays THEN "attached"
                ELSE IF link[d] # "attached" THEN link[d]
                ELSE IF d \in Virtual THEN "unplugged" ELSE "detached"]
  BY Desktop(displays, chief) DEF Desktop
<1>2. SamePlugs
  BY <1>1 DEF SamePlugs
<1>3. ASSUME \A d \in Branded : link[d] = "attached" => d \in displays
      PROVE  GlassesStay
  BY <1>1, <1>3 DEF GlassesStay, Display
<1>4. QED
  BY <1>2, <1>3

LEMMA RecoveryKeepsPlugs ==
  ASSUME TypeOK, Waits, troubled' = {}, NEW c \in Callers, RecoveryStep(c)
  PROVE  SamePlugs /\ (rec[c].pc # "undo" => GlassesStay)
<1>. /\ rec \in [Callers -> Recovery] /\ link \in [Display -> Link] /\ Search(c)
  BY DEF TypeOK, GlassesTypeOK, Waits
<1>0. ~Refused
  BY DEF Refused, Suffers
<1>. DEFINE Steady == SamePlugs /\ GlassesStay
<1>1. UNCHANGED link => Steady
  BY DEF SamePlugs, GlassesStay
<1>2. ASSUME NEW d \in Display, link[d] \in {"detached", "hidden"}, Attach(d)
      PROVE  Steady
  <2>1. Attached \cup {d} \in SUBSET Display /\ Desktop(Attached \cup {d}, primary)
    BY <1>2, AttachedIsDisplay DEF Attach
  <2>2. /\ \A o \in Attached \cup {d} : link[o] # "unplugged"
        /\ \A o \in Branded : link[o] = "attached" => o \in Attached \cup {d}
    BY <1>2 DEF Attached, Display
  <2>3. QED
    BY <2>1, <2>2, DesktopKeepsPlugs
<1>. HIDE DEF Steady
<1>3. CASE Stage(c) \/ AwaitAttach(c) \/ QueryPaths(c) \/ NoneLeft(c) \/ VerifyPath(c)
  BY <1>1, <1>3 DEF Stage, AwaitAttach, QueryPaths, NoneLeft, VerifyPath, Steady
<1>4. CASE Commit(c)
  <2>1. UNCHANGED link \/ (link[rec[c].target] = "detached" /\ Attach(rec[c].target))
    BY <1>4 DEF Commit
  <2>2. rec[c].target \in Display
    BY <1>4 DEF Commit, Search, Aimed, Display
  <2>3. QED
    BY <1>1, <1>2, <2>1, <2>2 DEF Steady
<1>5. CASE ApplyPath(c)
  <2>1. PICK d \in Candidates(c) : UNCHANGED link \/ (link[d] \in {"detached", "hidden"} /\ Attach(d))
    BY <1>5, ApplyPathShape
  <2>2. d \in Display
    BY DEF Candidates, Display, Search
  <2>3. QED
    BY <1>1, <1>2, <2>1, <2>2 DEF Steady
<1>6. CASE UndoPath(c)
  <2>. DEFINE Before == {d \in rec[c].before : link[d] # "unplugged"}
  <2>1. rec[c].pc = "undo" /\ Desktop(Before, primary)
    BY <1>0, <1>6, UndoPathShape
  <2>2. Before \in SUBSET Display /\ \A d \in Before : link[d] # "unplugged"
    BY DEF Recovery
  <2>. HIDE DEF Before
  <2>3. QED
    BY <2>1, <2>2, DesktopKeepsPlugs
<1>7. QED
  BY <1>3, <1>4, <1>5, <1>6 DEF RecoveryStep, Steady

LEMMA NextKeepsPlugs ==
  ASSUME TypeOK, Rooms, Waits, Next, troubled' = {}
  PROVE  SamePlugs /\ ((\A c \in Callers : rec[c].pc # "undo") => GlassesStay)
<1>. /\ link \in [Display -> Link] /\ EnginesOK
  BY TypeParts DEF TypeOK, GlassesTypeOK
<1>0. \A trouble : ~Suffers(trouble)
  BY DEF Suffers
<1>. DEFINE Steady == SamePlugs /\ GlassesStay
<1>1. UNCHANGED link => Steady
  BY DEF SamePlugs, GlassesStay
<1>2. ASSUME NEW displays \in SUBSET Display, NEW chief, Desktop(displays, chief),
             \A d \in displays : link[d] # "unplugged" \/ d \in Virtual,
             \A d \in Branded : link[d] = "attached" => d \in displays
      PROVE  Steady
  BY <1>2, DesktopKeepsPlugs
<1>. HIDE DEF Steady
<1>3. \A d \in Branded : d \in Display /\ d \notin Virtual /\ d # Laptop
  BY BootAssumption, GlassesAssumption DEF Display
<1>4. ASSUME NEW e \in Engines, Restore(e) PROVE Steady
  <2>. DEFINE Back == (Attached \cup {d \in pristine[e].on : link[d] # "unplugged"}) \ Virtual
  <2>1. Desktop(Back, pristine[e].chief)
    BY <1>4 DEF Restore
  <2>2. Back \in SUBSET Display /\ \A d \in Back : link[d] # "unplugged"
    BY AttachedIsDisplay DEF EnginesOK, Arrangements, Attached
  <2>3. \A d \in Branded : link[d] = "attached" => d \in Back
    BY <1>3 DEF Attached
  <2>. HIDE DEF Back
  <2>4. QED
    BY <1>2, <2>1, <2>2, <2>3
<1>5. ASSUME NEW centre, Desktop((Attached \ {Laptop}) \cup Virtual, centre) PROVE Steady
  <2>. DEFINE Taken == (Attached \ {Laptop}) \cup Virtual
  <2>1. /\ Desktop(Taken, centre) /\ Taken \in SUBSET Display
        /\ \A d \in Taken : link[d] # "unplugged" \/ d \in Virtual
    BY <1>5, AttachedIsDisplay DEF Attached, Display
  <2>2. \A d \in Branded : link[d] = "attached" => d \in Taken
    BY <1>3 DEF Attached
  <2>. HIDE DEF Taken
  <2>3. QED
    BY <1>2, <2>1, <2>2
<1>6. ASSUME Extend PROVE Steady
  <2>. DEFINE Every == {d \in Display : link[d] # "unplugged"}
  <2>1. /\ Desktop(Every, primary) /\ Every \in SUBSET Display
        /\ \A d \in Every : link[d] # "unplugged"
        /\ \A d \in Branded : link[d] = "attached" => d \in Every
    BY <1>3, <1>6 DEF Extend
  <2>. HIDE DEF Every
  <2>2. QED
    BY <1>2, <2>1
<1>7. \A c \in Callers : RecoveryStep(c) => SamePlugs /\ (rec[c].pc # "undo" => GlassesStay)
  BY RecoveryKeepsPlugs
<1>8. ASSUME NEW e \in Engines, EngineStep(e)
      PROVE  Steady \/ RecoveryStep(e)
  <2>1. CASE Finish(e) \/ Unwind(e)
    BY <1>0, <1>1, <1>4, <2>1 DEF Finish, Unwind, displayVars
  <2>2. CASE TakeOver(e)
    BY <1>1, <1>5, <2>2 DEF TakeOver
  <2>3. CASE Recovering(e)
    BY <2>3 DEF Recovering
  <2>4. CASE Args(e) \/ Guard(e) \/ Inputs(e) \/ Snapshot(e) \/ Rescan(e) \/ Select(e) \/ BeginPass(e)
             \/ EndPass(e) \/ FallBack(e) \/ Window(e) \/ Bind(e) \/ Heartbeat(e)
    BY <1>1, <2>4 DEF Args, Guard, Inputs, Snapshot, Rescan, Select, BeginPass, EndPass, FallBack, Window,
                      Bind, Heartbeat, displayVars, glassesVars
  <2>5. QED
    BY <1>8, <2>1, <2>2, <2>3, <2>4 DEF EngineStep
<1>9. Start \/ Healing \/ Healed \/ Poll => Steady \/ RecoveryStep(Controller)
  BY <1>1, <1>6 DEF Start, Healing, Healed, Poll, displayVars
<1>10. (\E e \in Engines : Kill(e) \/ LaunchByHand(e)) \/ Flap \/ Done => Steady
  BY <1>0, <1>1 DEF Kill, LaunchByHand, Flap, Done, glassesVars
<1>11. QED
  BY <1>7, <1>8, <1>9, <1>10, EnginesAreCallers DEF Next, Steady

\* A recovery that has the glasses in reach keeps them there or brings them in.
LEMMA RecoveryStepFinds ==
  ASSUME TypeOK, Waits, Wanted, troubled' = {}, SamePlugs, GlassesStay,
         NEW c \in Callers, RecoveryFinds(c), RecoveryStep(c)
  PROVE  RecoveryFinds(c)'
<1>. /\ rec \in [Callers -> Recovery] /\ link \in [Display -> Link] /\ Search(c)
     /\ NoTelevision /\ \E d \in Branded : link[d] # "unplugged"
  BY DEF TypeOK, GlassesTypeOK, Waits, Wanted
<1>0. ~Refused
  BY DEF Refused, Suffers
<1>. DEFINE On == GlassesOn'
<1>1. GlassesOn => On
  BY DEF GlassesOn, GlassesStay
<1>2. \A d \in Branded : link[d] = "attached" => On
  BY <1>1 DEF GlassesOn
<1>3. ASSUME NEW d \in Display, Attach(d) PROVE link'[d] = "attached"
  BY <1>3 DEF Attach, Desktop
<1>. HIDE DEF On
<1>4. CASE Stage(c)
  <2>1. rec' = [rec EXCEPT ![c].pc = "commit"] /\ rec[c].pc = "stage" /\ link' = link
    BY <1>0, <1>4 DEF Stage, Goes
  <2>2. rec'[c].pc = "commit" /\ rec'[c].target = rec[c].target
    BY <2>1 DEF Recovery
  <2>3. QED
    BY <2>1, <2>2 DEF RecoveryFinds
<1>5. CASE Commit(c)
  <2>1. /\ rec' = [rec EXCEPT ![c].pc = "wait"] /\ rec[c].pc = "commit"
        /\ IF link[rec[c].target] = "detached" THEN Attach(rec[c].target) ELSE link' = link
    BY <1>0, <1>5 DEF Commit, Goes
  <2>2. rec'[c].pc = "wait" /\ rec'[c].target = rec[c].target
    BY <2>1 DEF Recovery
  <2>3. rec[c].target \in Branded /\ link[rec[c].target] \in {"detached", "attached"}
    BY <2>1 DEF RecoveryFinds
  <2>4. link'[rec[c].target] = "attached"
    BY <1>3, <2>1, <2>3 DEF Display
  <2>5. QED
    BY <2>2, <2>3, <2>4 DEF RecoveryFinds
<1>6. CASE AwaitAttach(c)
  <2>1. rec[c].target \in Branded /\ link[rec[c].target] = "attached"
    BY <1>6 DEF AwaitAttach, RecoveryFinds
  <2>2. rec'[c].pc = "done" /\ On
    BY <1>2, <1>6, <2>1, AwaitAttachShape
  <2>3. QED
    BY <2>2 DEF RecoveryFinds, On
<1>7. CASE QueryPaths(c)
  <2>1. /\ link' = link /\ rec'[c].pc = "next"
        /\ rec'[c].left = {d \in Branded \cup Tcl : link[d] \in {"detached", "hidden"}}
    BY <1>0, <1>7, QueryPathsShape
  <2>2. \A d \in Branded : link[d] \in Link
    BY DEF Display
  <2>3. On \/ \A d \in Branded : link'[d] # "unplugged" => d \in rec'[c].left
    BY <1>2, <2>1, <2>2 DEF Link
  <2>4. QED
    BY <2>1, <2>3 DEF RecoveryFinds, On
<1>8. CASE ApplyPath(c)
  <2>1. PICK d \in Candidates(c) :
          /\ rec'[c].left = rec[c].left \ {d}
          /\ \/ /\ rec'[c].pc = "next" /\ link' = link /\ link[d] \in {"attached", "unplugged"}
             \/ /\ rec'[c].pc = "verify" /\ rec'[c].target = d
                /\ link[d] \in {"detached", "hidden"} /\ Attach(d)
    BY <1>0, <1>8, ApplyPathShape
  <2>2. d \in Branded \cup Tcl /\ d \in Display
    BY DEF Candidates, Search, Display
  <2>3. GlassesOn \/ \A o \in Branded : link[o] # "unplugged" => o \in rec[c].left
    BY <1>8 DEF ApplyPath, RecoveryFinds
  <2>4. CASE rec'[c].pc = "verify"
    <3>1. rec'[c].target = d /\ link[d] \in {"detached", "hidden"} /\ Attach(d)
      BY <2>1, <2>4
    <3>2. d \in Branded
      BY <2>2, <3>1 DEF NoTelevision
    <3>3. link'[d] = "attached"
      BY <1>3, <2>2, <3>1
    <3>4. QED
      BY <2>4, <3>1, <3>2, <3>3 DEF RecoveryFinds
  <2>5. CASE rec'[c].pc = "next" /\ link' = link /\ link[d] \in {"attached", "unplugged"}
    <3>1. CASE On
      BY <2>5, <3>1 DEF RecoveryFinds, On
    <3>2. CASE ~On
      <4>1. \A o \in Branded : link[o] # "unplugged" => o \in rec[c].left
        BY <1>1, <2>3, <3>2
      <4>2. d \in Branded
        BY <4>1 DEF Candidates
      <4>3. link[d] = "unplugged"
        BY <1>2, <2>5, <3>2, <4>2
      <4>4. \A o \in Branded : link'[o] # "unplugged" => o \in rec'[c].left
        BY <2>1, <2>5, <4>1, <4>3
      <4>5. QED
        BY <2>5, <4>4 DEF RecoveryFinds
    <3>3. QED
      BY <3>1, <3>2
  <2>6. QED
    BY <2>1, <2>4, <2>5
<1>9. CASE NoneLeft(c)
  <2>1. rec' = [rec EXCEPT ![c].pc = "done"] /\ rec[c].pc = "next" /\ rec[c].left = {}
    BY <1>9 DEF NoneLeft, Goes
  <2>2. GlassesOn
    BY <2>1 DEF RecoveryFinds
  <2>3. rec'[c].pc = "done"
    BY <2>1 DEF Recovery
  <2>4. QED
    BY <1>1, <2>2, <2>3 DEF RecoveryFinds, On
<1>10. CASE VerifyPath(c)
  <2>1. rec[c].target \in Branded /\ link[rec[c].target] = "attached"
    BY <1>10 DEF VerifyPath, RecoveryFinds
  <2>2. rec'[c].pc = "done" /\ On
    BY <1>2, <1>10, <2>1, VerifyPathShape DEF is_glasses_display
  <2>3. QED
    BY <2>2 DEF RecoveryFinds, On
<1>11. CASE UndoPath(c)
  BY <1>11 DEF UndoPath, RecoveryFinds
<1>12. QED
  BY <1>4, <1>5, <1>6, <1>7, <1>8, <1>9, <1>10, <1>11 DEF RecoveryStep

LEMMA FindsStays ==
  ASSUME TypeOK, Waits, Wanted, troubled' = {}, SamePlugs, GlassesStay,
         NEW c \in Callers, RecoveryFinds(c), Left(c) \/ Dropped(c) \/ Moved(c)
  PROVE  RecoveryFinds(c)'
<1>. /\ rec \in [Callers -> Recovery] /\ Search(c) /\ NoTelevision
  BY DEF TypeOK, GlassesTypeOK, Waits, Wanted
<1>0. GlassesOn => GlassesOn'
  BY DEF GlassesOn, GlassesStay
<1>1. CASE Left(c)
  <2>1. \A d \in Branded : link'[d] # "unplugged" => link[d] # "unplugged"
    BY GlassesAssumption DEF SamePlugs, Display
  <2>2. QED
    BY <1>0, <1>1, <2>1 DEF Left, RecoveryFinds, GlassesStay
<1>2. CASE Dropped(c)
  BY <1>2 DEF Dropped, RecoveryFinds, Resting
<1>3. CASE BeginRecovery(c)
  <2>1. \A d \in DetachedGlasses : d \in Branded /\ link[d] = "detached"
    BY DetachedGlassesAreDetached DEF NoTelevision
  <2>2. QED
    BY <1>3, <2>1, BeginRecoveryShape DEF RecoveryFinds, GlassesStay
<1>4. CASE RecoveryStep(c)
  BY <1>4, RecoveryStepFinds
<1>5. QED
  BY <1>1, <1>2, <1>3, <1>4 DEF Moved

\* With the glasses on the desktop there is something to choose, and it is the glasses.
LEMMA GlassesAttachedAreBranded ==
  ASSUME NoTelevision
  PROVE  GlassesAttached \subseteq Branded /\ (GlassesOn <=> GlassesAttached # {})
BY DEF NoTelevision, GlassesAttached, GlassesOn, Attached, is_glasses_display, Display

LEMMA EngineStepFinds ==
  ASSUME TypeOK, Rooms, Waits, Homeward, Wanted, troubled' = {}, GlassesStay,
         NEW e \in Engines, EngineFinds(e), RecoveryFinds(e), EngineStep(e)
  PROVE  EngineFinds(e)'
<1>. /\ EnginesOK /\ NoTelevision /\ troubled = {} /\ Room(e)
     /\ GlassesAttached \subseteq Branded /\ (GlassesOn <=> GlassesAttached # {})
  BY TypeParts, GlassesAttachedAreBranded DEF TypeOK, Wanted, Rooms
<1>0. GlassesOn => GlassesOn'
  BY DEF GlassesOn, GlassesStay
<1>. USE DEF EnginesOK, At
<1>1. \A why : Fails(e, why) =>
        failure'[e] = why /\ pc'[e] \in {"unwind", "ended"}
  BY DEF Fails
<1>14. UNCHANGED failure \/ failure' = [failure EXCEPT ![e] = "fault"] => failure'[e] # "no glasses"
  BY DEF EngineFinds
<1>15. Breaks(e) => failure' = [failure EXCEPT ![e] = "fault"] /\ pc'[e] \in {"unwind", "ended"}
  BY DEF Breaks, Fails
<1>2. Breaks(e) => failure'[e] # "no glasses" /\ pc'[e] \in {"unwind", "ended"}
  BY <1>14, <1>15
<1>16. Fails(e, "second") \/ Fails(e, "fault") =>
         failure'[e] # "no glasses" /\ pc'[e] \in {"unwind", "ended"}
  BY DEF Fails
<1>3. CASE Args(e) \/ Guard(e) \/ Window(e) \/ Bind(e) \/ Heartbeat(e)
  <2>1. UNCHANGED <<options, chosen>>
    BY <1>3 DEF Args, Guard, Window, Bind, Heartbeat, engineVars
  <2>2. failure'[e] # "no glasses"
    BY <1>2, <1>14, <1>16, <1>3 DEF Args, Guard, Window, Bind, Heartbeat, engineVars
  <2>4. pc'[e] \notin {"wait", "waiting", "takeover", "select"}
    BY <1>1, <1>2, <1>3 DEF Args, Guard, Window, Bind, Heartbeat, engineVars
  <2>3. QED
    BY <2>1, <2>2, <2>4 DEF EngineFinds
<1>4. CASE Inputs(e)
  BY <1>2, <1>4 DEF Inputs, EngineFinds
<1>5. CASE Snapshot(e)
  <2>1. UNCHANGED <<options, chosen>> /\ failure'[e] # "no glasses"
    BY <1>2, <1>5 DEF Snapshot, EngineFinds
  <2>2. pc'[e] \notin {"wait", "waiting", "select"} /\ (pc'[e] = "takeover" => options[e].given \/ GlassesOn)
    BY <1>2, <1>5 DEF Snapshot
  <2>3. QED
    BY <1>0, <2>1, <2>2 DEF EngineFinds
<1>6. CASE Recovering(e)
  BY <1>0, <1>6 DEF Recovering, engineVars, EngineFinds
<1>7. CASE Rescan(e)
  <2>1. GlassesOn
    BY <1>7 DEF Rescan, RecoveryFinds
  <2>2. pc'[e] = "takeover" /\ UNCHANGED <<failure, options, chosen>>
    BY <1>7, <2>1 DEF Rescan
  <2>3. QED
    BY <1>0, <2>1, <2>2 DEF EngineFinds
<1>8. CASE TakeOver(e)
  BY <1>0, <1>2, <1>8 DEF TakeOver, EngineFinds
<1>9. CASE Select(e)
  <2>1. options' = options
    BY <1>9 DEF Select
  <2>2. CASE options[e].given
    <3>1. \A d : Renders(e, d) => pc'[e] = "window"
      BY DEF Renders
    <3>2. failure'[e] # "no glasses" /\ pc'[e] \in {"window", "unwind", "ended"}
      BY <1>2, <1>9, <1>14, <1>16, <2>2, <3>1 DEF Select
    <3>3. QED
      BY <2>1, <2>2, <3>2 DEF EngineFinds
  <2>3. CASE ~options[e].given
    <3>1. Automatic # {} /\ (options[e].workspace => Automatic \subseteq Branded)
      <4>1. CASE options[e].workspace
        BY <1>9, <2>3, <4>1 DEF Select, EngineFinds, Automatic
      <4>2. CASE ~options[e].workspace
        <5>1. Inside(e) /\ ~armed[e]
          BY <1>9, <4>2 DEF Select, Inside, Alive, Room
        <5>2. Quiet
          BY <5>1, OthersUnarmed DEF Quiet
        <5>3. home.chief \in Attached \ Virtual
          BY <5>2 DEF Homeward, HomeKnown, AsBefore
        <5>4. QED
          BY <4>2, <5>3 DEF Automatic
      <4>3. QED
        BY <4>1, <4>2
    <3>2. \E d \in Automatic : Renders(e, d)
      BY <1>9, <2>3, <3>1 DEF Select
    <3>3. failure' = failure
      BY <1>9, <2>3, <3>1 DEF Select
    <3>4. pc'[e] = "window" /\ chosen'[e] \in Automatic
      BY <3>2 DEF Renders
    <3>5. QED
      BY <2>1, <3>1, <3>3, <3>4 DEF EngineFinds
  <2>4. QED
    BY <2>2, <2>3
<1>10. CASE BeginPass(e) \/ EndPass(e) \/ FallBack(e)
  BY <1>10 DEF BeginPass, EndPass, FallBack, EngineFinds
<1>11. CASE Finish(e) \/ Unwind(e)
  <2>1. chosen'[e] = NoDisplay /\ pc'[e] = "ended"
    BY <1>11 DEF Finish, Unwind, Ends
  <2>2. failure'[e] # "no glasses"
    BY <1>11 DEF Finish, Unwind, EngineFinds
  <2>3. QED
    BY <2>1, <2>2 DEF EngineFinds
<1>12. QED
  BY <1>3, <1>4, <1>5, <1>6, <1>7, <1>8, <1>9, <1>10, <1>11 DEF EngineStep

LEMMA NextKeepsFound ==
  ASSUME TypeOK, Rooms, Waits, Homeward, Found, Next
  PROVE  Found'
<1>. SUFFICES ASSUME Wanted'
              PROVE  /\ \A c \in Callers : RecoveryFinds(c)'
                     /\ \A e \in Engines : EngineFinds(e)'
  BY DEF Found
<1>. EnginesOK /\ troubled' = {}
  BY TypeParts DEF TypeOK, Wanted
<1>1. SamePlugs
  BY NextKeepsPlugs
<1>2. Wanted
  <2>1. \A d \in Branded \cup Tcl : d \in Display \ Virtual
    BY GlassesAssumption DEF Display
  <2>2. troubled = {}
    BY TroubleStays
  <2>3. QED
    BY <1>1, <2>1, <2>2 DEF Wanted, NoTelevision, SamePlugs
<1>3. (\A c \in Callers : RecoveryFinds(c)) /\ \A e \in Engines : EngineFinds(e)
  BY <1>2 DEF Found
<1>4. GlassesStay
  BY <1>3, NextKeepsPlugs DEF RecoveryFinds
<1>5. \A c \in Callers : Left(c) \/ Dropped(c) \/ Moved(c) => RecoveryFinds(c)'
  BY <1>1, <1>2, <1>3, <1>4, FindsStays
<1>6. \A e \in Engines : SameRow(e) => EngineFinds(e)'
  <2>1. GlassesOn => GlassesOn'
    BY <1>4 DEF GlassesOn, GlassesStay
  <2>2. QED
    BY <1>3, <2>1 DEF SameRow, EngineFinds
<1>7. ASSUME NEW e \in Engines, EngineStep(e)
      PROVE  /\ \A c \in Callers : RecoveryFinds(c)'
             /\ \A o \in Engines : EngineFinds(o)'
  <2>1. \A c \in Callers : RecoveryFinds(c)'
    BY <1>5, <1>7, EngineRecovery
  <2>2. EngineFinds(e)'
    BY <1>2, <1>3, <1>4, <1>7, EngineStepFinds, EnginesAreCallers
  <2>3. \A o \in Engines \ {e} : EngineFinds(o)'
    BY <1>6, <1>7, OthersRows
  <2>4. QED
    BY <2>1, <2>2, <2>3
<1>8. ASSUME NEW e \in Engines, Launched(e), UNCHANGED <<chosen, failure, passes, pristine, armed>>
      PROVE  \A o \in Engines : EngineFinds(o)'
  <2>1. \A o \in Engines \ {e} : SameRow(o)
    BY <1>8 DEF Launched, At, SameRow, EnginesOK
  <2>2. chosen'[e] = NoDisplay /\ failure'[e] # "no glasses" /\ pc'[e] = "args"
    BY <1>3, <1>8 DEF Launched, At, Rooms, Room, EnginesOK, EngineFinds
  <2>3. QED
    BY <1>6, <2>1, <2>2 DEF EngineFinds
<1>9. ASSUME Start \/ Healing \/ Healed \/ Poll
      PROVE  /\ \A c \in Callers : RecoveryFinds(c)'
             /\ \A o \in Engines : EngineFinds(o)'
  <2>1. \A c \in Callers : RecoveryFinds(c)'
    BY <1>5, <1>9, ControllerRecovery
  <2>2. \/ UNCHANGED engineVars
        \/ \E e \in Engines : Launched(e) /\ UNCHANGED <<chosen, failure, passes, pristine, armed>>
    BY <1>9 DEF Start, Healing, Healed, Poll, Launches, engineVars
  <2>3. QED
    BY <1>6, <1>8, <2>1, <2>2, SameRowsAreSame
<1>10. ASSUME (\E e \in Engines : Kill(e) \/ LaunchByHand(e)) \/ Flap \/ Done
       PROVE  /\ \A c \in Callers : RecoveryFinds(c)'
              /\ \A o \in Engines : EngineFinds(o)'
  <2>1. (\E e \in Engines : LaunchByHand(e)) \/ Done
    BY <1>10 DEF Kill, Flap, Suffers
  <2>2. \A c \in Callers : RecoveryFinds(c)'
    BY <1>5, <1>10, OutsideRecovery
  <2>3. \/ UNCHANGED engineVars
        \/ \E e \in Engines : Launched(e) /\ UNCHANGED <<chosen, failure, passes, pristine, armed>>
    BY <2>1 DEF LaunchByHand, Done
  <2>4. QED
    BY <1>6, <1>8, <2>2, <2>3, SameRowsAreSame
<1>11. QED
  BY <1>7, <1>9, <1>10 DEF Next

(***************************************************************************)
(* With the glasses plugged in, however deeply disconnected, and no TCL     *)
(* display that could be taken for them, no engine left to choose gives up  *)
(* without them or renders elsewhere, unless Windows refuses or displays    *)
(* change meanwhile: whatever other engines, the controller and its         *)
(* recoveries do at the same time.                                          *)
(***************************************************************************)
THEOREM TheGlassesAreFound == Spec => []GlassesAreFound
<1>1. Init => Found
  BY EnginesAreCallers DEF Init, Found, RecoveryFinds, EngineFinds, Resting
<1>2. TypeOK /\ Rooms /\ Waits /\ Homeward /\ Found /\ [Next]_vars => Found'
  <2>. SUFFICES ASSUME TypeOK, Rooms, Waits, Homeward, Found, [Next]_vars PROVE Found'
    OBVIOUS
  <2>1. CASE UNCHANGED vars
    BY <2>1 DEF vars, glassesVars, engineVars, Found, Wanted, NoTelevision, RecoveryFinds, EngineFinds, GlassesOn
  <2>2. CASE Next
    BY <2>2, NextKeepsFound
  <2>3. QED
    BY <2>1, <2>2
<1>3. Found => GlassesAreFound
  BY DEF Found, Wanted, EngineFinds, GlassesAreFound
<1>4. QED
  BY <1>1, <1>2, <1>3, HomewardCorrect, PTL DEF Spec
=============================================================================
