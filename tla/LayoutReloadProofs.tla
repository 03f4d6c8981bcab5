-------------------------- MODULE LayoutReloadProofs --------------------------
(***************************************************************************)
(* No saved layout is forgotten by a running engine, and every reload is    *)
(* taken whole or undone, for any layouts, any number of displays and edits,*)
(* and whatever the driver and Windows do to the reloads.                   *)
(***************************************************************************)
EXTENDS LayoutReload, FiniteSetTheorems, SequenceTheorems, TLAPS

Beginning == {"connect", "connecting", "take over", "show", "watch"}
Attempting == {"resize", "plan", "place", "render", "bind"}
Looping == {"turn", "pings", "read", "shutdown"} \cup Attempting \cup Undoing

\* No remembered time is ahead of the file's.
Times ==
  /\ written \in Nat /\ seen \in Nat /\ read \in Nat
  /\ seen <= written /\ read <= written

\* An engine that starts has the file it loaded; a reload under way that read the time the file
\* has now read what the file has now; a watermark that is the file's time came with its layout.
Mark ==
  /\ Times
  /\ pc \in Beginning => layout = file
  /\ pc \in Attempting /\ read = written => candidate = file
  /\ pc \in Looping /\ seen = written => layout = file

LEMMA MarkInit == Init => Mark
BY DEF Init, Mark, Times, Beginning, Attempting, Looping, Undoing

\* The steps of the resize call, and what happens outside the engine, leave the watch alone.
LEMMA ElsewhereKeepsMark ==
  ASSUME Mark, UNCHANGED <<written, seen, read, file, layout, candidate, pc>>
  PROVE  Mark'
BY DEF Mark, Times

LEMMA EditKeepsMark ==
  ASSUME EditsAtStart = FALSE, Mark, Edit
  PROVE  Mark'
<1>1. /\ written' = written + 1 /\ UNCHANGED <<seen, read, layout, candidate, pc>>
      /\ pc \notin Starting
  BY EditsAtStart = FALSE, Edit DEF Edit, watchVars, sceneVars, reloadVars
<1>2. Times' /\ seen' # written' /\ read' # written'
  BY <1>1 DEF Mark, Times
<1>3. pc' \notin Beginning
  BY <1>1 DEF Beginning, Starting
<1>4. QED
  BY <1>2, <1>3 DEF Mark

LEMMA StartKeepsMark ==
  ASSUME Mark, Start
  PROVE  Mark'
<1>. USE DEF Mark, Times, Beginning, Attempting, Looping, Undoing, StartFails
<1>1. CASE LoadAtStart
  <2>1. UNCHANGED <<file, written, seen, read>> /\ pc' \in {"connect", "ended"}
        /\ (pc' = "connect" => layout' = file)
    BY <1>1 DEF LoadAtStart, fileVars, watchVars
  <2>2. QED
    BY <2>1
<1>2. CASE Connect \/ Connected \/ ConnectFails \/ TakeOver \/ Show
  <2>1. UNCHANGED <<file, written, seen, read, layout>> /\ pc \in Beginning
        /\ pc' \in Beginning \cup {"ended"}
    BY <1>2 DEF Connect, Connected, ConnectFails, TakeOver, Show, fileVars, watchVars, sceneVars
  <2>2. QED
    BY <2>1
<1>3. CASE Watch
  <2>1. UNCHANGED <<file, written, read, layout>> /\ seen' = written /\ pc = "watch" /\ pc' = "turn"
    BY <1>3 DEF Watch, fileVars, sceneVars
  <2>2. QED
    BY <2>1
<1>4. QED
  BY Start, <1>1, <1>2, <1>3 DEF Start

\* A reload commits the layout and its time together, and in no other step touches either.
LEMMA ReloadKeepsMark ==
  ASSUME Mark, Reload
  PROVE  Mark'
<1>. USE DEF Mark, Times, Beginning, Attempting, Looping, Undoing
<1>1. CASE SkipReload
  BY <1>1 DEF SkipReload, fileVars, watchVars, sceneVars, reloadVars, Turning
<1>2. CASE Check
  <2>1. UNCHANGED <<file, written, seen, layout>> /\ read' = written /\ pc = "turn" /\ pc' = "read"
    BY <1>2 DEF Check, Turning, fileVars, sceneVars
  <2>2. QED
    BY <2>1
<1>3. CASE ReadLayout
  <2>1. UNCHANGED <<file, written, seen, read, layout>> /\ pc = "read"
        /\ (pc' = "undo" \/ (candidate' = file /\ pc' \in {"plan", "resize"}))
    BY <1>3 DEF ReadLayout, fileVars, watchVars, sceneVars
  <2>2. QED
    BY <2>1
<1>4. CASE Resized \/ Plan \/ Place \/ Render
  <2>1. UNCHANGED <<file, written, seen, read, layout, candidate>> /\ pc \in Attempting
        /\ pc' \in Attempting \cup {"undo"}
    BY <1>4 DEF Resized, Plan, Place, Render, fileVars, watchVars, sceneVars, reloadVars
  <2>2. QED
    BY <2>1
<1>5. CASE Bind
  <2>1. UNCHANGED <<file, written, read, candidate>> /\ pc = "bind"
        /\ \/ layout' = candidate /\ seen' = read /\ pc' = "pings"
           \/ UNCHANGED <<layout, seen>> /\ pc' = "undo"
    BY <1>5 DEF Bind, fileVars, reloadVars
  <2>2. QED
    BY <2>1
<1>6. QED
  BY Reload, <1>1, <1>2, <1>3, <1>4, <1>5 DEF Reload

LEMMA UndoKeepsMark ==
  ASSUME Mark, UndoReload \/ CheckPings \/ Shutdown
  PROVE  Mark'
<1>1. UNCHANGED <<file, written, seen, read, layout>> /\ pc \in Looping
      /\ pc' \in {"pings", "undo resize", "undo place", "undo bind", "turn", "shutdown", "ended"}
  BY UndoReload \/ CheckPings \/ Shutdown
     DEF UndoReload, Undo, UndoResize, UndoPlace, UndoBind, CheckPings, Shutdown, fileVars, watchVars,
         sceneVars, reloadVars, Looping, Undoing
<1>2. QED
  BY <1>1 DEF Mark, Times, Beginning, Attempting, Looping, Undoing

LEMMA MarkStep ==
  ASSUME EditsAtStart = FALSE
  PROVE  Mark /\ [Next]_vars => Mark'
<1>. SUFFICES ASSUME Mark, [Next]_vars PROVE Mark'
  OBVIOUS
<1>1. CASE Edit
  BY <1>1, EditsAtStart = FALSE, EditKeepsMark
<1>2. CASE Start
  BY <1>2, StartKeepsMark
<1>3. CASE Reload
  BY <1>3, ReloadKeepsMark
<1>4. CASE UndoReload \/ CheckPings \/ Shutdown
  BY <1>4, UndoKeepsMark
<1>5. CASE UNCHANGED <<written, seen, read, file, layout, candidate, pc>>
  BY <1>5, ElsewhereKeepsMark
<1>6. QED
  BY <1>1, <1>2, <1>3, <1>4, <1>5
     DEF Next, Engine, Outside, AskReload, AskQuit, vars, fileVars, watchVars, sceneVars, reloadVars

\* If the file is not written while the engine starts, the layout of every saved file is loaded in
\* the end: a watermark that says there is nothing new is never wrong, however many saves race the
\* reloads and however the reloads fail.
THEOREM SavedLayoutsAreSeen ==
  ASSUME EditsAtStart = FALSE
  PROVE  Spec => []WatermarkIsHonest
<1>1. Mark => WatermarkIsHonest
  BY DEF Mark, WatermarkIsHonest, Turning, Looping
<1>2. QED
  BY <1>1, MarkInit, MarkStep, EditsAtStart = FALSE, PTL DEF Spec

--------------------------------------------------------------------------------
(* A reload is taken whole or undone.  What the client tracks is in the     *)
(* driver and tracked once; what the last commit left is one layout's; and  *)
(* a reload remembers in done each part that it can no longer vouch for.    *)

Resizing == {"connecting", "resize", "undo resize"}
Committed == {"watch"} \cup {"turn", "pings"} \cup Reloading
Low == {i \in Index : i < MaximumDisplays}

\* If no removal is carried out and reported as failed.
Tracked == IsInjective(display_indices) /\ Range(display_indices) \subseteq driver

Called ==
  /\ pc \notin Resizing => call = NoCall
  /\ pc \in {"connecting", "undo resize"} => call.goal = Len(layout)

\* The displays of the layout in force exist, its desktops are configured, it is drawn.
InPlace == Count = Len(layout) /\ Range(captures) \subseteq driver
Configured == virtual_displays = workspace_plan
Drawn == shown = layout

\* What the last commit left.
Held ==
  /\ layout \in Layouts
  /\ captures \in Seq(Low) /\ IsInjective(captures) /\ Len(captures) = Len(layout)
  /\ workspace_plan = PlanDesktops(layout, captures)

Readied(l) ==
  /\ l \in Layouts /\ Count = Len(l)
  /\ reload_plan = PlanDesktops(l, display_indices)

Restorable ==
  /\ "displays" \notin done => InPlace
  /\ "plan" \notin done => Configured
  /\ "renderer" \notin done => Drawn

Began ==
  /\ pc \in Beginning => layout \in Layouts
  /\ pc \in {"take over", "show"} => Readied(layout)
  /\ pc = "show" => workspace_plan = reload_plan /\ Configured
  /\ pc = "watch" => InPlace /\ Configured /\ Drawn

Whole ==
  /\ pc \in Committed => Held
  /\ pc = "turn" => InPlace /\ Configured /\ Drawn
  /\ pc = "pings" => quit \/ (InPlace /\ Configured /\ Drawn)
  /\ pc \in {"read", "undo"} \cup Attempting => Restorable
  /\ pc = "read" => done = {}
  /\ pc = "resize" => "displays" \in done
  /\ pc \in {"resize", "plan"} => "plan" \notin done
  /\ pc \in Attempting => candidate \in Layouts
  /\ pc \in {"place", "render", "bind"} => Readied(candidate)
  /\ pc \in {"render", "bind"} => virtual_displays = reload_plan
  /\ pc = "bind" => shown = candidate
  /\ pc \in Undoing \ {"undo"} => quit \/ Drawn
  /\ pc \in {"undo place", "undo bind"} => Count = Len(layout)
  /\ pc = "undo bind" => InPlace /\ Configured

Transaction == TypeOK /\ Tracked /\ Called /\ Began /\ Whole

\* A plan has a desktop for every screen, of that screen's display.
LEMMA PlanShape ==
  ASSUME NEW l, NEW d
  PROVE  /\ DOMAIN PlanDesktops(l, d) = DOMAIN l
         /\ \A r \in DOMAIN l : PlanDesktops(l, d)[r].driver = d[r]
BY Zenon DEF PlanDesktops

LEMMA LayoutShape ==
  ASSUME NEW l \in Layouts \cup {NoLayout}
  PROVE  /\ l \in Seq(Int) /\ Len(l) \in 0 .. MaximumDisplays /\ DOMAIN l = 1 .. Len(l)
         /\ l \in Layouts => Len(l) > 0
<1>1. CASE l \in Layouts
  BY <1>1, LayoutAssumption
<1>2. CASE l = NoLayout
  <2>1. l \in Seq(Int) /\ Len(l) = 0
    BY <1>2, EmptySeq DEF NoLayout
  <2>2. DOMAIN l = 1 .. Len(l)
    BY <2>1, LenProperties
  <2>3. l \notin Layouts
    BY <2>1, LayoutAssumption
  <2>4. QED
    BY <2>1, <2>2, <2>3, VddAssumption
<1>3. QED
  BY <1>1, <1>2

Plans == Seq([driver : Index, x : -MaximumDisplays .. MaximumDisplays])

LEMMA PlanType ==
  ASSUME NEW l \in Layouts \cup {NoLayout}, NEW d \in Seq(Index), Len(l) = Len(d)
  PROVE  PlanDesktops(l, d) \in Plans
<1>. DEFINE center == SelectCenter(l, d)
            Left == {r \in DOMAIN l : r # center /\ l[r] < 0}
            Right == {r \in DOMAIN l : r # center /\ l[r] >= 0}
            Key(r) == <<l[r], d[r]>>
            L(r) == {s \in Left : SortsBefore(Key(r), Key(s))}
            R(r) == {s \in Right : SortsBefore(Key(s), Key(r))}
            Position(r) == CASE r = center -> 0
                             [] r \in Left -> -Cardinality(L(r))
                             [] r \in Right -> Cardinality(R(r))
<1>1. PlanDesktops(l, d) = [r \in 1 .. Len(l) |-> [driver |-> d[r], x |-> Position(r)]]
  <2>1. DOMAIN l = 1 .. Len(l)
    BY LayoutShape
  <2>2. QED
    BY <2>1, Zenon DEF PlanDesktops
<1>2. /\ Len(l) \in Nat /\ Len(l) <= MaximumDisplays /\ MaximumDisplays \in Nat
      /\ DOMAIN l = 1 .. Len(l) /\ l \in Seq(Int)
  BY LayoutShape, VddAssumption
<1>3. ASSUME NEW S \in SUBSET (1 .. Len(l))
      PROVE  Cardinality(S) \in 0 .. MaximumDisplays
  <2>1. IsFiniteSet(1 .. Len(l)) /\ Cardinality(1 .. Len(l)) <= MaximumDisplays
    <3>1. \A a, b \in Int : /\ IsFiniteSet(a .. b)
                            /\ Cardinality(a .. b) = IF a > b THEN 0 ELSE b - a + 1
      BY FS_Interval
    <3>2. 1 \in Int /\ Len(l) \in Int
      BY <1>2
    <3>3. IsFiniteSet(1 .. Len(l)) /\ Cardinality(1 .. Len(l)) = IF 1 > Len(l) THEN 0 ELSE Len(l) - 1 + 1
      BY <3>1, <3>2, Zenon
    <3>4. QED
      BY <3>3, <1>2
  <2>2. IsFiniteSet(S) /\ Cardinality(S) <= Cardinality(1 .. Len(l))
    BY <2>1, FS_Subset, Zenon
  <2>3. Cardinality(S) \in Nat /\ Cardinality(1 .. Len(l)) \in Nat
    BY <2>1, <2>2, FS_CardinalityType
  <2>4. QED
    BY <2>1, <2>2, <2>3, <1>2
<1>4. ASSUME NEW r \in 1 .. Len(l)
      PROVE  Position(r) \in -MaximumDisplays .. MaximumDisplays
  <2>1. Cardinality(L(r)) \in 0 .. MaximumDisplays /\ Cardinality(R(r)) \in 0 .. MaximumDisplays
    BY <1>2, <1>3, L(r) \subseteq 1 .. Len(l), R(r) \subseteq 1 .. Len(l)
  <2>2. l[r] \in Int
    BY <1>2
  <2>3. r = center \/ r \in Left \/ r \in Right
    BY <2>2, <1>2
  <2>. HIDE DEF L, R, Left, Right, center
  <2>4. QED
    BY <2>1, <2>3, <1>2
<1>5. \A r \in 1 .. Len(l) : d[r] \in Index
  BY Len(l) = Len(d)
<1>. HIDE DEF Position
<1>6. QED
  BY <1>1, <1>2, <1>4, <1>5 DEF Plans

\* What the captures bind to after a plan was configured are the displays it was made for.
LEMMA PlanBinds ==
  ASSUME NEW l \in Layouts, NEW d \in Seq(Low), Len(l) = Len(d)
  PROVE  LET p == PlanDesktops(l, d)
         IN  Drivers(p) = Range(d) /\ [r \in DOMAIN p |-> p[r].driver] = d
<1>. DEFINE p == PlanDesktops(l, d)
<1>1. DOMAIN p = 1 .. Len(d) /\ \A r \in DOMAIN p : p[r].driver = d[r]
  <2>1. DOMAIN p = DOMAIN l /\ \A r \in DOMAIN l : p[r].driver = d[r]
    BY PlanShape
  <2>2. QED
    BY <2>1, LayoutShape
<1>2. d = [r \in 1 .. Len(d) |-> d[r]] /\ DOMAIN d = 1 .. Len(d)
  OBVIOUS
<1>. HIDE DEF p
<1>3. Drivers(p) = Range(d)
  BY <1>1, <1>2 DEF Drivers, Range
<1>4. [r \in DOMAIN p |-> p[r].driver] = d
  BY <1>1, <1>2
<1>5. QED
  BY <1>3, <1>4 DEF p

\* One list of distinct displays that lies within another of the same length shows them all.
LEMMA SameDisplays ==
  ASSUME NEW c \in Seq(Low), NEW d \in Seq(Low), IsInjective(c), IsInjective(d),
         Len(c) = Len(d), Range(c) \subseteq Range(d)
  PROVE  Range(c) = Range(d)
<1>. DEFINE D == 1 .. Len(d)
<1>1. Len(d) \in Nat /\ DOMAIN c = D /\ DOMAIN d = D /\ c \in [D -> Range(d)] /\ d \in [D -> Range(d)]
  BY DEF Range
<1>2. IsFiniteSet(D)
  BY <1>1, FS_Interval
<1>3. d \in Surjection(D, Range(d)) /\ d \in Injection(D, Range(d)) /\ c \in Injection(D, Range(d))
  BY <1>1 DEF Surjection, Injection, Range
<1>4. IsFiniteSet(Range(d)) /\ Cardinality(Range(d)) = Cardinality(D)
  BY <1>2, <1>3, FS_Surjection, Zenon
<1>5. c \in Surjection(D, Range(d))
  BY <1>3, <1>4, FS_Injection, Zenon
<1>6. QED
  BY <1>1, <1>5 DEF Surjection, Range

\* What one ioctl of a resize call does to the displays.
LastDisplay == display_indices[Count]
Adds ==
  /\ Count < MaximumDisplays /\ UNCHANGED listed
  /\ \E i \in Index \ driver :
       /\ driver' = driver \cup {i}
       /\ \/ i < MaximumDisplays /\ display_indices' = Append(display_indices, i)
          \/ UNCHANGED display_indices
Unplugs == driver' = driver \ {LastDisplay} /\ listed' = listed \ {LastDisplay}
Pops == Count > 0 /\ Unplugs /\ display_indices' = Front(display_indices)
Loses == "remove" \in CarriedOut /\ Unplugs /\ UNCHANGED display_indices
Refuses == UNCHANGED <<driver, listed, display_indices>>

LEMMA ResizeChanges ==
  ASSUME VddTypeOK, ResizeStep
  PROVE  /\ Adds \/ Pops \/ Loses \/ Refuses
         /\ UNCHANGED <<open, pingFailures>>
         /\ call.leg # "none" /\ call'.goal = call.goal
         /\ call' \in [leg : {"none", "to goal", "add back", "take back", "stuck"},
                       goal : 0 .. MaximumDisplays, original : 0 .. MaximumDisplays]
<1>. DEFINE Moved == StaysOn \/ GoTo("add back") \/ GoTo("take back") \/ GoTo("stuck")
            Removes == Pops \/ Loses \/ Refuses
<1>1. Count \in Nat /\ MaximumDisplays \in Nat
  <2>1. display_indices \in Seq(Low)
    BY DEF VddTypeOK, Low
  <2>2. QED
    BY <2>1, VddAssumption DEF Count
<1>2. /\ call.goal \in Nat /\ call.goal <= MaximumDisplays
      /\ call.original \in Nat /\ call.original <= MaximumDisplays
  <2>1. call.goal \in 0 .. MaximumDisplays /\ call.original \in 0 .. MaximumDisplays
    BY DEF VddTypeOK
  <2>2. QED
    BY <1>1, <2>1
<1>. DEFINE Less == \A c, g, m \in Nat : (c > g => c > 0) /\ (c < g /\ g <= m => c < m)
<1>0. Less
  OBVIOUS
<1>3. ASSUME NEW leg \in {"add back", "stuck"}, Count > 0, RemoveDisplay(StaysOn, GoTo(leg))
      PROVE  Removes /\ Moved /\ UNCHANGED <<open, pingFailures>>
  <2>1. UNCHANGED <<open, pingFailures>>
    BY <1>3 DEF RemoveDisplay
  <2>2. \/ Unplugs /\ display_indices' = Front(display_indices) /\ StaysOn
        \/ "remove" \in CarriedOut /\ Unplugs /\ UNCHANGED display_indices /\ GoTo(leg)
        \/ UNCHANGED <<driver, listed, display_indices>> /\ GoTo(leg)
    BY <1>3, Zenon DEF RemoveDisplay, Unplugs, LastDisplay
  <2>3. GoTo(leg) => Moved
    OBVIOUS
  <2>. HIDE DEF Moved
  <2>4. StaysOn => Moved
    BY DEF Moved
  <2>5. QED
    BY <1>3, <2>1, <2>2, <2>3, <2>4 DEF Pops, Loses, Refuses
<1>4. ASSUME NEW leg \in {"take back", "stuck"}, Count < MaximumDisplays, AddDisplay(StaysOn, GoTo(leg))
      PROVE  (Adds \/ Refuses) /\ Moved /\ UNCHANGED <<open, pingFailures>>
  <2>1. UNCHANGED <<open, pingFailures, listed>>
    BY <1>4 DEF AddDisplay
  <2>2. \/ \E i \in Index \ driver :
             /\ driver' = driver \cup {i}
             /\ \/ i < MaximumDisplays /\ display_indices' = Append(display_indices, i) /\ StaysOn
                \/ UNCHANGED display_indices /\ GoTo(leg)
        \/ UNCHANGED <<driver, display_indices>> /\ GoTo(leg)
    BY <1>4, Zenon DEF AddDisplay
  <2>3. GoTo(leg) => Moved
    OBVIOUS
  <2>. HIDE DEF Moved
  <2>4. StaysOn => Moved
    BY DEF Moved
  <2>5. QED
    BY <1>4, <2>1, <2>2, <2>3, <2>4 DEF Adds, Refuses
<1>5. ASSUME Moved, call.leg # "none"
      PROVE  /\ call.leg # "none" /\ call'.goal = call.goal
             /\ call' \in [leg : {"none", "to goal", "add back", "take back", "stuck"},
                           goal : 0 .. MaximumDisplays, original : 0 .. MaximumDisplays]
  BY <1>5 DEF VddTypeOK, StaysOn, GoTo
<1>. HIDE DEF Moved
<1>6. (Removes \/ Adds) /\ Moved /\ call.leg # "none" /\ UNCHANGED <<open, pingFailures>>
  <2>1. CASE ShrinkStep
    <3>1. call.leg = "to goal" /\ Count > call.goal
      BY <2>1 DEF ShrinkStep, On
    <3>2. Count > 0
      BY <1>0, <1>1, <1>2, <3>1, Zenon
    <3>3. RemoveDisplay(StaysOn, GoTo("add back"))
      BY <2>1 DEF ShrinkStep
    <3>4. QED
      BY <3>1, <3>2, <3>3, <1>3
  <2>2. CASE TakeBackStep
    <3>1. call.leg = "take back" /\ Count > call.original
      BY <2>2 DEF TakeBackStep, On
    <3>2. Count > 0
      BY <1>0, <1>1, <1>2, <3>1, Zenon
    <3>3. RemoveDisplay(StaysOn, GoTo("stuck"))
      BY <2>2 DEF TakeBackStep
    <3>4. QED
      BY <3>1, <3>2, <3>3, <1>3
  <2>3. CASE GrowStep
    <3>1. call.leg = "to goal" /\ Count < call.goal
      BY <2>3 DEF GrowStep, On
    <3>2. Count < MaximumDisplays
      BY <1>0, <1>1, <1>2, <3>1, Zenon
    <3>3. AddDisplay(StaysOn, GoTo("take back"))
      BY <2>3 DEF GrowStep
    <3>4. QED
      BY <3>1, <3>2, <3>3, <1>4
  <2>4. CASE AddBackStep
    <3>1. call.leg = "add back" /\ Count < call.original
      BY <2>4 DEF AddBackStep, On
    <3>2. Count < MaximumDisplays
      BY <1>0, <1>1, <1>2, <3>1, Zenon
    <3>3. AddDisplay(StaysOn, GoTo("stuck"))
      BY <2>4 DEF AddBackStep
    <3>4. QED
      BY <3>1, <3>2, <3>3, <1>4
  <2>5. QED
    BY ResizeStep, <2>1, <2>2, <2>3, <2>4 DEF ResizeStep
<1>7. QED
  BY <1>5, <1>6

\* The last display leaves a list of distinct ones, and no other does.
LEMMA FrontShape ==
  ASSUME NEW S, NEW s \in Seq(S), Len(s) > 0
  PROVE  /\ Front(s) \in Seq(S) /\ Len(Front(s)) = Len(s) - 1
         /\ \A n \in 1 .. Len(s) - 1 : Front(s)[n] = s[n]
<1>1. \A m, n \in Int :
        (\A i \in m .. n : s[i] \in S) =>
          /\ SubSeq(s, m, n) \in Seq(S)
          /\ Len(SubSeq(s, m, n)) = IF m <= n THEN n - m + 1 ELSE 0
          /\ \A i \in 1 .. n - m + 1 : SubSeq(s, m, n)[i] = s[m + i - 1]
  BY SubSeqProperties
<1>2. 1 \in Int /\ Len(s) - 1 \in Int /\ Len(s) \in Nat /\ \A i \in 1 .. Len(s) - 1 : s[i] \in S
  OBVIOUS
<1>. DEFINE t == SubSeq(s, 1, Len(s) - 1)
<1>3. /\ t \in Seq(S)
      /\ Len(t) = IF 1 <= Len(s) - 1 THEN Len(s) - 1 - 1 + 1 ELSE 0
      /\ \A i \in 1 .. Len(s) - 1 - 1 + 1 : t[i] = s[1 + i - 1]
  BY <1>1, <1>2, Zenon
<1>4. Front(s) = t
  BY DEF Front
<1>. HIDE DEF t
<1>5. \A i \in 1 .. Len(s) - 1 : t[i] = s[i]
  <2>1. ASSUME NEW i \in 1 .. Len(s) - 1 PROVE i \in 1 .. Len(s) - 1 - 1 + 1 /\ 1 + i - 1 = i
    BY <1>2
  <2>2. QED
    BY <1>3, <2>1
<1>6. Len(t) = Len(s) - 1
  <2>1. \A n \in Nat : n > 0 => (IF 1 <= n - 1 THEN n - 1 - 1 + 1 ELSE 0) = n - 1
    OBVIOUS
  <2>2. Len(s) \in Nat /\ Len(t) = IF 1 <= Len(s) - 1 THEN Len(s) - 1 - 1 + 1 ELSE 0
    BY <1>2, <1>3
  <2>3. QED
    BY <2>1, <2>2, Zenon
<1>7. QED
  BY <1>3, <1>4, <1>5, <1>6, Zenon

LEMMA ResizeKeepsVdd ==
  ASSUME VddTypeOK, ResizeStep
  PROVE  VddTypeOK'
<1>1. /\ Adds \/ Pops \/ Loses \/ Refuses
      /\ open' \in BOOLEAN /\ pingFailures' \in 0 .. FatalPings
      /\ call' \in [leg : {"none", "to goal", "add back", "take back", "stuck"},
                    goal : 0 .. MaximumDisplays, original : 0 .. MaximumDisplays]
  BY ResizeChanges DEF VddTypeOK
<1>2. /\ driver' \subseteq Index /\ listed' \subseteq driver'
      /\ display_indices' \in Seq(Low) /\ Len(display_indices') <= MaximumDisplays
  <2>0. /\ driver \subseteq Index /\ listed \subseteq driver
        /\ display_indices \in Seq(Low) /\ Len(display_indices) <= MaximumDisplays
        /\ MaximumDisplays \in Nat
    BY VddAssumption DEF VddTypeOK, Low
  <2>1. CASE Adds
    <3>1. PICK i \in Index \ driver :
             /\ driver' = driver \cup {i}
             /\ \/ i < MaximumDisplays /\ display_indices' = Append(display_indices, i)
                \/ UNCHANGED display_indices
      BY <2>1 DEF Adds
    <3>2. UNCHANGED listed /\ Len(display_indices) < MaximumDisplays
      BY <2>1 DEF Adds, Count
    <3>3. i < MaximumDisplays => i \in Low
      BY DEF Low
    <3>4. QED
      BY <2>0, <3>1, <3>2, <3>3
  <2>2. CASE Pops
    BY <2>0, <2>2, FrontShape DEF Pops, Unplugs, Count
  <2>3. CASE Loses
    BY <2>0, <2>3 DEF Loses, Unplugs
  <2>4. CASE Refuses
    BY <2>0, <2>4 DEF Refuses
  <2>5. QED
    BY <1>1, <2>1, <2>2, <2>3, <2>4
<1>3. hung' \in BOOLEAN
  BY DEF ResizeStep, VddTypeOK
<1>4. QED
  BY <1>1, <1>2, <1>3 DEF VddTypeOK, Low

LEMMA ResizeKeepsTracked ==
  ASSUME "remove" \notin CarriedOut, VddTypeOK, Tracked, ResizeStep
  PROVE  Tracked'
<1>. DEFINE d == display_indices
            Apart(s) == \A a, b \in 1 .. Len(s) : s[a] = s[b] => a = b
            Within(s, D) == \A a \in 1 .. Len(s) : s[a] \in D
<1>0. ASSUME NEW s \in Seq(Low), NEW D
      PROVE  /\ IsInjective(s) <=> Apart(s)
             /\ Range(s) \subseteq D <=> Within(s, D)
  BY DEF IsInjective, Range
<1>1. d \in Seq(Low) /\ d' \in Seq(Low) /\ Len(d) \in Nat
  <2>1. d \in Seq(Low) /\ d' \in Seq(Low)
    BY ResizeKeepsVdd DEF VddTypeOK, Low
  <2>2. QED
    BY <2>1
<1>2. Apart(d) /\ Within(d, driver)
  BY <1>0, <1>1 DEF Tracked
<1>3. Apart(d') /\ Within(d', driver')
  <2>1. CASE Adds
    <3>1. PICK i \in Index \ driver :
             /\ driver' = driver \cup {i}
             /\ d' = Append(d, i) \/ d' = d
      BY <2>1 DEF Adds
    <3>2. CASE d' = Append(d, i)
      <4>1. Len(d') = Len(d) + 1 /\ d'[Len(d) + 1] = i /\ \A a \in 1 .. Len(d) : d'[a] = d[a]
        BY <1>1, <3>2
      <4>2. QED
        BY <1>1, <1>2, <3>1, <4>1
    <3>3. QED
      BY <1>2, <3>1, <3>2
  <2>2. CASE Pops
    <3>1. Len(d) > 0 /\ d' = Front(d) /\ driver' = driver \ {d[Len(d)]}
      BY <2>2 DEF Pops, Unplugs, LastDisplay, Count
    <3>2. Len(d') = Len(d) - 1 /\ \A a \in 1 .. Len(d) - 1 : d'[a] = d[a]
      BY <1>1, <3>1, FrontShape
    <3>3. QED
      BY <1>1, <1>2, <3>1, <3>2
  <2>3. CASE Refuses
    BY <1>2, <2>3 DEF Refuses
  <2>4. QED
    BY ResizeChanges, <2>1, <2>2, <2>3, "remove" \notin CarriedOut DEF Loses
<1>4. QED
  BY <1>0, <1>1, <1>3 DEF Tracked

\* What the driver's thread and Windows do leaves what the client tracks where it was.
LEMMA ElsewhereKeepsVdd ==
  ASSUME VddTypeOK, Keepalive \/ Hang \/ Enumerate
  PROVE  VddTypeOK' /\ UNCHANGED <<driver, display_indices, call>>
<1>1. CASE Keepalive
  <2>1. /\ pingFailures' \in {0, IF pingFailures < FatalPings THEN pingFailures + 1 ELSE pingFailures}
        /\ UNCHANGED <<driver, listed, open, display_indices, call, hung>>
    BY <1>1 DEF Keepalive
  <2>2. FatalPings \in Nat /\ pingFailures \in 0 .. FatalPings
    BY VddAssumption DEF VddTypeOK
  <2>3. pingFailures' \in 0 .. FatalPings
    BY <2>1, <2>2
  <2>4. QED
    BY <2>1, <2>3, Zenon DEF VddTypeOK
<1>2. CASE Enumerate
  BY <1>2 DEF VddTypeOK, Enumerate
<1>3. CASE Hang
  BY <1>3 DEF VddTypeOK, Hang
<1>4. QED
  BY <1>1, <1>2, <1>3, Keepalive \/ Hang \/ Enumerate

LEMMA DisconnectKeepsVdd ==
  ASSUME VddTypeOK, Disconnect
  PROVE  VddTypeOK' /\ Tracked' /\ call' = NoCall
<1>1. PICK gone \in SUBSET Range(display_indices) : driver' = driver \ gone /\ listed' = listed \ gone
  BY DEF Disconnect
<1>2. /\ display_indices' = <<>> /\ open' = FALSE /\ call' = NoCall
      /\ UNCHANGED <<pingFailures, hung>>
  BY DEF Disconnect
<1>3. NoCall \in [leg : {"none", "to goal", "add back", "take back", "stuck"},
                  goal : 0 .. MaximumDisplays, original : 0 .. MaximumDisplays]
  BY VddAssumption DEF NoCall
<1>4. VddTypeOK'
  <2>1. driver' \subseteq Index /\ listed' \subseteq driver' /\ open' \in BOOLEAN
    BY <1>1, <1>2 DEF VddTypeOK
  <2>2. display_indices' \in Seq(Low) /\ Len(display_indices') = 0 /\ MaximumDisplays >= 0
    BY <1>2, VddAssumption, EmptySeq
  <2>3. QED
    BY <1>2, <1>3, <2>1, <2>2 DEF VddTypeOK, Low
<1>5. Tracked'
  BY <1>2 DEF Tracked, IsInjective, Range
<1>6. QED
  BY <1>2, <1>4, <1>5

EngineType ==
  /\ file \in Layouts \cup {Torn}
  /\ {written, seen, read} \subseteq 0 .. MaxEdits /\ forced \in BOOLEAN
  /\ {layout, shown, candidate} \subseteq Layouts \cup {NoLayout}
  /\ captures \in Seq(Index)
  /\ {workspace_plan, reload_plan, virtual_displays} \subseteq Plans
  /\ done \subseteq {"displays", "plan", "renderer"}
  /\ pc \in Starting \cup Reloading \cup {"turn", "pings", "shutdown", "ended"}
  /\ {quit, engine_failed, astray} \subseteq BOOLEAN

LEMMA TypeParts ==
  /\ TypeOK <=> VddTypeOK /\ EngineType
  /\ TypeOK' <=> VddTypeOK' /\ EngineType'
BY DEF TypeOK, EngineType, Plans

LEMMA BindsType ==
  ASSUME EngineType, NEW l, Binds(l)
  PROVE  captures' \in Seq(Index)
<1>1. virtual_displays \in Plans /\ captures' = [r \in DOMAIN virtual_displays |-> virtual_displays[r].driver]
  BY DEF EngineType, Binds
<1>2. DOMAIN virtual_displays = 1 .. Len(virtual_displays) /\ Len(virtual_displays) \in Nat
      /\ \A r \in DOMAIN virtual_displays : virtual_displays[r].driver \in Index
  <2>. DEFINE D == [driver : Index, x : -MaximumDisplays .. MaximumDisplays]
  <2>1. \A e \in D : e.driver \in Index
    OBVIOUS
  <2>2. virtual_displays \in Seq(D)
    BY <1>1 DEF Plans
  <2>. HIDE DEF D
  <2>3. DOMAIN virtual_displays = 1 .. Len(virtual_displays) /\ Len(virtual_displays) \in Nat
        /\ \A r \in 1 .. Len(virtual_displays) : virtual_displays[r] \in D
    BY <2>2
  <2>4. QED
    BY <2>1, <2>3
<1>3. QED
  BY <1>1, <1>2

LEMMA BeginsCall ==
  ASSUME VddTypeOK, NEW l \in Layouts \cup {NoLayout}, BeginResize(Len(l))
  PROVE  call' \in [leg : {"none", "to goal", "add back", "take back", "stuck"},
                    goal : 0 .. MaximumDisplays, original : 0 .. MaximumDisplays]
<1>1. Count \in 0 .. MaximumDisplays
  <2>1. display_indices \in Seq(Low) /\ Count <= MaximumDisplays
    BY DEF VddTypeOK, Low, Count
  <2>2. QED
    BY <2>1, VddAssumption DEF Count
<1>2. QED
  BY <1>1, LayoutShape DEF BeginResize

LEMMA NoCallType ==
  NoCall \in [leg : {"none", "to goal", "add back", "take back", "stuck"},
              goal : 0 .. MaximumDisplays, original : 0 .. MaximumDisplays]
BY VddAssumption DEF NoCall

\* The plan of a layout for as many displays as it has screens.
LEMMA PlansType ==
  ASSUME VddTypeOK, NEW l \in Layouts \cup {NoLayout}, Len(l) = Count
  PROVE  PlanDesktops(l, display_indices) \in Plans
<1>1. display_indices \in Seq(Index)
  <2>1. {i \in Index : i < MaximumDisplays} \subseteq Index
    OBVIOUS
  <2>2. QED
    BY <2>1, SeqMonotonic DEF VddTypeOK
<1>2. QED
  BY <1>1, PlanType DEF Count

LEMMA StartType ==
  ASSUME TypeOK, Called, Start
  PROVE  TypeOK'
<1>. USE TypeParts
<1>. USE DEF Starting, Reloading, Undoing, StartFails, fileVars, watchVars, deskVars, sceneVars,
             reloadVars, exitVars
<1>0. VddTypeOK /\ EngineType
  OBVIOUS
<1>1. CASE LoadAtStart
  <2>1. UNCHANGED vddVars
    BY <1>1 DEF LoadAtStart
  <2>2. VddTypeOK'
    BY <1>0, <2>1 DEF VddTypeOK, vddVars
  <2>3. EngineType'
    BY <1>0, <1>1 DEF EngineType, LoadAtStart, Torn
  <2>4. QED
    BY <2>2, <2>3
<1>2. CASE Connect
  <2>1. call' \in [leg : {"none", "to goal", "add back", "take back", "stuck"},
                   goal : 0 .. MaximumDisplays, original : 0 .. MaximumDisplays]
    <3>1. layout \in Layouts \cup {NoLayout} /\ (BeginResize(Len(layout)) \/ UNCHANGED call)
      BY <1>0, <1>2 DEF Connect, EngineType
    <3>2. QED
      BY <1>0, <3>1, BeginsCall DEF VddTypeOK
  <2>2. UNCHANGED <<driver, listed, display_indices, hung>> /\ open' \in BOOLEAN
        /\ pingFailures' \in 0 .. FatalPings
    <3>1. 0 \in 0 .. FatalPings
      BY VddAssumption
    <3>2. QED
      BY <1>0, <1>2, <3>1 DEF Connect, VddTypeOK
  <2>3. VddTypeOK'
    BY <1>0, <2>1, <2>2 DEF VddTypeOK
  <2>4. EngineType'
    BY <1>0, <1>2 DEF EngineType, Connect
  <2>5. QED
    BY <2>3, <2>4
<1>3. CASE Connected
  <2>1. /\ UNCHANGED <<driver, listed, open, display_indices, pingFailures, hung>> /\ call' = NoCall
        /\ pc = "connecting" /\ pc' = "take over"
        /\ Count = call.goal
    BY <1>3 DEF Connected, ResizeReturnsTrue
  <2>2. VddTypeOK'
    BY <1>0, <2>1, NoCallType DEF VddTypeOK
  <2>3. Len(layout) = Count /\ layout \in Layouts \cup {NoLayout}
    BY <1>0, <2>1 DEF Called, EngineType
  <2>4. reload_plan' \in Plans
    BY <1>0, <1>3, <2>3, PlansType DEF Connected
  <2>5. UNCHANGED <<fileVars, watchVars, sceneVars, candidate, done, exitVars>>
    BY <1>3 DEF Connected
  <2>6. EngineType'
    BY <1>0, <2>1, <2>4, <2>5 DEF EngineType
  <2>7. QED
    BY <2>2, <2>6
<1>4. CASE ConnectFails
  <2>1. VddTypeOK'
    BY <1>0, <1>4, DisconnectKeepsVdd DEF ConnectFails
  <2>2. EngineType'
    BY <1>0, <1>4 DEF EngineType, ConnectFails
  <2>3. QED
    BY <2>1, <2>2
<1>5. CASE TakeOver
  <2>1. UNCHANGED vddVars \/ Disconnect
    BY <1>5 DEF TakeOver
  <2>2. VddTypeOK'
    BY <1>0, <2>1, DisconnectKeepsVdd DEF VddTypeOK, vddVars
  <2>3. EngineType'
    BY <1>0, <1>5 DEF EngineType, TakeOver, Repositions
  <2>4. QED
    BY <2>2, <2>3
<1>6. CASE Show
  <2>1. UNCHANGED vddVars \/ Disconnect
    BY <1>6 DEF Show
  <2>2. VddTypeOK'
    BY <1>0, <2>1, DisconnectKeepsVdd DEF VddTypeOK, vddVars
  <2>3. captures' \in Seq(Index)
    <3>1. Binds(layout) \/ UNCHANGED captures
      BY <1>6 DEF Show
    <3>2. QED
      BY <1>0, <3>1, BindsType DEF EngineType
  <2>4. EngineType'
    BY <1>0, <1>6, <2>3 DEF EngineType, Show
  <2>5. QED
    BY <2>2, <2>4
<1>7. CASE Watch
  <2>1. VddTypeOK'
    BY <1>0, <1>7 DEF Watch, VddTypeOK, vddVars
  <2>2. EngineType'
    BY <1>0, <1>7 DEF EngineType, Watch
  <2>3. QED
    BY <2>1, <2>2
<1>8. QED
  BY Start, <1>1, <1>2, <1>3, <1>4, <1>5, <1>6, <1>7 DEF Start

\* The steps that leave the client's displays as they are, or let go of them.
LEMMA VddKept ==
  ASSUME VddTypeOK,
         \/ UNCHANGED vddVars
         \/ Disconnect
         \/ /\ UNCHANGED <<driver, listed, open, display_indices, pingFailures, hung>>
            /\ \/ call' = NoCall
               \/ \E l \in Layouts \cup {NoLayout} : BeginResize(Len(l))
  PROVE  VddTypeOK'
<1>1. CASE UNCHANGED vddVars
  BY <1>1 DEF VddTypeOK, vddVars
<1>2. CASE Disconnect
  BY <1>2, DisconnectKeepsVdd
<1>3. CASE /\ UNCHANGED <<driver, listed, open, display_indices, pingFailures, hung>>
           /\ \/ call' = NoCall
              \/ \E l \in Layouts \cup {NoLayout} : BeginResize(Len(l))
  <2>1. call' \in [leg : {"none", "to goal", "add back", "take back", "stuck"},
                   goal : 0 .. MaximumDisplays, original : 0 .. MaximumDisplays]
    BY <1>3, NoCallType, BeginsCall
  <2>2. QED
    BY <1>3, <2>1 DEF VddTypeOK
<1>4. QED
  BY <1>1, <1>2, <1>3

LEMMA ReloadType ==
  ASSUME TypeOK, Reload
  PROVE  TypeOK'
<1>. USE TypeParts
<1>. USE DEF Starting, Reloading, Undoing, fileVars, watchVars, deskVars, sceneVars, reloadVars,
             exitVars
<1>0. VddTypeOK /\ EngineType
  OBVIOUS
<1>1. CASE SkipReload \/ Check
  <2>1. VddTypeOK'
    BY <1>0, <1>1, VddKept DEF SkipReload, Check
  <2>2. EngineType'
    BY <1>0, <1>1 DEF EngineType, SkipReload, Check
  <2>3. QED
    BY <2>1, <2>2
<1>2. CASE ReadLayout
  <2>1. file \in Layouts \cup {NoLayout}
    BY <1>0 DEF EngineType, Torn
  <2>2. /\ UNCHANGED <<driver, listed, open, display_indices, pingFailures, hung>>
        /\ UNCHANGED call \/ BeginResize(Len(file))
    BY <1>2 DEF ReadLayout
  <2>3. VddTypeOK'
    BY <1>0, <2>1, <2>2, VddKept DEF vddVars
  <2>4. EngineType'
    BY <1>0, <1>2, <2>1 DEF EngineType, ReadLayout
  <2>5. QED
    BY <2>3, <2>4
<1>3. CASE Resized
  <2>1. VddTypeOK'
    BY <1>0, <1>3, VddKept DEF Resized
  <2>2. EngineType'
    BY <1>0, <1>3 DEF EngineType, Resized
  <2>3. QED
    BY <2>1, <2>2
<1>4. CASE Plan
  <2>1. VddTypeOK'
    BY <1>0, <1>4, VddKept DEF Plan
  <2>2. reload_plan' \in Plans
    <3>1. CASE UNCHANGED reload_plan
      BY <1>0, <3>1 DEF EngineType
    <3>2. CASE Len(candidate) = Count /\ reload_plan' = PlanDesktops(candidate, display_indices)
      BY <1>0, <3>2, PlansType DEF EngineType
    <3>3. QED
      BY <1>4, <3>1, <3>2 DEF Plan
  <2>3. pc' \in {"undo", "place", "render"}
    BY <1>4 DEF Plan
  <2>4. UNCHANGED <<fileVars, watchVars, sceneVars, candidate, done, exitVars>>
    BY <1>4 DEF Plan
  <2>5. EngineType'
    BY <1>0, <2>2, <2>3, <2>4 DEF EngineType
  <2>6. QED
    BY <2>1, <2>5
<1>5. CASE Place
  <2>1. VddTypeOK'
    BY <1>0, <1>5, VddKept DEF Place
  <2>2. EngineType'
    BY <1>0, <1>5 DEF EngineType, Place, Repositions, RepositionFails
  <2>3. QED
    BY <2>1, <2>2
<1>6. CASE Render
  <2>1. VddTypeOK'
    BY <1>0, <1>6, VddKept DEF Render
  <2>2. EngineType'
    BY <1>0, <1>6 DEF EngineType, Render
  <2>3. QED
    BY <2>1, <2>2
<1>7. CASE Bind
  <2>1. VddTypeOK'
    BY <1>0, <1>7, VddKept DEF Bind
  <2>2. captures' \in Seq(Index)
    <3>1. Binds(candidate) \/ UNCHANGED captures
      BY <1>7 DEF Bind
    <3>2. QED
      BY <1>0, <3>1, BindsType DEF EngineType
  <2>3. EngineType'
    BY <1>0, <1>7, <2>2 DEF EngineType, Bind
  <2>4. QED
    BY <2>1, <2>3
<1>8. QED
  BY Reload, <1>1, <1>2, <1>3, <1>4, <1>5, <1>6, <1>7 DEF Reload

LEMMA UndoType ==
  ASSUME TypeOK, UndoReload \/ CheckPings \/ Shutdown
  PROVE  TypeOK'
<1>. USE TypeParts
<1>. USE DEF Starting, Reloading, Undoing, GiveUp, fileVars, watchVars, deskVars, sceneVars,
             reloadVars, exitVars
<1>0. VddTypeOK /\ EngineType
  OBVIOUS
<1>1. CASE Undo
  <2>1. layout \in Layouts \cup {NoLayout}
    BY <1>0 DEF EngineType
  <2>2. /\ UNCHANGED <<driver, listed, open, display_indices, pingFailures, hung>>
        /\ UNCHANGED call \/ BeginResize(Len(layout))
    BY <1>1 DEF Undo
  <2>3. VddTypeOK'
    BY <1>0, <2>1, <2>2, VddKept DEF vddVars
  <2>4. reload_plan' \in Plans
    BY <1>1, EmptySeq DEF Undo, Plans
  <2>5. candidate' \in Layouts \cup {NoLayout} /\ shown' \in Layouts \cup {NoLayout}
    BY <1>0, <1>1 DEF EngineType, Undo
  <2>6. UNCHANGED <<fileVars, watchVars, layout, captures, workspace_plan, deskVars, done>>
        /\ pc' \in {"undo resize", "pings"} /\ (GiveUp \/ UNCHANGED exitVars)
    BY <1>1 DEF Undo
  <2>7. EngineType'
    BY <1>0, <2>4, <2>5, <2>6 DEF EngineType
  <2>8. QED
    BY <2>3, <2>7
<1>2. CASE UndoResize
  <2>1. VddTypeOK'
    BY <1>0, <1>2, VddKept DEF UndoResize
  <2>2. EngineType'
    BY <1>0, <1>2 DEF EngineType, UndoResize
  <2>3. QED
    BY <2>1, <2>2
<1>3. CASE UndoPlace
  <2>1. VddTypeOK'
    BY <1>0, <1>3, VddKept DEF UndoPlace
  <2>2. EngineType'
    BY <1>0, <1>3 DEF EngineType, UndoPlace, Repositions, RepositionFails
  <2>3. QED
    BY <2>1, <2>2
<1>4. CASE UndoBind
  <2>1. VddTypeOK'
    BY <1>0, <1>4, VddKept DEF UndoBind
  <2>2. captures' \in Seq(Index)
    <3>1. Binds(layout) \/ UNCHANGED captures
      BY <1>4 DEF UndoBind
    <3>2. QED
      BY <1>0, <3>1, BindsType DEF EngineType
  <2>3. EngineType'
    BY <1>0, <1>4, <2>2 DEF EngineType, UndoBind
  <2>4. QED
    BY <2>1, <2>3
<1>5. CASE CheckPings
  <2>1. VddTypeOK'
    BY <1>0, <1>5, VddKept DEF CheckPings
  <2>2. captures' \in Seq(Index)
    BY <1>0, <1>5, EmptySeq DEF EngineType, CheckPings
  <2>3. pc' \in {"shutdown", "turn"} /\ (GiveUp \/ UNCHANGED exitVars)
    BY <1>5 DEF CheckPings
  <2>4. UNCHANGED <<fileVars, watchVars, layout, shown, workspace_plan, deskVars, reloadVars>>
    BY <1>5 DEF CheckPings
  <2>5. EngineType'
    BY <1>0, <2>2, <2>3, <2>4 DEF EngineType
  <2>6. QED
    BY <2>1, <2>5
<1>6. CASE Shutdown
  <2>1. VddTypeOK'
    BY <1>0, <1>6, VddKept DEF Shutdown
  <2>2. EngineType'
    BY <1>0, <1>6 DEF EngineType, Shutdown
  <2>3. QED
    BY <2>1, <2>2
<1>7. QED
  BY UndoReload \/ CheckPings \/ Shutdown, <1>1, <1>2, <1>3, <1>4, <1>5, <1>6 DEF UndoReload

\* What is neither a step of the engine's thread nor a step of a call.
Aside == Edit \/ AskReload \/ AskQuit \/ UNCHANGED vars
Beside == (Keepalive \/ Hang \/ Enumerate) /\ UNCHANGED <<fileVars, watchVars, sceneVars, reloadVars, exitVars, pc>>
InCall == ResizeStep /\ UNCHANGED <<fileVars, watchVars, sceneVars, reloadVars, exitVars, pc>>

LEMMA NextCases ==
  ASSUME [Next]_vars
  PROVE  \/ Start \/ Reload \/ UndoReload \/ CheckPings \/ Shutdown
         \/ InCall \/ Aside \/ Beside
BY DEF Next, Engine, Outside, Aside, Beside, InCall

LEMMA AsideType ==
  ASSUME TypeOK, Aside
  PROVE  TypeOK'
<1>. USE TypeParts
<1>. USE DEF fileVars, watchVars, deskVars, sceneVars, reloadVars, exitVars
<1>1. UNCHANGED vddVars /\ VddTypeOK /\ EngineType
  BY DEF Aside, Edit, AskReload, AskQuit, vars
<1>2. VddTypeOK'
  BY <1>1, VddKept
<1>3. CASE Edit
  <2>1. /\ file' \in Layouts \cup {Torn} /\ written' = written + 1 /\ written < MaxEdits
        /\ UNCHANGED <<watchVars, sceneVars, reloadVars, exitVars, pc>>
    BY <1>3 DEF Edit
  <2>2. written' \in 0 .. MaxEdits
    <3>1. written \in 0 .. MaxEdits
      BY <1>1 DEF EngineType
    <3>2. QED
      BY <2>1, <3>1, LayoutAssumption
  <2>3. EngineType'
    BY <1>1, <2>1, <2>2 DEF EngineType
  <2>4. QED
    BY <1>2, <2>3
<1>4. CASE AskReload \/ AskQuit
  <2>1. EngineType'
    BY <1>1, <1>4 DEF EngineType, AskReload, AskQuit
  <2>2. QED
    BY <1>2, <2>1
<1>5. CASE UNCHANGED vars
  <2>1. EngineType'
    BY <1>1, <1>5 DEF EngineType, vars
  <2>2. QED
    BY <1>2, <2>1
<1>6. QED
  BY Aside, <1>3, <1>4, <1>5 DEF Aside

LEMMA TypeStep ==
  ASSUME TypeOK, Called, [Next]_vars
  PROVE  TypeOK'
<1>1. CASE Start
  BY <1>1, StartType
<1>2. CASE Reload
  BY <1>2, ReloadType
<1>3. CASE UndoReload \/ CheckPings \/ Shutdown
  BY <1>3, UndoType
<1>4. CASE Aside
  BY <1>4, AsideType
<1>5. CASE InCall \/ Beside
  <2>1. VddTypeOK'
    BY <1>5, TypeParts, ResizeKeepsVdd, ElsewhereKeepsVdd DEF InCall, Beside
  <2>2. UNCHANGED <<fileVars, watchVars, sceneVars, reloadVars, exitVars, pc>>
    BY <1>5 DEF InCall, Beside
  <2>3. EngineType'
    BY <2>2, TypeParts DEF EngineType, fileVars, watchVars, deskVars, sceneVars, reloadVars, exitVars
  <2>4. QED
    BY <2>1, <2>3, TypeParts
<1>6. QED
  BY NextCases, <1>1, <1>2, <1>3, <1>4, <1>5

LEMMA CalledStep ==
  ASSUME TypeOK, Called, [Next]_vars
  PROVE  Called'
<1>0. \A n : BeginResize(n) => call'.goal = n
  <2>1. ASSUME NEW n, NEW o PROVE [leg |-> "to goal", goal |-> n, original |-> o].goal = n
    OBVIOUS
  <2>2. QED
    BY <2>1, Zenon DEF BeginResize
<1>. USE DEF Called, Resizing
<1>1. CASE Start
  <2>. USE DEF StartFails
  <2>1. CASE LoadAtStart
    BY <2>1 DEF LoadAtStart, vddVars
  <2>2. CASE Connect
    <3>1. /\ pc = "connect" /\ UNCHANGED layout
          /\ \/ pc' = "connecting" /\ BeginResize(Len(layout))
             \/ pc' = "ended" /\ UNCHANGED call
      BY <2>2, Zenon DEF Connect, sceneVars
    <3>2. pc' = "connecting" => call'.goal = Len(layout')
      BY <3>1, <1>0, Zenon
    <3>3. QED
      BY <3>1, <3>2
  <2>3. CASE Connected
    BY <2>3 DEF Connected
  <2>4. CASE ConnectFails \/ TakeOver \/ Show
    <3>1. /\ pc' \in {"show", "watch", "ended"}
          /\ pc' = "ended" \/ (pc \in {"take over", "show"} /\ UNCHANGED call)
          /\ call' = NoCall \/ UNCHANGED call
          /\ pc = "connecting" => call' = NoCall
          /\ pc \in {"connecting", "take over", "show"}
      BY <2>4 DEF ConnectFails, TakeOver, Show, Disconnect, vddVars
    <3>2. QED
      BY <3>1
  <2>5. CASE Watch
    BY <2>5 DEF Watch, vddVars
  <2>6. QED
    BY <1>1, <2>1, <2>2, <2>3, <2>4, <2>5 DEF Start
<1>2. CASE Reload
  <2>1. CASE SkipReload \/ Check
    BY <2>1 DEF SkipReload, Check, Turning, vddVars
  <2>2. CASE ReadLayout
    BY <2>2 DEF ReadLayout
  <2>3. CASE Resized
    BY <2>3 DEF Resized
  <2>4. CASE Plan
    <3>1. pc = "plan" /\ pc' \in {"undo", "place", "render"} /\ UNCHANGED call
      BY <2>4 DEF Plan, vddVars
    <3>2. QED
      BY <3>1
  <2>5. CASE Place
    BY <2>5 DEF Place, vddVars
  <2>6. CASE Render
    BY <2>6 DEF Render, vddVars
  <2>7. CASE Bind
    BY <2>7 DEF Bind, vddVars
  <2>8. QED
    BY <1>2, <2>1, <2>2, <2>3, <2>4, <2>5, <2>6, <2>7 DEF Reload
<1>3. CASE UndoReload \/ CheckPings \/ Shutdown
  <2>1. CASE Undo
    <3>1. /\ pc = "undo" /\ UNCHANGED layout
          /\ \/ pc' = "undo resize" /\ BeginResize(Len(layout))
             \/ pc' = "pings" /\ UNCHANGED call
      BY <2>1, Zenon DEF Undo
    <3>2. pc' = "undo resize" => call'.goal = Len(layout')
      BY <3>1, <1>0, Zenon
    <3>3. QED
      BY <3>1, <3>2
  <2>2. CASE UndoResize
    BY <2>2 DEF UndoResize
  <2>3. CASE UndoPlace
    BY <2>3 DEF UndoPlace, vddVars
  <2>4. CASE UndoBind
    BY <2>4 DEF UndoBind, vddVars
  <2>5. CASE CheckPings
    BY <2>5 DEF CheckPings, vddVars
  <2>6. CASE Shutdown
    BY <2>6 DEF Shutdown, Disconnect
  <2>7. QED
    BY <1>3, <2>1, <2>2, <2>3, <2>4, <2>5, <2>6 DEF UndoReload
<1>4. CASE InCall
  <2>1. call.leg # "none" /\ call'.goal = call.goal /\ UNCHANGED <<pc, layout>>
    BY <1>4, TypeParts, ResizeChanges DEF InCall, sceneVars
  <2>2. NoCall.leg = "none"
    BY DEF NoCall
  <2>3. pc \in Resizing
    BY <2>1, <2>2
  <2>4. QED
    BY <2>1, <2>3
<1>5. CASE Aside \/ Beside
  <2>1. UNCHANGED <<call, pc, layout>>
    BY <1>5 DEF Aside, Beside, Edit, AskReload, AskQuit, Keepalive, Hang, Enumerate, vars, vddVars, sceneVars
  <2>2. QED
    BY <2>1
<1>6. QED
  BY NextCases, <1>1, <1>2, <1>3, <1>4, <1>5

LEMMA TrackedStep ==
  ASSUME "remove" \notin CarriedOut, TypeOK, Tracked, [Next]_vars
  PROVE  Tracked'
<1>1. CASE InCall
  BY <1>1, TypeParts, ResizeKeepsTracked DEF InCall
<1>2. CASE Beside
  <2>1. UNCHANGED <<driver, display_indices>>
    BY <1>2, TypeParts, ElsewhereKeepsVdd DEF Beside
  <2>2. QED
    BY <2>1 DEF Tracked
<1>3. CASE Start \/ Reload \/ UndoReload \/ CheckPings \/ Shutdown \/ Aside
  <2>1. UNCHANGED <<driver, display_indices>> \/ Disconnect
    <3>1. CASE Start
      BY <3>1 DEF Start, LoadAtStart, Connect, Connected, ConnectFails, TakeOver, Show, Watch, vddVars
    <3>2. CASE Reload
      BY <3>2 DEF Reload, SkipReload, Check, ReadLayout, Resized, Plan, Place, Render, Bind, vddVars
    <3>3. CASE UndoReload \/ CheckPings \/ Shutdown \/ Aside
      BY <3>3 DEF UndoReload, Undo, UndoResize, UndoPlace, UndoBind, CheckPings, Shutdown, Aside, Edit,
                  AskReload, AskQuit, vars, vddVars
    <3>4. QED
      BY <1>3, <3>1, <3>2, <3>3
  <2>2. QED
    BY <2>1, TypeParts, DisconnectKeepsVdd DEF Tracked
<1>4. QED
  BY NextCases, <1>1, <1>2, <1>3

\* The parts of the invariant speak of these variables only.
StandStill ==
  UNCHANGED <<driver, display_indices, layout, captures, workspace_plan, virtual_displays>>

LEMMA StandStillKeeps ==
  ASSUME StandStill
  PROVE  /\ Held' = Held /\ InPlace' = InPlace /\ Configured' = Configured
         /\ UNCHANGED shown => Drawn' = Drawn
         /\ UNCHANGED <<shown, done>> => Restorable' = Restorable
         /\ UNCHANGED <<reload_plan, candidate>> => Readied(candidate)' = Readied(candidate)
         /\ UNCHANGED reload_plan => Readied(layout)' = Readied(layout)
BY DEF StandStill, Held, InPlace, Configured, Drawn, Restorable, Readied, Count

\* When captures bind to a plan made for the displays of the client, all is of one layout.
LEMMA Commits ==
  ASSUME TypeOK, Tracked, Readied(layout'), virtual_displays = reload_plan, Binds(layout'),
         workspace_plan' = reload_plan, shown' = layout',
         UNCHANGED <<driver, display_indices, virtual_displays>>
  PROVE  Held' /\ InPlace' /\ Configured' /\ Drawn'
<1>1. /\ layout' \in Layouts /\ display_indices \in Seq(Low) /\ Len(display_indices) = Len(layout')
      /\ virtual_displays = PlanDesktops(layout', display_indices)
  BY TypeParts DEF Readied, Count, VddTypeOK, Low
<1>2. captures' = display_indices
  BY <1>1, PlanBinds DEF Binds
<1>3. Held'
  BY <1>1, <1>2 DEF Held, Tracked
<1>4. InPlace'
  BY <1>1, <1>2 DEF InPlace, Tracked, Count
<1>5. QED
  BY <1>3, <1>4 DEF Configured, Drawn

LEMMA StartSettles ==
  ASSUME Transaction, Start
  PROVE  Began' /\ Whole'
<1>. USE DEF Transaction, Beginning, Committed, Attempting, Reloading, Undoing, StartFails
<1>1. CASE LoadAtStart
  <2>1. pc' = "ended" \/ (pc' = "connect" /\ layout' \in Layouts)
    BY <1>1, TypeParts DEF LoadAtStart, EngineType
  <2>2. QED
    BY <2>1 DEF Began, Whole
<1>2. CASE Connect
  <2>1. pc' \in {"connecting", "ended"} /\ UNCHANGED layout /\ pc = "connect"
    BY <1>2 DEF Connect, sceneVars
  <2>2. QED
    BY <2>1 DEF Began, Whole
<1>3. CASE Connected
  <2>1. /\ pc = "connecting" /\ pc' = "take over" /\ UNCHANGED <<layout, display_indices>>
        /\ Count = call.goal /\ reload_plan' = PlanDesktops(layout, display_indices)
    BY <1>3 DEF Connected, ResizeReturnsTrue, sceneVars
  <2>2. layout \in Layouts /\ Count = Len(layout) /\ Count' = Count
    BY <2>1 DEF Began, Called, Count
  <2>3. Readied(layout)'
    BY <2>1, <2>2 DEF Readied
  <2>4. QED
    BY <2>1, <2>2, <2>3 DEF Began, Whole
<1>4. CASE ConnectFails
  BY <1>4 DEF ConnectFails, Began, Whole
<1>5. CASE TakeOver
  <2>1. CASE pc' = "ended"
    BY <2>1 DEF Began, Whole
  <2>2. CASE pc' # "ended"
    <3>1. /\ pc = "take over" /\ pc' = "show"
          /\ UNCHANGED <<layout, display_indices, reload_plan>>
          /\ workspace_plan' = reload_plan /\ virtual_displays' = reload_plan
      BY <1>5, <2>2 DEF TakeOver, Repositions, vddVars, reloadVars
    <3>2. Readied(layout)'
      BY <3>1 DEF Began, Readied, Count
    <3>3. QED
      BY <3>1, <3>2 DEF Began, Whole, Configured
  <2>3. QED
    BY <2>1, <2>2
<1>6. CASE Show
  <2>1. CASE pc' = "ended"
    BY <2>1 DEF Began, Whole
  <2>2. CASE pc' # "ended"
    <3>1. /\ pc = "show" /\ pc' = "watch" /\ shown' = layout /\ Binds(layout)
          /\ UNCHANGED <<driver, layout, display_indices, reload_plan, workspace_plan, virtual_displays>>
      BY <1>6, <2>2 DEF Show, vddVars, deskVars, reloadVars
    <3>2. Readied(layout) /\ virtual_displays = reload_plan /\ workspace_plan = reload_plan
      BY <3>1 DEF Began, Configured
    <3>3. Held' /\ InPlace' /\ Configured' /\ Drawn'
      BY <3>1, <3>2, Commits
    <3>4. QED
      BY <3>1, <3>2, <3>3 DEF Began, Whole, Held
  <2>3. QED
    BY <2>1, <2>2
<1>7. CASE Watch
  <2>1. pc = "watch" /\ pc' = "turn" /\ StandStill /\ UNCHANGED shown
    BY <1>7 DEF Watch, vddVars, sceneVars, deskVars, StandStill
  <2>2. QED
    BY <2>1, StandStillKeeps DEF Began, Whole
<1>8. QED
  BY Start, <1>1, <1>2, <1>3, <1>4, <1>5, <1>6, <1>7 DEF Start

LEMMA ReloadSettles ==
  ASSUME Transaction, Reload
  PROVE  Began' /\ Whole'
<1>. USE DEF Transaction, Beginning, Committed, Attempting, Reloading, Undoing
<1>1. CASE SkipReload
  <2>1. pc = "turn" /\ pc' = "pings" /\ StandStill /\ UNCHANGED shown
    BY <1>1 DEF SkipReload, Turning, vddVars, sceneVars, deskVars, StandStill
  <2>2. QED
    BY <2>1, StandStillKeeps DEF Began, Whole
<1>2. CASE Check
  <2>1. pc = "turn" /\ pc' = "read" /\ StandStill /\ UNCHANGED shown /\ done' = {}
    BY <1>2 DEF Check, Turning, vddVars, sceneVars, deskVars, StandStill
  <2>2. Held' /\ InPlace' /\ Configured' /\ Drawn'
    BY <2>1, StandStillKeeps DEF Whole
  <2>3. QED
    BY <2>1, <2>2 DEF Began, Whole, Restorable
<1>3. CASE ReadLayout
  <2>1. pc = "read" /\ StandStill /\ UNCHANGED shown
    BY <1>3 DEF ReadLayout, sceneVars, deskVars, StandStill
  <2>2. Held' /\ InPlace' /\ Configured' /\ Drawn' /\ done = {}
    BY <2>1, StandStillKeeps DEF Whole, Restorable
  <2>3. \/ pc' = "undo" /\ UNCHANGED done
        \/ pc' = "plan" /\ UNCHANGED done /\ candidate' \in Layouts
        \/ pc' = "resize" /\ done' = {"displays"} /\ candidate' \in Layouts
    BY <1>3, <2>2, TypeParts DEF ReadLayout, EngineType
  <2>4. QED
    BY <2>2, <2>3 DEF Began, Whole, Restorable
<1>4. CASE Resized
  <2>1. pc = "resize" /\ StandStill /\ UNCHANGED <<shown, done, candidate>> /\ pc' \in {"plan", "undo"}
    BY <1>4 DEF Resized, sceneVars, deskVars, reloadVars, StandStill
  <2>2. QED
    BY <2>1, StandStillKeeps DEF Began, Whole
<1>5. CASE Plan
  <2>1. pc = "plan" /\ StandStill /\ UNCHANGED <<shown, done, candidate>>
    BY <1>5 DEF Plan, vddVars, sceneVars, deskVars, StandStill
  <2>2. Held' /\ Restorable' /\ candidate' \in Layouts /\ "plan" \notin done
    BY <2>1, StandStillKeeps DEF Whole
  <2>3. CASE Len(candidate) # Count
    <3>1. pc' = "undo"
      BY <1>5, <2>3 DEF Plan
    <3>2. QED
      BY <2>2, <3>1 DEF Began, Whole
  <2>4. CASE Len(candidate) = Count
    <3>1. /\ reload_plan' = PlanDesktops(candidate, display_indices)
          /\ pc' = IF reload_plan' # workspace_plan THEN "place" ELSE "render"
      BY <1>5, <2>4 DEF Plan
    <3>2. Readied(candidate)'
      BY <2>1, <2>2, <2>4, <3>1 DEF Readied, Count, StandStill
    <3>3. pc' = "render" => virtual_displays' = reload_plan'
      BY <2>1, <2>2, <3>1 DEF Restorable, Configured, StandStill
    <3>4. pc' \in {"place", "render"}
      BY <3>1
    <3>5. QED
      BY <2>2, <3>2, <3>3, <3>4 DEF Began, Whole
  <2>5. QED
    BY <2>3, <2>4
<1>6. CASE Place
  <2>1. /\ pc = "place"
        /\ UNCHANGED <<driver, display_indices, layout, captures, workspace_plan, shown, reload_plan, candidate>>
    BY <1>6 DEF Place, vddVars
  <2>2. CASE pc' = "undo"
    <3>1. StandStill /\ UNCHANGED done
      BY <1>6, <2>1, <2>2 DEF Place, RepositionFails, StandStill
    <3>2. QED
      BY <2>1, <2>2, <3>1, StandStillKeeps DEF Began, Whole
  <2>3. CASE pc' # "undo"
    <3>1. pc' = "render" /\ virtual_displays' = reload_plan' /\ done' = done \cup {"plan"}
      BY <1>6, <2>1, <2>3 DEF Place, Repositions
    <3>2. Held' /\ InPlace' = InPlace /\ Drawn' = Drawn /\ Readied(candidate)' /\ candidate' \in Layouts
      BY <2>1 DEF Whole, Held, InPlace, Drawn, Readied, Count
    <3>3. Restorable'
      BY <2>1, <3>1, <3>2 DEF Whole, Restorable
    <3>4. QED
      BY <3>1, <3>2, <3>3 DEF Began, Whole
  <2>4. QED
    BY <2>2, <2>3
<1>7. CASE Render
  <2>1. pc = "render" /\ StandStill /\ UNCHANGED <<reload_plan, candidate>>
    BY <1>7 DEF Render, vddVars, deskVars, StandStill
  <2>2. /\ Held' /\ InPlace' = InPlace /\ Configured' = Configured /\ Readied(candidate)'
        /\ candidate' \in Layouts /\ virtual_displays' = reload_plan'
    BY <2>1, StandStillKeeps DEF Whole, StandStill
  <2>3. \/ pc' = "bind" /\ shown' = candidate' /\ done' = done \cup {"renderer"}
        \/ pc' = "undo" /\ UNCHANGED <<shown, done>>
    BY <1>7, <2>1 DEF Render
  <2>4. Restorable'
    BY <2>1, <2>2, <2>3, StandStillKeeps DEF Whole, Restorable
  <2>5. QED
    BY <2>2, <2>3, <2>4 DEF Began, Whole
<1>8. CASE Bind
  <2>1. pc = "bind" /\ UNCHANGED <<driver, display_indices, shown, virtual_displays, done>>
    BY <1>8 DEF Bind, vddVars, deskVars, reloadVars
  <2>2. CASE pc' = "undo"
    <3>1. StandStill
      BY <1>8, <2>1, <2>2 DEF Bind, StandStill
    <3>2. QED
      BY <2>1, <2>2, <3>1, StandStillKeeps DEF Began, Whole
  <2>3. CASE pc' # "undo"
    <3>1. Binds(candidate) /\ layout' = candidate /\ workspace_plan' = reload_plan /\ pc' = "pings"
      BY <1>8, <2>3 DEF Bind
    <3>2. Readied(candidate) /\ virtual_displays = reload_plan /\ shown = candidate
      BY <2>1 DEF Whole
    <3>3. Held' /\ InPlace' /\ Configured' /\ Drawn'
      BY <2>1, <3>1, <3>2, Commits
    <3>4. QED
      BY <3>1, <3>3 DEF Began, Whole
  <2>4. QED
    BY <2>2, <2>3
<1>9. QED
  BY Reload, <1>1, <1>2, <1>3, <1>4, <1>5, <1>6, <1>7, <1>8 DEF Reload

\* The desktops of the plan in force can be placed only where its displays are.
LEMMA PlacedAreThere ==
  ASSUME TypeOK, Held, Drivers(workspace_plan) \subseteq listed
  PROVE  Range(captures) \subseteq driver
<1>1. Drivers(workspace_plan) = Range(captures)
  BY PlanBinds DEF Held
<1>2. QED
  BY <1>1, TypeParts DEF VddTypeOK

LEMMA UndoSettles ==
  ASSUME Transaction, UndoReload \/ CheckPings \/ Shutdown
  PROVE  Began' /\ Whole'
<1>. USE DEF Transaction, Beginning, Committed, Attempting, Reloading, Undoing, GiveUp
<1>1. CASE Undo
  <2>1. pc = "undo" /\ StandStill
    BY <1>1 DEF Undo, deskVars, StandStill
  <2>2. Held' /\ Restorable
    BY <2>1, StandStillKeeps DEF Whole
  <2>3. quit' \/ Drawn'
    BY <1>1, <2>1, <2>2 DEF Undo, Restorable, Drawn, exitVars, StandStill
  <2>4. \/ pc' = "undo resize"
        \/ pc' = "pings" /\ done \cap {"displays", "plan"} = {}
    BY <1>1 DEF Undo
  <2>5. pc' = "pings" => InPlace' /\ Configured'
    BY <2>1, <2>2, <2>4, StandStillKeeps DEF Restorable
  <2>6. QED
    BY <2>2, <2>3, <2>4, <2>5 DEF Began, Whole
<1>2. CASE UndoResize
  <2>1. pc = "undo resize" /\ StandStill /\ UNCHANGED shown
    BY <1>2 DEF UndoResize, sceneVars, deskVars, StandStill
  <2>2. Held' /\ (quit \/ Drawn')
    BY <2>1, StandStillKeeps DEF Whole
  <2>3. \/ pc' = "undo place" /\ UNCHANGED quit /\ Count = call.goal
        \/ pc' = "pings" /\ quit'
    BY <1>2 DEF UndoResize, ResizeReturnsTrue, exitVars
  <2>4. Count = call.goal => Count' = Len(layout')
    BY <2>1 DEF Called, Count, StandStill
  <2>5. QED
    BY <2>2, <2>3, <2>4 DEF Began, Whole
<1>3. CASE UndoPlace
  <2>1. pc = "undo place" /\ UNCHANGED <<driver, listed, display_indices, layout, shown, captures, workspace_plan>>
    BY <1>3 DEF UndoPlace, vddVars
  <2>2. Held' /\ Count = Len(layout) /\ Count' = Len(layout') /\ (quit \/ Drawn')
    BY <2>1 DEF Whole, Held, Drawn, Count
  <2>3. CASE pc' = "pings"
    <3>1. quit'
      BY <1>3, <2>3 DEF UndoPlace
    <3>2. QED
      BY <2>2, <2>3, <3>1 DEF Began, Whole
  <2>4. CASE pc' # "pings"
    <3>1. pc' = "undo bind" /\ Repositions(workspace_plan) /\ UNCHANGED quit
      BY <1>3, <2>4 DEF UndoPlace, exitVars
    <3>2. Range(captures) \subseteq driver
      BY <2>1, <3>1, PlacedAreThere DEF Whole, Repositions
    <3>3. InPlace' /\ Configured'
      BY <2>1, <2>2, <3>1, <3>2 DEF InPlace, Configured, Repositions
    <3>4. QED
      BY <2>2, <3>1, <3>3 DEF Began, Whole
  <2>5. QED
    BY <2>3, <2>4
<1>4. CASE UndoBind
  <2>1. /\ pc = "undo bind" /\ pc' = "pings"
        /\ UNCHANGED <<driver, display_indices, layout, shown, workspace_plan, virtual_displays>>
        /\ \/ Binds(layout) /\ UNCHANGED quit
           \/ quit' /\ UNCHANGED captures
    BY <1>4 DEF UndoBind, vddVars, deskVars, exitVars
  <2>2. Held /\ InPlace /\ Configured /\ (quit \/ Drawn)
    BY <2>1 DEF Whole
  <2>3. UNCHANGED captures
    <3>1. CASE Binds(layout)
      <4>1. virtual_displays = PlanDesktops(layout, captures)
        BY <2>2 DEF Held, Configured
      <4>2. QED
        BY <2>2, <3>1, <4>1, PlanBinds DEF Binds, Held
    <3>2. QED
      BY <2>1, <3>1
  <2>4. StandStill
    BY <2>1, <2>3 DEF StandStill
  <2>5. QED
    BY <2>1, <2>2, <2>4, StandStillKeeps DEF Began, Whole
<1>5. CASE CheckPings
  <2>1. /\ pc = "pings" /\ (quit' \/ UNCHANGED quit)
        /\ UNCHANGED <<driver, display_indices, layout, shown, workspace_plan, virtual_displays>>
        /\ \/ pc' = "shutdown"
           \/ pc' = "turn" /\ ~quit' /\ UNCHANGED captures
    BY <1>5 DEF CheckPings, vddVars, deskVars, exitVars
  <2>2. CASE pc' = "turn"
    <3>1. StandStill /\ ~quit
      BY <2>1, <2>2 DEF StandStill
    <3>2. QED
      BY <2>1, <2>2, <3>1, StandStillKeeps DEF Began, Whole
  <2>3. QED
    BY <2>1, <2>2 DEF Began, Whole
<1>6. CASE Shutdown
  BY <1>6 DEF Shutdown, Began, Whole
<1>7. QED
  BY UndoReload \/ CheckPings \/ Shutdown, <1>1, <1>2, <1>3, <1>4, <1>5, <1>6 DEF UndoReload

LEMMA AsideSettles ==
  ASSUME Transaction, Aside \/ Beside
  PROVE  Began' /\ Whole'
<1>1. /\ StandStill /\ UNCHANGED <<shown, done, candidate, reload_plan, pc>>
      /\ (UNCHANGED quit \/ quit')
  BY TypeParts, ElsewhereKeepsVdd
     DEF Transaction, Aside, Beside, Edit, AskReload, AskQuit, vars, vddVars, sceneVars, deskVars,
         reloadVars, exitVars, StandStill
<1>2. /\ Held' = Held /\ InPlace' = InPlace /\ Configured' = Configured /\ Drawn' = Drawn
      /\ Restorable' = Restorable /\ Readied(candidate)' = Readied(candidate)
      /\ Readied(layout)' = Readied(layout)
      /\ Count' = Count /\ Len(layout') = Len(layout)
  BY <1>1, StandStillKeeps DEF StandStill, Count
<1>3. UNCHANGED <<layout, workspace_plan, virtual_displays>>
  BY <1>1 DEF StandStill
<1>4. Began'
  BY <1>1, <1>2, <1>3, Zenon DEF Transaction, Began
<1>5. Whole'
  <2>1. quit => quit'
    BY <1>1
  <2>2. QED
    BY <1>1, <1>2, <1>3, <2>1, ZenonT(60) DEF Transaction, Whole
<1>6. QED
  BY <1>4, <1>5

LEMMA CallSettles ==
  ASSUME Transaction, InCall
  PROVE  Began' /\ Whole'
<1>1. UNCHANGED <<layout, captures, workspace_plan, virtual_displays, shown, done, candidate, pc, quit>>
  BY DEF InCall, sceneVars, deskVars, reloadVars, exitVars
<1>2. pc \in Resizing
  <2>1. call.leg # "none" /\ NoCall.leg = "none"
    BY TypeParts, ResizeChanges DEF InCall, Transaction, NoCall
  <2>2. QED
    BY <2>1 DEF Transaction, Called
<1>3. Held' = Held /\ Configured' = Configured /\ Drawn' = Drawn
  BY <1>1 DEF Held, Configured, Drawn
<1>4. QED
  BY <1>1, <1>2, <1>3
     DEF Transaction, Began, Whole, Restorable, Resizing, Beginning, Committed, Attempting, Reloading, Undoing

LEMMA TransactionInit == Init => Transaction
<1>. SUFFICES ASSUME Init PROVE Transaction
  OBVIOUS
<1>1. VddTypeOK
  <2>1. display_indices \in Seq(Low) /\ Len(display_indices) = 0
    BY EmptySeq DEF Init, VddInit
  <2>2. 0 \in 0 .. FatalPings /\ 0 <= MaximumDisplays
    BY VddAssumption
  <2>3. QED
    BY <2>1, <2>2, NoCallType DEF Init, VddInit, VddTypeOK, Low
<1>2. EngineType
  <2>1. <<>> \in Seq(Index) /\ <<>> \in Plans
    BY EmptySeq DEF Plans
  <2>2. 0 \in 0 .. MaxEdits
    BY LayoutAssumption
  <2>3. QED
    BY <2>1, <2>2 DEF Init, EngineType, Starting
<1>3. Tracked
  BY DEF Init, VddInit, Tracked, IsInjective, Range
<1>4. Called /\ Began /\ Whole
  BY DEF Init, VddInit, Called, Began, Whole, Resizing, Beginning, Committed, Attempting, Reloading, Undoing
<1>5. QED
  BY <1>1, <1>2, <1>3, <1>4, TypeParts DEF Transaction

LEMMA TransactionStep ==
  ASSUME "remove" \notin CarriedOut, Transaction, [Next]_vars
  PROVE  Transaction'
<1>1. Began' /\ Whole'
  BY NextCases, StartSettles, ReloadSettles, UndoSettles, AsideSettles, CallSettles
<1>2. QED
  BY <1>1, TypeStep, CalledStep, TrackedStep DEF Transaction

LEMMA TransactionIsConsistent == Transaction => Consistent
<1>. SUFFICES ASSUME Transaction, Turning PROVE
       /\ shown = layout /\ Count = Len(layout)
       /\ workspace_plan = PlanDesktops(layout, captures)
       /\ virtual_displays = workspace_plan
       /\ IsInjective(display_indices)
       /\ Range(captures) \cup Range(display_indices) \subseteq driver
       /\ Unknown = {} => Range(captures) = Range(display_indices)
  BY DEF Consistent
<1>1. Held /\ InPlace /\ Configured /\ Drawn
  BY DEF Transaction, Whole, Turning, Committed
<1>2. ASSUME Unknown = {} PROVE Range(captures) = Range(display_indices)
  <2>1. captures \in Seq(Low) /\ display_indices \in Seq(Low) /\ Len(captures) = Len(display_indices)
    BY <1>1, TypeParts DEF Transaction, Held, InPlace, Count, VddTypeOK, Low
  <2>2. Range(captures) \subseteq Low
    BY <2>1 DEF Range
  <2>3. Range(captures) \subseteq Range(display_indices)
    BY <1>1, <1>2, <2>2 DEF InPlace, Unknown, Low
  <2>4. QED
    BY <1>1, <2>1, <2>3, SameDisplays DEF Transaction, Tracked, Held
<1>3. IsInjective(display_indices) /\ Range(captures) \cup Range(display_indices) \subseteq driver
  BY <1>1 DEF Transaction, Tracked, InPlace
<1>4. QED
  BY <1>1, <1>2, <1>3 DEF Held, InPlace, Configured, Drawn

\* The variables of the engine and of its client keep their types, and a call in progress is one
\* that the engine waits for: whatever ioctls fail, are carried out late, or are not.
THEOREM TypeCorrect == Spec => []TypeOK
<1>1. Init => TypeOK /\ Called
  BY TransactionInit DEF Transaction
<1>2. TypeOK /\ Called /\ [Next]_vars => (TypeOK /\ Called)'
  BY TypeStep, CalledStep
<1>3. QED
  BY <1>1, <1>2, PTL DEF Spec

\* A reload is taken whole or undone, for any layouts and displays and wherever in it a call, a
\* move, the renderer or a capture fails: between two reloads of a running engine the layout, the
\* renderer, the plan, the desktops and the captures speak of the same screens, whose displays
\* exist and are tracked once.  It needs that no removal is carried out and reported as failed (see
\* README.md).
THEOREM ReloadsAreWhole ==
  ASSUME "remove" \notin CarriedOut
  PROVE  Spec => []Consistent
<1>1. Transaction /\ [Next]_vars => Transaction'
  BY TransactionStep, "remove" \notin CarriedOut
<1>2. QED
  BY <1>1, TransactionInit, TransactionIsConsistent, PTL DEF Spec

=============================================================================
