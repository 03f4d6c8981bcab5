--------------------------- MODULE ViewComfortProofs ---------------------------
(***************************************************************************)
(* What the engine shows is what the dashboard shows, and what is chosen is *)
(* remembered, for any screens, levels and percentages, whatever messages,  *)
(* saves, engines and controllers are lost.                                 *)
(***************************************************************************)
EXTENDS ViewComfort, TLAPS

(***************************************************************************)
(* The operators.                                                           *)
(***************************************************************************)
LEMMA DefaultsAreComfort == Defaults \in Comfort
<1>1. /\ Full \in Bright /\ DefaultDim \in Bright /\ DefaultWarmth \in Percent /\ DefaultLevel \in Level
  BY ComfortAssumption DEF Bright, Level
<1>2. "off" \in Mode /\ FALSE \in BOOLEAN
  BY DEF Mode
<1>3. QED
  BY <1>1, <1>2 DEF Defaults, Comfort

LEMMA SetTintIsComfort ==
  ASSUME NEW c \in Comfort, NEW strength \in Percent
  PROVE  SetTint(c, strength) \in Comfort
BY DEF SetTint, Comfort

\* Setting the tint to a strength shows that strength.
LEMMA SetTintShows ==
  ASSUME NEW c \in Comfort, NEW strength \in Percent
  PROVE  Tint(SetTint(c, strength)) = strength
<1>1. strength \in Nat
  BY ComfortAssumption
<1>2. CASE strength > 0
  <2>1. SetTint(c, strength) = [c EXCEPT !.tint = TRUE, !.warmth = strength]
    BY <1>2 DEF SetTint
  <2>2. QED
    BY <2>1 DEF Tint, Comfort
<1>3. CASE strength = 0
  <2>1. SetTint(c, strength) = [c EXCEPT !.tint = FALSE]
    BY <1>3 DEF SetTint
  <2>2. QED
    BY <1>3, <2>1 DEF Tint, Comfort
<1>4. QED
  BY <1>1, <1>2, <1>3

LEMMA TintIsPercent ==
  ASSUME NEW c \in Comfort
  PROVE  Tint(c) \in Percent
BY ComfortAssumption DEF Tint, Comfort

LEMMA FromArgumentsIsComfort ==
  ASSUME NEW c \in Comfort
  PROVE  FromArguments(c) \in Comfort
<1> DEFINE dimmed == [Defaults EXCEPT
                        !.level = c.level, !.mode = c.mode,
                        !.bright = IF c.mode = "manual" THEN c.bright ELSE @,
                        !.focus = IF c.mode = "focus" THEN c.focus ELSE @]
<1>1. dimmed \in Comfort
  BY DefaultsAreComfort DEF Comfort
<1>2. c.warmth \in Percent
  BY DEF Comfort
<1>3. FromArguments(c) = IF c.tint THEN SetTint(dimmed, c.warmth) ELSE dimmed
  BY DEF FromArguments
<1> HIDE DEF dimmed
<1>4. QED
  BY <1>1, <1>2, <1>3, SetTintIsComfort

\* What a control names: a group, and a screen of it or 0.
Control == (Group \X {0}) \cup {<<"dim", s>> : s \in Screens}

LEMMA PushedIsComfort ==
  ASSUME NEW c \in Comfort, NEW e \in Comfort, NEW group, NEW s, <<group, s>> \in Control
  PROVE  Pushed(c, e, group, s) \in Comfort
<1>1. CASE group = "stabilise"
  BY <1>1 DEF Pushed, Comfort
<1>2. CASE group = "dim" /\ s = 0
  BY <1>2 DEF Pushed, Comfort
<1>3. CASE group = "dim" /\ s # 0
  <2>1. s \in Screens
    BY <1>3 DEF Control
  <2>2. Pushed(c, e, group, s) = [e EXCEPT !.bright[s] = c.bright[s]]
    BY <1>3 DEF Pushed
  <2>3. [e.bright EXCEPT ![s] = c.bright[s]] \in [Screens -> Bright]
    BY <2>1 DEF Comfort
  <2>4. QED
    BY <2>2, <2>3 DEF Comfort
<1>4. CASE group = "tint"
  <2>1. Pushed(c, e, group, s) = SetTint(e, Tint(c))
    BY <1>4 DEF Pushed, Tint
  <2>2. QED
    BY <2>1, TintIsPercent, SetTintIsComfort
<1>5. group \in Group
  BY DEF Control, Group
<1>6. QED
  BY <1>1, <1>2, <1>3, <1>4, <1>5 DEF Group

-----------------------------------------------------------------------------
(***************************************************************************)
(* Types.                                                                   *)
(***************************************************************************)
LEMMA TypeInit == Init => TypeOK
<1>. SUFFICES ASSUME Init PROVE TypeOK
  OBVIOUS
<1>2. [Defaults EXCEPT !.level = 0] \in Comfort
  BY DefaultsAreComfort, ComfortAssumption DEF Comfort, Level
<1>3. {config, file, comfort} \subseteq Comfort
  BY <1>2, DefaultsAreComfort DEF Init
<1>4. area \in SUBSET Group
  BY ComfortAssumption DEF Init, Group
<1>5. {valid, broken, unsaved} \subseteq BOOLEAN
  BY DEF Init
<1>6. QED
  BY <1>3, <1>4, <1>5, ComfortAssumption DEF Init, TypeOK, Idle, NoLevel

LEMMA SaveConfigType ==
  ASSUME TypeOK, config' \in Comfort, SaveConfig
  PROVE  file' \in Comfort /\ {valid', broken', unsaved'} \subseteq BOOLEAN
BY DEF TypeOK, SaveConfig

LEMMA SaveComfortType ==
  ASSUME TypeOK, config' \in Comfort, SaveComfort
  PROVE  file' \in Comfort /\ {valid', broken', unsaved'} \subseteq BOOLEAN
<1>1. CASE valid
  BY <1>1, SaveConfigType, SaveComfort DEF SaveComfort
<1>2. CASE ~valid
  BY <1>2, SaveComfort DEF SaveComfort, TypeOK
<1>3. QED
  BY <1>1, <1>2

LEMMA PushType ==
  ASSUME TypeOK, config' \in Comfort, NEW group, NEW s, <<group, s>> \in Control, Push(group, s)
  PROVE  comfort' \in Comfort /\ drift' \in [Group -> {"none", "told", "silent", "engine"}]
<1>1. comfort \in Comfort /\ Pushed(config', comfort, group, s) \in Comfort
  BY PushedIsComfort DEF TypeOK
<1>2. [comfort EXCEPT !.mode = config'.mode, !.focus = config'.focus] \in Comfort
  BY <1>1 DEF Comfort
<1>3. comfort' \in {comfort, [comfort EXCEPT !.mode = config'.mode, !.focus = config'.focus],
                   Pushed(config', comfort, group, s)}
  BY Push(group, s) DEF Push
<1>4. comfort' \in Comfort
  BY <1>1, <1>2, <1>3
<1>5. group \in Group
  BY DEF Control, Group
<1>6. PICK why \in {"none", "told", "silent", drift[group]} :
        drift' = drift \/ drift' = [drift EXCEPT ![group] = why]
  BY Push(group, s) DEF Push
<1>7. QED
  BY <1>4, <1>5, <1>6 DEF TypeOK

LEMMA SlidersAreControls ==
  ASSUME NEW slider \in Slider
  PROVE  slider = <<slider[1], slider[2]>> /\ slider \in Control /\ slider # NoDrag
BY DEF Slider, Control, Group, NoDrag

LEMMA SliderTargetType ==
  ASSUME config \in Comfort, NEW slider \in Slider, NEW value \in Percent,
         slider[1] = "dim" => value \in Bright
  PROVE  SliderTarget(slider, value) \in Comfort
<1>1. CASE slider[1] = "tint"
  BY <1>1 DEF SliderTarget, Comfort
<1>2. CASE slider = <<"dim", 0>>
  BY <1>2 DEF SliderTarget, Comfort
<1>3. CASE slider[1] # "tint" /\ slider # <<"dim", 0>>
  <2>1. slider[1] = "dim" /\ slider[2] \in Screens
    BY <1>3 DEF Slider
  <2>2. SliderTarget(slider, value) = [config EXCEPT !.bright[slider[2]] = value]
    BY <1>3 DEF SliderTarget
  <2>3. [config.bright EXCEPT ![slider[2]] = value] \in [Screens -> Bright]
    BY <2>1 DEF Comfort
  <2>4. QED
    BY <2>2, <2>3 DEF Comfort
<1>4. QED
  BY <1>1, <1>2, <1>3

LEMMA SetComfortValueType ==
  ASSUME TypeOK, NEW slider \in Slider, NEW value \in Percent, SetComfortValue(slider, value)
  PROVE  /\ {config', comfort'} \subseteq Comfort
         /\ drift' \in [Group -> {"none", "told", "silent", "engine"}]
<1>1. config' \in Comfort
  BY SliderTargetType, SetComfortValue(slider, value) DEF SetComfortValue, TypeOK
<1>2. <<slider[1], slider[2]>> \in Control
  BY SlidersAreControls
<1>3. Push(slider[1], slider[2]) \/ UNCHANGED <<comfort, drift>>
  BY SetComfortValue(slider, value) DEF SetComfortValue
<1>4. CASE Push(slider[1], slider[2])
  BY <1>1, <1>2, <1>4, PushType
<1>5. CASE UNCHANGED <<comfort, drift>>
  BY <1>1, <1>5 DEF TypeOK
<1>6. QED
  BY <1>3, <1>4, <1>5

LEMMA ControlsKeepType ==
  ASSUME TypeOK,
         \/ \E g \in Group : Choose(g)
         \/ \E s \in Slider, v \in Percent : Key(s, v) \/ Drag(s, v)
  PROVE  TypeOK'
<1>1. ASSUME NEW g \in Group, Choose(g)
      PROVE  TypeOK'
  <2> config \in Comfort
    BY DEF TypeOK
  <2>1. config' \in Comfort
    <3>1. CASE g = "stabilise"
      BY <1>1, <3>1 DEF Choose, Comfort
    <3>2. CASE g = "dim"
      BY <1>1, <3>2 DEF Choose, Comfort
    <3>3. CASE g = "tint"
      <4>1. config' = [config EXCEPT !.tint = ~config.tint]
        BY <1>1, <3>3 DEF Choose
      <4>2. config.tint = TRUE \/ config.tint = FALSE
        BY DEF Comfort
      <4>3. \A b \in BOOLEAN : [config EXCEPT !.tint = b] \in Comfort
        BY DEF Comfort
      <4>4. QED
        BY <4>1, <4>2, <4>3, Zenon
    <3>4. QED
      BY <3>1, <3>2, <3>3 DEF Group
  <2>2. file' \in Comfort /\ {valid', broken', unsaved'} \subseteq BOOLEAN
    BY <1>1, <2>1, SaveComfortType DEF Choose
  <2>3. <<g, 0>> \in Control
    BY DEF Control
  <2>4. comfort' \in Comfort /\ drift' \in [Group -> {"none", "told", "silent", "engine"}]
    BY <1>1, <2>1, <2>3, PushType DEF Choose
  <2>5. QED
    BY <1>1, <2>1, <2>2, <2>4 DEF Choose, TypeOK, queryVars
<1>2. ASSUME NEW s \in Slider, NEW v \in Percent, Key(s, v)
      PROVE  TypeOK'
  <2>1. /\ {config', comfort'} \subseteq Comfort
        /\ drift' \in [Group -> {"none", "told", "silent", "engine"}]
    BY <1>2, SetComfortValueType DEF Key
  <2>2. file' \in Comfort /\ {valid', broken', unsaved'} \subseteq BOOLEAN
    BY <1>2, <2>1, SaveComfortType DEF Key
  <2>3. QED
    BY <1>2, <2>1, <2>2 DEF Key, TypeOK, queryVars
<1>3. ASSUME NEW s \in Slider, NEW v \in Percent, Drag(s, v)
      PROVE  TypeOK'
  <2>1. /\ {config', comfort'} \subseteq Comfort
        /\ drift' \in [Group -> {"none", "told", "silent", "engine"}]
    BY <1>3, SetComfortValueType DEF Drag
  <2>2. QED
    BY <1>3, <2>1 DEF Drag, TypeOK, queryVars
<1>4. QED
  BY <1>1, <1>2, <1>3

LEMMA FileKeepsType ==
  ASSUME TypeOK, Release \/ TogglePreference \/ MendFile \/ ReloadConfig
  PROVE  TypeOK'
<1>. USE DEF queryVars, engineVars
<1>1. CASE Release
  <2>1. file' \in Comfort /\ {valid', broken', unsaved'} \subseteq BOOLEAN
    BY <1>1, SaveComfortType DEF Release, TypeOK
  <2>2. QED
    BY <1>1, <2>1 DEF Release, TypeOK
<1>2. CASE TogglePreference
  <2>1. file' \in Comfort /\ {valid', broken', unsaved'} \subseteq BOOLEAN
    BY <1>2, SaveConfigType DEF TogglePreference, TypeOK
  <2>2. QED
    BY <1>2, <2>1 DEF TogglePreference, TypeOK
<1>3. CASE MendFile
  BY <1>3, DefaultsAreComfort DEF MendFile, TypeOK
<1>4. CASE ReloadConfig
  BY <1>4 DEF ReloadConfig, TypeOK
<1>5. QED
  BY <1>1, <1>2, <1>3, <1>4

LEMMA EngineKeepsType ==
  ASSUME TypeOK, Launch \/ HandLaunch \/ OpenWindow \/ SetApp \/ HotkeyCycleStabilise
                   \/ EngineEnds \/ Restart
  PROVE  TypeOK'
<1>. USE DEF controllerVars, queryVars
<1>1. CASE Launch
  <2>1. config' \in Comfort
    BY <1>1 DEF Launch, TypeOK
  <2>2. file' \in Comfort /\ {valid', broken', unsaved'} \subseteq BOOLEAN
    <3>1. CASE valid
      BY <1>1, <2>1, <3>1, SaveConfigType DEF Launch
    <3>2. CASE ~valid
      BY <1>1, <3>2 DEF Launch, TypeOK
    <3>3. QED
      BY <3>1, <3>2
  <2>3. comfort' \in Comfort
    BY <1>1, FromArgumentsIsComfort DEF Launch, TypeOK
  <2>4. drift' \in [Group -> {"none", "told", "silent", "engine"}]
    BY <1>1 DEF Launch
  <2>5. reported' \in NoLevel..MaxLevel
    BY <1>1, ComfortAssumption DEF Launch, NoLevel
  <2>6. QED
    BY <1>1, <2>1, <2>2, <2>3, <2>4, <2>5 DEF Launch, TypeOK
<1>2. CASE HandLaunch
  BY <1>2, DefaultsAreComfort DEF HandLaunch, TypeOK
<1>3. CASE OpenWindow \/ SetApp
  BY <1>3 DEF OpenWindow, SetApp, TypeOK
<1>4. CASE HotkeyCycleStabilise
  <2>1. comfort \in Comfort /\ comfort.level \in 0..MaxLevel
    BY DEF TypeOK, Comfort, Level
  <2>2. (comfort.level + 1) % (MaxLevel + 1) \in Level
    BY <2>1, ComfortAssumption DEF Level
  <2>3. comfort' \in Comfort
    BY <1>4, <2>1, <2>2 DEF HotkeyCycleStabilise, Comfort
  <2>4. drift' \in [Group -> {"none", "told", "silent", "engine"}]
    BY <1>4 DEF HotkeyCycleStabilise, TypeOK, Group
  <2>5. QED
    BY <1>4, <2>3, <2>4 DEF HotkeyCycleStabilise, TypeOK
<1>5. CASE EngineEnds
  BY <1>5 DEF EngineEnds, TypeOK
<1>6. CASE Restart
  <2>1. {config', file', comfort'} \subseteq Comfort
    BY <1>6, DefaultsAreComfort DEF Restart, TypeOK
  <2>2. {valid', broken', unsaved'} \subseteq BOOLEAN
    <3>1. broken = TRUE \/ broken = FALSE
      BY DEF TypeOK
    <3>2. valid' = ~broken /\ unsaved' = FALSE /\ broken' = broken
      BY <1>6 DEF Restart
    <3>3. QED
      BY <3>1, <3>2
  <2>3. query' \in Idle..MaxLevel /\ reported' \in NoLevel..MaxLevel
    BY <1>6, ComfortAssumption DEF Restart, Idle, NoLevel
  <2>4. QED
    BY <1>6, <2>1, <2>2, <2>3 DEF Restart, TypeOK
<1>7. QED
  BY <1>1, <1>2, <1>3, <1>4, <1>5, <1>6

LEMMA AdoptType ==
  ASSUME TypeOK, Adopt
  PROVE  /\ {config', file'} \subseteq Comfort
         /\ {valid', broken', unsaved'} \subseteq BOOLEAN
<1>1. CASE UNCHANGED <<config, file, valid, broken, unsaved>>
  BY <1>1 DEF TypeOK
<1>2. CASE ~ UNCHANGED <<config, file, valid, broken, unsaved>>
  <2>1. /\ reported' \in Level
        /\ config' = [config EXCEPT !.level = reported']
        /\ IF valid THEN SaveConfig ELSE UNCHANGED <<file, valid, broken, unsaved>>
    BY <1>2, Adopt DEF Adopt
  <2>2. config' \in Comfort
    BY <2>1 DEF TypeOK, Comfort
  <2>3. CASE valid
    BY <2>1, <2>2, <2>3, SaveConfigType
  <2>4. CASE ~valid
    BY <2>1, <2>2, <2>4 DEF TypeOK
  <2>5. QED
    BY <2>3, <2>4
<1>3. QED
  BY <1>1, <1>2

LEMMA PollKeepsType ==
  ASSUME TypeOK, AnswerQuery \/ StoreAnswer \/ PollWindow \/ PollNoWindow
  PROVE  TypeOK'
<1>. USE DEF controllerVars, engineVars
<1>1. comfort.level \in 0..MaxLevel
  BY DEF TypeOK, Comfort, Level
<1>. USE ComfortAssumption DEF Idle, Asked, NoLevel
<1>2. CASE AnswerQuery
  BY <1>1, <1>2 DEF AnswerQuery, TypeOK
<1>3. CASE StoreAnswer
  BY <1>3 DEF StoreAnswer, TypeOK
<1>4. CASE PollNoWindow
  BY <1>4 DEF PollNoWindow, TypeOK
<1>5. CASE PollWindow
  <2>1. query' \in Idle..MaxLevel /\ reported' \in NoLevel..MaxLevel
    BY <1>1, <1>5 DEF PollWindow, TypeOK
  <2>2. {config', file'} \subseteq Comfort /\ {valid', broken', unsaved'} \subseteq BOOLEAN
    BY <1>5, AdoptType DEF PollWindow
  <2>3. client' \in {"idle", "owns", "adopted"}
    BY <1>5 DEF PollWindow, TypeOK
  <2>4. drift' \in [Group -> {"none", "told", "silent", "engine"}]
    BY <1>5 DEF PollWindow, TypeOK, Group
  <2>5. UNCHANGED <<area, engine, comfort>>
    BY <1>5 DEF PollWindow
  <2>6. QED
    BY <2>1, <2>2, <2>3, <2>4, <2>5 DEF TypeOK
<1>6. QED
  BY <1>2, <1>3, <1>4, <1>5

(***************************************************************************)
(* Every variable keeps to its type.                                        *)
(***************************************************************************)
THEOREM TypeCorrect == Spec => []TypeOK
<1>1. Init => TypeOK
  BY TypeInit
<1>2. TypeOK /\ [Next]_vars => TypeOK'
  <2>. SUFFICES ASSUME TypeOK, [Next]_vars PROVE TypeOK'
    OBVIOUS
  <2>1. CASE Next
    BY <2>1, ControlsKeepType, FileKeepsType, EngineKeepsType, PollKeepsType DEF Next
  <2>2. CASE UNCHANGED vars
    BY <2>2 DEF vars, TypeOK
  <2>3. QED
    BY <2>1, <2>2
<1>3. QED
  BY <1>1, <1>2, PTL DEF Spec

-----------------------------------------------------------------------------
(***************************************************************************)
(* What is chosen is remembered.                                            *)
(***************************************************************************)
Remembered == FileIsConfig /\ (broken => ~valid)

LEMMA SaveConfigRemembers ==
  ASSUME Remembered, SaveConfig
  PROVE  Remembered'
BY DEF Remembered, FileIsConfig, SaveConfig

LEMMA SaveComfortRemembers ==
  ASSUME Remembered, SaveComfort
  PROVE  Remembered'
<1>1. CASE valid
  BY <1>1, SaveComfort, SaveConfigRemembers DEF SaveComfort
<1>2. CASE ~valid
  BY <1>2, SaveComfort DEF SaveComfort, Remembered, FileIsConfig
<1>3. QED
  BY <1>1, <1>2

LEMMA NextRemembers ==
  ASSUME Remembered, Next
  PROVE  Remembered'
<1>1. CASE \E g \in Group : Choose(g)
  BY <1>1, SaveComfortRemembers DEF Choose
<1>2. ASSUME NEW s \in Slider, NEW v \in Percent, Key(s, v)
      PROVE  Remembered'
  BY <1>2, SaveComfortRemembers DEF Key
<1>3. ASSUME NEW s \in Slider, NEW v \in Percent, Drag(s, v)
      PROVE  Remembered'
  <2>1. drag' # NoDrag /\ UNCHANGED <<valid, broken>>
    BY <1>3, SlidersAreControls DEF Drag
  <2>2. QED
    BY <2>1 DEF Remembered, FileIsConfig
<1>4. CASE Release \/ TogglePreference
  BY <1>4, SaveComfortRemembers, SaveConfigRemembers DEF Release, TogglePreference
<1>5. CASE MendFile \/ ReloadConfig
  BY <1>5 DEF MendFile, ReloadConfig, Remembered, FileIsConfig
<1>6. CASE Launch
  <2>1. CASE valid
    BY <1>6, <2>1, SaveConfigRemembers DEF Launch
  <2>2. CASE ~valid
    BY <1>6, <2>2 DEF Launch, Remembered, FileIsConfig
  <2>3. QED
    BY <2>1, <2>2
<1>7. CASE Restart
  BY <1>7 DEF Restart, Remembered, FileIsConfig
<1>8. CASE PollWindow
  <2>1. Adopt
    BY <1>8 DEF PollWindow
  <2>2. CASE UNCHANGED <<config, file, valid, broken, unsaved>>
    BY <1>8, <2>2 DEF PollWindow, Remembered, FileIsConfig
  <2>3. CASE valid /\ SaveConfig
    BY <2>3, SaveConfigRemembers
  <2>4. CASE ~valid /\ UNCHANGED <<file, valid, broken, unsaved>>
    BY <2>4 DEF Remembered, FileIsConfig
  <2>5. QED
    BY <2>1, <2>2, <2>3, <2>4 DEF Adopt
<1>9. CASE \/ HandLaunch \/ OpenWindow \/ SetApp \/ HotkeyCycleStabilise \/ EngineEnds
           \/ AnswerQuery \/ StoreAnswer \/ PollNoWindow
  <2>1. UNCHANGED <<config, file, valid, broken, drag, unsaved>>
    BY <1>9 DEF HandLaunch, OpenWindow, SetApp, HotkeyCycleStabilise, EngineEnds, AnswerQuery,
                StoreAnswer, PollNoWindow, controllerVars
  <2>2. QED
    BY <2>1 DEF Remembered, FileIsConfig
<1>10. QED
  BY <1>1, <1>2, <1>3, <1>4, <1>5, <1>6, <1>7, <1>8, <1>9 DEF Next

(***************************************************************************)
(* app.json holds what the dashboard shows, except while a slider is        *)
(* dragged, after a save that failed, and while the file cannot be read.    *)
(***************************************************************************)
THEOREM ChoicesAreRemembered == Spec => []FileIsConfig
<1>1. Init => Remembered
  BY DEF Init, Remembered, FileIsConfig
<1>2. Remembered /\ [Next]_vars => Remembered'
  <2>. SUFFICES ASSUME Remembered, [Next]_vars PROVE Remembered'
    OBVIOUS
  <2>1. CASE Next
    BY <2>1, NextRemembers
  <2>2. CASE UNCHANGED vars
    BY <2>2 DEF vars, Remembered, FileIsConfig
  <2>3. QED
    BY <2>1, <2>2
<1>3. Remembered => FileIsConfig
  BY DEF Remembered
<1>4. QED
  BY <1>1, <1>2, <1>3, PTL DEF Spec

-----------------------------------------------------------------------------
(***************************************************************************)
(* The engine shows what was chosen. Its settings need not equal the        *)
(* dashboard's: they agree where the chosen mode reads them.                *)
(***************************************************************************)
Agree(c, e, group) ==
  CASE group = "stabilise" -> e.level = c.level
    [] group = "dim" -> /\ e.mode = c.mode
                        /\ c.mode = "manual" => e.bright = c.bright
                        /\ c.mode = "focus" => e.focus = c.focus
    [] group = "tint" -> Tint(e) = Tint(c)

SameFields(c, d, group) ==
  CASE group = "stabilise" -> c.level = d.level
    [] group = "dim" -> c.mode = d.mode /\ c.bright = d.bright /\ c.focus = d.focus
    [] group = "tint" -> c.tint = d.tint /\ c.warmth = d.warmth

Explained ==
  client = "owns" /\ engine # "none"
    => \A g \in Group : drift[g] = "none" => Agree(config, comfort, g)

LEMMA AgreeShows ==
  ASSUME NEW c \in Comfort, NEW e, NEW g \in Group, Agree(c, e, g)
  PROVE  Shows(e, g) = Shows(c, g)
<1>1. CASE g = "stabilise"
  BY <1>1, Agree(c, e, g) DEF Agree, Shows
<1>2. CASE g = "dim"
  <2>1. /\ e.mode = c.mode
        /\ c.mode = "manual" => e.bright = c.bright
        /\ c.mode = "focus" => e.focus = c.focus
    BY <1>2, Agree(c, e, g) DEF Agree
  <2>2. Brightness(e) = Brightness(c)
    <3>1. CASE c.mode = "manual"
      BY <2>1, <3>1 DEF Brightness
    <3>2. CASE c.mode = "focus"
      BY <2>1, <3>2 DEF Brightness
    <3>3. CASE c.mode = "off"
      BY <2>1, <3>3 DEF Brightness
    <3>4. QED
      BY <3>1, <3>2, <3>3 DEF Comfort, Mode
  <2>3. QED
    BY <1>2, <2>2 DEF Shows
<1>3. CASE g = "tint"
  BY <1>3, Agree(c, e, g) DEF Agree, Shows
<1>4. QED
  BY <1>1, <1>2, <1>3 DEF Group

LEMMA AgreeIsOfTheFields ==
  ASSUME NEW c, NEW d, NEW e, NEW f, NEW g \in Group,
         SameFields(c, d, g), SameFields(e, f, g), Agree(c, e, g)
  PROVE  Agree(d, f, g)
<1>1. CASE g = "stabilise"
  BY <1>1 DEF Agree, SameFields
<1>2. CASE g = "dim"
  BY <1>2 DEF Agree, SameFields
<1>3. CASE g = "tint"
  BY <1>3 DEF Agree, SameFields, Tint
<1>4. QED
  BY <1>1, <1>2, <1>3 DEF Group

LEMMA SameFieldsOfSame ==
  ASSUME NEW c, NEW g \in Group
  PROVE  SameFields(c, c, g)
BY DEF SameFields, Group

\* The launch arguments carry what the mode reads.
LEMMA LaunchAgrees ==
  ASSUME NEW c \in Comfort, NEW g \in Group
  PROVE  Agree(c, FromArguments(c), g)
<1> DEFINE dimmed == [Defaults EXCEPT
                        !.level = c.level, !.mode = c.mode,
                        !.bright = IF c.mode = "manual" THEN c.bright ELSE @,
                        !.focus = IF c.mode = "focus" THEN c.focus ELSE @]
<1>1. dimmed \in Comfort
  BY DefaultsAreComfort DEF Comfort
<1>2. /\ dimmed.level = c.level /\ dimmed.mode = c.mode
      /\ c.mode = "manual" => dimmed.bright = c.bright
      /\ c.mode = "focus" => dimmed.focus = c.focus
      /\ dimmed.tint = FALSE
  BY DEF Defaults
<1>3. FromArguments(c) = IF c.tint THEN SetTint(dimmed, c.warmth) ELSE dimmed
  BY DEF FromArguments
<1> HIDE DEF dimmed
<1>4. c.warmth \in Percent
  BY DEF Comfort
<1>5. FromArguments(c).level = dimmed.level /\ FromArguments(c).mode = dimmed.mode
      /\ FromArguments(c).bright = dimmed.bright /\ FromArguments(c).focus = dimmed.focus
  BY <1>1, <1>3 DEF SetTint, Comfort
<1>6. Tint(FromArguments(c)) = Tint(c)
  <2>1. CASE c.tint
    <3>1. FromArguments(c) = SetTint(dimmed, c.warmth) /\ Tint(c) = c.warmth
      BY <1>3, <2>1 DEF Tint
    <3>2. QED
      BY <1>1, <1>4, <3>1, SetTintShows
  <2>2. CASE ~c.tint
    BY <1>2, <1>3, <2>2 DEF Tint
  <2>3. QED
    BY <2>1, <2>2
<1>7. QED
  BY <1>2, <1>5, <1>6 DEF Agree, Group

\* A push touches its group only, and leaves it agreeing.
LEMMA PushedOthers ==
  ASSUME NEW c \in Comfort, NEW e \in Comfort, NEW group, NEW s, <<group, s>> \in Control,
         NEW h \in Group \ {group}
  PROVE  SameFields(e, Pushed(c, e, group, s), h)
<1>1. CASE group = "stabilise"
  BY <1>1 DEF Pushed, SameFields, Comfort, Group
<1>2. CASE group = "dim"
  BY <1>2 DEF Pushed, SameFields, Comfort, Group
<1>3. CASE group = "tint"
  <2>1. Pushed(c, e, group, s) = SetTint(e, Tint(c))
    BY <1>3 DEF Pushed, Tint
  <2>2. QED
    BY <1>3, <2>1 DEF SetTint, SameFields, Comfort, Group
<1>4. QED
  BY <1>1, <1>2, <1>3 DEF Control, Group

LEMMA PushedAgrees ==
  ASSUME NEW c \in Comfort, NEW e \in Comfort, NEW group \in Group
  PROVE  Agree(c, Pushed(c, e, group, 0), group)
<1>1. CASE group = "stabilise"
  BY <1>1 DEF Pushed, Agree, Comfort
<1>2. CASE group = "dim"
  BY <1>2 DEF Pushed, Agree, Comfort
<1>3. CASE group = "tint"
  <2>1. Pushed(c, e, group, 0) = SetTint(e, Tint(c))
    BY <1>3 DEF Pushed, Tint
  <2>2. QED
    BY <1>3, <2>1, TintIsPercent, SetTintShows DEF Agree
<1>4. QED
  BY <1>1, <1>2, <1>3 DEF Group

-----------------------------------------------------------------------------
\* A step that changes fields of one group only, on both sides, keeps the others explained.
LEMMA OthersStayExplained ==
  ASSUME Explained, NEW group, UNCHANGED client, client = "owns", engine # "none",
         \A h \in Group \ {group} : /\ SameFields(config, config', h)
                                   /\ SameFields(comfort, comfort', h)
                                   /\ drift'[h] = drift[h],
         group \in Group /\ drift'[group] = "none" => Agree(config', comfort', group)
  PROVE  Explained'
<1>. SUFFICES ASSUME NEW g \in Group, drift'[g] = "none"
              PROVE  Agree(config', comfort', g)
  BY DEF Explained
<1>1. CASE g = group
  BY <1>1
<1>2. CASE g # group
  <2>1. drift[g] = "none"
    BY <1>2
  <2>2. Agree(config, comfort, g)
    BY <2>1 DEF Explained
  <2>3. SameFields(config, config', g) /\ SameFields(comfort, comfort', g)
    BY <1>2
  <2>4. QED
    BY <2>2, <2>3, AgreeIsOfTheFields
<1>3. QED
  BY <1>1, <1>2

\* A change that is sent: of a whole group, or of one screen's brightness.
LEMMA PushStaysExplained ==
  ASSUME TypeOK, Explained, config' \in Comfort, UNCHANGED <<client, engine>>,
         NEW group, NEW s, <<group, s>> \in Control, Push(group, s),
         \A h \in Group \ {group} : SameFields(config, config', h),
         s # 0 => config.mode = "manual" /\ config' = [config EXCEPT !.bright[s] = config'.bright[s]]
  PROVE  Explained'
<1>. SUFFICES ASSUME client = "owns", engine # "none"
              PROVE  Explained'
  BY DEF Explained
<1>. DEFINE partly == [comfort EXCEPT !.mode = config'.mode, !.focus = config'.focus]
            whole == Pushed(config', comfort, group, s)
<1>0. /\ config \in Comfort /\ comfort \in Comfort /\ group \in Group
      /\ drift \in [Group -> {"none", "told", "silent", "engine"}]
  BY DEF TypeOK, Control, Group
<1>1. \A h \in Group \ {group} : SameFields(comfort, comfort, h) /\ SameFields(comfort, whole, h)
  BY <1>0, PushedOthers, SameFieldsOfSame
<1>2. \A h \in Group \ {"dim"} : SameFields(comfort, partly, h)
  BY <1>0 DEF SameFields, Comfort, Group
<1>3. CASE engine = "running" /\ comfort' = whole /\ drift' = [drift EXCEPT ![group] = IF s = 0 THEN "none" ELSE @]
  <2>1. \A h \in Group \ {group} : SameFields(comfort, comfort', h) /\ drift'[h] = drift[h]
    BY <1>0, <1>1, <1>3
  <2>2. CASE s = 0
    <3>1. Agree(config', comfort', group)
      BY <1>0, <1>3, <2>2, PushedAgrees
    <3>2. QED
      BY <1>0, <2>1, <3>1, OthersStayExplained
  <2>3. CASE s # 0
    <3>1. group = "dim" /\ s \in Screens
      BY <2>3 DEF Control
    <3>2. drift'[group] = drift[group]
      BY <1>0, <1>3, <2>3
    <3>3. ASSUME drift'[group] = "none"
          PROVE  Agree(config', comfort', group)
      <4>1. comfort.mode = "manual" /\ comfort.bright = config.bright
        BY <1>0, <2>3, <3>1, <3>2, <3>3 DEF Explained, Agree
      <4>2. comfort' = [comfort EXCEPT !.bright[s] = config'.bright[s]]
        BY <1>3, <2>3, <3>1 DEF Pushed
      <4>3. comfort'.mode = "manual" /\ config'.mode = "manual"
        BY <1>0, <2>3, <4>1, <4>2 DEF Comfort
      <4>4. comfort'.bright = config'.bright
        <5>1. comfort'.bright = [comfort.bright EXCEPT ![s] = config'.bright[s]]
          BY <1>0, <4>2 DEF Comfort
        <5>2. config'.bright = [config.bright EXCEPT ![s] = config'.bright[s]]
          BY <1>0, <2>3 DEF Comfort
        <5>3. QED
          BY <4>1, <5>1, <5>2
      <4>5. QED
        BY <3>1, <4>3, <4>4 DEF Agree
    <3>4. QED
      BY <1>0, <2>1, <3>3, OthersStayExplained
  <2>4. QED
    BY <2>2, <2>3
<1>4. CASE /\ drift' \in {[drift EXCEPT ![group] = "silent"],
                         [drift EXCEPT ![group] = IF @ = "silent" THEN @ ELSE "told"]}
           /\ comfort' \in {comfort, whole} \cup (IF group = "dim" THEN {partly} ELSE {})
  <2>1. drift'[group] # "none" /\ \A h \in Group \ {group} : drift'[h] = drift[h]
    BY <1>0, <1>4
  <2>2. \A h \in Group \ {group} : SameFields(comfort, comfort', h)
    BY <1>1, <1>2, <1>4
  <2>3. QED
    BY <2>1, <2>2, OthersStayExplained
<1>5. QED
  BY <1>3, <1>4, Push(group, s) DEF Push

LEMMA ControlsStayExplained ==
  ASSUME TypeOK, Explained,
         \/ \E g \in Group : Choose(g)
         \/ \E s \in Slider, v \in Percent : Key(s, v) \/ Drag(s, v)
  PROVE  Explained'
<1>0. config \in Comfort
  BY DEF TypeOK
<1>1. ASSUME NEW g \in Group, Choose(g)
      PROVE  Explained'
  <2>1. TypeOK'
    BY <1>1, ControlsKeepType
  <2>2. config' \in Comfort
    BY <2>1 DEF TypeOK
  <2>3. ASSUME NEW h \in Group \ {g}
        PROVE  SameFields(config, config', h)
    <3>1. CASE g = "stabilise"
      BY <1>0, <1>1, <3>1 DEF Choose, SameFields, Comfort, Group
    <3>2. CASE g = "dim"
      BY <1>0, <1>1, <3>2 DEF Choose, SameFields, Comfort, Group
    <3>3. CASE g = "tint"
      <4>1. config' = [config EXCEPT !.tint = ~config.tint]
        BY <1>1, <3>3 DEF Choose
      <4>2. QED
        BY <1>0, <3>3, <4>1 DEF SameFields, Comfort, Group
    <3>4. QED
      BY <3>1, <3>2, <3>3 DEF Group
  <2>4. <<g, 0>> \in Control
    BY DEF Control
  <2>5. UNCHANGED <<client, engine>> /\ Push(g, 0)
    BY <1>1 DEF Choose
  <2>6. QED
    BY <2>2, <2>3, <2>4, <2>5, PushStaysExplained
<1>2. ASSUME NEW slider \in Slider, NEW v \in Percent, SetComfortValue(slider, v),
             UNCHANGED <<client, engine>>
      PROVE  Explained'
  <2>1. slider \in Control /\ slider = <<slider[1], slider[2]>>
    BY SlidersAreControls
  <2>2. config' = SliderTarget(slider, v) /\ config' \in Comfort
    BY <1>2, SetComfortValueType DEF SetComfortValue
  <2>3. \A h \in Group \ {slider[1]} : SameFields(config, config', h)
    <3>1. CASE slider = <<"tint", 0>>
      <4>1. config' = [config EXCEPT !.warmth = v]
        BY <2>2, <3>1 DEF SliderTarget
      <4>2. QED
        BY <1>0, <3>1, <4>1 DEF SameFields, Comfort, Group
    <3>2. CASE slider = <<"dim", 0>>
      <4>1. config' = [config EXCEPT !.focus = v]
        BY <2>2, <3>2 DEF SliderTarget
      <4>2. QED
        BY <1>0, <3>2, <4>1 DEF SameFields, Comfort, Group
    <3>3. ASSUME NEW s \in Screens, slider = <<"dim", s>>
          PROVE  \A h \in Group \ {slider[1]} : SameFields(config, config', h)
      <4>1. config' = [config EXCEPT !.bright[s] = v]
        BY <2>2, <3>3, ComfortAssumption DEF SliderTarget
      <4>2. QED
        BY <1>0, <3>3, <4>1 DEF SameFields, Comfort, Group
    <3>4. QED
      BY <3>1, <3>2, <3>3 DEF Slider
  <2>4. slider[2] # 0 => /\ config.mode = "manual"
                         /\ config' = [config EXCEPT !.bright[slider[2]] = v]
    BY <2>2 DEF Slider, SliderTarget
  <2>5. slider[2] # 0 => config' = [config EXCEPT !.bright[slider[2]] = config'.bright[slider[2]]]
    <3>. SUFFICES ASSUME slider[2] # 0 PROVE v = config'.bright[slider[2]]
      BY <2>4
    <3>1. slider[2] \in Screens
      BY DEF Slider
    <3>2. QED
      BY <1>0, <2>4, <3>1 DEF Comfort
  <2>6. CASE Push(slider[1], slider[2])
    BY <1>2, <2>1, <2>2, <2>3, <2>4, <2>5, <2>6, PushStaysExplained
  <2>7. CASE UNCHANGED <<config, comfort, drift>>
    BY <1>2, <2>7 DEF Explained
  <2>8. QED
    BY <1>2, <2>6, <2>7 DEF SetComfortValue
<1>3. QED
  BY <1>1, <1>2 DEF Key, Drag, engineVars

LEMMA LaunchStaysExplained ==
  ASSUME TypeOK, Launch
  PROVE  Explained'
<1>1. config \in Comfort /\ config' = config /\ comfort' = FromArguments(config)
  BY Launch DEF Launch, TypeOK
<1>2. \A g \in Group : Agree(config', comfort', g)
  BY <1>1, LaunchAgrees
<1>3. QED
  BY <1>2 DEF Explained

LEMMA HotkeyStaysExplained ==
  ASSUME TypeOK, Explained, HotkeyCycleStabilise
  PROVE  Explained'
<1>. SUFFICES ASSUME client = "owns" PROVE Explained'
  BY HotkeyCycleStabilise DEF HotkeyCycleStabilise, controllerVars, Explained
<1>1. UNCHANGED <<config, client>> /\ engine # "none"
  BY HotkeyCycleStabilise DEF HotkeyCycleStabilise, controllerVars
<1>2. /\ comfort \in Comfort /\ "stabilise" \in Group
      /\ drift \in [Group -> {"none", "told", "silent", "engine"}]
  BY DEF TypeOK, Group
<1>3. drift'["stabilise"] # "none" /\ \A h \in Group \ {"stabilise"} : drift'[h] = drift[h]
  BY <1>2, HotkeyCycleStabilise DEF HotkeyCycleStabilise
<1>4. PICK l : comfort' = [comfort EXCEPT !.level = l]
  BY HotkeyCycleStabilise DEF HotkeyCycleStabilise
<1>5. \A h \in Group \ {"stabilise"} : SameFields(comfort, comfort', h)
  BY <1>2, <1>4 DEF SameFields, Comfort, Group
<1>6. \A h \in Group \ {"stabilise"} : SameFields(config, config', h)
  BY <1>1, SameFieldsOfSame
<1>7. QED
  BY <1>1, <1>3, <1>5, <1>6, OthersStayExplained

LEMMA PollStaysExplained ==
  ASSUME TypeOK, Explained, PollWindow
  PROVE  Explained'
<1>. SUFFICES ASSUME client = "owns" PROVE Explained'
  BY PollWindow DEF PollWindow, Explained
<1>1. /\ UNCHANGED <<client, engine, comfort>> /\ engine # "none" /\ Adopt
      /\ drift' = IF config'.level = config.level THEN drift
                  ELSE [drift EXCEPT !["stabilise"] =
                          IF config'.level = comfort.level THEN "none" ELSE "engine"]
  BY PollWindow DEF PollWindow, engineVars
<1>2. /\ config \in Comfort /\ "stabilise" \in Group
      /\ drift \in [Group -> {"none", "told", "silent", "engine"}]
  BY DEF TypeOK, Group
<1>3. CASE config' = config
  BY <1>1, <1>3 DEF Explained
<1>4. CASE config' # config
  <2>1. reported' # config.level /\ config' = [config EXCEPT !.level = reported']
    BY <1>1, <1>4 DEF Adopt
  <2>2. config'.level = reported' /\ config'.level # config.level
    BY <1>2, <2>1 DEF Comfort
  <2>3. drift' = [drift EXCEPT !["stabilise"] =
                    IF config'.level = comfort.level THEN "none" ELSE "engine"]
    BY <1>1, <2>2
  <2>4. \A h \in Group \ {"stabilise"} : SameFields(config, config', h) /\ drift'[h] = drift[h]
    BY <1>2, <2>1, <2>3 DEF SameFields, Comfort, Group
  <2>5. \A h \in Group \ {"stabilise"} : SameFields(comfort, comfort', h)
    BY <1>1, SameFieldsOfSame
  <2>6. drift'["stabilise"] = "none" => Agree(config', comfort', "stabilise")
    BY <1>1, <1>2, <2>3 DEF Agree
  <2>7. QED
    BY <1>1, <2>4, <2>5, <2>6, OthersStayExplained
<1>5. QED
  BY <1>3, <1>4

LEMMA NextStaysExplained ==
  ASSUME TypeOK, Explained, Next
  PROVE  Explained'
<1>1. CASE ReloadConfig
  <2>1. CASE client = "idle" \/ file = config
    BY <1>1, <2>1 DEF ReloadConfig, Explained, engineVars
  <2>2. CASE ~(client = "idle" \/ file = config)
    <3>1. \A g \in Group : drift'[g] # "none"
      BY <1>1, <2>2 DEF ReloadConfig
    <3>2. QED
      BY <3>1 DEF Explained
  <2>3. QED
    BY <2>1, <2>2
<1>2. CASE HandLaunch \/ Restart \/ EngineEnds
  <2>1. client' # "owns" \/ engine' = "none"
    BY <1>2 DEF HandLaunch, Restart, EngineEnds, controllerVars
  <2>2. QED
    BY <2>1 DEF Explained
<1>3. CASE Release \/ TogglePreference \/ MendFile \/ AnswerQuery \/ StoreAnswer
  BY <1>3 DEF Release, TogglePreference, MendFile, AnswerQuery, StoreAnswer, Explained,
              controllerVars, engineVars
<1>4. CASE OpenWindow \/ SetApp \/ PollNoWindow
  BY <1>4 DEF OpenWindow, SetApp, PollNoWindow, Explained, controllerVars, engineVars
<1>5. QED
  BY <1>1, <1>2, <1>3, <1>4, ControlsStayExplained, LaunchStaysExplained, HotkeyStaysExplained,
     PollStaysExplained DEF Next

(***************************************************************************)
(* While an engine this controller launched runs, every group of settings   *)
(* looks as chosen, unless a known reason says otherwise: whatever          *)
(* arguments and messages leave out, the chosen mode does not read.         *)
(***************************************************************************)
THEOREM TheScreensShowTheDashboard == Spec => []DriftIsExplained
<1>1. Init => Explained
  BY DEF Init, Explained
<1>2. TypeOK /\ Explained /\ [Next]_vars => Explained'
  <2>. SUFFICES ASSUME TypeOK, Explained, [Next]_vars PROVE Explained'
    OBVIOUS
  <2>1. CASE Next
    BY <2>1, NextStaysExplained
  <2>2. CASE UNCHANGED vars
    BY <2>2 DEF vars, Explained
  <2>3. QED
    BY <2>1, <2>2
<1>3. TypeOK /\ Explained => DriftIsExplained
  <2>. SUFFICES ASSUME TypeOK, Explained, client = "owns", engine = "running",
                       NEW g \in Group, drift[g] = "none"
                PROVE  Shows(comfort, g) = Shows(config, g)
    BY DEF DriftIsExplained
  <2>1. config \in Comfort /\ Agree(config, comfort, g)
    BY DEF TypeOK, Explained
  <2>2. QED
    BY <2>1, AgreeShows
<1>4. QED
  BY <1>1, <1>2, <1>3, TypeCorrect, PTL DEF Spec

=============================================================================
