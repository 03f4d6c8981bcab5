---------------------------- MODULE ViewComfort ----------------------------
(***************************************************************************)
(* View comfort: reading stabilisation, screen dimming and night tint.     *)
(* The controller keeps the choices in config.comfort and config/app.json, *)
(* passes them to an engine it launches as arguments (which name only what *)
(* is not the default), and sends each change to the engine's window. The  *)
(* engine changes the stabilisation level by itself (Ctrl+Alt+S), and the  *)
(* controller's poll adopts the level of the last answer to its query,     *)
(* which a worker thread asks for.                                         *)
(***************************************************************************)
EXTENDS Integers

CONSTANTS
    MaxLevel,       \* stabilisation levels 0..MaxLevel
    DefaultLevel,
    Screens,        \* screen indices
    Percent,        \* the values a slider takes here
    Full,           \* 100 %: default brightness
    DefaultDim,     \* default of focus_dim_pct
    DefaultWarmth,  \* default of night_tint_pct
    Areas,          \* the groups of controls a behaviour's user touches
    MaxLost         \* bound: engines and controllers that die

ASSUME ComfortAssumption ==
    /\ MaxLevel \in Nat /\ DefaultLevel \in 0..MaxLevel
    /\ Percent \subseteq Nat /\ {Full, DefaultDim, DefaultWarmth} \subseteq Percent /\ 0 \in Percent
    /\ 0 \notin {Full, DefaultDim} \cup Screens
    /\ \A a \in Areas : a \subseteq {"stabilise", "dim", "tint"}

VARIABLES
    area,     \* the group of controls the user touches
    config,   \* state.config.comfort
    file,     \* the view_comfort of app.json
    valid,    \* config_valid
    drag,     \* the slider that is being dragged, or NoDrag
    broken,   \* app.json cannot be read
    unsaved,  \* a save failed, and none succeeded since
    client,   \* what EngineClient has: "idle", "owns" a process, "adopted" a window
    engine,   \* the engine: none, starting, opening (window, no g_app), running
    comfort,  \* its ViewComfort
    drift,    \* per group: why the engine may show something else than config
    query,    \* the worker: Idle, Asked, or an answer it has not stored
    reported, \* the level in snapshot_.query_flags, or NoLevel
    lost

controllerVars == <<config, file, valid, broken, drag, unsaved, client>>
engineVars == <<engine, comfort, lost>>
queryVars == <<query, reported>>
vars == <<area, config, file, valid, broken, drag, unsaved, client, engine, comfort,
          drift, query, reported, lost>>

Level == 0..MaxLevel
Mode == {"off", "manual", "focus"}
Bright == Percent \ {0}     \* kComfortMinBrightnessPct: never black
Group == {"stabilise", "dim", "tint"}
NoLevel == -1
Asked == -2
Idle == -3
NoDrag == <<"none">>

Comfort == [level : Level, mode : Mode, bright : [Screens -> Bright], focus : Bright,
            tint : BOOLEAN, warmth : Percent]

Defaults == [level |-> DefaultLevel, mode |-> "off", bright |-> [s \in Screens |-> Full],
             focus |-> DefaultDim, tint |-> FALSE, warmth |-> DefaultWarmth]

TypeOK ==
    /\ area \in SUBSET Group
    /\ {config, file, comfort} \subseteq Comfort
    /\ {valid, broken, unsaved} \subseteq BOOLEAN
    /\ client \in {"idle", "owns", "adopted"}
    /\ engine \in {"none", "starting", "opening", "running"}
    /\ drift \in [Group -> {"none", "told", "silent", "engine"}]
    /\ query \in Idle..MaxLevel /\ reported \in NoLevel..MaxLevel

-----------------------------------------------------------------------------
(* What the wearer sees.                                                   *)

\* comfort_target_brightness: of each screen, looked at or not.
Brightness(c) ==
    [s \in Screens |->
        CASE c.mode = "manual" -> <<c.bright[s], c.bright[s]>>
          [] c.mode = "focus" -> <<Full, c.focus>>
          [] c.mode = "off" -> <<Full, Full>>]

\* comfort_tint: strength 0 is neutral.
Tint(c) == IF c.tint THEN c.warmth ELSE 0

Shows(c, group) ==
    CASE group = "stabilise" -> <<c.level>>
      [] group = "dim" -> <<Brightness(c)>>
      [] group = "tint" -> <<Tint(c)>>

-----------------------------------------------------------------------------
(* Launching: append_view_comfort_args and parse_view_comfort_arg.         *)

SetTint(c, strength) ==
    IF strength > 0 THEN [c EXCEPT !.tint = TRUE, !.warmth = strength]
                    ELSE [c EXCEPT !.tint = FALSE]

\* The arguments name a mode with the values of that mode only.
FromArguments(c) ==
    LET dimmed == [Defaults EXCEPT
                     !.level = c.level, !.mode = c.mode,
                     !.bright = IF c.mode = "manual" THEN c.bright ELSE @,
                     !.focus = IF c.mode = "focus" THEN c.focus ELSE @]
    IN IF c.tint THEN SetTint(dimmed, c.warmth) ELSE dimmed

-----------------------------------------------------------------------------
(* Sending a change: the messages of a group, and what the engine does.    *)

\* window_proc: the messages one push consists of, as the running engine handles them.
PushDimOnlyMutant(c, e, group, s) ==
    CASE group = "stabilise" -> [e EXCEPT !.level = c.level]
      [] group = "dim" /\ s = 0 -> [e EXCEPT !.mode = c.mode, !.focus = c.focus]
      [] group = "dim" /\ s # 0 -> [e EXCEPT !.bright[s] = c.bright[s]]
      [] group = "tint" -> SetTint(e, IF c.tint THEN c.warmth ELSE 0)

\* push_comfort_setting: a mode or focus change (s = 0) sends every brightness too.
Pushed(c, e, group, s) ==
    CASE group = "stabilise" -> [e EXCEPT !.level = c.level]
      [] group = "dim" /\ s = 0 ->
           [e EXCEPT !.mode = c.mode, !.focus = c.focus, !.bright = c.bright]
      [] group = "dim" /\ s # 0 -> [e EXCEPT !.bright[s] = c.bright[s]]
      [] group = "tint" -> SetTint(e, IF c.tint THEN c.warmth ELSE 0)

\* push_comfort_setting and send_command. A message the window's thread does
\* not answer in time may be handled or not: either way the user is told. A
\* push cut off between the messages of a dim mode change leaves some of it.
Push(group, s) ==
    \/ /\ client = "idle"
       /\ UNCHANGED <<comfort, drift>>
    \/ /\ client # "idle" /\ engine = "running"
       /\ comfort' = Pushed(config', comfort, group, s)
       /\ drift' = [drift EXCEPT ![group] = IF s = 0 THEN "none" ELSE @]
    \/ /\ client # "idle" /\ engine = "opening"        \* handled with g_app still null
       /\ drift' = [drift EXCEPT ![group] = "silent"]
       /\ UNCHANGED comfort
    \/ /\ client # "idle"                              \* no window, or no answer in time
       /\ comfort' \in {comfort, [comfort EXCEPT !.mode = config'.mode, !.focus = config'.focus],
                        Pushed(config', comfort, group, s)}
       /\ engine \in {"none", "starting"} => comfort' = comfort
       /\ group # "dim" \/ s # 0 => comfort' \in {comfort, Pushed(config', comfort, group, s)}
       /\ drift' = [drift EXCEPT ![group] = IF @ = "silent" THEN @ ELSE "told"]

\* save_config_to_disk: app.json holds config, whole, or what it held.
SaveConfig ==
    \/ file' = config' /\ valid' = TRUE /\ broken' = FALSE /\ unsaved' = FALSE
    \/ unsaved' = TRUE /\ UNCHANGED <<file, valid, broken>>

\* save_comfort: not while app.json could not be read.
SaveComfort == IF valid THEN SaveConfig ELSE UNCHANGED <<file, valid, broken, unsaved>>

-----------------------------------------------------------------------------
(* The dashboard.                                                          *)

\* execute: a stabilisation or dim mode chip, the night tint switch.
Choose(group) ==
    /\ group \in area /\ drag = NoDrag
    /\ config' \in CASE group = "stabilise" -> {[config EXCEPT !.level = l] : l \in Level}
                     [] group = "dim" -> {[config EXCEPT !.mode = m] : m \in Mode}
                     [] group = "tint" -> {[config EXCEPT !.tint = ~@]}
    /\ SaveComfort
    /\ Push(group, 0)
    /\ UNCHANGED <<area, drag, client, engine, lost, queryVars>>

\* paint_comfort_section: the sliders the mode shows.
Slider ==
    (IF config.mode = "manual" /\ "dim" \in area THEN {<<"dim", s>> : s \in Screens} ELSE {})
      \cup (IF config.mode = "focus" /\ "dim" \in area THEN {<<"dim", 0>>} ELSE {})
      \cup (IF config.tint /\ "tint" \in area THEN {<<"tint", 0>>} ELSE {})

\* comfort_slider_target
SliderTarget(slider, value) ==
    CASE slider[1] = "tint" -> [config EXCEPT !.warmth = value]
      [] slider = <<"dim", 0>> -> [config EXCEPT !.focus = value]
      [] OTHER -> [config EXCEPT !.bright[slider[2]] = value]

\* set_comfort_value: a value that changes is pushed.
SetComfortValue(slider, value) ==
    /\ slider[1] = "dim" => value \in Bright
    /\ config' = SliderTarget(slider, value)
    /\ IF config' # config THEN Push(slider[1], slider[2]) ELSE UNCHANGED <<comfort, drift>>

\* adjust_focused: a key moves the slider and saves.
Key(slider, value) ==
    /\ drag = NoDrag /\ slider \in Slider
    /\ SetComfortValue(slider, value)
    /\ SaveComfort
    /\ UNCHANGED <<area, drag, client, engine, lost, queryVars>>

\* on_lbutton_down and on_mouse_move: the drag pushes each value and saves none.
Drag(slider, value) ==
    /\ drag \in {NoDrag, slider} /\ slider \in Slider
    /\ drag' = slider
    /\ SetComfortValue(slider, value)
    /\ UNCHANGED <<area, file, valid, broken, unsaved, client, engine, lost, queryVars>>

ReleaseMutant ==
    /\ drag # NoDrag
    /\ drag' = NoDrag
    /\ UNCHANGED <<area, config, file, valid, broken, unsaved, client, engineVars, drift, queryVars>>

\* on_lbutton_up
Release ==
    /\ drag # NoDrag
    /\ drag' = NoDrag
    /\ UNCHANGED config /\ SaveComfort
    /\ UNCHANGED <<area, client, engineVars, drift, queryVars>>

\* execute(kUiCloseToTray), execute(kUiPreviewWithoutHeadTracking): these two
\* save whether app.json could be read or not.
TogglePreference ==
    /\ drag = NoDrag
    /\ UNCHANGED config /\ SaveConfig
    /\ UNCHANGED <<area, drag, client, engineVars, drift, queryVars>>

\* The user repairs app.json, or deletes it.
MendFile ==
    /\ broken
    /\ broken' = FALSE /\ file' \in {file, Defaults}
    /\ UNCHANGED <<area, config, valid, drag, unsaved, client, engineVars, drift, queryVars>>

\* Refresh (reload_app_config): the file's values, which nobody sends to the
\* engine.
ReloadConfig ==
    /\ drag = NoDrag /\ ~broken
    /\ config' = file /\ valid' = TRUE /\ unsaved' = FALSE
    /\ drift' = IF client = "idle" \/ file = config THEN drift ELSE [g \in Group |-> "silent"]
    /\ UNCHANGED <<area, file, broken, drag, client, engineVars, queryVars>>

-----------------------------------------------------------------------------
(* The engine and its query.                                               *)

\* start_engine and EngineClient::launch
Launch ==
    /\ client = "idle" /\ engine = "none"
    /\ client' = "owns" /\ engine' = "starting"
    /\ comfort' = FromArguments(config)
    /\ drift' = [g \in Group |-> "none"]
    /\ reported' = NoLevel
    /\ IF valid THEN UNCHANGED config /\ SaveConfig ELSE UNCHANGED <<config, file, valid, broken, unsaved>>
    /\ UNCHANGED <<area, drag, lost, query>>

\* spatial_desk.exe started by hand, without arguments.
HandLaunch ==
    /\ client = "idle" /\ engine = "none"
    /\ engine' = "starting" /\ comfort' = Defaults
    /\ drift' = [g \in Group |-> "silent"]
    /\ UNCHANGED <<area, controllerVars, queryVars, lost>>

\* run_main opens its window, and later sets g_app.
OpenWindow ==
    /\ engine = "starting" /\ engine' = "opening"
    /\ UNCHANGED <<area, controllerVars, comfort, lost, drift, queryVars>>

SetApp ==
    /\ engine = "opening" /\ engine' = "running"
    /\ UNCHANGED <<area, controllerVars, comfort, lost, drift, queryVars>>

\* Ctrl+Alt+S: the next level.
HotkeyCycleStabilise ==
    /\ engine = "running" /\ "stabilise" \in area
    /\ comfort' = [comfort EXCEPT !.level = (@ + 1) % (MaxLevel + 1)]
    /\ drift' = [drift EXCEPT !["stabilise"] = IF @ = "none" THEN "engine" ELSE @]
    /\ UNCHANGED <<area, controllerVars, engine, lost, queryVars>>

\* The engine quits, fails or is killed.
EngineEnds ==
    /\ engine # "none" /\ lost < MaxLost
    /\ engine' = "none" /\ lost' = lost + 1
    /\ UNCHANGED <<area, controllerVars, comfort, drift, queryVars>>

\* The controller goes and comes back: it reads app.json and knows no engine.
Restart ==
    /\ lost < MaxLost
    /\ lost' = lost + 1
    /\ config' = IF broken THEN Defaults ELSE file
    /\ valid' = ~broken /\ unsaved' = FALSE /\ drag' = NoDrag
    /\ client' = "idle" /\ query' = Idle /\ reported' = NoLevel
    /\ drift' = [g \in Group |-> "silent"]
    /\ UNCHANGED <<area, file, broken, engine, comfort>>

\* The engine's window procedure answers the query, or nobody does in time.
AnswerQuery ==
    /\ query = Asked
    /\ query' \in {NoLevel} \cup (IF engine = "running" THEN {comfort.level} ELSE {})
    /\ UNCHANGED <<area, controllerVars, engineVars, drift, reported>>

\* query_worker_main stores the answer, between two polls: the next request
\* throws it away before it is consumed.
StoreAnswer ==
    /\ query \in NoLevel..MaxLevel
    /\ query' = Idle
    /\ UNCHANGED <<area, controllerVars, engineVars, drift, reported>>

\* poll_engine adopts the level the last answer reported.
Adopt ==
    IF client' # "idle" /\ engine \in {"opening", "running"} /\ reported' \in Level \ {config.level}
      THEN /\ config' = [config EXCEPT !.level = reported']
           /\ IF valid THEN SaveConfig ELSE UNCHANGED <<file, valid, broken, unsaved>>
      ELSE UNCHANGED <<config, file, valid, broken, unsaved>>

\* poll with a window: query_request asks, unless a query is outstanding;
\* query_consume finds an answer only if the worker stored it just now. What
\* snapshot_ holds is adopted again at every poll.
PollWindow ==
    /\ engine \in {"opening", "running"}
    /\ client' = IF client = "idle" THEN "adopted" ELSE client
    /\ \/ /\ query' = IF query = Idle THEN Asked ELSE query
          /\ UNCHANGED reported
       \/ /\ query' = Idle
          /\ reported' \in IF query \in NoLevel..MaxLevel THEN {query}
                          ELSE {NoLevel} \cup (IF engine = "running" THEN {comfort.level} ELSE {})
    /\ Adopt
    /\ drift' = IF config'.level = config.level THEN drift
                ELSE [drift EXCEPT !["stabilise"] =
                        IF config'.level = comfort.level THEN "none" ELSE "engine"]
    /\ UNCHANGED <<area, drag, engineVars>>

\* poll without one: an ended process or window is let go.
PollNoWindow ==
    /\ engine \in {"none", "starting"}
    /\ client' = IF engine = "none" THEN "idle" ELSE client
    /\ reported' = NoLevel
    /\ UNCHANGED <<area, config, file, valid, broken, drag, unsaved, engineVars, drift, query>>

-----------------------------------------------------------------------------
Init ==
    /\ area \in Areas
    /\ file \in {Defaults, [Defaults EXCEPT !.level = 0]}
    /\ broken \in BOOLEAN /\ valid = ~broken
    /\ config = IF broken THEN Defaults ELSE file
    /\ drag = NoDrag /\ unsaved = FALSE /\ client = "idle"
    /\ engine = "none" /\ comfort = Defaults /\ lost = 0
    /\ drift = [g \in Group |-> "none"]
    /\ query = Idle /\ reported = NoLevel

Next ==
    \/ \E g \in Group : Choose(g)
    \/ \E s \in Slider, v \in Percent : Key(s, v) \/ Drag(s, v)
    \/ Release \/ TogglePreference \/ MendFile \/ ReloadConfig
    \/ Launch \/ HandLaunch \/ OpenWindow \/ SetApp
    \/ HotkeyCycleStabilise \/ EngineEnds \/ Restart
    \/ AnswerQuery \/ StoreAnswer \/ PollWindow \/ PollNoWindow

Spec == Init /\ [][Next]_vars

-----------------------------------------------------------------------------
(* The screens show what the dashboard shows: while an engine this         *)
(* controller launched runs, each group of settings looks as chosen, up to *)
(* a change that could not be sent (the user is told), that came too early *)
(* or from app.json (nobody is), or that the engine made itself. It fails  *)
(* if an argument of the launch, a message of a push or a handler of       *)
(* window_proc leaves a value behind.                                      *)
DriftIsExplained ==
    client = "owns" /\ engine = "running"
      => \A g \in Group : drift[g] = "none" => Shows(comfort, g) = Shows(config, g)

(* What is chosen is remembered: app.json holds the settings, except while *)
(* a slider is dragged, after a save that failed, and after an app.json    *)
(* that could not be read.                                                 *)
FileIsConfig ==
    valid /\ ~broken /\ drag = NoDrag /\ ~unsaved => file = config

(* Said by the comments, and not so: the level a poll adopts is one the    *)
(* engine was changed to, not what it said before the user's last choice.  *)
AdoptsEngineLevel ==
    [][PollWindow => config'.level \in {config.level, comfort.level}]_vars

(* Said by main.cpp, and not so: an app.json that could not be read is     *)
(* left for the user to repair.                                            *)
BrokenFileKept == [][broken => file' \in {file, Defaults}]_vars
=============================================================================
