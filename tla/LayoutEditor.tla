----------------------------- MODULE LayoutEditor -----------------------------
(***************************************************************************)
(* The layout editor of the controller: the layout being edited, the layout *)
(* file, the named presets, and the mouse and keys that change them         *)
(* (src/app_shell/app_window.cpp, app_state.cpp, app_layout.cpp and         *)
(* src/layout/layout.cpp).                                                  *)
(*                                                                         *)
(* A click goes by what was painted last, which input can outrun; a drag    *)
(* lasts from the press to the release, which another window can take away. *)
(* Numbers stand for the lengths and angles of a layout, one position for   *)
(* the six fields of a screen.                                              *)
(***************************************************************************)
EXTENDS Naturals, Sequences, FiniteSets, SequencesExt

CONSTANTS
  MaxScreens,  \* screens of a layout (8)
  MaxVdd,      \* largest driver index (15)
  MaxAngle,    \* largest capture angle (179)
  MaxFps,      \* largest capture rate (240)
  Positions,   \* positions of a screen
  Names,       \* names of presets, in the order of the list
  Home,        \* the layout on disk at the start
  Factory,     \* the factory layouts, the default one first
  Saved,       \* the preset files at the start
  MaxOps, MaxForeign

ASSUME EditorAssumption ==
  /\ {MaxScreens, MaxVdd, MaxAngle, MaxFps, MaxOps} \subseteq Nat \ {0} /\ MaxForeign \in Nat
  /\ MaxScreens <= MaxVdd + 1 /\ Names \subseteq Nat \ {0}

VARIABLES
  layout, selected, layout_dirty, \* the layout edited, its selected screen
  disk,           \* config/layouts/default.json: a layout, or a file load_layout refuses
  presets,        \* the preset files: names to layouts
  preset_names,   \* the list of the editor
  loaded_preset,  \* the starred one, or none
  focus_id,
  drag,           \* what is dragged: active, field, screen
  held,           \* the mouse button is down on this window
  shown,          \* what the last paint offers to the mouse and the keys
  ops, foreign,
  picked,         \* history: the id of the screen under the pointer when a drag began
  apart           \* history: the file is not the one last saved or loaded

docVars == <<layout, selected, layout_dirty, disk>>
presetVars == <<presets, preset_names, loaded_preset>>
mouseVars == <<drag, held, picked>>
editorVars == <<docVars, presetVars, mouseVars, focus_id, shown, ops, foreign, apart>>

NoPreset == 0
Broken == [broken |-> TRUE]
Absent == [absent |-> TRUE]
Fields == {"at", "enter", "leave", "idle", "mid", "active"}
NoDrag == [active |-> FALSE, field |-> "none", screen |-> 0]

(* Layouts *)

Ids(l) == {l.screens[i].id : i \in DOMAIN l.screens}
Vdds(l) == {l.screens[i].vdd : i \in DOMAIN l.screens}

UniqueScreens(l) ==
  /\ Len(l.screens) \in 1 .. MaxScreens
  /\ Cardinality(Ids(l)) = Len(l.screens) /\ Cardinality(Vdds(l)) = Len(l.screens)
  /\ Vdds(l) \subseteq 0 .. MaxVdd
FpsOrdered(l) == 1 <= l.idle /\ l.idle <= l.mid /\ l.mid <= l.active /\ l.active <= MaxFps
AnglesOrdered(l) == l.leave < l.enter /\ l.enter <= MaxAngle

validate_layout(l) == UniqueScreens(l) /\ FpsOrdered(l) /\ AnglesOrdered(l)

Layout ==
  [screens : Seq([id : Nat, vdd : 0 .. MaxVdd, at : Positions]),
   enter : 0 .. MaxAngle, leave : 0 .. MaxAngle, idle : Nat, mid : Nat, active : Nat]
ValidLayout == {l \in Layout : validate_layout(l)}

\* A file that load_layout refuses is Broken, whatever is in it; a preset may be
\* Absent too.
ASSUME LayoutsAssumption ==
  /\ Home \in ValidLayout /\ Factory \in Seq(ValidLayout) \ {<<>>}
  /\ Saved \in [Names -> ValidLayout \cup {Broken, Absent}]

Lower(a, b) == IF a < b THEN a ELSE b
Upper(a, b) == IF a < b THEN b ELSE a

\* normalize_fps: the field moved stays, the others follow it.
SetIdle(l, v) == LET mid == Upper(l.mid, v) IN
  [l EXCEPT !.idle = v, !.mid = mid, !.active = Upper(@, mid)]
SetMidMutant(l, v) == [l EXCEPT !.mid = v, !.active = Upper(@, v)]
SetMid(l, v) == [l EXCEPT !.mid = v, !.idle = Lower(@, v), !.active = Upper(@, v)]
SetActive(l, v) == LET mid == Lower(l.mid, v) IN
  [l EXCEPT !.active = v, !.mid = mid, !.idle = Lower(@, mid)]

\* Idle beyond, active within: the one moved pushes the other away, to its end at most.
SetEnter(l, v) ==
  [l EXCEPT !.enter = v, !.leave = IF v > @ THEN @ ELSE Upper(1, v) - 1]
SetLeave(l, v) ==
  [l EXCEPT !.leave = v, !.enter = IF @ > v THEN @ ELSE Lower(MaxAngle, v + 1)]

FieldRange(field) ==
  CASE field = "at" -> Positions
    [] field \in {"enter", "leave"} -> 0 .. MaxAngle
    [] OTHER -> 1 .. MaxFps

\* set_layout_field; the caller learns whether the layout is valid then.
set_layout_field(l, i, field, v) ==
  CASE field = "at" -> [l EXCEPT !.screens[i].at = v]
    [] field = "enter" -> SetEnter(l, v)
    [] field = "leave" -> SetLeave(l, v)
    [] field = "idle" -> SetIdle(l, v)
    [] field = "mid" -> SetMid(l, v)
    [] field = "active" -> SetActive(l, v)

Least(S) == CHOOSE n \in S : \A m \in S : n <= m
next_screen_id(l) == Least((1 .. MaxScreens + 1) \ Ids(l))
next_free_vdd_index(l) == Least((0 .. MaxVdd) \ Vdds(l))
add_screen(l) ==
  LET s == [id |-> next_screen_id(l), vdd |-> next_free_vdd_index(l), at |-> Last(l.screens).at]
  IN [l EXCEPT !.screens = Append(@, s)]
remove_screen(l, i) == [l EXCEPT !.screens = RemoveAt(@, i)]

(* What is painted *)

Painted ==
  [screens |-> Len(layout.screens), names |-> preset_names,
   add |-> Len(layout.screens) < MaxScreens, remove |-> Len(layout.screens) > 1,
   delete |-> loaded_preset # NoPreset]

\* The enabled hotspots of a paint.
Hotspots(p) ==
  {<<c>> : c \in {"save", "revert", "presetsave", "canvas"} \cup (IF p.add THEN {"add"} ELSE {})
                  \cup (IF p.remove THEN {"remove"} ELSE {}) \cup (IF p.delete THEN {"delete"} ELSE {})}
  \cup {<<"factory", i>> : i \in DOMAIN Factory} \cup {<<"field", f>> : f \in Fields}
  \cup {<<"screen", i>> : i \in 1 .. p.screens} \cup {<<"user", i>> : i \in DOMAIN p.names}

\* The controls whose id is below kUiFieldBase.
Commands == {<<c>> : c \in {"save", "revert", "add", "remove", "presetsave", "delete"}}
              \cup {<<"factory", i>> : i \in DOMAIN Factory}

EditorTypeOK ==
  /\ layout \in Layout /\ selected \in 1 .. MaxScreens /\ layout_dirty \in BOOLEAN
  /\ disk \in Layout \cup {Broken} /\ presets \in [Names -> Layout \cup {Broken, Absent}]
  /\ loaded_preset \in Names \cup {NoPreset} /\ Range(preset_names) \subseteq Names
  /\ drag \in [active : BOOLEAN, field : Fields \cup {"none"}, screen : 0 .. MaxScreens]
  /\ held \in BOOLEAN /\ apart \in BOOLEAN /\ ops \in 0 .. MaxOps /\ foreign \in 0 .. MaxForeign

\* list_layout_presets: the names of the files, in order, whatever is in them.
Listed(files) ==
  LET there == {n \in Names : files[n] # Absent} IN
  {list \in [1 .. Cardinality(there) -> there] : \A i, j \in DOMAIN list : i < j => list[i] < list[j]}

\* bootstrap: the file, or the default layout and a warning.
EditorInit ==
  /\ disk \in {Home, Broken}
  /\ layout = IF disk = Broken THEN Factory[1] ELSE Home
  /\ apart = (disk = Broken)
  /\ selected = 1 /\ layout_dirty = FALSE
  /\ presets = Saved
  /\ preset_names \in Listed(presets) /\ loaded_preset = NoPreset
  /\ focus_id = <<"save">> /\ drag = NoDrag /\ held = FALSE /\ picked = 0
  /\ shown = Painted
  /\ ops = 0 /\ foreign = 0

(* What a control does *)

Edited(l) == layout' = l /\ layout_dirty' = TRUE
Keep == UNCHANGED <<layout, layout_dirty>>
Clamp(n, l) == Lower(n, Len(l.screens))

save_layout_to_diskMutant ==
  /\ \/ /\ disk' = layout /\ layout_dirty' = FALSE /\ apart' = FALSE
     \/ UNCHANGED <<disk, layout_dirty, apart>>
  /\ UNCHANGED <<layout, selected, presetVars, focus_id>>

\* save_layout_to_disk: validated, written aside, moved over the file, which may fail.
save_layout_to_disk ==
  /\ \/ /\ validate_layout(layout)
        /\ disk' = layout /\ layout_dirty' = FALSE /\ apart' = FALSE
     \/ UNCHANGED <<disk, layout_dirty, apart>>
  /\ UNCHANGED <<layout, selected, presetVars, focus_id>>

revert_layout_from_disk ==
  /\ IF disk = Broken THEN UNCHANGED <<docVars, apart>>
     ELSE /\ layout' = disk /\ layout_dirty' = FALSE /\ apart' = FALSE
          /\ selected' = Clamp(selected, disk)
          /\ UNCHANGED disk
  /\ UNCHANGED <<presetVars, focus_id>>

AddScreen ==
  LET l == add_screen(layout) IN
  /\ IF Len(layout.screens) < MaxScreens /\ validate_layout(l)
     THEN Edited(l) /\ selected' = Len(l.screens)
     ELSE Keep /\ UNCHANGED selected
  /\ UNCHANGED <<disk, presetVars, focus_id, apart>>

RemoveScreen ==
  /\ IF Len(layout.screens) > 1 /\ selected <= Len(layout.screens)
          /\ validate_layout(remove_screen(layout, selected))
     THEN /\ Edited(remove_screen(layout, selected))
          /\ selected' = Clamp(selected, layout')
     ELSE Keep /\ UNCHANGED selected
  /\ UNCHANGED <<disk, presetVars, focus_id, apart>>

\* refresh_layout_presets
refresh_layout_presets(files, star) ==
  /\ presets' = files /\ preset_names' \in Listed(files)
  /\ loaded_preset' = IF star \in Range(preset_names') THEN star ELSE NoPreset

\* The dialog is left with a valid name, or without one.
prompt_preset_name == Names \cup {NoPreset}

\* kUiPresetSave, which may also fail to write; kUiPresetDelete: the starred one,
\* if its file is there and can be removed.
SavePreset ==
  /\ \/ /\ validate_layout(layout)
        /\ \E n \in prompt_preset_name \ {NoPreset} : refresh_layout_presets([presets EXCEPT ![n] = layout], n)
     \/ UNCHANGED presetVars
  /\ UNCHANGED <<docVars, focus_id, apart>>

DeletePreset ==
  /\ \/ /\ loaded_preset # NoPreset /\ presets[loaded_preset] # Absent
        /\ refresh_layout_presets([presets EXCEPT ![loaded_preset] = Absent], loaded_preset)
     \/ UNCHANGED presetVars
  /\ UNCHANGED <<docVars, focus_id, apart>>

\* A preset is loaded unsaved.
Load(l) == Edited(l) /\ selected' = 1

LoadFactory(i) == Load(Factory[i]) /\ UNCHANGED <<disk, presetVars, focus_id, apart>>

LoadPresetMutant(i) ==
  /\ IF i \in DOMAIN preset_names /\ presets[preset_names[i]] \notin {Broken, Absent}
     THEN /\ layout' = presets[preset_names[i]] /\ selected' = 1 /\ UNCHANGED layout_dirty
          /\ loaded_preset' = preset_names[i]
     ELSE Keep /\ UNCHANGED <<selected, loaded_preset>>
  /\ UNCHANGED <<disk, presets, preset_names, focus_id, apart>>

LoadPreset(i) ==
  /\ IF i \in DOMAIN preset_names /\ presets[preset_names[i]] \notin {Broken, Absent}
     THEN Load(presets[preset_names[i]]) /\ loaded_preset' = preset_names[i]
     ELSE Keep /\ UNCHANGED <<selected, loaded_preset>>
  /\ UNCHANGED <<disk, presets, preset_names, focus_id, apart>>

SelectScreen(i) ==
  /\ selected' = i /\ focus_id' = <<"screen", i>>
  /\ UNCHANGED <<layout, layout_dirty, disk, presetVars, apart>>

execute(c) ==
  \/ c = <<"save">> /\ save_layout_to_disk
  \/ c = <<"revert">> /\ revert_layout_from_disk
  \/ c = <<"add">> /\ AddScreen
  \/ c = <<"remove">> /\ RemoveScreen
  \/ c = <<"presetsave">> /\ SavePreset
  \/ c = <<"delete">> /\ DeletePreset
  \/ \E i \in DOMAIN Factory : c = <<"factory", i>> /\ LoadFactory(i)
  \/ \E i \in 1 .. Cardinality(Names) : c = <<"user", i>> /\ LoadPreset(i)
  \/ \E i \in 1 .. MaxScreens : c = <<"screen", i>> /\ SelectScreen(i)

(* The mouse *)

Input == ops < MaxOps /\ ops' = ops + 1

\* on_paint, when no input waits.
Paint ==
  /\ shown # Painted /\ shown' = Painted
  /\ UNCHANGED <<docVars, presetVars, mouseVars, focus_id, ops, foreign, apart>>

\* A press and a release on one control; a drag that lost its button swallows it.
ClickControl ==
  /\ ~held /\ Input
  /\ \E c \in Hotspots(shown) :
       /\ c[1] \notin {"field", "canvas"}
       /\ IF drag.active THEN focus_id' = c /\ UNCHANGED <<docVars, presetVars, apart>>
          ELSE execute(c)
  /\ drag' = NoDrag /\ picked' = 0
  /\ UNCHANGED <<held, shown, foreign>>

\* A press on a screen of the canvas, by where it is now, or on a slider, which moves it.
Grab ==
  /\ ~held /\ Input /\ held' = TRUE
  /\ \/ \E i \in DOMAIN layout.screens :
          /\ selected' = i /\ drag' = [drag EXCEPT !.active = TRUE, !.screen = i]
          /\ picked' = layout.screens[i].id
          /\ focus_id' = <<"canvas">> /\ Keep
     \/ \E f \in Fields : \E v \in FieldRange(f) :
          /\ drag' = [drag EXCEPT !.active = TRUE, !.field = f]
          /\ IF selected \in DOMAIN layout.screens
             THEN Edited(set_layout_field(layout, selected, f, v)) ELSE Keep
          /\ focus_id' = <<"field", f>> /\ UNCHANGED <<selected, picked>>
  /\ UNCHANGED <<disk, presetVars, shown, foreign, apart>>

\* on_mouse_move while dragging: the slider's field before the screen.
Move ==
  /\ drag.active /\ Input
  /\ \/ /\ drag.field # "none" /\ selected \in DOMAIN layout.screens
        /\ \E v \in FieldRange(drag.field) : Edited(set_layout_field(layout, selected, drag.field, v))
     \/ /\ drag.field = "none" /\ drag.screen \in DOMAIN layout.screens
        /\ \E v \in Positions : Edited(set_layout_field(layout, drag.screen, "at", v))
  /\ UNCHANGED <<selected, disk, presetVars, mouseVars, focus_id, shown, foreign, apart>>

\* on_lbutton_up
Drop ==
  /\ held /\ held' = FALSE /\ drag' = NoDrag /\ picked' = 0
  /\ UNCHANGED <<docVars, presetVars, focus_id, shown, ops, foreign, apart>>

\* Another window takes the mouse, or this one hides: no message of it is handled.
LoseCapture ==
  /\ held /\ held' = FALSE /\ Input
  /\ UNCHANGED <<docVars, presetVars, drag, picked, focus_id, shown, foreign, apart>>

(* The keys *)

Tab ==
  /\ Input
  /\ focus_id' \in Hotspots(shown) \ {focus_id}
  /\ UNCHANGED <<docVars, presetVars, mouseVars, shown, foreign, apart>>

\* A field moved by key or wheel: a layout that is not valid then is kept, but not called changed.
Nudge(i, f) ==
  \E v \in FieldRange(f) :
    LET l == set_layout_field(layout, i, f, v) IN
    layout' = l /\ layout_dirty' = (layout_dirty \/ validate_layout(l))

\* adjust_focused
AdjustFocused ==
  /\ Input /\ selected \in DOMAIN layout.screens
  /\ \/ focus_id = <<"canvas">> /\ Nudge(selected, "at")
     \/ \E f \in Fields : focus_id = <<"field", f>> /\ Nudge(selected, f)
  /\ UNCHANGED <<selected, disk, presetVars, mouseVars, focus_id, shown, foreign, apart>>

\* on_mouse_wheel over a slider
Wheel ==
  /\ ~drag.active /\ Input /\ selected \in DOMAIN layout.screens
  /\ \E f \in Fields : Nudge(selected, f)
  /\ UNCHANGED <<selected, disk, presetVars, mouseVars, focus_id, shown, foreign, apart>>

\* activate_focused: the keys reach the controls below the sliders' ids only.
ActivateFocused ==
  /\ Input /\ focus_id \in Hotspots(shown) \cap Commands
  /\ execute(focus_id)
  /\ UNCHANGED <<mouseVars, shown, foreign>>

CtrlS ==
  /\ Input /\ save_layout_to_disk
  /\ UNCHANGED <<mouseVars, shown, foreign>>

(* Others *)

\* The files are edited by hand.
Foreign ==
  /\ foreign < MaxForeign /\ foreign' = foreign + 1
  /\ \/ /\ \E l \in Range(Factory) \cup {Broken} : disk' = l /\ l # disk
        /\ apart' = TRUE /\ UNCHANGED presets
     \/ /\ \E n \in Names, l \in {Broken, Absent, Last(Factory)} : presets' = [presets EXCEPT ![n] = l]
        /\ UNCHANGED <<disk, apart>>
  /\ UNCHANGED <<layout, selected, layout_dirty, preset_names, loaded_preset, mouseVars, focus_id, shown, ops>>

\* app.json names another layout file and is read again while no engine runs: other
\* files, under the same layout, list and star (kUiRefresh, reload_app_config).
Repoint ==
  /\ foreign < MaxForeign /\ foreign' = foreign + 1
  /\ disk' \in Range(Factory) \cup {Broken} /\ apart' = TRUE
  /\ presets' \in {presets, [n \in Names |-> Absent]}
  /\ UNCHANGED <<layout, selected, layout_dirty, preset_names, loaded_preset, mouseVars, focus_id, shown, ops>>

Over == ops = MaxOps /\ UNCHANGED editorVars

EditorNext ==
  \/ Paint \/ ClickControl \/ Grab \/ Move \/ Drop \/ LoseCapture
  \/ Tab \/ AdjustFocused \/ Wheel \/ ActivateFocused \/ CtrlS \/ Foreign \/ Repoint \/ Over

EditorSpec == EditorInit /\ [][EditorNext]_editorVars

(***************************************************************************)
(* Properties                                                              *)
(***************************************************************************)

\* What the editor does not call changed, and could save, is what the file
\* holds, whatever was dragged, keyed, loaded or refused in between, unless
\* somebody else wrote the file or app.json names another (layout_dirty; Save, Revert
\* and the note under the sliders).
CleanIsOnDisk == ~layout_dirty /\ ~apart /\ validate_layout(layout) => layout = disk

\* No file is written that load_layout refuses: neither the layout the engine
\* reloads nor a preset (save_layout), though the editor's own layout may be invalid.
OnlyValidIsWritten == \A l \in {disk} \cup {presets[n] : n \in Names} : l \in {Broken, Absent} \/ validate_layout(l)

\* Adding, removing, loading and sliding leave a layout of unique ids and
\* displays with ordered rates; the capture angles alone can leave their
\* order, and only at an end of their slider (add_screen, set_layout_field).
OnlyTheEndsAreRefused ==
  /\ UniqueScreens(layout) /\ FpsOrdered(layout)
  /\ ~AnglesOrdered(layout) => (layout.enter = 0 \/ layout.leave = MaxAngle)

(* Said and not so: each of these is violated, see README.md. *)

\* enter > leave always holds (WINDOWS-APP.md, sliders).
AnglesStayOrdered == AnglesOrdered(layout)

\* What is not on disk is called unsaved.
UnsavedIsDirty == ~layout_dirty /\ ~apart => layout = disk

\* A drag moves the screen that was picked up.
PickedIsMoved ==
  drag.active /\ drag.field = "none" /\ drag.screen \in DOMAIN layout.screens =>
    layout.screens[drag.screen].id = picked

\* Nothing is dragged without the button.
ButtonDrags == drag.active => held

\* The keys do what the mouse does (Space and Enter in WINDOWS-APP.md).
KeysReachAll ==
  \A c \in Hotspots(shown) : c[1] \notin {"field", "canvas"} => c \in Commands

\* The selected screen is one of the layout's.
SelectionExists == selected \in DOMAIN layout.screens
===============================================================================
