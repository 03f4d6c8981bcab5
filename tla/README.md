# RayNeo Spatial in TLA+

Models of the RayNeo Spatial application (C++, `src/`), the TLC runs that check them on small
instances, and TLAPS proofs of safety properties for every value of the constants. Paths below are
relative to `src/src/` unless they start with `docs/`.

1. [The system](#1-the-system)
2. [Inventory](#2-inventory)
3. [Modules](#3-modules): which models what, and how
4. [Runs](#4-runs): what each shows, its bounds, its fairness
5. [Proofs](#5-proofs)
6. [What the code does otherwise than it says](#6-what-the-code-does-otherwise-than-it-says)
7. [Not modelled](#7-not-modelled)
8. [Plan](#8-plan)

## 1. The system

Two programs, a tool and a driver.

* The **controller** (`app_shell`) is a dashboard with a tray icon. It launches, watches,
  commands and stops the engine, edits the layout file, and archives the logs of long sessions in a
  detached **helper** process (the same executable started with another argument).
* The **engine** (`app/spatial_desk.cpp`) takes over the displays: it creates virtual
  displays with the Parsec driver (`vdd/vdd_client.cpp`), moves the desktop there and detaches the
  laptop panel (`vdd/display_config.cpp`), captures the virtual desktops (`capture`), renders them
  as screens around the user (`render`) at the head pose the glasses' IMU reports (`imu`), and
  puts everything back when it ends.
* The **calibration tool** (`tools/orientation_calibrate.cpp`) is run by hand; it measures how the
  glasses are mounted and their magnetic field, and leaves a file the engine reads.
* They share no memory: window messages from controller to engine, a status file and log files from
  engine to controller, a process handle, a window handle, two named mutexes, the layout file.

## 2. Inventory

| Component | State | Operations | Interacts through | What makes it hard | What makes it correct |
|---|---|---|---|---|---|
| Session log archive (`app_shell/session_logs.cpp`) | live logs, pending folders, `.partial` and `.zip` files, named mutex | clear, stage, spawn helper, compress, publish, prune | a detached helper process, the file system | helpers overlap with staging and each other; power cuts; folders held open | published archives are whole; no log is lost; none waits without a helper; helpers end |
| Engine supervision (`app_shell/engine_client.cpp`, `app_state.cpp`) | process and window handle, stop, kill and start-timeout flags, snapshot, session and recovery duties | launch, adopt, poll, stop, quit, log off | messages to a window, process exit codes | the engine moves on between any two looks; timeouts race exits | a quit leaves no orphan; logs are moved after the engine died; a failure brings the panel back; stops, starts and quits end |
| Engine query (`engine_client.cpp`) | busy/done flags and sequence numbers under a mutex | request, answer, consume | a worker thread | answers come between polls | what the poll adopts is explained |
| IMU source (`imu/imu_source.cpp`) | running, has-pose and recenter flags, seqlock | start, stop, recenter, orientation | the IMU thread, the render thread | lock-free publication, reconnects | poses are read whole; has-pose is honest; a recentering turns the reference at once; readers and `stop` return |
| Pose estimator (`imu/pose_estimator.cpp`) | low-passes, calibration window, rest detector, bias, escape excursion | one call per sample, gap, recenter | the IMU thread | long histories, hysteresis, rollback | the startup bias comes of one unbroken window; an excursion creeps or is undone; a stale bias is not locked out |
| Heading lock (`imu/mag_heading.cpp`) | lock state, reference, stability windows | one call per sample | the estimator | readings that are skipped, moving magnets | a new reference is a steady field; a steady field becomes the reference |
| Virtual displays (`vdd/vdd_client.cpp`) | driver handle, display indices, keepalive thread | connect, resize, disconnect | the driver, whose watchdog removes displays | partial failure and rollback through calls that fail too | the client's displays are the driver's; a resize ends, or hangs in a driver that does |
| Layout watch and reload (`app/spatial_desk.cpp` 846-1421) | layout, plan, captures, renderer, watermark | load, reload, undo, quit | all of the engine's parts, the layout file | a transaction over five subsystems | a reload is taken whole or not at all; no saved layout is forgotten; the loop comes back |
| Display topology (`vdd/display_config.cpp`) | snapshot of the displays, what was touched | takeover, reposition, restore | Windows' display configuration | each step may fail, or be accepted and not carried out | a failed takeover is undone; a restore that reports success succeeded; no batch is left staged |
| Windows and taskbar (`vdd/display_config.cpp`, `app_state.cpp`) | recorded windows, minimised set, saved taskbar state | record, place, repair, move home, re-apply | the window manager, Explorer | waves of minimising, new trays, three writers of one setting | once the displays are restored the recorded windows come home and none is left off every display; auto-hide comes back |
| Glasses recovery (`vdd/display_config.cpp` 1396-1806) | the displays found, the path tried | re-attach, activate path, verify, undo | Windows' display paths | a path that activates the wrong display, or does not stick | a failed recovery leaves no trace |
| Engine process (`app/spatial_desk.cpp`) | progress, options, armed guard, chosen monitor, status file | start, guard, preflight, takeover, wait, select, window, restore | the controller, other engines, the displays | many early returns, two instances, glasses that come and go | glasses there are used; the displays come home; a status shown is the run's |
| Desktop capture (`capture/desktop_duplication.cpp`) and frames (`spatial_desk.cpp` 1421-1620) | duplication, GDI fallback, copy; tiers, live textures, pointers | acquire, release, reinitialise, poll, show | DXGI, GDI, the renderer | access lost at any call, protected content, reloads | screens catch up; no black frame of protected content; one pointer |
| View comfort (`app/view_comfort.cpp`, controls, messages) | settings in dashboard, file, engine | choose, drag, push, poll, hotkey, launch | messages, arguments, queries | an engine that starts or hangs, messages lost | what is shown differs from what was chosen only for a reason; the file is the choice |
| Layout editor (`app_shell/app_window.cpp`, `app_layout.cpp`, `layout/layout.cpp`) | layout, dirty flag, presets, drag, focus, hot spots | every mouse and key input, save, revert, presets | files, the last paint | eleven inputs over three copies of a layout | "unchanged" means on disk; only valid layouts are written |
| Orientation calibration (`imu/orientation_calibration.cpp`, `tools/orientation_calibrate.cpp`) | step, attempt, recording, the file | record, judge, repeat, save | the glasses, the console, the file | recordings with two motions; interrupted saves | one motion is judged; the tool tells what the file is |
| Layouts, preferences, commands, status file | documents, strings, freshness of a file | parse, validate, build, publish, read | files, arguments | boundaries, stale files | modelled where others use them |
| Pose filters, HID bytes, renderer, painting, diagnostics, other tools | numbers, presentation | - | - | - | not modelled |

`PROJECT.json` lists the hazards of each at the line where they bite, with the property that would
catch each of them.

## 3. Modules

| Module | Models | Instance | Proofs |
|---|---|---|---|
| `SessionArchiver` | the log archive, the controller's sessions, the helper processes | `MCSessionArchiver` | `SessionArchiverProofs` |
| `PoseRegister` | abstract: a register of poses, written and read in one piece | | |
| `ImuSource` | the IMU thread, its seqlock, the readers; implements `PoseRegister` | `MCImuSource` | `ImuSourceProofs` |
| `MagHeadingLock` | the heading lock's state machine | | `OrientationCalibrationProofs` |
| `PoseEstimator` | the estimator; extends `MagHeadingLock`, which it drives sample by sample | `MCPoseEstimator` | `OrientationCalibrationProofs` |
| `EngineSupervisor` | the controller against the engines it may meet | itself | `EngineSupervisorProofs` |
| `VddClient` | the driver's client: connect, resize, keepalive, disconnect | | |
| `LayoutReload` | the engine's loop and its layout file; extends `VddClient`, whose actions it composes with its own | `MCLayoutReload` | `LayoutReloadProofs` |
| `DisplayTopology` | takeover, moves and restore of the displays against a free Windows | `MCDisplayTopology` | `DisplayTopologyProofs` |
| `WindowMigration` | the user's windows and taskbar through a takeover and a restore | `MCWindowMigration` | `DisplayTopologyProofs` |
| `GlassesRecovery` | re-attaching glasses that are plugged in and not part of the desktop | | |
| `EngineBoot` | the engine's life outside its frames, a second engine, the controller's start and poll; extends `GlassesRecovery`, which all three run | `MCEngineBoot` | `EngineBootProofs` |
| `DesktopCapture` | one capture of one output: each method as the set of its outcomes | | |
| `EngineFrames` | the frames of the loop; extends `DesktopCapture` | `MCEngineFrames` | `ImuSourceProofs` |
| `ViewComfort` | the view settings from control to screen, with the query worker | `MCViewComfort` | `ViewComfortProofs` |
| `LayoutEditor` | the editor's inputs, its layout, its files | `MCLayoutEditor` | `EngineSupervisorProofs` |
| `OrientationCalibration` | the calibration tool, the analysis, the file | `MCOrientationCalibration` | `OrientationCalibrationProofs` |

Definitions keep the source's names where there is one (`resize` and `BeginResize`, `display_indices`,
`has_pose_` and `hasPose`). Operators whose name ends in `Mutant` are plausible bugs: each stands before
the operator it spoils and is used by no action; put in the place of that operator it breaks one
property, which shows what the property depends on. Each module has one type invariant, `TypeOK`
(`DeskTypeOK`, `EditorTypeOK`, `FramesTypeOK`, `EstimatorTypeOK`); it can be added to the module's
`.cfg`, and TLC finds it to hold there.

### SessionArchiver

A session is a number; its archive's name is the rank `Stem` gives it, since the name is a local
time. The disk is `pendDir`, `pend` (pending folders and their files), `partial`, `zip`; it survives
`MachineDown`, which ends every process between two steps of any of them.

| Action | Code |
|---|---|
| `ControllerStart`, `ControllerQuit` | the controller's start spawns a helper when folders are pending; a quit finishes the session |
| `StartSession`, `SessionGetsLong`, `EndSession` | `start_engine` clears the live logs; a session past `kSessionArchiveMinSeconds` is staged when it ends |
| `StageFile`, `FinishStaging` | `stage_session_logs`, one rename at a time, then the spawn |
| `SpawnHelper` | `spawn_session_archiver`, at any time, beside helpers that still work |
| `CreateMutex`, `LeaveToOther` | `archive_pending_sessions`: the helper that did not create the mutex leaves |
| `Release`, `Recheck` | the empty queue is let go in one step and looked at again in another; whoever finds the mutex object alive then, held or not, leaves |
| `ScanQueue`, `ListFolder`, `TarEnds`, `Publish`, `CleanFolder`, `Prune`, `Fail` | its loop and `archive_one`; tar may fail or tear, a removal may fail while another program holds the folder (`ViewerOpens`, `ViewerCloses`) |

Helpers run beside the staging of any session, so two histories say what the code does not prevent:
`late`, the files moved into a folder after a helper had listed it, and `deserted`, that a helper left
the queue although every handle to the mutex was that of a helper leaving too. `excused` is a queue
that failed: no helper could be spawned, tar failed, or the machine went down.

### ImuSource

A pose is its publication number, carried by each component, so a torn read shows as components that
differ. Each atomic access is a step; the four relaxed component stores (`StoreComponent`) and loads
(`LoadComponent`) come in any order, which is what relaxed order allows between them. The fences of
the sequence counter are modelled as they act on x64, where loads are not reordered with loads nor
stores with stores. `Start`, `Stop`, `Join`, `Recenter` are the owner's calls, `OpenDevice` to
`CloseDevice` the thread's connection, `LoopTop`, `SampleWithPose`, `SampleWithoutPose` one turn of
its loop, `CallOrientation` and the `Load` actions `orientation()`. Glasses may ignore the command to
stop and go on sending (`flowing`): then `Drain` does not end before they fall silent (`Silence`),
whatever `running_` says.

`ref` is the number of the pose whose orientation the estimator took for its reference: `LoopTop` makes
it the live one when it takes the request, the first pose of a tracking makes it its own. `asked` notes,
for one call of `recenter()`, any, which pose was live. The flag's way and the reference's are thus two
pieces of state. A failing `hid_init` leaves `running_` true until `stop`. The gyro bias and the other
relaxed diagnostics are left out.

### PoseEstimator and MagHeadingLock

One action is one call: `AddSample` (with a branch for each of `WarmUp`, `Calibrate` and `Track`),
`LoseSamples` (a sample after a gap) and `Recenter`. A sample is how far it deviates from rest
(`calm`, `between`, `motion`) and the rate the low-pass shows on one axis, an integer; `time` counts
samples. The adaptation is `RoutineUpdate`, `EscapeUpdate` and `HoldBias`, in the order and with the
guards of the code; `StepBias` is the only way the bias moves but for the rollback. `world` is the
configuration a run has.

`MagHeadingLock` has the states of the code (`acquiring`, `locked`, `disturbed`; `off` is a world without
`mag`). A field is an integer, so each gate is a distance; the reference is some value between the readings
averaged (`MeanOf`). `calm`, `unseen` are histories that only properties read.

### EngineSupervisor

Engines are slots: a process moves from `boot` through `setup` (the takeover), `window`, `closing`
or `unwind` to `dead`, obeys, ignores, crashes or hangs anywhere, and its exit code tells whether
its restore failed. `process` is the engine the controller owns, `window` the one it talks to; they
differ when another engine was launched by hand. A poll is two steps, `PollWindow` and one of
`PollStopping`, `PollRunning`, `PollReaped`, `PollForeign` with `Settle` (the part of `poll_engine`
after it: session logs, display recovery), because an engine can die between the two looks. `Quit`,
`QuitTimeout` and `Leave` are `on_close` and `stop_engine_for_quit`; `EndSession` is a log-off.
Clocks are actions: `GraceOver` (45 s) and `StartOverdue` (30 s).

### VddClient and LayoutReload

`VddClient` has what the driver has (`driver`), what Windows lists of it (`listed`), what the client
tracks (`display_indices`), and the resize call under way with its two rollbacks (`call`): one ioctl is
one step, between which the keepalive thread pings (`Keepalive`) and Windows enumerates (`Enumerate`).
An ioctl may fail with or without having been carried out (`CarriedOut`). `Hang` is a request that the
driver neither completes nor gives up when it is cancelled: the engine, or the keepalive thread with the
mutex the engine needs, waits for it without a bound (`hung`).

`LayoutReload` extends it with the loop. A layout is its screens' yaw angles in the order of their
`vdd_index`; `PlanDesktops` gives each display its place. `Check`, `ReadLayout`, `Resized`, `Plan`,
`Place`, `Render`, `Bind` are the reload, `Undo`, `UndoResize`, `UndoPlace`, `UndoBind` the undo of
its failed attempt, `CheckPings` the keepalive check at the end of each turn. `done` is the set of
the code's flags that say what has been changed; `astray` is set by a refused move that left desktops
where no plan has them. `Edit` writes the file at any time, whole or torn.

### DisplayTopology

Displays are as wide as each other and stand in a row; the primary is the one at 0. `at` is Windows'
arrangement, `pending` what is staged with `CDS_NORESET` and not committed, `snapshots` the engine's
record of the user's arrangement. Windows is as free as the code's comments fear: an accepted commit
may be honoured, packed, relocated or dropped (`Accepted`), a refused one leaves its batch pending
(`Refused`), a display that comes or goes lets Windows rearrange all others (`Settle`, `Unplug`).
`recalls` says whether Windows recalls the user's arrangement once exactly those displays are left.
`Snapshot` to `Rollback` are `run_main` and `apply_workspace_topology`; `Reposition` is
`reposition_virtual_displays`; `Drain` to `Flush` are `restore_pinned_layout`, phase by phase. An
engine may start on the arrangement a killed engine left behind (`Init`). `changed` notes that a commit
carried out something staged, a refused one's leftovers and a part of a batch included; `halfway` that
Windows took a part of the takeover's batch and refused the rest.

It composes with `LayoutReload` and `EngineBoot` at one point each: there `TakeOver`, `Repositions`
and `Restore` stand for the whole of what is modelled here in steps.

### WindowMigration

A window is where its rectangle is, and whether it is open, minimised and maximised. The panel at home
and the centre desktop are both at the origin, which is why `Arrange` moves the panel's windows aside.
The restore of the displays succeeds (`PanelBack`) or fails with any of the displays gone
(`PanelStaysAway`, `failed`), and then nobody moves a window home. `Record`, `Arrange`, `PlaceOnCentre`,
`DetachPanel`, `RepairTakeover`, `Workspace` are the takeover; `BeginRestore`, `PanelBack`,
`PanelStaysAway`, `MoveHome`, `RepairRestore`, `Repaired`, `Reapply` the way back. `Reapply` polls the
taskbar until it holds or its 15 s are over (`Budget` polls). `Wave` is a wave of minimising that comes
while a repair loop polls, `LateWave` one that comes after it, `Flip` Explorer dropping auto-hide, `Use`
and `SetBar` the user, `Track`, `End`, `Reassert` and `LetAlone` the controller's polls, its own restore
and the 10 s in which it sets the taskbar again.

### GlassesRecovery and EngineBoot

A display is attached, detached (GDI still names it), hidden (only its path is left) or unplugged.
`BeginRecovery`, `Stage`, `Commit`, `AwaitAttach` are the GDI way, `QueryPaths`, `ApplyPath`,
`VerifyPath`, `UndoPath` the path way; each caller has its own `rec`, so two recoveries interleave.

`EngineBoot` follows `run_main`: `Args`, `Guard` (single instance), `Inputs`, `Snapshot`, `TakeOver`,
`Select`, `BeginPass`, `EndPass`, `FallBack` (the bounded wait for the glasses), `Window`, `Bind`,
`Heartbeat`, `Restore`, `Finish`, `Unwind`. `Breaks` and `Fails` are the early returns, each through the
armed guard. `Start`, `Healing`, `Healed`, `Poll`, `Extend` are the controller. `troubled` remembers which
kind of trouble touched the displays, so a property can say what excuses a bad end and what does not.

### DesktopCapture and EngineFrames

Each operator of `DesktopCapture` is a method and yields the set of its outcomes. The copy of the
desktop is `current`, `behind` (it has changed since), `masked` (black where it is protected), or
`none`. `EngineFrames` polls a screen when its tier has it due (`PollScreen`, `Retier`, `Skip`), shows
the frame (`ShowFrame`), and ends the frame (`EndFrame`) with the count of failures; `Reloaded` and
`ReloadUndone` are the two ends of a reload, with the captures and textures each leaves.

### ViewComfort

The groups are the stabilisation level, dimming (mode, percentages) and night tint. `Choose`,
`Slider`, `Key`, `Drag`, `Release` are the dashboard's controls; `Pushed` is the sequence of messages a
group sends, of which any may time out; `Launch` passes what `FromArguments` reads. `OpenWindow` and
`SetApp` are the two moments between which the engine's handlers do nothing. `AnswerQuery`,
`StoreAnswer`, `PollWindow`, `Adopt` are the query worker and the poll: a query's sequence numbers
reduce to whether there is an answer nobody has read.

### LayoutEditor

A layout is its screens (id, driver index, position) and the coupled angles and rates. `Paint` makes
`shown`, which clicks and keys go by afterwards (`Hotspots`, `ClickControl`, `Grab`, `Tab`,
`ActivateFocused`); `Move`, `Drop` and `LoseCapture` are a drag. `set_layout_field` pushes the coupled
angles as the code does and then validates. `Foreign` edits the layout file or a preset
by hand, or removes one (`Absent`); `Repoint` reads an `app.json` that names another layout file.

### OrientationCalibration

`Start` to `Conclude` are `main` of the tool, step by step, with the three attempts of each step
(`Repeat`); a recording is a sequence of turning rates. `Scan` and `FinishRun` are the scan for the
motion with its on and off rates (`Scanned` is the record of it after each sample), `Quiet` the test of
stillness; the least-squares fits and the comparison of the axes are any of their verdicts. `Save`,
`SaveUnread`, `write_calibration_file`, `Replace` are the way to the file; `Killed` closes the console
in any of them, `Silence`, `Resume`, `Disconnect` are the glasses, `Edit` is anything else that writes
the file.

## 4. Runs

| Run | Checks | Bounds, and why they are enough |
|---|---|---|
| `archiver` | `PublishedComplete`, `NoStagedLogLost`, `NoPendingMissed`, `HelperTerminates` | two sessions, files and helpers, one power cut, one hold, `Keep = 1`: the second session stages while the helper of the first may be at any of its steps, and pruning has something to remove. 1,097,480 states |
| `imu` | `AtomicPose` (the refinement of `PoseRegister`), `HasPoseIsLive`, `RecenterHonoured`, `CallersReturn` | one reader (readers share nothing), two components (a torn read needs no more), four poses: a reader can be overtaken by two publications, a connection be lost and made again, and a recenter be followed by two more poses of its connection. 911,390 states |
| `supervisor` | `NoOrphan`, `LogsAfterEngine`, `FailureRecoversPanel`, `EveryWaitEnds` | two engines, one of them launched by hand, three user actions: launch, stop, and one that interferes |
| `reload` | `Consistent`, `WatermarkIsHonest`, `ReloadEnds` | layouts of one and three screens, two of them different plans of the same screens; four driver indices, so that one is spare and a failed addition can leave a display to stand in for a tracked one; one edit; one fatal ping; additions may be carried out after a failure, removals not. An index over the maximum, refused and left plugged, is such an addition. The driver may hang at any call. 1,862,910 states |
| `topology` | `ChangedIsRestored`, `NoBatchLeftBehind`, `RestoredIsHome` | a laptop with the glasses, and a computer without a panel; two virtual displays, two plans, five places; one monitor unplugged, one reload: a shuffle of three displays needs no more |
| `pose` | `OneWindowGaveTheBias`, `ExcursionCreepsOrIsUndone`, `StaleBiasIsRecovered`, `ReacquiresOnlySteadyFields`, `ANewFieldIsReacquired` | three worlds: rates on both sides of every gate without a magnetometer; drift absorption; the heading lock over every sequence of four fields, two of them so near that a stability window takes them for one. Windows and dwells of two to five samples: each can be broken off at its first, middle and last sample. The model is finite without a bound on the samples |
| `engine` | `NoBlackFrame`, `OnePointer`, `CatchesUp` | one screen, the three tiers, two faults or reloads: a fallback and a reload, or a failed update and a lost duplication. No bound on frames. Screens share the count of failures and the pointer's place; both come and go freely with one |
| `comfort` | `DriftIsExplained`, `FileIsConfig` | three levels, three percentages, one screen, one process that dies; a user of one group of controls at a time, since the handlers of the groups touch nothing in common |
| `boot` | `GlassesAreFound`, `FailedRecoveryLeavesNoTrace`, `HomeAgain`, `ShownIsCurrent` | two engines and the controller, glasses that are branded, a television, a panel, one virtual display; one pass of the wait; one thing going wrong anywhere. Engines are symmetric |
| `windows` | `RecordedComeHome`, `NothingIsStranded`, `TaskbarComesBack` | two windows, two sessions, two waves after each change, one act of the user, one drop of auto-hide beyond that of the detach. Loops end after two quiet polls (3 and 6 in the code), the taskbar's after four in all. A restore that fails in the first session and succeeds in the second, and the other way round. Windows are symmetric; 7,122,331 states |
| `editor` | `CleanIsOnDisk`, `OnlyValidIsWritten`, `OnlyTheEndsAreRefused` | four inputs, one edit by hand or another layout file; up to three screens; two presets, one of them broken; angles of 0 to 2 so that every push of a coupled field meets an end |
| `calibration` | `ExitSaysTheFile`, `OneMotionIsJudged` | one session on a file of any kind, every recording of up to six samples with rates below, between and above the thresholds, none of them zero, so that a rest adds to the motion it ends; two faults: a motion, a rest and a second motion fit in six samples |

Deadlock is checked where the model has a stuttering step for its proper ends (`Done`, `Over`:
`engine`, `comfort`, `boot`, `windows`, `editor`). In the others a controller that quit, an engine that ended, a
session that is over and used-up bounds are proper ends, and it is not checked.

What each property says is in the comment above it. Some that need a word:

* `NoPendingMissed`: a pending folder has a helper that will still look at it, unless one failed or the
  queue was `deserted`, which is the one way to miss a folder (section 6).
* `NoStagedLogLost`: a staged file is pending or in a whole archive, unless it was `late`.
* `RecenterHonoured`: one pose at most is still drawn against the old reference; from the second pose
  after the call the reference is an orientation of the call or later.
* `CallersReturn`: `orientation()` returns, and so does `stop()` unless the thread stays in the drain loop.
* `ReloadEnds`: a reload comes back and failing pings end the engine, or the driver hangs.
* `CatchesUp`: what is drawn of a screen becomes current again, or the engine ended, or one of the
  reasons of `Excused` holds: the secure desktop has the screen, the output is gone, the content is
  protected or its frame was thrown away, or the fallback has no surface.
* `DriftIsExplained`: the engine shows what the dashboard has chosen, or one of the known reasons holds,
  as the history `drift` has them (a refused message, a level changed inside the engine, a message in the
  moment before `g_app`). It fails as soon as a path sends too little.
* `StaleBiasIsRecovered` and `ANewFieldIsReacquired` are conditional: if the wearer rests again and again,
  and if usable readings keep coming of a field that stays.
* `HomeAgain` excuses what `troubled` names (a killed engine, a display that flaps, a change that Windows
  refused or that did not stick, an undo by then stale), and nothing else.

### Fairness

* `archiver`: a helper process is scheduled, and no program holds a folder for ever.
* `imu`: the thread, a reader inside a call, and the join are scheduled. The device is not fair: it
  may stay missing, lose every connection, or never fall silent.
* `supervisor`: the health timer polls for ever, and so does the wait of a quit; 45 s and 30 s pass;
  the wait looks at its 60 s in every turn (strong fairness, since a poll that is under way disables the
  look for a moment). Nothing is assumed of engines, nor of the user.
* `reload`: the engine's thread runs while no request of it hangs. The driver is free to hang: after its
  timeout an ioctl waits for the cancelled request without a bound. Nothing is assumed of Windows, the
  pings or the user.
* `pose`: samples keep coming while the thread reads them. Which samples, gaps and recenters is free.
* `engine`: the loop goes on to its next frame. Windows, the reloads and the user are free.

## 5. Proofs

All theorems are checked by TLAPS from the named assumptions on the constants only, unless a
hypothesis is named.

Four proof modules are about two components each that work side by side: the displays with the
windows on them, the controller with its layout editor, the pose thread with the frames, the calibration
tool with the estimator. The second component's specification has names of its own there (`DeskSpec`,
`EditorSpec`, `FramesSpec`, `EstimatorSpec`), so that both stand in one module with their assumptions.

| Theorem | Says | By |
|---|---|---|
| `SessionArchiverProofs!TypeCorrect` | `TypeOK` | |
| `QueueHasOneOwner` | `OneQueueOwner` | itself inductive, with `TypeOK`: working on the queue implies holding the mutex handle |
| `ArchivesAreComplete` | `PublishedComplete` | `ContentInv`: the file a helper is about to publish is whole and its own |
| `StagedLogsAreKept` | `NoStagedLogLost` | `KeptInv`: where each staged file is at every step of the helper, and that a listing on which an archive is built misses only files that are `late` |
| `PendingIsAnswered` | `NoPendingMissed` | `AnsweredInv`: a handle to the mutex belongs to a helper at work on the queue, which will look at it again, or to one that is being turned away; whoever leaves because of a handle leaves to the former, or the queue is `deserted`. No assumption on when sessions end |
| `ImuSourceProofs!TypeCorrect` | `TypeOK` | |
| `PoseIsAtomic` | `AtomicPose`: the seqlock implements the register, step by step | `SeqInv`: the sequence is twice the publications, plus one while one is open; what a reader has copied under an unchanged sequence is the current pose |
| `FlagsAreHonest` | `HasPoseIsLive` | `FlagInv`: the flag and the calibration against the place of the thread |
| `RecentersAreHonoured` | `RecenterHonoured` | `RefInv`: a call either has its orientation or a later one in the reference, or is `Owed`: the flag is still up, and no second pose has been made since, nor can one be before the flag is looked at |
| `FramesTypeCorrect` | `FramesTypeOK` | |
| `BlackIsNeverPresented`, `ThePointerIsDrawnOnce` | `NoBlackFrame`, `OnePointer` | `FramesInv`, at every step and not only when a scene is presented: a black copy that is drawn is one whose frame was dropped; over GDI the renderer's pointer is hidden from the first capture on, before which there is no copy to draw. `PollIs` says what any poll can bring: a copy turns black only with a frame that says so, or in one that is consumed and lost |
| `EngineSupervisorProofs!TypeCorrect` | `TypeOK` | |
| `QuitLeavesNoOrphan`, `RestIsSettled`, `LogsWaitForTheEngine`, `KillsAreFailures`, `FailuresRecoverThePanel` | `NoOrphan`, `SettledIsDone`, `LogsAfterEngine`, `KillIsFailure`, `FailureRecoversPanel` | `Duties`: what the client owes for the process it holds (a session, a recovery, a report), and that a late poll has left it dead |
| `EditorTypeCorrect` | `EditorTypeOK` | |
| `WrittenLayoutsAreValid`, `TheEndsAloneAreRefused` | `OnlyValidIsWritten`, `OnlyTheEndsAreRefused` | `EditorInv`: the edited layout is `Sound` (unique ids and displays, ordered rates, angles ordered or at an end), everything on disk is valid, and the list names presets. `SetFieldIsSound`: each slider pushes its neighbours into order. `FreeNumbers`: fewer screens than allowed leave an id and a driver index free, by counting |
| `CleanLayoutIsOnDisk` | `CleanIsOnDisk` | itself inductive, with no assumption: `StaysClean` says the five ways in which a step may treat the layout and the file |
| `DisplayTopologyProofs!TypeCorrect` | `TypeOK` | |
| `TakeoverIsComplete` | `TakenOver` | `Held`: once the virtual displays are up Windows has nothing left to notice, and the second pinning cannot bring the panel back |
| `FailedTakeoverIsClean` | `ChangedIsRestored` | `Account`: where the thread is, against what is pending and what was carried out; a rollback with nothing touched has something to flush only if the batch was taken half-way |
| `NothingIsLeftStaged` | `NoBatchLeftBehind` | `Flushed`: at which steps nothing is pending |
| `SuccessIsHome` | `RestoredIsHome`, **if** a panel is always the user's primary | `Machine`, `Seen`, `Verified`: what is connected is attached, save the panel; the snapshot is the user's arrangement or has a virtual primary, which cannot be restored; what each phase has verified still holds in the next. The last commit is not looked at except for the other displays: they fill every place but one, and an arrangement has a primary, so the one left stands at 0. The hypothesis is needed (section 6) |
| `DeskTypeCorrect` | `DeskTypeOK` | |
| `RecordedWindowsComeHome`, `NoWindowIsStranded` | `RecordedComeHome`, `NothingIsStranded` | `HomingInv`: from the move home a recorded window is where it was, if perhaps minimised; what is shown stands on a display; a repair loop ends only on a poll with nothing to repair and no wave left, and such a poll leaves minimised only what stands on a display (`Mended`). Both are about restores of the displays that succeed; a later one mends what a failed one left (section 6) |
| `TheTaskbarComesBack` | `TaskbarComesBack` | `TaskbarInv`: the takeover's note and the controller's against the user's choice at each phase, unless Explorer dropped auto-hide at the detach; after a hotkey, if it held before the time was up |
| `LayoutReloadProofs!SavedLayoutsAreSeen` | `WatermarkIsHonest`, **if** the file is not written while the engine starts | `Mark`: what was read under the time the file has now is what the file holds now, from the read to the end of the reload or its undo. The hypothesis is needed (section 6) |
| `TypeCorrect` | `TypeOK` | with `Called`: a call is in progress only where the engine waits for it, and aims at the layout in force at the start and in the undo |
| `ReloadsAreWhole` | `Consistent`, **if** no removal is carried out and reported as failed | `Transaction`: what the client tracks is in the driver, once (`Tracked`); plan and captures are one layout's (`Held`); at each step of a reload `done` says which part the engine can no longer vouch for (`Restorable`). The undo may place the old plan only where Windows lists all of its displays, which is how the captures are known to exist again. The hypothesis is needed (section 6) |
| `ViewComfortProofs!TypeCorrect` | `TypeOK` | |
| `ChoicesAreRemembered` | `FileIsConfig` | `Remembered`: a file that is broken is known to be |
| `TheScreensShowTheDashboard` | `DriftIsExplained` | `Explained`: the engine's settings agree with the chosen ones where the chosen mode reads them. Equal they are not: arguments leave out the other modes' values, so a mode change must send them |
| `OrientationCalibrationProofs!TypeCorrect` | `TypeOK` | the steps fall into those of the session, which touch no file, and those that save: `SessionShape` and `SaveShape` say what each family leaves behind |
| `TheToolTellsTheTruth` | `ExitSaysTheFile` | `SaveInv`: while a session runs the file is as it was, and what it is about to write is the merge of its measurement with the file as it read it |
| `TheBiggestMotionIsJudged` | `OneMotionIsJudged` | `ScanInv`, along the samples: between motions everything above the on rate is cut off by a rest, in one the record says which it is and what it spent, and the best is the best of the motions whose rest is over. `ScannedSteps` and `SpentSteps` first give the two recursive functions their recursion, from `Iterates`: a function given step by step exists for every length |
| `EstimatorTypeCorrect` | `EstimatorTypeOK` | |
| `TheBiasIsOfOneWindow` | `OneWindowGaveTheBias` | `Calibrating`: the run of the calibration is a part of the calm samples since the last break, and neither escape nor lock has begun |
| `AnExcursionDoesNotSlideBack` | `ExcursionCreepsOrIsUndone` | `RollbackIs`, `StepIs`: an armed excursion keeps the routine update out unless it was rolled back in the same sample, and then the rate lies in the band of the snapshot, which a step towards it does not leave |
| `OnlySteadyFieldsAreTaken` | `ReacquiresOnlySteadyFields` | `Steady`: no reading outside the band of an open stability window is younger than the window, save for what its first reading booked |
| `EngineBootProofs!TypeCorrect` | `TypeOK` | `Rooms`: one engine at most is past the mutex, only an engine that made a takeover is armed, and a wait is within its passes |
| `ReportsAreFresh` | `ShownIsCurrent` | `Fresh`: the engines of before are over and the file is not of one of them. A launch removes the file, an engine writes under its own name only while it lives |
| `NoTraceOfAFailedRecovery` | `FailedRecoveryLeavesNoTrace` | `Waits`: a recovery runs where its caller waits for it, and aims at glasses; `Trace`: between two attempts the desktop is what was found, under an attempt it is that and the target at most |
| `DisplaysComeHome` | `HomeAgain` | `Homeward`: while nothing went wrong the displays of before stay attached, save the panel under a takeover; while nobody is armed the desktop is as before; whoever is armed remembers it, because it took its snapshot when nobody was; no recovery tries, or undoes, a display of before |
| `TheGlassesAreFound` | `GlassesAreFound` | `Found`: with glasses plugged in and no television the target of every recovery is one of them, the list of untried paths holds all that are not attached, and no recovery comes to its undo; `Homeward` gives an engine without a takeover a display to fall on |

Each conjunct of these invariants was checked with TLC on the instances of the runs before its proof.
`OneQueueOwner`, `SettledIsDone`, `KillIsFailure` and `TakenOver` are proved and no longer run: TLC
finds each to hold on the instance of its module too.

`NaturalsInduction` takes a predicate as a parameter, which the provers cannot instantiate; where a proof
goes along the samples of a recording, `Along` says it with a set of numbers instead.

Only model-checked: every liveness property (`HelperTerminates`, `CallersReturn`, `EveryWaitEnds`,
`ReloadEnds`, `StaleBiasIsRecovered`, `ANewFieldIsReacquired`, `CatchesUp`).

## 6. What the code does otherwise than it says

Each is quoted against its doc or comment in `PROJECT.json`. Where a name stands in brackets it is a
definition of the module that states what the doc says: TLC finds it violated when it is put into the
module's `.cfg`, with the constants named.

* Archive: a helper that finds the queue empty lets the mutex go and looks again. A helper started with a
  session staged just before finds the mutex object still there and leaves; if its own handle is still
  open when the first one, which sees the folder, asks for the mutex again, the first leaves as well, and
  the folder waits for the next start (`session_logs.cpp:305`) [`EveryPendingIsAnswered`]. A helper at
  work may archive a folder half staged and remove the rest with it (`session_logs.cpp:137`)
  [`EveryLogIsKept`].
* Supervision: a Stop before the engine has a window is never repeated; the engine is terminated after
  the grace without having been asked (`engine_client.cpp:409`) [`ForcedOnlyIfIgnored`], and reaches an
  engine launched by hand. An engine that exits with a failure after Stop leaves the panel off
  (`engine_client.cpp:368`) [`NoDarkPanel`]. A recovery is applied under a foreign engine that ignores a
  quit, and by the controller itself, which the documentation denies (`app_state.cpp:572`).
* Query: an answer that comes between two polls is discarded by the second's request before it is read
  (`engine_client.cpp:129`).
* Reload: a layout saved while the engine starts is older than the watermark and never loaded
  (`spatial_desk.cpp:1274`) [`WatermarkIsHonest`, `EditsAtStart = TRUE`]. A refused move whose undo is
  refused too leaves the desktops where no plan says (`spatial_desk.cpp:1334`) [`DeskFollowsPlan`]. A
  display that the driver made and the client gave up on is on no list of the client's and a screen may
  go on showing it after an undo (`vdd_client.cpp:216`) [`CapturesAreTracked`]. When removals as well as
  additions may be carried out after a failure, a shrink and its rollback track one index twice
  [`Consistent`, `CarriedOut = {"add", "remove"}`, 28 states]. The pings that should notice a driver
  that stopped answering wait for it with the engine, which neither comes back nor ends
  (`vdd_client.cpp:218`) [`DeadDriverIsNoticed`].
* Topology: a panel that is not the primary display is detached, and a restore that takes it for
  unplugged reports success (`display_config.cpp:1991`) [`RestoredIsHome`, `Homes <- MCSecondHomes`]. A
  takeover that fails before its first commit pins nothing (`display_config.cpp:988`); one that Windows
  stopped half-way through its batch has the first half committed by the rollback, and nothing restores it
  (`display_config.cpp:1087`) [`FlushIsHarmless`]; a refused
  commit of the restore leaves its batch pending (`display_config.cpp:1939`); an engine started right
  after a killed one snapshots the killed one's displays (`spatial_desk.cpp:869`).
* Windows and taskbar: a restore whose pins fail hands the taskbar back and not the windows, and is not
  tried again (`display_config.cpp:2109`) [`EveryEndBringsThemHome`]; a window the user minimised on a
  side desktop is un-minimised by the restore (`display_config.cpp:2115`) [`MinimisedStay`]; the
  controller takes Explorer's drop of auto-hide for the user's wish, and a quit by hotkey loses the
  user's own change (`app_state.cpp:496`, `:606`) [`TaskbarIsHandedBack`].
* Starting: the television the user works on is taken for the glasses after the takeover
  (`spatial_desk.cpp:1027`) [`PrimaryTelevisionIsLeft`]; an attached television shadows detached glasses
  (`display_config.cpp:1433`, `:1790`) [`TelevisionShadowsNothing`]; a refused second engine has the
  controller extend the displays under a takeover (`app_state.cpp:572`) [`NoExtendUnderATakeover`]; its
  report stands until the loop runs (`spatial_desk.cpp:815`); glasses lost by the takeover are waited for
  only when nothing else is attached (`spatial_desk.cpp:1086`).
* Pose: convergence does not end an armed escape (`pose_estimator.cpp:379`)
  [`ConvergenceEndsTheEscape`], and the rollback jumps the bias (`pose_estimator.cpp:358`).
* Frames: protected content whose frame is thrown away is drawn black (`desktop_duplication.cpp:350`);
  every reload makes the captures fall back to GDI (`spatial_desk.cpp:672`); captures that fail for ever
  are never fatal (`spatial_desk.cpp:1576`).
* View comfort: the poll adopts a level again and again from one old answer (`app_state.cpp:471`)
  [`AdoptsEngineLevel`], also over a choice "for the next start" (`:421`); a setting sent before `g_app` is
  set is lost and reported as sent (`spatial_desk.cpp:332`); two switches overwrite an `app.json` that the
  user was asked to repair (`app_window.cpp:1379`) [`BrokenFileKept`].
* Editor: the coupled angles meet at the ends of their sliders (`app_layout.cpp:486`)
  [`AnglesStayOrdered`]; a key can change the layout without marking it changed (`app_window.cpp:1071`)
  [`UnsavedIsDirty`]; chips and presets take the focus and ignore Enter (`app_window.cpp:1151`)
  [`KeysReachAll`]; R does nothing (`:911`); Revert cannot repair a broken file (`app_state.cpp:333`); an
  `app.json` read again under another layout path leaves the old layout shown as unchanged
  (`app_state.cpp:381`) [`CleanIsOnDisk` without `apart`]; a drag goes on
  without its button (`app_window.cpp:827`) [`ButtonDrags`].
* Calibration: a file that cannot be opened in the moment of saving loses the other half
  (`orientation_calibration.cpp:624`) [`FieldIsKept`]; a step with too few samples ends the session instead
  of being repeated (`orientation_calibrate.cpp:184`) [`AStepIsRepeated`].

Further weaknesses the models show and no doc speaks of: with a drag, keys can delete the screen under
the pointer and the drag moves another by its index [`PickedIsMoved`]; a still recording that is long
enough for its step can be too short at the end of the session [`StillnessIsNotRefusedLate`]; `stop()`
hangs while glasses that ignore the command to stop keep sending (`imu_source.cpp:104`) [`StopReturns`];
a start that is carried out and not acknowledged leaves the glasses streaming [`StreamIsLeftOff`]; which
of two motions is the bigger includes what was measured in the rest after it
(`orientation_calibration.cpp:236`), which `MotionEnergy` therefore counts.

## 7. Not modelled

* Geometry, filters and fitting (`fusion.cpp`, `pose_smoother.cpp`, the least squares and angles of
  `orientation_calibration.cpp` and `mag_heading.cpp`, `camera.cpp`, `screen_geometry.cpp`, the drawing of
  `renderer.cpp`): floating-point functions without control state; where a model needs their verdict it
  takes any.
* Painting, dialogs, tray, diagnostics, self-tests and other tools: presentation, or programs that check.
* Byte layouts of the HID reports and of the driver's ioctls, the JSON reader, the text of arguments and
  of the status file: the models take what they mean.
* In `DisplayTopology`: GDI names that renumber (waits that fail). In `GlassesRecovery`: positions, modes
  and the best-effort move back. In `EngineSupervisor`: banners, tools launched from the dashboard.
* In `WindowMigration`: a repair loop ended by its 10 s; a second restore by the same engine; focus;
  windows that do not answer.
* In `LayoutEditor`: the geometry of the canvas, the orbit camera, scrolling. In `ViewComfort`: the focus
  fade over time.
* In `EngineBoot`: a status file that cannot be removed before a launch, whose failure the controller
  ignores (`app_state.cpp:177`): a report of the run before, if young enough, would be shown for up to a
  second.
* Hazards no property covers: a log-off keeps the logs of a long session live until the next start clears
  them (`app_window.cpp:377`); a clock set back misorders names, and pruning goes by names
  (`session_logs.cpp:190`); a folder that cannot be archived keeps those after it waiting
  (`session_logs.cpp:318`); `hid_init` failing leaves `start()` refusing until `stop()`
  (`imu_source.cpp:87`); a hole in the recording of a motion counts as one nominal sample
  (`orientation_calibrate.cpp:159`).

## 8. Plan

1. **Abstract takeover.** A specification with the states home, taken and lost that `DisplayTopology`
   implements, and which `EngineBoot` and `EngineSupervisor` use in place of their own one-step takeovers.
2. **Two screens in `EngineFrames`.** The count of failures is shared by all screens; two of them, one
   failing and one idle, would say more of the fatal end.
3. **Layout documents.** Validation, planning and the factory layouts as operators against reference
   definitions.
