--------------------------- MODULE DisplayTopology ---------------------------
(***************************************************************************)
(* The takeover of the user's displays and their restore                    *)
(* (src/vdd/display_config.cpp, apply_workspace_topology and                *)
(* restore_display_topology), as run_main of src/app/spatial_desk.cpp       *)
(* calls them.  The engine snapshots the arrangement, plugs its virtual     *)
(* displays, arranges everything in one commit, detaches the laptop panel,  *)
(* and at the end, or when a step fails, unplugs and pins the snapshot.     *)
(*                                                                         *)
(* Windows owns the arrangement.  A commit it accepts it may honour, pack,  *)
(* relocate or drop without a word, and when displays come and go it        *)
(* rearranges the others: the code relies only on what it verifies.         *)
(* Displays are as wide as each other and stand in one row; the primary is  *)
(* the one at 0.  Names that Windows renumbers show as waits that fail.     *)
(* Windows (the applications'), focus and taskbar are left out: best effort.*)
(***************************************************************************)
EXTENDS Integers, FiniteSets

CONSTANTS
  Physical,   \* the monitors, the glasses among them
  Panel,      \* the laptop's own
  Vdds,       \* the virtual displays
  Pos,        \* where a display can stand
  Homes,      \* the arrangements a user may have
  Plans,      \* where a layout puts the virtual displays
  MaxUnplugs, \* bound on the monitors unplugged while the engine runs
  MaxMoves    \* bound on the layouts reloaded meanwhile

\* One primary, and no two displays in one place.
Valid(a) ==
  /\ \E d \in DOMAIN a : a[d] = 0
  /\ \A d, e \in DOMAIN a : a[d] = a[e] => d = e

ASSUME TopologyAssumption ==
  /\ IsFiniteSet(Physical) /\ IsFiniteSet(Vdds) /\ Physical \cap Vdds = {}
  /\ Panel \notin Vdds /\ Pos \subseteq Int
  /\ \A h \in Homes : DOMAIN h \subseteq Physical /\ h \in [DOMAIN h -> Pos] /\ Valid(h)
  /\ \A p \in Plans : p \in [Vdds -> Pos] /\ Valid(p)
  /\ MaxUnplugs \in Nat /\ MaxMoves \in Nat

VARIABLES
  home,       \* the user's arrangement before any engine touched it
  recalls,    \* Windows recalls it when exactly those displays are left
  plugged,    \* the displays connected: monitors, and what the driver has
  at,         \* the attached displays and where they stand
  pending,    \* staged and not yet committed, system-wide
  snapshots,  \* the pristine arrangement, as the engine saw it
  slots,      \* where this engine wants its virtual displays
  touched,    \* the first commit has been tried
  drained,    \* no virtual display was left when the restore looked
  restored,   \* how the restore ended: "none" when there was none
  pc,
  moves,      \* layouts reloaded
  refused,    \* history: Windows has refused a commit
  changed,    \* history: a commit carried out staged modes, or the panel was detached
  halfway     \* history: Windows took a part of the takeover's batch and refused the rest

machineVars == <<home, recalls>>
windowsVars == <<plugged, at, pending>>
engineVars == <<snapshots, slots, touched, drained, restored>>
historyVars == <<refused, changed, halfway>>
vars == <<machineVars, windowsVars, engineVars, pc, moves, historyVars>>

Displays == Physical \cup Vdds

\* What may become of the displays S: any one arrangement of them.
Arranged(S) == {a \in [S -> Pos] : Valid(a)}

\* What Windows may make of them when one comes or goes: a panel that is off
\* may stay off.
Arrangements(S) ==
  Arranged(S) \cup (IF Panel \in DOMAIN at THEN {} ELSE Arranged(S \ {Panel}))

Starting == {"snapshot", "stale", "connect", "wait"}
TakingOver == {"stage", "commit", "verify", "detach", "hold", "repin", "rehold"}
Restoring == {"drain", "R1a", "R1a commit", "R1b", "R1b commit", "R2", "R2 commit", "check", "flush"}

TypeOK ==
  /\ home \in Homes /\ recalls \in BOOLEAN
  /\ plugged \subseteq Displays /\ pending \subseteq Displays
  /\ DOMAIN at \subseteq Displays /\ at \in [DOMAIN at -> Pos] /\ Valid(at)
  /\ DOMAIN snapshots \subseteq Displays /\ snapshots \in [DOMAIN snapshots -> Pos]
  /\ slots \in Plans
  /\ {touched, drained, refused, changed, halfway} \subseteq BOOLEAN
  /\ restored \in {"none", "ok", "failed"}
  /\ pc \in Starting \cup TakingOver \cup Restoring \cup {"rollback", "running", "ended"}
  /\ moves \in 0 .. MaxMoves
  /\ drained => Vdds \cap DOMAIN at = {}

\* An engine starts on the user's arrangement, or right after another one was
\* killed: its virtual displays are gone but Windows has not noticed yet, and
\* the panel is still off.
Init ==
  /\ home \in Homes /\ recalls \in BOOLEAN
  /\ plugged = DOMAIN home /\ pending = {}
  /\ \/ at = home
     \/ \E p \in Plans : at \in {a \in Arranged((DOMAIN home \cup Vdds) \ {Panel}) :
                                   \A v \in Vdds : a[v] = p[v]}
  /\ snapshots = home /\ slots \in Plans
  /\ touched = FALSE /\ drained = FALSE /\ restored = "none" /\ pc = "snapshot"
  /\ moves = 0 /\ refused = FALSE /\ changed = FALSE /\ halfway = FALSE

\* The displays that must leave the slots: the primary, and those in the way.
Asides ==
  {d \in DOMAIN snapshots \ Vdds : snapshots[d] = 0 \/ \E v \in Vdds : snapshots[d] = slots[v]}

PanelFound == Panel \in DOMAIN snapshots

--------------------------------------------------------------------------------
(* Windows.                                                                 *)

Settled == DOMAIN at \subseteq plugged /\ plugged \ {Panel} \subseteq DOMAIN at

\* It notices, in its own time, which displays were plugged or unplugged.
Settle ==
  /\ ~Settled
  /\ at' \in IF recalls /\ plugged = DOMAIN home THEN {home} ELSE Arrangements(plugged)
  /\ pending' = pending \cap plugged
  /\ UNCHANGED <<machineVars, plugged, engineVars, pc, moves, historyVars>>

\* commit_display_changes: accepted, whatever becomes of it, or refused; then
\* the batch stays pending.
Accepted ==
  /\ pending' = {}
  /\ at' \in {at} \cup
       IF pending = {} THEN {}
       ELSE Arranged(DOMAIN at \cup (pending \cap plugged))
  /\ changed' = (changed \/ pending # {})
  /\ UNCHANGED <<refused, halfway>>
Refused ==
  /\ refused' = TRUE
  /\ UNCHANGED <<at, pending, changed, halfway>>

\* Staging a batch display by display: Windows takes all, or stops at one.
Staged(batch) == pending' = pending \cup batch
StagingFails(batch) == \E d \in batch : \E P \in SUBSET (batch \ {d}) : pending' = pending \cup P

\* VddClient::disconnect.
Disconnect == plugged' = plugged \ Vdds

--------------------------------------------------------------------------------
(* The takeover.                                                            *)

\* wait_for_display_layout of every slot.
InPlace == \A v \in Vdds : v \in DOMAIN at /\ at[v] = slots[v]

\* A failure before anything was touched: the virtual displays are unplugged.
FailsUntouched ==
  /\ Disconnect /\ pc' = "ended"

Snapshot ==
  /\ pc = "snapshot"
  /\ \/ snapshots' = at /\ pc' = "stale" /\ UNCHANGED plugged
     \/ FailsUntouched /\ UNCHANGED snapshots
  /\ UNCHANGED <<machineVars, at, pending, slots, touched, drained, restored, moves, historyVars>>

\* No glasses, or wait_for_no_virtual_displays: drained or not, it goes on.
AwaitStale ==
  /\ pc = "stale"
  /\ \/ pc' = "connect" /\ UNCHANGED plugged
     \/ FailsUntouched
  /\ UNCHANGED <<machineVars, at, pending, engineVars, moves, historyVars>>

Connect ==
  /\ pc = "connect"
  /\ \/ plugged' = plugged \cup Vdds /\ slots' \in Plans /\ pc' = "wait"
     \/ FailsUntouched /\ UNCHANGED slots
  /\ UNCHANGED <<machineVars, at, pending, snapshots, touched, drained, restored, moves, historyVars>>

\* wait_for_virtual_displays, then the modes: a failure here changes nothing.
AwaitDisplays ==
  /\ pc = "wait"
  /\ \/ Vdds \subseteq DOMAIN at /\ pc' = "stage" /\ UNCHANGED plugged
     \/ FailsUntouched
  /\ UNCHANGED <<machineVars, at, pending, engineVars, moves, historyVars>>

Stage ==
  /\ pc = "stage"
  /\ \/ Staged(Vdds \cup Asides) /\ pc' = "commit" /\ UNCHANGED halfway
     \/ StagingFails(Vdds \cup Asides) /\ halfway' = (pending' # {}) /\ pc' = "rollback"
  /\ UNCHANGED <<machineVars, plugged, at, engineVars, moves, refused, changed>>

\* Mutant: a commit that was refused has touched nothing.
CommitMutant ==
  /\ pc = "commit"
  /\ \/ Accepted /\ touched' = TRUE /\ pc' = "verify"
     \/ Refused /\ UNCHANGED touched /\ pc' = "rollback"
  /\ UNCHANGED <<machineVars, plugged, snapshots, slots, drained, restored, moves>>

Commit ==
  /\ pc = "commit" /\ touched' = TRUE
  /\ \/ Accepted /\ pc' = "verify"
     \/ Refused /\ pc' = "rollback"
  /\ UNCHANGED <<machineVars, plugged, snapshots, slots, drained, restored, moves>>

Verify ==
  /\ pc = "verify"
  /\ \/ /\ InPlace /\ Asides \subseteq DOMAIN at
        /\ pc' = IF PanelFound THEN "detach" ELSE "running"
     \/ ~(InPlace /\ Asides \subseteq DOMAIN at) /\ pc' = "rollback"
  /\ UNCHANGED <<machineVars, windowsVars, engineVars, moves, historyVars>>

\* deactivate_internal_path and its wait.  Windows may shuffle the rest.
Detach ==
  /\ pc = "detach"
  /\ \/ /\ at' \in Arranged(DOMAIN at \ {Panel})
        /\ changed' = TRUE /\ pc' = "hold"
     \/ /\ at' \in {at} \cup Arranged(DOMAIN at)
        /\ pc' = "rollback" /\ UNCHANGED changed
  /\ UNCHANGED <<machineVars, plugged, pending, engineVars, moves, refused, halfway>>

\* The detach must not shuffle the slots; they are pinned again if it did.
Hold ==
  /\ pc = "hold"
  /\ \/ InPlace /\ pc' = "running" /\ UNCHANGED pending
     \/ ~InPlace /\ Staged(Vdds) /\ pc' = "repin"
     \/ ~InPlace /\ StagingFails(Vdds) /\ pc' = "rollback"
  /\ UNCHANGED <<machineVars, plugged, at, engineVars, moves, historyVars>>

Repin ==
  /\ pc = "repin"
  /\ \/ Accepted /\ pc' = "rehold"
     \/ Refused /\ pc' = "rollback"
  /\ UNCHANGED <<machineVars, plugged, engineVars, moves>>

Rehold ==
  /\ pc = "rehold"
  /\ pc' = IF InPlace THEN "running" ELSE "rollback"
  /\ UNCHANGED <<machineVars, windowsVars, engineVars, moves, historyVars>>

\* The rollback of a failed takeover flushes what it staged, and restores once
\* anything was touched.
Rollback ==
  /\ pc = "rollback" /\ (Accepted \/ Refused) /\ Disconnect
  /\ pc' = IF touched THEN "drain" ELSE "ended"
  /\ UNCHANGED <<machineVars, engineVars, moves>>

--------------------------------------------------------------------------------
(* The session.                                                             *)

\* A monitor is unplugged, and Windows rearranges what is left.
Unplug(d) ==
  /\ pc = "running" /\ d \in (plugged \cap Physical) \ {Panel}
  /\ Cardinality(DOMAIN home \ plugged) < MaxUnplugs
  /\ plugged' = plugged \ {d} /\ at' \in Arrangements(plugged')
  /\ pending' = pending \ {d}
  /\ UNCHANGED <<machineVars, engineVars, pc, moves, historyVars>>

\* reposition_virtual_displays, by a layout reload: accepted, or refused and
\* undone, or the undo is refused too and what was staged stays pending.
Reposition ==
  /\ pc = "running" /\ moves < MaxMoves /\ moves' = moves + 1
  /\ \/ /\ slots' \in Plans
        /\ at' \in {at} \cup Arranged(DOMAIN at)
        /\ pending' = {} /\ UNCHANGED refused
     \/ pending' \in SUBSET Vdds /\ UNCHANGED <<slots, at, refused>>
     \/ Staged(Vdds) /\ refused' = TRUE /\ UNCHANGED <<slots, at>>
  /\ UNCHANGED <<machineVars, plugged, snapshots, touched, drained, restored, pc, changed, halfway>>

\* The engine quits, or startup fails after the takeover (TopologyGuard).
Stop ==
  /\ pc = "running" /\ Disconnect /\ pc' = "drain"
  /\ UNCHANGED <<machineVars, at, pending, engineVars, moves, historyVars>>

--------------------------------------------------------------------------------
(* restore_pinned_layout.  Each step is verified; the first that fails ends *)
(* the restore, and the engine reports it.                                  *)
RestoreFails == restored' = "failed" /\ pc' = "ended"

\* A stage that is refused is flushed before the restore gives up.
StageRefused(batch) ==
  /\ \E P \in SUBSET batch : P # batch /\ pending' = pending \cup P
  /\ pc' = "flush" /\ UNCHANGED restored

\* The waits for the virtual displays to go: they went, or the time is over.
Drain ==
  /\ pc = "drain" /\ drained' = (Vdds \cap DOMAIN at = {}) /\ pc' = "R1a"
  /\ UNCHANGED <<machineVars, windowsVars, snapshots, slots, touched, restored, moves, historyVars>>

Primary == {d \in DOMAIN snapshots : snapshots[d] = 0}

\* R1a: the primary is attached when it is not, wherever Windows puts it.
R1a ==
  /\ pc = "R1a"
  /\ \/ Primary \subseteq DOMAIN at /\ pc' = "R1b" /\ UNCHANGED <<pending, restored>>
     \/ /\ ~(Primary \subseteq DOMAIN at)
        /\ \/ Primary \subseteq plugged /\ Staged(Primary) /\ pc' = "R1a commit" /\ UNCHANGED restored
           \/ StageRefused(Primary)
  /\ UNCHANGED <<machineVars, plugged, at, snapshots, slots, touched, drained, moves, historyVars>>

R1aCommit ==
  /\ pc = "R1a commit"
  /\ \/ Accepted /\ Primary \subseteq DOMAIN at' /\ pc' = "R1b" /\ UNCHANGED restored
     \/ Accepted /\ RestoreFails
     \/ Refused /\ RestoreFails
  /\ UNCHANGED <<machineVars, plugged, snapshots, slots, touched, drained, moves>>

AtHome(a) == \A d \in Primary : d \in DOMAIN a /\ a[d] = snapshots[d]

\* R1b: the primary goes home, alone, and becomes the primary.
R1b ==
  /\ pc = "R1b"
  /\ \/ AtHome(at) /\ pc' = "R2" /\ UNCHANGED <<pending, restored>>
     \/ /\ ~AtHome(at)
        /\ \/ Primary \subseteq plugged /\ Staged(Primary) /\ pc' = "R1b commit" /\ UNCHANGED restored
           \/ StageRefused(Primary)
  /\ UNCHANGED <<machineVars, plugged, at, snapshots, slots, touched, drained, moves, historyVars>>

R1bCommit ==
  /\ pc = "R1b commit"
  /\ \/ Accepted /\ AtHome(at') /\ pc' = "R2" /\ UNCHANGED restored
     \/ Accepted /\ ~AtHome(at') /\ RestoreFails
     \/ Refused /\ RestoreFails
  /\ UNCHANGED <<machineVars, plugged, snapshots, slots, touched, drained, moves>>

\* R2: every other display still attached is pinned.
Others == {d \in DOMAIN snapshots \cap DOMAIN at : snapshots[d] # 0 /\ d \notin Vdds}
Strays == {d \in Others : at[d] # snapshots[d]}

R2 ==
  /\ pc = "R2"
  /\ \/ Staged(Strays) /\ pc' = "R2 commit" /\ UNCHANGED restored
     \/ StageRefused(Strays)
  /\ UNCHANGED <<machineVars, plugged, at, snapshots, slots, touched, drained, moves, historyVars>>

R2Commit ==
  /\ pc = "R2 commit"
  /\ \/ Accepted /\ pc' = "check" /\ UNCHANGED restored
     \/ Refused /\ RestoreFails
  /\ UNCHANGED <<machineVars, plugged, snapshots, slots, touched, drained, moves>>

\* Mutant: displays still there are no failure.
CheckMutant ==
  /\ pc = "check"
  /\ \/ Strays = {} /\ restored' = "ok" /\ pc' = "ended"
     \/ Strays # {} /\ RestoreFails
  /\ UNCHANGED <<machineVars, windowsVars, snapshots, slots, touched, drained, moves, historyVars>>

Check ==
  /\ pc = "check"
  /\ \/ Strays = {} /\ drained /\ restored' = "ok" /\ pc' = "ended"
     \/ ~(Strays = {} /\ drained) /\ RestoreFails
  /\ UNCHANGED <<machineVars, windowsVars, snapshots, slots, touched, drained, moves, historyVars>>

\* Mutant: a stage that failed is not flushed.
FlushMutant ==
  /\ pc = "flush" /\ RestoreFails
  /\ UNCHANGED <<machineVars, windowsVars, snapshots, slots, touched, drained, moves, historyVars>>

Flush ==
  /\ pc = "flush" /\ (Accepted \/ Refused) /\ RestoreFails
  /\ UNCHANGED <<machineVars, plugged, snapshots, slots, touched, drained, moves>>

Takeover ==
  \/ Snapshot \/ AwaitStale \/ Connect \/ AwaitDisplays \/ Stage \/ Commit \/ Verify
  \/ Detach \/ Hold \/ Repin \/ Rehold \/ Rollback
Restore == Drain \/ R1a \/ R1aCommit \/ R1b \/ R1bCommit \/ R2 \/ R2Commit \/ Check \/ Flush

Next ==
  \/ Takeover \/ Stop \/ Reposition \/ Restore
  \/ Settle \/ \E d \in Physical : Unplug(d)

Spec == Init /\ [][Next]_vars

--------------------------------------------------------------------------------
(* Properties.                                                              *)

\* Every display still connected is on, where the user had it, and no other.
IsHome ==
  /\ DOMAIN at = plugged
  /\ \A d \in plugged : d \in DOMAIN home /\ at[d] = home[d]

\* A restore that reports success has given the user's arrangement back,
\* whatever Windows made of each commit.  (An engine that starts while the
\* displays of a killed one are still up must hope that Windows recalls it.)
RestoredIsHome ==
  pc = "ended" /\ restored = "ok" /\ (recalls \/ snapshots = home) => IsHome

\* An engine that ends without a restore has left nothing for one to undo: no
\* commit carried out a mode it staged, one that was refused included, and the
\* panel was never detached; unless Windows stopped half-way through the batch of
\* the takeover, whose first half the rollback then commits (see FlushIsHarmless).
ChangedIsRestored == pc = "ended" /\ restored = "none" => ~changed \/ halfway

\* Expected and not so: the rollback restores whatever it committed.
FlushIsHarmless == pc = "ended" /\ restored = "none" => ~changed

\* An engine that ends leaves no batch pending that the next commit, of anybody,
\* would carry out; unless Windows refused a commit.
NoBatchLeftBehind == pc = "ended" /\ ~refused => pending = {}

\* The engine goes on only with its desktops in their slots and the panel off.
TakenOver ==
  [][pc # "running" /\ pc' = "running" => InPlace /\ (PanelFound => Panel \notin DOMAIN at)]_vars
===============================================================================
