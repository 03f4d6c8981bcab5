------------------------ MODULE DisplayTopologyProofs ------------------------
(***************************************************************************)
(* For any displays, arrangements and plans: the type invariant and the     *)
(* three safety properties of DisplayTopology.  Windows' freedom is used as *)
(* it stands; what the restore verifies is enough to conclude.  The second  *)
(* half is about the user's windows and the taskbar through the same        *)
(* takeover and restore: WindowMigration, for any windows and bounds.       *)
(***************************************************************************)
EXTENDS DisplayTopology, WindowMigration, TLAPS

(* The takeover's account of what it did.  Until the first commit has been *)
(* tried nothing was changed; and a rollback with nothing touched has       *)
(* nothing to flush, or what Windows took of a batch it stopped in.         *)
Account ==
  /\ pc \in Starting \cup {"stage", "commit"} => ~touched /\ ~changed
  /\ pc \in Starting \cup {"stage"} => pending = {}
  /\ pc \in (TakingOver \cup {"running"}) \ {"stage", "commit"} => touched
  /\ pc = "rollback" /\ ~touched => ~changed /\ (pending = {} \/ halfway)
  /\ pc = "ended" /\ restored = "none" => ~changed \/ halfway
  /\ pc # "ended" => restored = "none"

(* What the takeover holds on to.  Windows has nothing left to notice once *)
(* the virtual displays are up, and the second pinning of the slots cannot  *)
(* bring the panel back.                                                    *)
Held ==
  /\ pc \in Starting \cup TakingOver => ~refused
  /\ pc = "wait" => Vdds \subseteq plugged
  /\ pc \in TakingOver => Vdds \subseteq plugged /\ Vdds \subseteq DOMAIN at
  /\ pc \in {"hold", "repin", "rehold"} => Panel \notin DOMAIN at
  /\ pc = "repin" => pending \subseteq Vdds

(* Where a batch may be pending, unless Windows refused a commit.           *)
Flushed ==
  ~refused /\ pc \in {"verify", "detach", "hold", "rehold", "check", "ended"} => pending = {}

(* How Windows' arrangement relates to the user's: monitors only go, and    *)
(* of the monitors connected only the panel can be off.                     *)
Machine ==
  /\ plugged \cap Physical \subseteq DOMAIN home
  /\ plugged \cap Physical \subseteq DOMAIN at \cup {Panel}
  /\ DOMAIN at \subseteq plugged \cup Vdds
  /\ pc \in {"snapshot", "stale", "connect"} => plugged = DOMAIN home
  /\ pc \in Restoring \cup {"ended"} => plugged \cap Vdds = {}

(* An arrangement in which a virtual display is the primary.                *)
VirtualFirst(a) == \E v \in Vdds : v \in DOMAIN a /\ a[v] = 0

Seen ==
  /\ recalls /\ pc = "snapshot" => at = home \/ VirtualFirst(at)
  /\ recalls => snapshots = home \/ VirtualFirst(snapshots)

(* What the restore has verified by the time it reaches a step.             *)
Verified ==
  /\ drained => pc \in Restoring \cup {"ended"}
  /\ drained /\ pc \in {"R1b", "R1b commit", "R2", "R2 commit", "check"} => Primary \subseteq DOMAIN at
  /\ pc = "ended" /\ restored = "ok" => drained /\ Strays = {} /\ Primary \subseteq DOMAIN at

(* The takeover detaches the panel, and the restore attaches again only the *)
(* primary display: where the panel is not that, nothing can be proved of   *)
(* it (and the run topology_second shows why).                              *)
PanelFirst == \A h \in Homes : Panel \in DOMAIN h => h[Panel] = 0

USE TopologyAssumption

--------------------------------------------------------------------------------
(* What Windows may do.                                                     *)

\* a is an arrangement of displays.
IsArrangement(a) == DOMAIN a \subseteq Displays /\ a \in [DOMAIN a -> Pos] /\ Valid(a)

LEMMA ArrangedIs ==
  ASSUME NEW S \in SUBSET Displays, NEW a \in Arranged(S)
  PROVE  IsArrangement(a) /\ DOMAIN a = S
  BY DEF Arranged, IsArrangement

LEMMA ArrangementsAre ==
  ASSUME NEW S \in SUBSET Displays, NEW a \in Arrangements(S)
  PROVE  /\ IsArrangement(a) /\ DOMAIN a \subseteq S /\ S \subseteq DOMAIN a \cup {Panel}
  BY ArrangedIs DEF Arrangements

LEMMA HomeIs ==
  ASSUME TypeOK PROVE IsArrangement(home) /\ DOMAIN home \subseteq Physical
  BY DEF TypeOK, IsArrangement, Displays

LEMMA AcceptedIs ==
  ASSUME TypeOK, Accepted
  PROVE  /\ IsArrangement(at') /\ pending' = {} /\ refused' = refused
         /\ DOMAIN at \subseteq DOMAIN at'
         /\ DOMAIN at' \subseteq DOMAIN at \cup (pending \cap plugged)
         /\ changed' = (changed \/ pending # {})
  <1>1. CASE at' = at
    BY <1>1 DEF Accepted, TypeOK, IsArrangement
  <1>2. CASE at' \in Arranged(DOMAIN at \cup (pending \cap plugged))
    <2>1. DOMAIN at \cup (pending \cap plugged) \subseteq Displays
      BY DEF TypeOK
    <2>2. IsArrangement(at') /\ DOMAIN at' = DOMAIN at \cup (pending \cap plugged)
      BY <1>2, <2>1, ArrangedIs
    <2>. QED  BY <2>2 DEF Accepted
  <1>. QED  BY <1>1, <1>2 DEF Accepted

LEMMA SettleIs ==
  ASSUME TypeOK, Settle
  PROVE  /\ IsArrangement(at') /\ DOMAIN at' \subseteq plugged
         /\ plugged \subseteq DOMAIN at' \cup {Panel}
  <1>1. CASE recalls /\ plugged = DOMAIN home
    BY <1>1, HomeIs DEF Settle
  <1>2. CASE ~(recalls /\ plugged = DOMAIN home)
    BY <1>2, ArrangementsAre DEF Settle, TypeOK
  <1>. QED  BY <1>1, <1>2

LEMMA UnplugIs ==
  ASSUME TypeOK, NEW d \in Physical, Unplug(d)
  PROVE  /\ IsArrangement(at') /\ DOMAIN at' \subseteq plugged'
         /\ plugged' \subseteq DOMAIN at' \cup {Panel} /\ plugged' = plugged \ {d}
  <1>1. plugged' \in SUBSET Displays /\ plugged' = plugged \ {d}
    BY DEF Unplug, TypeOK
  <1>. QED  BY <1>1, ArrangementsAre DEF Unplug

LEMMA DetachIs ==
  ASSUME TypeOK, Detach
  PROVE  /\ IsArrangement(at') /\ DOMAIN at' \subseteq DOMAIN at
         /\ DOMAIN at \subseteq DOMAIN at' \cup {Panel}
  <1>1. CASE at' = at
    BY <1>1 DEF TypeOK, IsArrangement
  <1>2. CASE at' # at
    <2>1. DOMAIN at \in SUBSET Displays /\ DOMAIN at \ {Panel} \in SUBSET Displays
      BY DEF TypeOK
    <2>2. at' \in Arranged(DOMAIN at) \/ at' \in Arranged(DOMAIN at \ {Panel})
      BY <1>2 DEF Detach
    <2>. QED  BY <2>1, <2>2, ArrangedIs
  <1>. QED  BY <1>1, <1>2

LEMMA RepositionIs ==
  ASSUME TypeOK, Reposition
  PROVE  IsArrangement(at') /\ DOMAIN at' = DOMAIN at
  <1>1. CASE at' = at
    BY <1>1 DEF TypeOK, IsArrangement
  <1>2. CASE at' # at
    <2>1. DOMAIN at \in SUBSET Displays
      BY DEF TypeOK
    <2>2. at' \in Arranged(DOMAIN at)
      BY <1>2 DEF Reposition
    <2>. QED  BY <2>1, <2>2, ArrangedIs
  <1>. QED  BY <1>1, <1>2

--------------------------------------------------------------------------------
(* The type invariant.                                                      *)

\* The steps that leave the arrangement alone.
Looking ==
  \/ Snapshot \/ AwaitStale \/ Connect \/ AwaitDisplays \/ Stage \/ Verify \/ Hold \/ Rehold
  \/ Stop \/ Drain \/ R1a \/ R1b \/ R2 \/ Check

\* The steps that commit.
Committing == Commit \/ Repin \/ Rollback \/ R1aCommit \/ R1bCommit \/ R2Commit \/ Flush

LEMMA NextIs ==
  ASSUME Next
  PROVE  Looking \/ Committing \/ Detach \/ Reposition \/ Settle \/ \E d \in Physical : Unplug(d)
  BY DEF Next, Takeover, Restore, Looking, Committing

LEMMA LookingIs == ASSUME Looking PROVE UNCHANGED <<at, home, recalls, refused, changed>>
  BY DEF Looking, Snapshot, AwaitStale, Connect, AwaitDisplays, Stage, Verify, Hold, Rehold, Stop,
         Drain, R1a, R1b, R2, Check, machineVars, windowsVars, historyVars

LEMMA CommittingIs ==
  ASSUME Committing
  PROVE  /\ Accepted \/ Refused
         /\ UNCHANGED <<home, recalls, snapshots, slots, drained>>
         /\ plugged' = plugged \/ plugged' = plugged \ Vdds
  BY DEF Committing, Commit, Repin, Rollback, R1aCommit, R1bCommit, R2Commit, Flush, Disconnect,
         machineVars, engineVars

\* Windows shows an arrangement of displays after every step.
LEMMA ArrangementStep == ASSUME TypeOK, Next PROVE IsArrangement(at')
  <1>1. CASE Looking
    BY <1>1, LookingIs DEF TypeOK, IsArrangement
  <1>2. CASE Committing
    BY <1>2, CommittingIs, AcceptedIs DEF Refused, TypeOK, IsArrangement
  <1>. QED
    BY <1>1, <1>2, NextIs, DetachIs, RepositionIs, SettleIs, UnplugIs

\* What is staged are displays.
LEMMA PendingStep == ASSUME TypeOK, Next PROVE pending' \subseteq Displays
  <1>1. /\ Vdds \cup Asides \subseteq Displays /\ Vdds \subseteq Displays
        /\ Primary \subseteq Displays /\ Strays \subseteq Displays
    BY DEF TypeOK, Asides, Primary, Strays, Others, Displays
  <1>2. CASE Looking
    <2>1. CASE Stage \/ Hold
      BY <1>1, <2>1 DEF Stage, Hold, Staged, StagingFails, TypeOK
    <2>2. CASE R1a \/ R1b \/ R2
      BY <1>1, <2>2 DEF R1a, R1b, R2, Staged, StageRefused, TypeOK
    <2>3. CASE ~(Stage \/ Hold \/ R1a \/ R1b \/ R2)
      BY <1>2, <2>3 DEF Looking, Snapshot, AwaitStale, Connect, AwaitDisplays, Verify, Rehold,
                        Stop, Drain, Check, windowsVars, TypeOK
    <2>. QED  BY <2>1, <2>2, <2>3
  <1>3. CASE Committing
    BY <1>3, CommittingIs, AcceptedIs DEF Refused, TypeOK
  <1>4. CASE Detach \/ Settle \/ \E d \in Physical : Unplug(d)
    BY <1>4 DEF Detach, Settle, Unplug, TypeOK
  <1>5. CASE Reposition
    BY <1>1, <1>5 DEF Reposition, Staged, TypeOK
  <1>. QED  BY <1>2, <1>3, <1>4, <1>5, NextIs

\* Displays counted as drained do not come back.
LEMMA DrainedStep ==
  ASSUME TypeOK, Machine, Verified, Next
  PROVE  drained' => /\ pc' \in Restoring \cup {"ended"}
                     /\ plugged' \cap Vdds = {} /\ Vdds \cap DOMAIN at' = {}
  <1>. SUFFICES ASSUME drained'
                PROVE  /\ pc' \in Restoring \cup {"ended"}
                       /\ plugged' \cap Vdds = {} /\ Vdds \cap DOMAIN at' = {}
    OBVIOUS
  <1>1. CASE Drain
    BY <1>1 DEF Drain, Machine, Restoring, windowsVars
  <1>2. CASE ~Drain
    <2>1. drained
      BY <1>2 DEF Next, Takeover, Restore, Snapshot, AwaitStale, Connect, AwaitDisplays, Stage,
         Commit, Verify, Detach, Hold, Repin, Rehold, Rollback, Stop, Reposition, Settle, Unplug,
         R1a, R1aCommit, R1b, R1bCommit, R2, R2Commit, Check, Flush, engineVars
    <2>2. pc \in Restoring \cup {"ended"} /\ plugged \cap Vdds = {} /\ Vdds \cap DOMAIN at = {}
      BY <2>1 DEF Verified, Machine, TypeOK
    <2>3. R1a \/ R1aCommit \/ R1b \/ R1bCommit \/ R2 \/ R2Commit \/ Check \/ Flush \/ Settle
      BY <1>2, <2>2 DEF Next, Takeover, Restore, Restoring, Snapshot, AwaitStale, Connect,
         AwaitDisplays, Stage, Commit, Verify, Detach, Hold, Repin, Rehold, Rollback, Stop,
         Reposition, Unplug
    <2>4. plugged' = plugged /\ pc' \in Restoring \cup {"ended"}
      BY <2>2, <2>3 DEF R1a, R1aCommit, R1b, R1bCommit, R2, R2Commit, Check, Flush, Settle,
         Restoring, RestoreFails, StageRefused, windowsVars
    <2>5. DOMAIN at' \subseteq DOMAIN at \cup plugged
      <3>1. CASE Settle
        BY <3>1, SettleIs
      <3>2. CASE R1a \/ R1b \/ R2 \/ Check
        BY <3>2, LookingIs DEF Looking
      <3>3. CASE R1aCommit \/ R1bCommit \/ R2Commit \/ Flush
        BY <3>3, CommittingIs, AcceptedIs DEF Committing, Refused
      <3>. QED  BY <2>3, <3>1, <3>2, <3>3
    <2>. QED  BY <2>2, <2>4, <2>5
  <1>. QED  BY <1>1, <1>2

LEMMA TypeInit == Init => TypeOK
  <1>. SUFFICES ASSUME Init PROVE TypeOK
    OBVIOUS
  <1>1. IsArrangement(home) /\ DOMAIN home \subseteq Physical
    BY DEF Init, IsArrangement, Displays
  <1>2. IsArrangement(at)
    <2>1. CASE at = home
      BY <1>1, <2>1
    <2>2. CASE at # home
      <3>1. (DOMAIN home \cup Vdds) \ {Panel} \in SUBSET Displays
        BY <1>1 DEF Displays
      <3>2. at \in Arranged((DOMAIN home \cup Vdds) \ {Panel})
        BY <2>2 DEF Init
      <3>. QED  BY <3>1, <3>2, ArrangedIs
    <2>. QED  BY <2>1, <2>2
  <1>3. pc = "snapshot" /\ moves = 0 /\ pending = {} /\ plugged = DOMAIN home /\ snapshots = home
    BY DEF Init
  <1>4. plugged \subseteq Displays /\ moves \in 0 .. MaxMoves /\ pc \in Starting
    BY <1>1, <1>3 DEF Displays, Starting
  <1>. QED
    BY <1>1, <1>2, <1>3, <1>4 DEF Init, TypeOK, IsArrangement

LEMMA TypeStep == ASSUME TypeOK, Machine, Verified, Next PROVE TypeOK'
  <1>1. pending' \subseteq Displays
    BY PendingStep
  <1>2. DOMAIN at' \subseteq Displays /\ at' \in [DOMAIN at' -> Pos] /\ Valid(at)'
    BY ArrangementStep DEF IsArrangement, Valid
  <1>3. drained' => Vdds \cap DOMAIN at' = {}
    BY DrainedStep
  <1>12. moves' = moves \/ (moves < MaxMoves /\ moves' = moves + 1) => moves' \in 0 .. MaxMoves
    BY DEF TypeOK
  <1>. USE DEF TypeOK, Next, Takeover, Restore, Snapshot, AwaitStale, Connect, AwaitDisplays, Stage,
               Commit, Verify, Detach, Hold, Repin, Rehold, Rollback, Stop, Reposition, Settle,
               Unplug, Drain, R1a, R1aCommit, R1b, R1bCommit, R2, R2Commit, Check, Flush
  <1>4. home' \in Homes /\ recalls' \in BOOLEAN
    BY DEF machineVars
  <1>5. plugged' \subseteq Displays
    BY DEF Displays, Disconnect, FailsUntouched, windowsVars
  <1>6. DOMAIN snapshots' \subseteq Displays /\ snapshots' \in [DOMAIN snapshots' -> Pos]
    BY DEF engineVars
  <1>7. slots' \in Plans
    BY DEF FailsUntouched, engineVars
  <1>8. touched' \in BOOLEAN /\ drained' \in BOOLEAN /\ restored' \in {"none", "ok", "failed"}
    BY DEF RestoreFails, StageRefused, engineVars
  <1>9. refused' \in BOOLEAN /\ changed' \in BOOLEAN /\ halfway' \in BOOLEAN
    BY DEF Accepted, Refused, historyVars
  <1>10. pc' \in Starting \cup TakingOver \cup Restoring \cup {"rollback", "running", "ended"}
    BY DEF FailsUntouched, RestoreFails, StageRefused, Starting, TakingOver, Restoring
  <1>11. moves' \in 0 .. MaxMoves
    <2>1. moves' = moves \/ (moves < MaxMoves /\ moves' = moves + 1)
      OBVIOUS
    <2>. QED  BY <2>1, <1>12, Zenon
  <1>. QED
    BY <1>1, <1>2, <1>3, <1>4, <1>5, <1>6, <1>7, <1>8, <1>9, <1>10, <1>11

--------------------------------------------------------------------------------
(* The account of the takeover, and the batches.                            *)

LEMMA AccountStep == ASSUME TypeOK, Account, Next PROVE Account'
  <1>1. CASE Settle
    <2>1. pending' \subseteq pending /\ UNCHANGED <<engineVars, pc, historyVars>>
      BY <1>1 DEF Settle
    <2>. QED  BY <2>1 DEF Account, engineVars, historyVars
  <1>2. CASE Snapshot \/ AwaitStale \/ Connect \/ AwaitDisplays
    <2>1. /\ pc \in Starting /\ pc' \in Starting \cup {"stage", "ended"}
          /\ UNCHANGED <<pending, touched, restored, historyVars>>
      BY <1>2 DEF Snapshot, AwaitStale, Connect, AwaitDisplays, FailsUntouched, Starting,
                  engineVars
    <2>. QED  BY <2>1 DEF Account, Starting, TakingOver, historyVars
  <1>3. CASE Stage
    <2>1. /\ pc = "stage" /\ pc' \in {"commit", "rollback"} /\ pending = {}
          /\ ~touched' /\ ~changed' /\ restored' = "none"
      BY <1>3 DEF Stage, Account, engineVars, historyVars
    <2>2. pc' = "rollback" => pending' = {} \/ halfway'
      BY <1>3 DEF Stage
    <2>. QED  BY <2>1, <2>2 DEF Account, Starting, TakingOver
  <1>4. CASE Rollback
    <2>1. /\ pc = "rollback" /\ pc' = IF touched THEN "drain" ELSE "ended"
          /\ UNCHANGED <<touched, restored>>
      BY <1>4 DEF Rollback, engineVars
    <2>2. CASE touched
      BY <2>1, <2>2 DEF Account, Starting, TakingOver
    <2>3. CASE ~touched
      <3>1. ~changed' \/ halfway'
        <4>1. ~changed /\ (pending = {} \/ halfway)
          BY <2>1, <2>3 DEF Account
        <4>2. halfway' = halfway /\ (changed' = changed \/ changed' = (changed \/ pending # {}))
          BY <1>4 DEF Rollback, Accepted, Refused
        <4>. QED  BY <4>1, <4>2
      <3>2. pc' = "ended" /\ ~touched'
        BY <2>1, <2>3
      <3>. QED  BY <3>1, <3>2 DEF Account, Starting, TakingOver
    <2>. QED  BY <2>2, <2>3
  <1>5. CASE Commit \/ Verify \/ Detach \/ Hold \/ Repin \/ Rehold \/ Reposition \/ Stop
    <2>1. /\ pc \in (TakingOver \cup {"running"}) \ {"stage"}
          /\ pc' \in (TakingOver \cup {"running", "rollback", "drain"}) \ {"stage", "commit"}
          /\ touched' /\ restored' = "none"
      BY <1>5 DEF Commit, Verify, Detach, Hold, Repin, Rehold, Reposition, Stop, Account,
                  TakingOver, engineVars
    <2>. QED  BY <2>1 DEF Account, Starting, TakingOver
  <1>6. CASE \E d \in Physical : Unplug(d)
    <2>1. pc = "running" /\ UNCHANGED <<pc, touched, restored>>
      BY <1>6 DEF Unplug, engineVars
    <2>. QED  BY <2>1 DEF Account, Starting, TakingOver
  <1>7. CASE Restore
    <2>1. /\ pc \in Restoring /\ pc' \in Restoring \cup {"ended"}
          /\ pc' = "ended" => restored' # "none"
          /\ pc' # "ended" => restored' = restored
      BY <1>7 DEF Restore, Drain, R1a, R1aCommit, R1b, R1bCommit, R2, R2Commit, Check, Flush,
                  RestoreFails, StageRefused, Restoring
    <2>. QED  BY <2>1 DEF Account, Starting, TakingOver, Restoring
  <1>. QED
    BY <1>1, <1>2, <1>3, <1>4, <1>5, <1>6, <1>7 DEF Next, Takeover

LEMMA FlushedStep == ASSUME TypeOK, Account, Flushed, Next PROVE Flushed'
  <1>. SUFFICES ASSUME ~refused',
                       pc' \in {"verify", "detach", "hold", "rehold", "check", "ended"}
                PROVE  pending' = {}
    BY DEF Flushed
  <1>1. ~refused
    BY DEF TypeOK, Next, Takeover, Restore, Snapshot, AwaitStale, Connect, AwaitDisplays, Stage,
           Commit, Verify, Detach, Hold, Repin, Rehold, Rollback, Stop, Reposition, Settle,
           Unplug, Drain, R1a, R1aCommit, R1b, R1bCommit, R2, R2Commit, Check, Flush,
           Accepted, Refused, historyVars
  <1>2. CASE Committing
    BY <1>2, CommittingIs DEF Accepted, Refused
  <1>3. CASE Looking
    <2>1. pc \in Starting \cup {"verify", "detach", "hold", "rehold", "check"} /\ pending' = pending
      BY <1>3 DEF Looking, Snapshot, AwaitStale, Connect, AwaitDisplays, Stage, Verify, Hold,
                  Rehold, Stop, Drain, R1a, R1b, R2, Check, StageRefused, Starting, windowsVars
    <2>. QED  BY <1>1, <2>1 DEF Account, Flushed
  <1>4. CASE Detach \/ Settle
    <2>1. pc \in {"verify", "detach", "hold", "rehold", "check", "ended"} /\ pending' \subseteq pending
      BY <1>4 DEF Detach, Settle
    <2>. QED  BY <1>1, <2>1 DEF Flushed
  <1>5. CASE Reposition \/ \E d \in Physical : Unplug(d)
    BY <1>5 DEF Reposition, Unplug
  <1>. QED  BY <1>2, <1>3, <1>4, <1>5, NextIs

--------------------------------------------------------------------------------
(* The restore.                                                             *)

\* Where nothing but Settle, Unplug and Detach reach, arrangements only grow.
LEMMA GrowthStep ==
  ASSUME TypeOK, Looking \/ Committing \/ Reposition
  PROVE  DOMAIN at \subseteq DOMAIN at' /\ DOMAIN at' \subseteq DOMAIN at \cup plugged
  <1>1. CASE Looking
    BY <1>1, LookingIs
  <1>2. CASE Committing
    BY <1>2, CommittingIs, AcceptedIs DEF Refused
  <1>. QED  BY <1>1, <1>2, RepositionIs

LEMMA MachineInit == Init => Machine
  <1>. SUFFICES ASSUME Init PROVE Machine
    OBVIOUS
  <1>1. plugged = DOMAIN home /\ pc = "snapshot" /\ DOMAIN home \subseteq Physical
    BY DEF Init
  <1>2. DOMAIN at = DOMAIN home \/ DOMAIN at = (DOMAIN home \cup Vdds) \ {Panel}
    BY DEF Init, Arranged
  <1>. QED  BY <1>1, <1>2 DEF Machine, Restoring

LEMMA MachineStep == ASSUME TypeOK, Machine, Next PROVE Machine'
  <1>1. home' = home
    BY DEF Next, Takeover, Restore, Snapshot, AwaitStale, Connect, AwaitDisplays, Stage,
           Commit, Verify, Detach, Hold, Repin, Rehold, Rollback, Stop, Reposition, Settle,
           Unplug, Drain, R1a, R1aCommit, R1b, R1bCommit, R2, R2Commit, Check, Flush, machineVars
  <1>2. CASE \E d \in Physical : Unplug(d)
    <2>1. /\ DOMAIN at' \subseteq plugged' /\ plugged' \subseteq DOMAIN at' \cup {Panel}
          /\ plugged' \subseteq plugged
      BY <1>2, UnplugIs
    <2>2. pc = "running" /\ pc' = pc
      BY <1>2 DEF Unplug
    <2>. QED  BY <1>1, <2>1, <2>2 DEF Machine, Restoring
  <1>3. CASE Settle
    <2>1. plugged' = plugged /\ pc' = pc
      BY <1>3 DEF Settle
    <2>. QED  BY <1>1, <1>3, <2>1, SettleIs DEF Machine
  <1>4. CASE ~Settle /\ ~\E d \in Physical : Unplug(d)
    <2>1. /\ DOMAIN at' \subseteq DOMAIN at \cup plugged
          /\ DOMAIN at \subseteq DOMAIN at' \cup {Panel}
      BY <1>4, NextIs, GrowthStep, DetachIs
    <2>2. /\ plugged \ Vdds \subseteq plugged' /\ plugged' \subseteq plugged \cup Vdds
          /\ DOMAIN at' \subseteq plugged' \cup Vdds
      <3>1. plugged' \in {plugged, plugged \ Vdds, plugged \cup Vdds}
        BY <1>4 DEF Next, Takeover, Restore, Snapshot, AwaitStale, Connect, AwaitDisplays, Stage,
           Commit, Verify, Detach, Hold, Repin, Rehold, Rollback, Stop, Reposition,
           Drain, R1a, R1aCommit, R1b, R1bCommit, R2, R2Commit, Check, Flush, FailsUntouched,
           Disconnect, windowsVars
      <3>. QED  BY <2>1, <3>1 DEF Machine
    <2>3. pc' \in {"snapshot", "stale", "connect"} =>
            plugged' = plugged /\ pc \in {"snapshot", "stale", "connect"}
      BY <1>4 DEF Next, Takeover, Restore, Snapshot, AwaitStale, Connect, AwaitDisplays, Stage,
           Commit, Verify, Detach, Hold, Repin, Rehold, Rollback, Stop, Reposition,
           Drain, R1a, R1aCommit, R1b, R1bCommit, R2, R2Commit, Check, Flush, FailsUntouched,
           RestoreFails, StageRefused
    <2>4. pc' \in Restoring \cup {"ended"} => plugged' \cap Vdds = {}
      BY <1>4 DEF Machine, Restoring, Next, Takeover, Restore, Snapshot, AwaitStale, Connect,
           AwaitDisplays, Stage, Commit, Verify, Detach, Hold, Repin, Rehold, Rollback, Stop,
           Reposition, Drain, R1a, R1aCommit, R1b, R1bCommit, R2, R2Commit, Check, Flush,
           FailsUntouched, Disconnect, RestoreFails, StageRefused, windowsVars
    <2>. QED  BY <1>1, <2>1, <2>2, <2>3, <2>4 DEF Machine
  <1>. QED  BY <1>2, <1>3, <1>4

LEMMA SeenInit == Init => Seen
  <1>. SUFFICES ASSUME Init PROVE at = home \/ VirtualFirst(at)
    BY DEF Init, Seen
  <1>1. CASE at # home
    <2>1. PICK p \in Plans : at \in Arranged((DOMAIN home \cup Vdds) \ {Panel}) /\
                             \A v \in Vdds : at[v] = p[v]
      BY <1>1 DEF Init
    <2>2. PICK v \in Vdds : p[v] = 0
      BY DEF Valid
    <2>3. v \in DOMAIN at
      BY <2>1 DEF Arranged
    <2>. QED  BY <2>1, <2>2, <2>3 DEF VirtualFirst
  <1>. QED  BY <1>1

LEMMA SeenStep == ASSUME TypeOK, Machine, Seen, Next PROVE Seen'
  <1>1. home' = home /\ recalls' = recalls
    BY DEF Next, Takeover, Restore, Snapshot, AwaitStale, Connect, AwaitDisplays, Stage,
           Commit, Verify, Detach, Hold, Repin, Rehold, Rollback, Stop, Reposition, Settle,
           Unplug, Drain, R1a, R1aCommit, R1b, R1bCommit, R2, R2Commit, Check, Flush, machineVars
  <1>2. CASE Snapshot
    <2>1. pc' # "snapshot" /\ (snapshots' = at \/ snapshots' = snapshots) /\ pc = "snapshot"
      BY <1>2 DEF Snapshot, FailsUntouched
    <2>. QED  BY <1>1, <2>1 DEF Seen, VirtualFirst
  <1>3. CASE Settle
    <2>1. pc' = pc /\ snapshots' = snapshots
      BY <1>3 DEF Settle, engineVars
    <2>2. recalls /\ pc = "snapshot" => at' = home
      BY <1>3 DEF Settle, Machine
    <2>. QED  BY <1>1, <2>1, <2>2 DEF Seen, VirtualFirst
  <1>4. CASE ~Snapshot /\ ~Settle
    <2>1. pc' # "snapshot" /\ snapshots' = snapshots
      BY <1>4 DEF Next, Takeover, Restore, AwaitStale, Connect, AwaitDisplays, Stage,
           Commit, Verify, Detach, Hold, Repin, Rehold, Rollback, Stop, Reposition,
           Unplug, Drain, R1a, R1aCommit, R1b, R1bCommit, R2, R2Commit, Check, Flush,
           FailsUntouched, RestoreFails, StageRefused, engineVars
    <2>. QED  BY <1>1, <2>1 DEF Seen, VirtualFirst
  <1>. QED  BY <1>2, <1>3, <1>4

\* Once drained there is nothing left for Windows to notice.
LEMMA DrainedIsSettled == ASSUME TypeOK, Machine, Verified, drained PROVE Settled
  <1>1. plugged \cap Vdds = {} /\ plugged \subseteq Physical /\ Vdds \cap DOMAIN at = {}
    BY DEF TypeOK, Machine, Verified, Displays
  <1>. QED  BY <1>1 DEF Settled, Machine

LEMMA VerifiedStep == ASSUME TypeOK, Account, Machine, Verified, Next PROVE Verified'
  <1>1. drained' => pc' \in Restoring \cup {"ended"}
    BY DrainedStep
  <1>2. CASE Settle
    <2>1. ~drained /\ UNCHANGED <<engineVars, pc>>
      BY <1>2, DrainedIsSettled DEF Settle
    <2>. QED  BY <2>1 DEF Verified, engineVars
  <1>3. CASE Restore
    <2>1. Primary' = Primary
      BY <1>3 DEF Primary, Restore, Drain, R1a, R1aCommit, R1b, R1bCommit, R2, R2Commit, Check,
                  Flush
    <2>2. DOMAIN at \subseteq DOMAIN at'
      BY <1>3, GrowthStep DEF Restore, Looking, Committing
    <2>3. drained' /\ pc' \in {"R1b", "R1b commit", "R2", "R2 commit", "check"} =>
            Primary \subseteq DOMAIN at'
      <3>1. CASE Drain
        BY <3>1 DEF Drain
      <3>2. CASE ~Drain
        <4>1. drained' = drained
          BY <1>3, <3>2 DEF Restore, R1a, R1aCommit, R1b, R1bCommit, R2, R2Commit, Check, Flush
        <4>2. pc' \in {"R1b", "R1b commit", "R2", "R2 commit", "check"} =>
                \/ pc \in {"R1b", "R1b commit", "R2", "R2 commit", "check"}
                \/ Primary \subseteq DOMAIN at'
          BY <1>3, <2>2, <3>2 DEF Restore, R1a, R1aCommit, R1b, R1bCommit, R2, R2Commit, Check,
                                  Flush, StageRefused, RestoreFails
        <4>. QED  BY <2>2, <4>1, <4>2 DEF Verified
      <3>. QED  BY <3>1, <3>2
    <2>4. pc' = "ended" /\ restored' = "ok" =>
            drained' /\ Strays' = {} /\ Primary \subseteq DOMAIN at'
      <3>. SUFFICES ASSUME pc' = "ended", restored' = "ok"
                    PROVE  drained' /\ Strays' = {} /\ Primary \subseteq DOMAIN at'
        OBVIOUS
      <3>1. Check /\ Strays = {} /\ drained
        BY <1>3 DEF Restore, Drain, R1a, R1aCommit, R1b, R1bCommit, R2, R2Commit, Check, Flush,
                    RestoreFails, StageRefused
      <3>2. drained' = drained /\ snapshots' = snapshots /\ at' = at /\ pc = "check"
        BY <3>1 DEF Check, windowsVars
      <3>3. Strays' = Strays
        BY <3>2 DEF Strays, Others
      <3>. QED  BY <3>1, <3>2, <3>3 DEF Verified
    <2>. QED  BY <1>1, <2>1, <2>3, <2>4 DEF Verified
  <1>4. CASE ~(Restore \/ Settle)
    <2>1. /\ drained' = drained /\ pc \notin Restoring \cup {"ended"}
          /\ pc' = "ended" => restored' = restored
          /\ pc' \in Restoring => pc' = "drain"
      BY <1>4 DEF Next, Takeover, Snapshot, AwaitStale, Connect, AwaitDisplays, Stage,
           Commit, Verify, Detach, Hold, Repin, Rehold, Rollback, Stop, Reposition, Unplug,
           FailsUntouched, Restoring, engineVars
    <2>. QED  BY <1>1, <2>1 DEF Verified, Account
  <1>. QED  BY <1>2, <1>3, <1>4

--------------------------------------------------------------------------------
(* The takeover's last steps.                                               *)

LEMMA HeldStep == ASSUME TypeOK, Flushed, Machine, Held, Next PROVE Held'
  <1>1. CASE Settle
    <2>1. pc \notin TakingOver
      <3>1. pc \in TakingOver => Settled
        BY DEF Held, Machine, Settled, TypeOK, Displays
      <3>. QED  BY <1>1, <3>1 DEF Settle
    <2>2. UNCHANGED <<pc, plugged, refused>>
      BY <1>1 DEF Settle, historyVars
    <2>. QED  BY <2>1, <2>2 DEF Held, TakingOver
  <1>2. CASE Snapshot \/ AwaitStale \/ Connect \/ AwaitDisplays
    <2>1. /\ pc \in Starting /\ pc' \in Starting \cup {"stage", "ended"}
          /\ UNCHANGED <<at, refused>>
      BY <1>2 DEF Snapshot, AwaitStale, Connect, AwaitDisplays, FailsUntouched, Starting, historyVars
    <2>2. pc' = "wait" => Vdds \subseteq plugged'
      BY <1>2 DEF Snapshot, AwaitStale, Connect, AwaitDisplays, FailsUntouched
    <2>3. pc' = "stage" => Vdds \subseteq plugged' /\ Vdds \subseteq DOMAIN at'
      BY <1>2, <2>1 DEF Snapshot, AwaitStale, Connect, AwaitDisplays, FailsUntouched, Held
    <2>. QED  BY <2>1, <2>2, <2>3 DEF Held, Starting, TakingOver
  <1>3. CASE Stage \/ Verify \/ Hold \/ Rehold
    <2>1. /\ pc \in TakingOver
          /\ UNCHANGED <<plugged, at, refused>>
          /\ pc' \in {"commit", "rollback", "detach", "running", "repin"}
      BY <1>3 DEF Stage, Verify, Hold, Rehold, TakingOver, windowsVars, historyVars
    <2>2. pc' = "repin" => pc = "hold" /\ pending' = pending \cup Vdds
      BY <1>3 DEF Stage, Verify, Hold, Rehold, Staged
    <2>. QED  BY <2>1, <2>2 DEF Held, Flushed, Starting, TakingOver
  <1>4. CASE Detach
    <2>1. /\ pc' \in {"hold", "rollback"} /\ UNCHANGED <<plugged, refused>> /\ pc \in TakingOver
          /\ pc' = "hold" => at' \in Arranged(DOMAIN at \ {Panel})
      BY <1>4 DEF Detach, TakingOver
    <2>2. pc' = "hold" => DOMAIN at' = DOMAIN at \ {Panel}
      BY <2>1 DEF Arranged
    <2>. QED  BY <2>1, <2>2 DEF Held, Starting, TakingOver
  <1>5. CASE Commit \/ Repin
    <2>1. /\ pc' \in {"verify", "rehold", "rollback"} /\ plugged' = plugged /\ pc \in TakingOver
          /\ pc' = "rehold" => pc = "repin"
          /\ pc' # "rollback" => Accepted
      BY <1>5 DEF Commit, Repin, TakingOver
    <2>. QED  BY <2>1, AcceptedIs DEF Held, Starting, TakingOver
  <1>6. CASE Rollback \/ Stop \/ Reposition \/ Restore \/ \E d \in Physical : Unplug(d)
    <2>1. pc' \notin Starting \cup TakingOver
      BY <1>6 DEF Rollback, Stop, Reposition, Unplug, Restore, Drain, R1a, R1aCommit, R1b,
                  R1bCommit, R2, R2Commit, Check, Flush, RestoreFails, StageRefused, Starting,
                  TakingOver
    <2>. QED  BY <2>1 DEF Held, Starting, TakingOver
  <1>. QED
    BY <1>1, <1>2, <1>3, <1>4, <1>5, <1>6 DEF Next, Takeover

--------------------------------------------------------------------------------
(* The theorems.                                                            *)

Invariant == TypeOK /\ Account /\ Held /\ Flushed /\ Machine /\ Seen /\ Verified

LEMMA InvariantHolds == Spec => []Invariant
  <1>1. Init => Invariant
    <2>. SUFFICES ASSUME Init PROVE Account /\ Held /\ Flushed /\ Verified
      BY TypeInit, MachineInit, SeenInit DEF Invariant
    <2>. QED
      BY DEF Init, Account, Held, Flushed, Verified, Starting, TakingOver
  <1>2. Invariant /\ [Next]_vars => Invariant'
    <2>. SUFFICES ASSUME Invariant, [Next]_vars PROVE Invariant'
      OBVIOUS
    <2>1. CASE Next
      BY <2>1, TypeStep, AccountStep, HeldStep, FlushedStep, MachineStep, SeenStep, VerifiedStep
      DEF Invariant
    <2>2. CASE UNCHANGED vars
      <3>1. TypeOK' /\ Held' /\ Machine' /\ Seen'
        BY <2>2 DEF Invariant, TypeOK, Valid, Held, Machine, Seen, VirtualFirst, vars, machineVars,
                    windowsVars, engineVars, historyVars
      <3>2. Account' /\ Flushed'
        BY <2>2 DEF Invariant, Account, Flushed, vars, machineVars, windowsVars,
                    engineVars, historyVars
      <3>3. Verified'
        BY <2>2 DEF Invariant, Verified, Primary, Strays, Others, vars, machineVars,
                    windowsVars, engineVars, historyVars
      <3>. QED  BY <3>1, <3>2, <3>3 DEF Invariant
    <2>. QED  BY <2>1, <2>2
  <1>. QED  BY <1>1, <1>2, PTL DEF Spec

\* Every state is well typed, and Windows always shows an arrangement.
THEOREM TypeCorrect == Spec => []TypeOK
  <1>1. Invariant => TypeOK
    BY DEF Invariant
  <1>. QED  BY <1>1, InvariantHolds, PTL

\* apply_workspace_topology that failed without a restore committed nothing and
\* detached nothing, unless Windows stopped half-way through its batch.
THEOREM FailedTakeoverIsClean == Spec => []ChangedIsRestored
  <1>1. Invariant => ChangedIsRestored
    BY DEF Invariant, Account, ChangedIsRestored
  <1>. QED  BY <1>1, InvariantHolds, PTL

\* No stage of the takeover or the restore outlives the engine, unless a
\* commit was refused.
THEOREM NothingIsLeftStaged == Spec => []NoBatchLeftBehind
  <1>1. Invariant => NoBatchLeftBehind
    BY DEF Invariant, Flushed, NoBatchLeftBehind
  <1>. QED  BY <1>1, InvariantHolds, PTL

\* apply_workspace_topology succeeds only with the desktops in their slots and
\* the panel, where there is one, off.
THEOREM TakeoverIsComplete == Spec => TakenOver
  <1>1. Invariant /\ [Next]_vars =>
          (pc # "running" /\ pc' = "running" => InPlace /\ (PanelFound => Panel \notin DOMAIN at))
    <2>. SUFFICES ASSUME Invariant, Next, pc # "running", pc' = "running"
                  PROVE  InPlace /\ (PanelFound => Panel \notin DOMAIN at)
      BY DEF vars
    <2>1. Verify \/ Hold \/ Rehold
      BY DEF Next, Takeover, Restore, Snapshot, AwaitStale, Connect, AwaitDisplays, Stage,
             Commit, Detach, Repin, Rollback, Stop, Reposition, Settle, Unplug, Drain, R1a,
             R1aCommit, R1b, R1bCommit, R2, R2Commit, Check, Flush, FailsUntouched,
             RestoreFails, StageRefused
    <2>. QED  BY <2>1 DEF Verify, Hold, Rehold, Invariant, Held
  <1>. QED  BY <1>1, InvariantHolds, PTL DEF Spec, TakenOver

\* What restore_pinned_layout verifies is enough: when the panel is the user's
\* primary display a restore that says it succeeded did, whatever Windows made
\* of the commits, also of the last one, which nothing is verified after but
\* that the others are in place: the one place left is the primary's.
LEMMA VerifiedIsHome ==
  ASSUME PanelFirst, Invariant PROVE RestoredIsHome
  <1>. SUFFICES ASSUME pc = "ended", restored = "ok", recalls \/ snapshots = home
                PROVE  IsHome
    BY DEF RestoredIsHome
  <1>1. drained /\ Strays = {} /\ Primary \subseteq DOMAIN at /\ Vdds \cap DOMAIN at = {}
    BY DEF Invariant, Verified, TypeOK
  <1>2. snapshots = home
    <2>1. ~VirtualFirst(snapshots)
      BY <1>1 DEF VirtualFirst, Primary
    <2>. QED  BY <2>1 DEF Invariant, Seen
  <1>3. plugged \subseteq DOMAIN home /\ DOMAIN at \subseteq plugged
    BY <1>1 DEF Invariant, Machine, TypeOK, Displays
  <1>4. DOMAIN at = plugged
    <2>1. Panel \in plugged => Panel \in DOMAIN at
      BY <1>1, <1>2, <1>3 DEF PanelFirst, Primary, Invariant, TypeOK
    <2>2. plugged \subseteq DOMAIN at \cup {Panel}
      BY <1>3, HomeIs DEF Invariant, Machine
    <2>. QED  BY <1>3, <2>1, <2>2
  <1>5. ASSUME NEW d \in plugged PROVE d \in DOMAIN home /\ at[d] = home[d]
    <2>1. \A e \in DOMAIN at : home[e] # 0 => at[e] = home[e]
      BY <1>1, <1>2, <1>3 DEF Strays, Others
    <2>2. CASE home[d] # 0
      BY <1>3, <1>4, <2>1, <2>2
    <2>3. CASE home[d] = 0
      <3>1. PICK e \in DOMAIN at : at[e] = 0
        BY DEF Invariant, TypeOK, Valid
      <3>2. e \in DOMAIN home /\ home[e] = 0
        BY <1>3, <2>1, <3>1
      <3>3. e = d
        BY <1>3, <2>3, <3>2, HomeIs DEF Invariant, IsArrangement, Valid
      <3>. QED  BY <1>3, <2>3, <3>1, <3>3
    <2>. QED  BY <2>2, <2>3
  <1>. QED  BY <1>4, <1>5 DEF IsHome

THEOREM SuccessIsHome == ASSUME PanelFirst PROVE Spec => []RestoredIsHome
  <1>1. Invariant => RestoredIsHome
    BY VerifiedIsHome
  <1>. QED  BY <1>1, InvariantHolds, PTL

-----------------------------------------------------------------------------
(***************************************************************************)
(* The windows and the taskbar.                                            *)
(***************************************************************************)
WindowRecord == [open : BOOLEAN, at : Place, iconic : BOOLEAN, zoomed : BOOLEAN]
WishRecord == [iconic : SUBSET Windows, touched : SUBSET Windows, bar : BOOLEAN]

\* Every step of the windows is one of these.
LEMMA DeskCases ==
  ASSUME DeskNext
  PROVE  \/ Record \/ Arrange \/ PlaceOnCentre \/ DetachPanel \/ Wave
         \/ LateWave \/ RepairTakeover \/ Workspace \/ Track \/ Use
         \/ SetBar \/ BeginRestore \/ PanelBack \/ PanelStaysAway \/ MoveHome
         \/ RepairRestore \/ Repaired \/ Reapply \/ Flip \/ End \/ Reassert
         \/ LetAlone \/ Again \/ Over
  BY DEF DeskNext

\* The bounds are naturals and the two loops poll at least once.
LEMMA DeskBounds ==
  /\ Quiet \in Nat /\ Quiet > 0 /\ Steady \in Nat /\ Steady > 0 /\ MaxSession \in Nat
  /\ MaxWaves \in Nat /\ MaxUser \in Nat /\ MaxFlips \in Nat /\ Budget \in Nat
  BY WindowsAssumption DEF WindowsAssumption

\* A window is its four fields.
LEMMA WindowFields ==
  ASSUME NEW r \in WindowRecord
  PROVE  r = [open |-> r.open, at |-> r.at, iconic |-> r.iconic, zoomed |-> r.zoomed]
  BY DEF WindowRecord

\* What a window is made into, moved or clamped, is a window.
LEMMA MovedType ==
  ASSUME NEW w \in Windows, win \in [Windows -> WindowRecord]
  PROVE  /\ Moved(w) \in WindowRecord /\ Clamped(w) \in WindowRecord
         /\ \A a \in Place : [win[w] EXCEPT !.at = a] \in WindowRecord
         /\ [win[w] EXCEPT !.iconic = TRUE] \in WindowRecord
         /\ Moved(w).open = win[w].open /\ Moved(w).at = "origin"
         /\ Moved(w).iconic = FALSE /\ Moved(w).zoomed = (recorded[w] = "zoomed")
         /\ Clamped(w).open = win[w].open /\ Clamped(w).at = "origin"
         /\ Clamped(w).iconic = FALSE
<1>1. win[w] \in WindowRecord
  OBVIOUS
<1>2. PICK z \in BOOLEAN : z = (recorded[w] = "zoomed")
  OBVIOUS
<1>3. Moved(w) = [win[w] EXCEPT !.iconic = FALSE, !.at = "origin", !.zoomed = z]
  BY <1>2, Zenon DEF Moved
<1>4. Moved(w) \in WindowRecord
  BY <1>1, <1>3 DEF WindowRecord, Place
<1>5. /\ Moved(w).open = win[w].open /\ Moved(w).at = "origin"
      /\ Moved(w).iconic = FALSE /\ Moved(w).zoomed = z
  BY <1>1, <1>3 DEF WindowRecord
<1>6. Clamped(w) \in WindowRecord
  BY <1>1 DEF WindowRecord, Place, Clamped
<1>7. /\ Clamped(w).open = win[w].open /\ Clamped(w).at = "origin"
      /\ Clamped(w).iconic = FALSE
  BY <1>1 DEF WindowRecord, Clamped
<1>8. /\ \A a \in Place : [win[w] EXCEPT !.at = a] \in WindowRecord
      /\ [win[w] EXCEPT !.iconic = TRUE] \in WindowRecord
  BY <1>1 DEF WindowRecord
<1>9. QED
  BY <1>2, <1>4, <1>5, <1>6, <1>7, <1>8, Zenon

\* The steps by what they do to the windows: each leaves every window as it
\* was, closed, minimised, shown, or at a place of the desktop.
LEMMA WindowsStayWindows ==
  ASSUME win \in [Windows -> WindowRecord], DeskNext
  PROVE  win' \in [Windows -> WindowRecord]
<1> DEFINE To(w, x) == win' = [win EXCEPT ![w] = x]
<1>1. CASE UNCHANGED win
  BY <1>1
<1>2. CASE Arrange
  <2>1. win' = [w \in Windows |-> IF win[w].at = "origin" THEN [win[w] EXCEPT !.at = "aside"] ELSE win[w]]
    BY <1>2 DEF Arrange
  <2>2. \A w \in Windows : [win[w] EXCEPT !.at = "aside"] \in WindowRecord
    BY MovedType DEF Place
  <2>3. QED
    BY <2>1, <2>2
<1>3. CASE PlaceOnCentre
  <2>1. \/ UNCHANGED win
        \/ win' = [w \in Windows |->
              IF recorded[w] # "no" /\ win[w].open /\ ~win[w].iconic THEN Moved(w) ELSE win[w]]
    BY <1>3 DEF PlaceOnCentre
  <2>2. \A w \in Windows : Moved(w) \in WindowRecord
    BY MovedType
  <2>3. QED
    BY <2>1, <2>2
<1>4. ASSUME NEW places PROVE Leaving(places) \in [Windows -> WindowRecord]
  <2>1. \A w \in Windows : [win[w] EXCEPT !.at = "origin"] \in WindowRecord
    BY MovedType DEF Place
  <2>2. QED
    BY <2>1 DEF Leaving
<1>5. CASE DetachPanel \/ PanelBack \/ PanelStaysAway
  <2>1. \E places : Gone(places)
    BY <1>5, Zenon DEF DetachPanel, PanelBack, PanelStaysAway
  <2>2. QED
    BY <1>4, <2>1 DEF Gone
<1>6. CASE Wave
  <2>1. PICK hit : win' = [w \in Windows |-> IF w \in hit THEN [win[w] EXCEPT !.iconic = TRUE] ELSE win[w]]
    BY <1>6 DEF Wave
  <2>2. \A w \in Windows : [win[w] EXCEPT !.iconic = TRUE] \in WindowRecord
    BY MovedType
  <2>3. QED
    BY <2>1, <2>2
<1>7. CASE LateWave
  <2>1. PICK w \in Windows, spot \in {"origin", "side"} :
           win' = [win EXCEPT ![w].iconic = TRUE, ![w].at = spot]
    BY <1>7 DEF LateWave
  <2>2. spot \in Place /\ win[w] \in WindowRecord
    BY DEF Place
  <2>3. [[win[w] EXCEPT !.iconic = TRUE] EXCEPT !.at = spot] \in WindowRecord
    BY <2>2 DEF WindowRecord
  <2>4. win' = [win EXCEPT ![w] = [[win[w] EXCEPT !.iconic = TRUE] EXCEPT !.at = spot]]
    BY <2>1
  <2>5. QED
    BY <2>3, <2>4
<1>8. CASE RepairTakeover
  <2>1. \A w \in Windows : Moved(w) \in WindowRecord
    BY MovedType
  <2>2. win' = [w \in Windows |-> IF w \in RecordedIconic THEN Moved(w) ELSE win[w]]
    BY <1>8 DEF RepairTakeover, Polls
  <2>3. QED
    BY <2>1, <2>2
<1>9. CASE MoveHome
  <2>1. win' = [w \in Windows |-> IF recorded[w] # "no" /\ win[w].open THEN Moved(w) ELSE win[w]]
    BY <1>9 DEF MoveHome
  <2>2. \A w \in Windows : Moved(w) \in WindowRecord
    BY MovedType
  <2>3. QED
    BY <2>1, <2>2
<1>10. CASE RepairRestore
  <2>1. \A w \in Windows : Moved(w) \in WindowRecord /\ Clamped(w) \in WindowRecord
    BY MovedType
  <2>2. win' = [w \in Windows |->
           IF w \in RecordedIconic \cup StrayWindows
           THEN IF w \in StrayWindows THEN Clamped(w) ELSE Moved(w) ELSE win[w]]
    BY <1>10 DEF RepairRestore, Polls
  <2>3. QED
    BY <2>1, <2>2
<1>11. CASE Use
  <2>1. PICK w \in Windows :
          \/ win' = [win EXCEPT ![w].iconic = TRUE]
          \/ win' = [win EXCEPT ![w].iconic = FALSE, ![w].at = IF @ \in Live THEN @ ELSE "origin"]
          \/ \E to \in Live \ {win[w].at} : win' = [win EXCEPT ![w].at = to]
          \/ win' = [win EXCEPT ![w].open = FALSE]
    BY <1>11 DEF Use
  <2>2. win[w] \in WindowRecord /\ Live \subseteq Place
    BY DEF Live, Place
  <2>3. CASE win' = [win EXCEPT ![w].iconic = TRUE]
    BY <2>2, <2>3 DEF WindowRecord
  <2>4. CASE win' = [win EXCEPT ![w].open = FALSE]
    BY <2>2, <2>4 DEF WindowRecord
  <2>5. CASE \E to \in Live \ {win[w].at} : win' = [win EXCEPT ![w].at = to]
    <3>1. PICK to \in Place : win' = [win EXCEPT ![w].at = to]
      BY <2>2, <2>5
    <3>2. QED
      BY <2>2, <3>1 DEF WindowRecord
  <2>6. CASE win' = [win EXCEPT ![w].iconic = FALSE, ![w].at = IF @ \in Live THEN @ ELSE "origin"]
    <3> DEFINE a == IF win[w].at \in Live THEN win[w].at ELSE "origin"
    <3>1. a \in Place
      BY <2>2 DEF Place
    <3>2. [[win[w] EXCEPT !.iconic = FALSE] EXCEPT !.at = a] \in WindowRecord
      BY <2>2, <3>1 DEF WindowRecord
    <3>3. win' = [win EXCEPT ![w] = [[win[w] EXCEPT !.iconic = FALSE] EXCEPT !.at = a]]
      BY <2>2, <2>6 DEF WindowRecord
    <3>4. QED
      BY <3>2, <3>3
  <2>7. QED
    BY <2>1, <2>3, <2>4, <2>5, <2>6
<1>12. CASE Again
  <2>1. win' = Leaving({"side", "aside"}) \/ UNCHANGED win
    BY <1>12, Zenon DEF Again
  <2>2. QED
    BY <1>4, <2>1
<1>13. QED
  <2>1. Record \/ Workspace \/ Track \/ SetBar \/ BeginRestore \/ Repaired
        \/ Reapply \/ Flip \/ End \/ Reassert \/ LetAlone \/ Over => UNCHANGED win
    BY Zenon DEF Record, Workspace, Track, SetBar, BeginRestore, Repaired,
           Reapply, Flip, End, Reassert, LetAlone, Over, deskVars
  <2>2. QED
    BY <1>1, <1>2, <1>3, <1>5, <1>6, <1>7, <1>8, <1>9, <1>10, <1>11, <1>12, <2>1, DeskCases

\* Type correctness of the windows and the taskbar.
THEOREM DeskTypeCorrect == DeskSpec => []DeskTypeOK
<1> USE DEF DeskTypeOK, Moves
<1>0. DeskTypeOK => win \in [Windows -> WindowRecord]
  BY DEF WindowRecord
<1>1. DeskInit => DeskTypeOK
  <2> SUFFICES ASSUME DeskInit PROVE DeskTypeOK
    OBVIOUS
  <2>1. win \in [Windows -> WindowRecord]
    <3>1. [open : {TRUE}, at : {"origin", "glasses"}, iconic : BOOLEAN, zoomed : BOOLEAN]
            \subseteq WindowRecord
      BY DEF WindowRecord, Place
    <3>2. QED
      BY <3>1 DEF DeskInit
  <2>2. wish \in WishRecord
    BY DEF DeskInit, WishRecord
  <2>3. /\ recorded \in [Windows -> {"no", "plain", "zoomed"}] /\ was_iconic \subseteq Windows
        /\ phase \in Phases /\ {bar, saved, tracked} \subseteq BOOLEAN
        /\ centred \in BOOLEAN /\ {dropped, late, failed} \subseteq BOOLEAN
    BY DEF DeskInit, Phases
  <2>4. /\ quiet \in 0 .. Quiet /\ coming \in 0 .. MaxWaves /\ steady \in 0 .. Steady
        /\ polls \in 0 .. Budget /\ flips \in 0 .. MaxFlips
        /\ sessions \in 0 .. MaxSession /\ users \in 0 .. MaxUser
    BY DeskBounds DEF DeskInit
  <2>5. QED
    BY <2>1, <2>2, <2>3, <2>4 DEF WindowRecord, WishRecord
<1>2. DeskTypeOK /\ [DeskNext]_deskVars => DeskTypeOK'
  <2> SUFFICES ASSUME DeskTypeOK, DeskNext PROVE DeskTypeOK'
    BY DEF deskVars, loopVars, barVars, deskHistory
  <2> USE DeskBounds DEF Phases, loopVars, barVars, deskHistory
  <2>0. /\ win \in [Windows -> WindowRecord] /\ win' \in [Windows -> WindowRecord]
        /\ win' \in [Windows -> [open : BOOLEAN, at : Place, iconic : BOOLEAN, zoomed : BOOLEAN]]
    BY <1>0, WindowsStayWindows DEF WindowRecord
  <2>1. CASE Record
    <3>1. recorded' \in [Windows -> {"no", "plain", "zoomed"}]
      BY <2>1 DEF Record
    <3>2. wish' \in WishRecord
      BY <2>1 DEF Record, WishRecord
    <3>3. /\ phase' \in Phases /\ {bar', saved', tracked'} \subseteq BOOLEAN
          /\ {dropped', late', failed'} \subseteq BOOLEAN
      BY <2>1 DEF Record
    <3>4. sessions' \in 0 .. MaxSession
      BY <2>1 DEF Record
    <3>5. UNCHANGED <<was_iconic, centred, quiet, coming, steady, polls, flips, users>>
      BY <2>1 DEF Record
    <3>6. QED
      BY <2>0, <3>1, <3>2, <3>3, <3>4, <3>5 DEF WishRecord
  <2>2. CASE Arrange
    BY <2>0, <2>2 DEF Arrange
  <2>3. CASE PlaceOnCentre
    BY <2>0, <2>3 DEF PlaceOnCentre
  <2>4. CASE DetachPanel
    <3>1. /\ phase' = "repair" /\ quiet' = 0 /\ coming' \in 0 .. MaxWaves
          /\ UNCHANGED <<recorded, was_iconic, centred, saved, tracked, steady, polls, flips>>
          /\ UNCHANGED <<sessions, users, wish, late, failed>>
      BY <2>4 DEF DetachPanel, Gone
    <3>2. bar' \in BOOLEAN /\ dropped' \in BOOLEAN
      BY <2>4 DEF DetachPanel
    <3>3. QED
      BY <2>0, <3>1, <3>2
  <2>5. CASE Wave
    BY <2>0, <2>5 DEF Wave
  <2>6. CASE LateWave
    BY <2>0, <2>6 DEF LateWave
  <2>7. CASE RepairTakeover
    BY <2>0, <2>7 DEF RepairTakeover, Polls
  <2>8. CASE Workspace
    BY <2>0, <2>8 DEF Workspace
  <2>9. CASE Track
    BY <2>0, <2>9 DEF Track
  <2>10. CASE Use
    <3>1. wish' \in WishRecord
      <4>1. PICK w \in Windows :
              \/ wish' = [wish EXCEPT !.iconic = @ \cup {w}, !.touched = @ \cup {w}]
              \/ wish' = [wish EXCEPT !.iconic = @ \ {w}, !.touched = @ \cup {w}]
              \/ wish' = [wish EXCEPT !.touched = @ \cup {w}]
              \/ UNCHANGED wish
        BY <2>10 DEF Use
      <4>2. wish \in WishRecord
        BY DEF WishRecord
      <4>3. \A r \in WishRecord : /\ [r EXCEPT !.iconic = @ \cup {w}] \in WishRecord
                                  /\ [r EXCEPT !.iconic = @ \ {w}] \in WishRecord
                                  /\ [r EXCEPT !.touched = @ \cup {w}] \in WishRecord
        BY DEF WishRecord
      <4>4. [[wish EXCEPT !.iconic = @ \cup {w}] EXCEPT !.touched = @ \cup {w}] \in WishRecord
        BY <4>2, <4>3
      <4>5. [[wish EXCEPT !.iconic = @ \ {w}] EXCEPT !.touched = @ \cup {w}] \in WishRecord
        BY <4>2, <4>3
      <4>6. QED
        BY <4>1, <4>2, <4>3, <4>4, <4>5
    <3>2. users' \in 0 .. MaxUser
      BY <2>10 DEF Use
    <3>3. QED
      BY <2>0, <2>10, <3>1, <3>2 DEF Use, WishRecord
  <2>11. CASE SetBar
    <3>1. wish' \in WishRecord
      BY <2>11 DEF SetBar, WishRecord
    <3>2. users' \in 0 .. MaxUser /\ bar' \in BOOLEAN
      BY <2>11 DEF SetBar
    <3>3. QED
      BY <2>0, <2>11, <3>1, <3>2 DEF SetBar, WishRecord
  <2>12. CASE BeginRestore
    <3>1. wish' \in WishRecord
      BY <2>12 DEF BeginRestore, WishRecord
    <3>2. QED
      BY <2>0, <2>12, <3>1 DEF BeginRestore, WishRecord
  <2>13. CASE PanelBack
    <3>1. /\ phase' = "back" /\ quiet' = 0 /\ coming' \in 0 .. MaxWaves /\ flips' \in 0 .. MaxFlips
          /\ UNCHANGED <<recorded, was_iconic, centred, saved, tracked, steady, polls>>
          /\ UNCHANGED <<sessions, users, wish, dropped, late>>
      BY <2>13 DEF PanelBack, Gone
    <3>2. bar' \in BOOLEAN /\ failed' \in BOOLEAN
      BY <2>13 DEF PanelBack
    <3>3. QED
      BY <2>0, <3>1, <3>2
  <2>14. CASE MoveHome
    BY <2>0, <2>14 DEF MoveHome
  <2>15. CASE RepairRestore
    <3>1. /\ quiet' \in 0 .. Quiet
          /\ UNCHANGED <<phase, recorded, was_iconic, centred, coming, bar, saved, tracked>>
          /\ UNCHANGED <<steady, polls, flips, sessions, users, wish, dropped, late, failed>>
      BY <2>15 DEF RepairRestore, Polls
    <3>2. QED
      BY <2>0, <3>1
  <2>16. CASE Repaired
    BY <2>0, <2>16 DEF Repaired
  <2>17. CASE Reapply
    <3>1. /\ steady < Steady /\ polls < Budget /\ polls' = polls + 1
          /\ UNCHANGED <<phase, recorded, was_iconic, centred, quiet, coming, saved, tracked, flips>>
          /\ UNCHANGED <<sessions, users, wish, dropped, late, failed>>
      BY <2>17 DEF Reapply
    <3>2. /\ steady' = steady + 1 \/ steady' = 0
          /\ bar' = bar \/ bar' = saved
      BY <2>17, Zenon DEF Reapply
    <3>3. bar' \in BOOLEAN
      <4>1. bar \in BOOLEAN /\ saved \in BOOLEAN
        OBVIOUS
      <4>2. QED
        BY ONLY <3>2, <4>1, Zenon
    <3>4. steady' \in 0 .. Steady /\ polls' \in 0 .. Budget
      BY <3>1, <3>2
    <3>5. QED
      BY <2>0, <3>1, <3>3, <3>4
  <2>18. CASE Flip
    <3>1. /\ flips' \in 0 .. MaxFlips /\ bar' = FALSE
          /\ UNCHANGED <<phase, recorded, was_iconic, centred, quiet, coming, saved, tracked, steady>>
          /\ UNCHANGED <<polls, sessions, users, wish, dropped, late, failed>>
      BY <2>18 DEF Flip
    <3>2. QED
      BY <2>0, <3>1
  <2>19. CASE End
    <3>0. bar' = tracked \/ bar' = bar
      BY <2>19, Zenon DEF End
    <3>1. /\ phase' \in {"sticky", "gone"} /\ late' = FALSE /\ coming' = 0
          /\ UNCHANGED <<recorded, was_iconic, centred, quiet, saved, tracked, steady, polls>>
          /\ UNCHANGED <<sessions, users, wish, dropped, failed>>
      BY <2>19, Zenon DEF End
    <3>2. {bar', saved', tracked'} \subseteq BOOLEAN
      <4>1. bar \in BOOLEAN /\ saved \in BOOLEAN /\ tracked \in BOOLEAN
        OBVIOUS
      <4>2. bar' \in BOOLEAN
        BY ONLY <3>0, <4>1, Zenon
      <4>3. saved' \in BOOLEAN /\ tracked' \in BOOLEAN
        BY ONLY <3>1, <4>1, Zenon
      <4>4. QED
        BY ONLY <4>2, <4>3
    <3>3. phase' \in Phases
      BY ONLY <3>1 DEF Phases
    <3>4. flips' \in 0 .. MaxFlips
      <4>1. flips' \in 0 .. MaxFlips \/ flips' = 0
        BY <2>19, Zenon DEF End
      <4>2. QED
        BY <4>1
    <3>5. {dropped', late', failed'} \subseteq BOOLEAN
      <4>1. dropped \in BOOLEAN /\ failed \in BOOLEAN
        OBVIOUS
      <4>2. dropped' \in BOOLEAN /\ late' \in BOOLEAN /\ failed' \in BOOLEAN
        BY ONLY <3>1, <4>1, Zenon
      <4>3. QED
        BY ONLY <4>2
    <3>6. coming' \in 0 .. MaxWaves
      BY <3>1
    <3>7. QED
      BY <2>0, <3>1, <3>2, <3>3, <3>4, <3>5, <3>6
  <2>20. CASE Again
    <3>1. phase' = "idle" /\ recorded' \in [Windows -> {"no", "plain", "zoomed"}] /\ was_iconic' = {}
      BY <2>20 DEF Again
    <3>2. /\ UNCHANGED <<centred, quiet, coming, bar, saved, tracked, steady, polls, flips>>
          /\ UNCHANGED <<sessions, users, wish, dropped, late, failed>>
      BY <2>20 DEF Again
    <3>3. QED
      BY <2>0, <3>1, <3>2
  <2>21. CASE Over
    BY <2>21 DEF Over, deskVars
  <2>22. CASE PanelStaysAway
    <3>1. /\ phase' = "taskbar" /\ quiet' = 0 /\ coming' \in 0 .. MaxWaves /\ flips' \in 0 .. MaxFlips
          /\ steady' = 0 /\ polls' = 0
          /\ UNCHANGED <<recorded, was_iconic, centred, saved, tracked>>
          /\ UNCHANGED <<sessions, users, wish, dropped, late>>
      BY <2>22 DEF PanelStaysAway, Gone
    <3>2. bar' \in BOOLEAN /\ failed' \in BOOLEAN
      BY <2>22 DEF PanelStaysAway
    <3>3. QED
      BY <2>0, <3>1, <3>2
  <2>23. CASE Reassert \/ LetAlone
    <3>1. /\ phase' \in Phases
          /\ UNCHANGED <<recorded, was_iconic, centred, quiet, coming, saved, tracked, steady, polls, flips>>
          /\ UNCHANGED <<sessions, users, wish, dropped, late, failed>>
      BY <2>23, Zenon DEF Reassert, LetAlone
    <3>2. bar' = tracked \/ bar' = bar
      BY <2>23, Zenon DEF Reassert, LetAlone
    <3>3. bar' \in BOOLEAN
      <4>1. bar \in BOOLEAN /\ tracked \in BOOLEAN
        OBVIOUS
      <4>2. QED
        BY ONLY <3>2, <4>1, Zenon
    <3>4. QED
      BY <2>0, <3>1, <3>3
  <2>24. QED
    BY <2>1, <2>2, <2>3, <2>4, <2>5, <2>6, <2>7, <2>8, <2>9, <2>10, <2>11, <2>12, <2>13,
       <2>14, <2>15, <2>16, <2>17, <2>18, <2>19, <2>20, <2>21, <2>22, <2>23, DeskCases
<1>3. QED
  BY <1>1, <1>2, PTL DEF DeskSpec

\* What is kept of the taskbar at each step, unless Explorer has dropped
\* auto-hide at the detach: the takeover's note and the controller's are the
\* user's choice, the controller's follows it during the session, and the loop
\* ends with the takeover's note in force and nothing left to disturb it, or when
\* its time is up; the controller sets its own note until that holds.
TaskbarInv ==
  /\ phase \in {"recorded", "aside", "placed", "repair"} /\ ~dropped =>
       bar = wish.bar /\ tracked = bar
  /\ phase = "session" /\ ~dropped => bar = wish.bar
  /\ phase \in {"restore", "back", "home", "taskbar", "sticky", "ended"} /\ ~dropped =>
       tracked = wish.bar
  /\ phase = "taskbar" /\ steady = Steady => flips = 0 /\ bar = saved
  /\ phase = "ended" => bar = tracked
  /\ phase = "gone" /\ steady = Steady => bar = saved

\* However the session ended and whenever Explorer drops auto-hide while the
\* displays come back, for any number of polls: TaskbarComesBack.
THEOREM TheTaskbarComesBack == DeskSpec => []TaskbarComesBack
<1>1. DeskInit => TaskbarInv
  BY DEF DeskInit, TaskbarInv
<1>2. ASSUME DeskTypeOK, TaskbarInv, [DeskNext]_deskVars
      PROVE  TaskbarInv'
  <2>0. /\ wish \in WishRecord /\ steady \in Nat /\ flips \in Nat /\ Steady \in Nat /\ Steady > 0
    BY <1>2, DeskBounds DEF DeskTypeOK, WishRecord
  <2> USE <1>2 DEF TaskbarInv, Moves
  <2>1. CASE Record
    <3>1. /\ phase' = "recorded" /\ bar' = bar /\ tracked' = bar
      BY <2>1 DEF Record
    <3>2. wish'.bar = bar
      BY <2>0, <2>1 DEF Record, WishRecord
    <3>3. QED
      BY <3>1, <3>2, Zenon
  <2>2. CASE UNCHANGED <<phase, bar, saved, tracked, steady, flips, dropped>> /\ wish'.bar = wish.bar
    BY <2>2, Zenon
  <2>3. CASE \/ Wave \/ RepairTakeover \/ RepairRestore \/ LateWave
             \/ Over \/ UNCHANGED deskVars
    BY <2>2, <2>3, Zenon DEF Wave, RepairTakeover, RepairRestore, LateWave,
       Over, deskVars, barVars, deskHistory
  <2>4. CASE Arrange \/ PlaceOnCentre \/ Workspace \/ MoveHome \/ Again
    <3>1. /\ \/ phase \in {"recorded", "aside"} /\ phase' \in {"aside", "placed"}
             \/ phase = "repair" /\ phase' = "session"
             \/ phase = "back" /\ phase' = "home"
             \/ phase' = "idle"
      BY <2>4, Zenon DEF Arrange, PlaceOnCentre, Workspace, MoveHome, Again
    <3>2. UNCHANGED <<bar, saved, tracked, steady, flips, wish, dropped>>
      BY <2>4, Zenon DEF Arrange, PlaceOnCentre, Workspace, MoveHome, Again,
         barVars, deskHistory
    <3>3. QED
      BY <3>1, <3>2
  <2>5. CASE DetachPanel
    <3>1. /\ phase = "placed" /\ phase' = "repair" /\ UNCHANGED <<tracked, wish>>
          /\ dropped' = (dropped \/ bar' # bar)
      BY <2>5 DEF DetachPanel
    <3>2. ~dropped' => ~dropped /\ bar' = bar
      BY <3>1
    <3>3. QED
      BY <3>1, <3>2
  <2>6. CASE Track
    BY <2>6 DEF Track, deskHistory
  <2>7. CASE Use
    <3>1. wish'.bar = wish.bar
      <4>1. PICK w \in Windows :
              \/ wish' = [wish EXCEPT !.iconic = @ \cup {w}, !.touched = @ \cup {w}]
              \/ wish' = [wish EXCEPT !.iconic = @ \ {w}, !.touched = @ \cup {w}]
              \/ wish' = [wish EXCEPT !.touched = @ \cup {w}]
              \/ UNCHANGED wish
        BY <2>7 DEF Use
      <4>2. QED
        BY <2>0, <4>1 DEF WishRecord
    <3>2. UNCHANGED <<phase, bar, saved, tracked, steady, flips, dropped>>
      BY <2>7 DEF Use, barVars
    <3>3. QED
      BY <2>2, <3>1, <3>2
  <2>8. CASE SetBar
    <3>1. phase = "session" /\ phase' = "session" /\ bar' = ~bar
      BY <2>8 DEF SetBar
    <3>2. wish'.bar = ~bar
      BY <2>0, <2>8 DEF SetBar, WishRecord
    <3>3. QED
      BY <3>1, <3>2, Zenon
  <2>9. CASE BeginRestore
    <3>1. /\ phase' = "restore" /\ UNCHANGED <<bar, tracked, dropped>>
          /\ phase \in {"aside", "placed", "repair"} \/ (phase = "session" /\ tracked = bar)
      BY <2>9 DEF BeginRestore, barVars
    <3>2. wish'.bar = wish.bar
      BY <2>0, <2>9 DEF BeginRestore, WishRecord
    <3>3. ~dropped => tracked = wish.bar
      BY <3>1
    <3>4. QED
      BY <3>1, <3>2, <3>3
  <2>10. CASE PanelBack \/ PanelStaysAway
    <3>1. /\ phase = "restore" /\ UNCHANGED <<tracked, wish, dropped>>
          /\ phase' = "back" \/ (phase' = "taskbar" /\ steady' = 0)
      BY <2>10, Zenon DEF PanelBack, PanelStaysAway
    <3>2. QED
      BY <2>0, <3>1
  <2>11. CASE Repaired
    <3>1. /\ phase = "home" /\ phase' = "taskbar" /\ steady' = 0 /\ UNCHANGED <<tracked, wish, dropped>>
      BY <2>11 DEF Repaired, deskHistory
    <3>2. QED
      BY <2>0, <3>1
  <2>12. CASE Reapply
    <3>1. /\ phase = "taskbar" /\ phase' = "taskbar" /\ UNCHANGED <<saved, tracked, wish, dropped, flips>>
          /\ ~(flips > 0 /\ steady = Steady - 1)
      BY <2>12 DEF Reapply, deskHistory
    <3>2. \/ bar = saved /\ steady' = steady + 1 /\ bar' = bar
          \/ steady' = 0
      BY <2>12, Zenon DEF Reapply
    <3>3. steady' = Steady => flips' = 0
      BY <2>0, <3>1, <3>2
    <3>4. steady' = Steady => bar' = saved'
      BY <2>0, <3>1, <3>2
    <3>5. QED
      BY <3>1, <3>3, <3>4
  <2>13. CASE Flip
    <3>1. /\ phase \in {"taskbar", "sticky"} /\ flips > 0
          /\ UNCHANGED <<phase, saved, tracked, wish, dropped, steady>>
      BY <2>13 DEF Flip, deskHistory
    <3>2. phase = "taskbar" => steady' # Steady
      BY <3>1
    <3>3. QED
      BY <3>1, <3>2
  <2>14. CASE End
    <3>1. phase = "taskbar" /\ UNCHANGED <<tracked, saved, steady, wish, dropped>>
      BY <2>14, Zenon DEF End
    <3>2. (steady = Steady => bar = saved) /\ (~dropped => tracked = wish.bar)
      BY <3>1
    <3>3. \/ phase' = "sticky"
          \/ phase' = "gone" /\ bar' = bar
      BY <2>14, Zenon DEF End
    <3>4. CASE phase' = "sticky"
      BY ONLY <3>1, <3>2, <3>4 DEF TaskbarInv
    <3>5. CASE phase' = "gone" /\ bar' = bar
      BY ONLY <3>1, <3>2, <3>5 DEF TaskbarInv
    <3>6. QED
      BY <3>3, <3>4, <3>5
  <2>15. CASE Reassert
    <3>1. phase = "sticky" /\ phase' = "sticky" /\ UNCHANGED <<tracked, wish, dropped>>
      BY <2>15, Zenon DEF Reassert, deskHistory
    <3>2. QED
      BY <3>1
  <2>16. CASE LetAlone
    <3>1. /\ phase = "sticky" /\ phase' = "ended" /\ bar = tracked
          /\ UNCHANGED <<bar, tracked, wish, dropped>>
      BY <2>16, Zenon DEF LetAlone, deskHistory, barVars
    <3>2. QED
      BY <3>1
  <2>17. QED
    BY <2>1, <2>3, <2>4, <2>5, <2>6, <2>7, <2>8, <2>9, <2>10, <2>11, <2>12, <2>13, <2>14, <2>15,
       <2>16, DeskCases
<1>3. TaskbarInv => TaskbarComesBack
  BY DEF TaskbarInv, TaskbarComesBack, Ends
<1>4. DeskTypeOK /\ TaskbarInv /\ [DeskNext]_deskVars => TaskbarInv'
  BY <1>2
<1>5. QED
  BY <1>1, <1>3, <1>4, DeskTypeCorrect, PTL DEF DeskSpec

Shore == {"origin", "glasses"}

\* A recorded window the user has not dealt with since the restore began.
Mine(w) == recorded[w] # "no" /\ win[w].open /\ w \notin wish.touched

\* The displays are restored and the repairs over, and no wave has come since.
Mended ==
  \/ phase = "home" /\ quiet = Quiet
  \/ phase \in {"taskbar", "sticky"} /\ ~failed
  \/ phase \in {"ended", "gone"} /\ ~late /\ ~failed

\* How the windows come home: once the displays are gone a window that is shown
\* stands on one, and from the move home on the recorded ones are where they were, if
\* perhaps minimised; the repairs end only when a poll found nothing to repair
\* and Windows has no wave left, and what was minimised before may stay so on a
\* display only.
HomingInv ==
  /\ phase = "back" => quiet = 0
  /\ phase \in {"back", "home"} =>
       \A w \in Windows : win[w].open /\ ~win[w].iconic => win[w].at \in Shore
  /\ phase = "home" \/ Mended =>
       \A w \in Windows :
         Mine(w) => win[w].at = "origin" /\ win[w].zoomed = (recorded[w] = "zoomed")
  /\ Mended =>
       \A w \in Windows : win[w].open => (Mine(w) => ~win[w].iconic) /\ win[w].at \in Shore
  /\ \/ phase = "home" /\ quiet = Quiet
     \/ phase = "taskbar" /\ ~failed
     => coming = 0

\* What the user does to a window leaves it on the live desktop, or minimised
\* where it was, or closed, and is known of it.
LEMMA UseTouches ==
  ASSUME DeskTypeOK, Use, phase \in {"back", "home"}
  PROVE  \E w \in Windows :
           /\ \A v \in Windows : v # w => win'[v] = win[v]
           /\ \A v \in wish.touched : v \in wish'.touched
           /\ ~win'[w].open \/ w \in wish'.touched
           /\ win'[w].open => win[w].open
           /\ win'[w].open /\ win'[w].iconic => ~win[w].iconic /\ win'[w].at = win[w].at
           /\ win'[w].open /\ ~win'[w].iconic => win'[w].at \in Shore
<1>0. /\ win \in [Windows -> WindowRecord] /\ wish \in WishRecord /\ Live = Shore
  BY DEF DeskTypeOK, WindowRecord, WishRecord, Live, Shore
<1>1. PICK w \in Windows :
        /\ win[w].open
        /\ \/ /\ ~win[w].iconic
              /\ win' = [win EXCEPT ![w].iconic = TRUE]
              /\ wish' = [wish EXCEPT !.iconic = @ \cup {w}, !.touched = @ \cup {w}]
           \/ /\ win[w].iconic
              /\ win' = [win EXCEPT ![w].iconic = FALSE, ![w].at = IF @ \in Live THEN @ ELSE "origin"]
              /\ wish' = [wish EXCEPT !.iconic = @ \ {w}, !.touched = @ \cup {w}]
           \/ /\ ~win[w].iconic
              /\ \E to \in Live \ {win[w].at} : win' = [win EXCEPT ![w].at = to]
              /\ wish' = [wish EXCEPT !.touched = @ \cup {w}]
           \/ /\ win' = [win EXCEPT ![w].open = FALSE]
              /\ UNCHANGED wish
  BY DEF Use
<1>2. win[w] \in WindowRecord
  BY <1>0
<1> USE <1>0, <1>1, <1>2
<1>3. CASE /\ ~win[w].iconic
           /\ win' = [win EXCEPT ![w].iconic = TRUE]
           /\ wish' = [wish EXCEPT !.iconic = @ \cup {w}, !.touched = @ \cup {w}]
  <2>1. wish'.touched = wish.touched \cup {w}
    BY <1>3 DEF WishRecord
  <2>2. /\ \A v \in Windows : v # w => win'[v] = win[v]
        /\ win'[w].iconic /\ win'[w].at = win[w].at /\ win'[w].open = win[w].open
    BY <1>3 DEF WindowRecord
  <2>3. QED
    BY <1>3, <2>1, <2>2
<1>4. CASE /\ win' = [win EXCEPT ![w].iconic = FALSE, ![w].at = IF @ \in Live THEN @ ELSE "origin"]
           /\ wish' = [wish EXCEPT !.iconic = @ \ {w}, !.touched = @ \cup {w}]
  <2>1. wish'.touched = wish.touched \cup {w}
    BY <1>4 DEF WishRecord
  <2> DEFINE a == IF win[w].at \in Shore THEN win[w].at ELSE "origin"
  <2>2. a \in Shore
    BY DEF Shore
  <2>3. win' = [win EXCEPT ![w] = [[win[w] EXCEPT !.iconic = FALSE] EXCEPT !.at = a]]
    BY <1>4 DEF WindowRecord
  <2>4. /\ \A v \in Windows : v # w => win'[v] = win[v]
        /\ ~win'[w].iconic /\ win'[w].at = a /\ win'[w].open = win[w].open
    BY <2>3 DEF WindowRecord
  <2>5. QED
    BY <2>1, <2>2, <2>4
<1>5. CASE /\ \E to \in Live \ {win[w].at} : win' = [win EXCEPT ![w].at = to]
           /\ ~win[w].iconic
           /\ wish' = [wish EXCEPT !.touched = @ \cup {w}]
  <2>1. wish'.touched = wish.touched \cup {w}
    BY <1>5 DEF WishRecord
  <2>2. PICK to \in Shore : win' = [win EXCEPT ![w].at = to]
    BY <1>5
  <2>3. /\ \A v \in Windows : v # w => win'[v] = win[v]
        /\ win'[w].iconic = win[w].iconic /\ win'[w].at = to /\ win'[w].open = win[w].open
    BY <2>2 DEF WindowRecord
  <2>4. QED
    BY <1>5, <2>1, <2>3
<1>6. CASE /\ win' = [win EXCEPT ![w].open = FALSE]
           /\ UNCHANGED wish
  <2>1. /\ \A v \in Windows : v # w => win'[v] = win[v]
        /\ ~win'[w].open
    BY <1>6 DEF WindowRecord
  <2>2. QED
    BY <1>6, <2>1
<1>7. QED
  BY <1>3, <1>4, <1>5, <1>6

\* HomingInv, the inductive strengthening, is an invariant.
LEMMA WindowsComeHome == DeskSpec => []HomingInv
<1>1. DeskInit => HomingInv
  BY DEF DeskInit, HomingInv, Mended
<1>2. ASSUME DeskTypeOK, HomingInv, [DeskNext]_deskVars
      PROVE  HomingInv'
  <2>0. /\ win \in [Windows -> WindowRecord] /\ wish \in WishRecord
        /\ quiet \in Nat /\ Quiet \in Nat /\ Quiet > 0 /\ coming \in Nat
        /\ recorded \in [Windows -> {"no", "plain", "zoomed"}]
    BY <1>2, DeskBounds DEF DeskTypeOK, WindowRecord, WishRecord
  <2> USE <1>2, <2>0 DEF HomingInv, Moves
  \* Before the panel is back, and between two sessions, nothing is claimed.
  <2>1. CASE \/ phase' \notin {"back", "home", "taskbar", "sticky", "ended", "gone"}
             \/ phase' \notin {"back", "home"} /\ failed'
    BY <2>1 DEF Mended
  \* Steps that leave the windows alone and end no repair.
  <2>2. CASE /\ UNCHANGED <<win, recorded, wish, quiet, coming, failed>>
             /\ phase' = phase /\ (late' = late \/ phase \in {"home", "taskbar"})
    BY <2>2 DEF Mended, Mine
  <2>3. CASE PanelBack
    <3>1. /\ phase' = "back" /\ quiet' = 0
          /\ win' = [w \in Windows |-> IF win[w].at \in {"side", "aside"} /\ ~win[w].iconic
                               THEN [win[w] EXCEPT !.at = "origin"] ELSE win[w]]
      BY <2>3 DEF PanelBack, Gone, Leaving
    <3>2. ASSUME NEW w \in Windows, ~win'[w].iconic PROVE win'[w].at \in Shore
      <4>1. win[w] \in WindowRecord
        OBVIOUS
      <4>2. CASE win[w].at \in {"side", "aside"} /\ ~win[w].iconic
        <5>1. win'[w] = [win[w] EXCEPT !.at = "origin"]
          BY <3>1, <4>2
        <5>2. QED
          BY <4>1, <5>1 DEF WindowRecord, Shore
      <4>3. CASE ~(win[w].at \in {"side", "aside"} /\ ~win[w].iconic)
        <5>1. win'[w] = win[w]
          BY <3>1, <4>3
        <5>2. win[w].at \notin {"side", "aside"}
          BY <3>2, <4>3, <5>1
        <5>3. QED
          BY <4>1, <5>1, <5>2 DEF WindowRecord, Place, Shore
      <4>4. QED
        BY <4>2, <4>3
    <3>3. QED
      BY <3>1, <3>2 DEF Mended
  <2>4. CASE MoveHome
    <3>1. /\ phase = "back" /\ phase' = "home" /\ UNCHANGED <<recorded, wish, quiet, late>>
          /\ win' = [w \in Windows |-> IF recorded[w] # "no" /\ win[w].open THEN Moved(w) ELSE win[w]]
      BY <2>4 DEF MoveHome, loopVars, deskHistory
    <3>2. \A w \in Windows : recorded[w] # "no" /\ win[w].open =>
            win'[w].at = "origin" /\ win'[w].zoomed = (recorded[w] = "zoomed")
      BY <3>1, MovedType
    <3>3. \A w \in Windows : ~(recorded[w] # "no" /\ win[w].open) => win'[w] = win[w]
      BY <3>1
    <3>4. quiet' # Quiet
      BY <3>1
    <3>5. \A w \in Windows : win'[w].open /\ ~win'[w].iconic => win'[w].at \in Shore
      BY <3>1, <3>2, <3>3 DEF Shore
    <3>6. \A w \in Windows : Mine(w)' =>
            win'[w].at = "origin" /\ win'[w].zoomed = (recorded'[w] = "zoomed")
      BY <3>1, <3>2, <3>3, Zenon DEF Mine
    <3>7. ~Mended'
      BY <3>1, <3>4 DEF Mended
    <3>8. QED
      BY <3>1, <3>5, <3>6, <3>7
  <2>5. ASSUME Wave, phase = "home" PROVE HomingInv'
    <3>1. /\ phase' = "home" /\ coming > 0 /\ UNCHANGED <<recorded, wish, quiet, late, failed>>
      BY <2>5 DEF Wave, deskHistory
    <3>2. PICK hit : win' = [w \in Windows |-> IF w \in hit THEN [win[w] EXCEPT !.iconic = TRUE] ELSE win[w]]
      BY <2>5 DEF Wave
    <3>3. \A w \in Windows : /\ win'[w].open = win[w].open /\ win'[w].at = win[w].at
                             /\ win'[w].zoomed = win[w].zoomed
                             /\ ~win'[w].iconic => ~win[w].iconic
      <4> SUFFICES ASSUME NEW w \in Windows
                   PROVE  /\ win'[w].open = win[w].open /\ win'[w].at = win[w].at
                          /\ win'[w].zoomed = win[w].zoomed
                          /\ ~win'[w].iconic => ~win[w].iconic
        OBVIOUS
      <4>1. win[w] \in WindowRecord
        OBVIOUS
      <4>2. win'[w] = [win[w] EXCEPT !.iconic = TRUE] \/ win'[w] = win[w]
        BY <3>2
      <4>3. QED
        BY <4>1, <4>2 DEF WindowRecord
    <3>4. quiet # Quiet
      BY <2>5, <3>1
    <3>5. QED
      BY <2>5, <3>1, <3>3, <3>4 DEF Mended, Mine
  <2>6. CASE RepairRestore
    <3> DEFINE Hurt == RecordedIconic \cup StrayWindows
    <3>1. /\ phase = "home" /\ phase' = "home" /\ quiet < Quiet
          /\ ~(coming > 0 /\ quiet = Quiet - 1)
          /\ UNCHANGED <<recorded, wish, late, coming, was_iconic>>
          /\ win' = [w \in Windows |->
                      IF w \in Hurt
                      THEN IF w \in StrayWindows THEN Clamped(w) ELSE Moved(w) ELSE win[w]]
          /\ quiet' = IF Hurt = {} THEN quiet + 1 ELSE 0
      BY <2>6 DEF RepairRestore, Polls, deskHistory
    <3>2. \A w \in StrayWindows : recorded[w] = "no"
      BY DEF StrayWindows
    <3>3. ASSUME NEW w \in Windows
          PROVE  /\ win'[w].open /\ ~win'[w].iconic => win'[w].at \in Shore
                 /\ Mine(w)' => win'[w].at = "origin" /\ win'[w].zoomed = (recorded[w] = "zoomed")
      <4>1. CASE w \in StrayWindows
        <5>1. win'[w] = Clamped(w)
          BY <3>1, <4>1
        <5>2. win'[w].at = "origin"
          BY <5>1, MovedType
        <5>3. ~Mine(w)'
          BY <3>1, <3>2, <4>1 DEF Mine
        <5>4. QED
          BY <5>2, <5>3 DEF Shore
      <4>2. CASE w \in Hurt \ StrayWindows
        <5>1. win'[w] = Moved(w)
          BY <3>1, <4>2
        <5>2. win'[w].at = "origin" /\ win'[w].zoomed = (recorded[w] = "zoomed")
          BY <5>1, MovedType
        <5>3. QED
          BY <5>2 DEF Shore
      <4>3. CASE w \notin Hurt
        <5>1. win'[w] = win[w]
          BY <3>1, <4>3
        <5>2. Mine(w)' => Mine(w)
          BY <3>1, <5>1 DEF Mine
        <5>3. QED
          BY <3>1, <5>1, <5>2
      <4>4. QED
        BY <4>1, <4>2, <4>3
    <3>4. CASE quiet' = Quiet
      <4>1. Hurt = {} /\ coming = 0
        BY <3>1, <3>4
      <4>2. win' = win
        BY <3>1, <4>1
      <4>3. ASSUME NEW w \in Windows, win[w].open, win[w].iconic
            PROVE  recorded[w] = "no" /\ win[w].at \in Shore
        <5>1. w \notin RecordedIconic /\ w \notin StrayWindows
          BY <4>1
        <5>2. recorded[w] = "no" /\ Deliberate(w)
          BY <4>3, <5>1 DEF RecordedIconic, StrayWindows, Is
        <5>3. QED
          BY <3>1, <5>2 DEF Deliberate, Live, Shore
      <4>4. \A w \in Windows : win'[w].open => (Mine(w)' => ~win'[w].iconic) /\ win'[w].at \in Shore
        BY <3>1, <4>2, <4>3 DEF Mine
      <4>5. QED
        BY <3>1, <3>3, <4>1, <4>4
    <3>5. CASE quiet' # Quiet
      BY <3>1, <3>3, <3>5 DEF Mended
    <3>6. QED
      BY <3>4, <3>5
  <2>7. CASE Repaired
    <3>1. /\ phase = "home" /\ quiet = Quiet /\ phase' = "taskbar" /\ coming' = 0
          /\ UNCHANGED <<win, recorded, wish>>
      BY <2>7 DEF Repaired, deskHistory
    <3>2. QED
      BY <3>1 DEF Mended, Mine
  <2>8. CASE End
    <3>1. /\ phase = "taskbar" /\ UNCHANGED <<win, recorded, wish, failed>>
          /\ phase' \in {"sticky", "gone"}
      BY <2>8, Zenon DEF End
    <3>2. QED
      BY <3>1 DEF Mended, Mine
  <2>9. CASE LateWave
    BY <2>9 DEF LateWave, Ends, Mended
  <2>10. ASSUME Use, phase \in {"back", "home"} PROVE HomingInv'
    <3>1. UNCHANGED <<phase, recorded, quiet, coming, late, failed>>
      BY <2>10 DEF Use, loopVars
    <3>2. PICK w \in Windows :
           /\ \A v \in Windows : v # w => win'[v] = win[v]
           /\ \A v \in wish.touched : v \in wish'.touched
           /\ ~win'[w].open \/ w \in wish'.touched
           /\ win'[w].open => win[w].open
           /\ win'[w].open /\ win'[w].iconic => ~win[w].iconic /\ win'[w].at = win[w].at
           /\ win'[w].open /\ ~win'[w].iconic => win'[w].at \in Shore
      BY <2>10, UseTouches
    <3>3. \A v \in Windows : Mine(v)' => v # w /\ Mine(v) /\ win'[v] = win[v]
      BY <3>1, <3>2 DEF Mine
    <3>4. \A v \in Windows : win'[v].open /\ ~win'[v].iconic => win'[v].at \in Shore
      BY <2>10, <3>2
    <3>5. Mended' => Mended
      BY <3>1 DEF Mended
    <3>6. \A v \in Windows : Mended /\ win'[v].open => win'[v].at \in Shore
      BY <2>10, <3>2
    <3>7. QED
      BY <2>10, <3>1, <3>3, <3>4, <3>5, <3>6
  <2>11. CASE Use
    <3>1. phase' = phase /\ phase \notin {"ended", "gone", "taskbar", "sticky"}
      BY <2>11 DEF Use, Ends
    <3>2. QED
      BY <2>1, <2>10, <2>11, <3>1
  <2>12. CASE Wave
    <3>1. phase' = phase /\ phase \in {"repair", "home", "taskbar"} /\ coming > 0 /\ UNCHANGED failed
      BY <2>12 DEF Wave, deskHistory
    <3>2. phase = "taskbar" => failed'
      BY <3>1
    <3>3. QED
      BY <2>1, <2>5, <2>12, <3>1, <3>2
  <2>13. CASE \/ Record \/ Arrange \/ PlaceOnCentre \/ DetachPanel \/ RepairTakeover
              \/ Workspace \/ Track \/ SetBar \/ BeginRestore \/ Again
    <3>1. phase' \in {"recorded", "aside", "placed", "repair", "session", "restore", "idle"}
      BY <2>13, Zenon DEF Record, Arrange, PlaceOnCentre, DetachPanel, RepairTakeover,
         Workspace, Track, SetBar, BeginRestore, Again
    <3>2. QED
      BY <2>1, <3>1
  <2>14. CASE Reapply \/ Flip \/ Reassert
    <3>1. UNCHANGED <<phase, win, recorded, wish, quiet, coming, late, failed>>
      BY <2>14, Zenon DEF Reapply, Flip, Reassert, deskHistory, loopVars
    <3>2. QED
      BY <2>2, <3>1
  <2>15. CASE Over \/ UNCHANGED deskVars
    BY <2>2, <2>15 DEF Over, deskVars, deskHistory, loopVars
  <2>16. CASE PanelStaysAway
    <3>1. phase' = "taskbar" /\ failed'
      BY <2>16 DEF PanelStaysAway
    <3>2. QED
      BY <2>1, <3>1
  <2>17. CASE LetAlone
    <3>1. /\ phase = "sticky" /\ phase' = "ended"
          /\ UNCHANGED <<win, recorded, wish, failed, late>>
      BY <2>17, Zenon DEF LetAlone, deskHistory
    <3>2. QED
      BY <3>1 DEF Mended, Mine
  <2>18. QED
    BY <2>3, <2>4, <2>6, <2>7, <2>8, <2>9, <2>11, <2>12, <2>13, <2>14, <2>15, <2>16, <2>17,
       DeskCases
<1>3. DeskTypeOK /\ HomingInv /\ [DeskNext]_deskVars => HomingInv'
  BY <1>2
<1>4. QED
  BY <1>1, <1>3, DeskTypeCorrect, PTL DEF DeskSpec

\* Once the displays are restored a window recorded on the panel is back on it,
\* shown, and maximised if it was, wherever the takeover or the session ended and
\* whatever the user and Windows' waves did meanwhile, for any number of windows and
\* polls.
THEOREM RecordedWindowsComeHome == DeskSpec => []RecordedComeHome
<1>1. ASSUME DeskTypeOK, HomingInv PROVE RecordedComeHome
  <2> SUFFICES ASSUME DeskSettled, NEW w \in Windows,
                      recorded[w] # "no", win[w].open, w \notin wish.touched
               PROVE  win[w] = [open |-> TRUE, at |-> "origin", iconic |-> FALSE,
                                zoomed |-> recorded[w] = "zoomed"]
    BY DEF RecordedComeHome, BackHome
  <2>1. win[w] \in WindowRecord
    BY <1>1 DEF DeskTypeOK, WindowRecord
  <2>2. Mended /\ Mine(w)
    BY DEF DeskSettled, Ends, Mended, Mine
  <2>3. win[w].at = "origin" /\ win[w].zoomed = (recorded[w] = "zoomed") /\ ~win[w].iconic
    BY <1>1, <2>2 DEF HomingInv
  <2>4. win[w].open = TRUE /\ win[w].iconic = FALSE
    BY <2>1, <2>3 DEF WindowRecord
  <2>5. win[w] = [open |-> win[w].open, at |-> win[w].at, iconic |-> win[w].iconic,
                  zoomed |-> win[w].zoomed]
    BY <2>1, WindowFields
  <2>6. QED
    BY ONLY <2>3, <2>4, <2>5, Zenon
<1>2. DeskTypeOK /\ HomingInv => RecordedComeHome
  BY <1>1
<1>3. QED
  BY <1>2, DeskTypeCorrect, WindowsComeHome, PTL

\* Once the displays are restored no window is left where there is none, minimised
\* or not, and whatever late waves and failed restores stranded in earlier sessions.
THEOREM NoWindowIsStranded == DeskSpec => []NothingIsStranded
<1>1. HomingInv => NothingIsStranded
  BY DEF HomingInv, Mended, Shore, NothingIsStranded, DeskSettled, Ends
<1>2. QED
  BY <1>1, WindowsComeHome, PTL
=============================================================================
