----------------------------- MODULE PoseEstimator -----------------------------
(* The pose estimator (src/imu/pose_estimator.cpp): warmup, rest detection, the
   startup calibration of the gyro bias, its adaptation while tracking, the guarded
   escape with its rollback, and the heading lock it drives.

   One action is one call: AddSample, LoseSamples (a sample after a gap), Recenter.
   A sample is what the low-passes make of it: how far it deviates from rest and the
   rate they show on one axis, an integer.  Quaternions are left out; of the pose
   the model keeps what decides whether one is published and from which reference.
   One unit of time is one sample, and every threshold of Config is a constant.    *)
EXTENDS MagHeadingLock

CONSTANTS Worlds,        \* the settings of Config and the samples a run may meet
          Warmup,        \* warmup_s and settle_samples
          StillHold,     \* still_hold_s
          MotionHoldoff, \* motion_holdoff_s
          CalWindow,     \* calibration_window_s and bias_samples
          CalTimeout,    \* calibration_timeout_s
          BiasLimit,     \* bias_limit_degs
          RestRate,      \* rest_raw_rate_limit_degs
          MotionRate,    \* motion_raw_rate_degs
          ResidualCap,   \* adapt_residual_cap_degs
          FastStep,      \* bias_slew_degs_per_s under the fast time constant
          SlowStep,      \* the same under the slow one
          EscapeDwell,   \* adapt_escape_s
          ReturnTol,     \* escape_return_tol_degs
          ReturnDwell,   \* escape_return_dwell_s
          ExcursionMin,  \* escape_excursion_min_degs
          DriftRate,     \* drift_rate_cap_degs, when absorption is opted in
          DriftLimit     \* drift_limit_degs

ASSUME EstimatorAssumption ==
    /\ {Warmup, StillHold, MotionHoldoff, CalTimeout, BiasLimit, ResidualCap, FastStep,
        SlowStep, EscapeDwell, ReturnTol, ReturnDwell, ExcursionMin, DriftRate,
        DriftLimit, RestRate, MotionRate} \subseteq Nat
    /\ CalWindow \in Nat \ {0}
    /\ SlowStep <= FastStep
    /\ \A w \in Worlds : w.rates \subseteq Nat

VARIABLES world,         \* cfg_ as configure() leaves it, and what the sensor shows
          haveTick,      \* have_tick_
          warm,          \* warmup_samples_, time_s_
          lpf,           \* gyro_lpf_
          lpfReady,      \* rest_lpf_ready_
          restNow,       \* rest_now_
          still,         \* still_
          stillTime,     \* still_time_
          holdoff,       \* holdoff_s_
          calRun,        \* calibration_run_s_, _samples_ and calibration_sum_
          calPhase,      \* calibration_phase_s_
          biasDone,      \* bias_done_ and calibrated_, which are set together
          bias,          \* bias_degs_
          adapt,         \* adapt_state_
          escDwell,      \* escape_dwell_s_
          escOpen,       \* escape_open_
          escArmed,      \* escape_armed_
          snapshot,      \* escape_snapshot_
          retDwell,      \* escape_return_dwell_s_
          initialized,   \* initialized_
          haveRef,       \* have_ref_
          havePrev,      \* have_prev_live_
          drift,         \* drift_correction_
          fresh,         \* the last call published a pose (add_sample returned true)
          calm           \* history: the rates since the last sample that was not calm

restVars == <<lpf, lpfReady, restNow, still, stillTime, holdoff>>
calVars == <<calRun, calPhase, biasDone>>
escVars == <<escDwell, escOpen, escArmed, snapshot, retDwell>>
poseVars == <<initialized, haveRef, havePrev, drift>>
estimatorVars == <<world, haveTick, warm, restVars, calVars, bias, adapt, escVars, poseVars, fresh, calm,
          lockVars>>

\* How far the smoothed deviations of a sample are from rest: inside the
\* calibration gates, inside the rest gates, between rest and motion, in motion.
Deviation == {"calm", "quiet", "between", "motion"}

NoCalibration == [time |-> 0, rates |-> {}]
Clamp(x, lo, hi) == IF x < lo THEN lo ELSE IF x > hi THEN hi ELSE x

\* step_bias(): from b towards the target by at most step, never past it, inside the
\* band.  The gain makes the step smaller, never zero.
StepBias(b, target, step) ==
    {Clamp(x, 0, BiasLimit) :
        x \in {y \in (b - step)..(b + step) :
                 \/ y = b /\ b = target
                 \/ b < y /\ y <= target
                 \/ target <= y /\ y < b}}

EstimatorTypeOK ==
    /\ world \in Worlds
    /\ haveTick \in BOOLEAN
    /\ warm \in 0..Warmup
    /\ lpf \in world.rates \cup {0}
    /\ lpfReady \in BOOLEAN /\ restNow \in BOOLEAN /\ still \in BOOLEAN
    /\ stillTime \in 0..StillHold
    /\ holdoff \in 0..MotionHoldoff
    /\ calRun.time \in 0..CalWindow /\ calPhase \in 0..CalTimeout
    /\ biasDone \in BOOLEAN
    /\ bias \in 0..BiasLimit /\ snapshot \in 0..BiasLimit
    /\ adapt \in {"idle", "routine", "escape", "calibrating"}
    /\ escDwell \in 0..EscapeDwell /\ retDwell \in 0..ReturnDwell
    /\ escOpen \in BOOLEAN /\ escArmed \in BOOLEAN
    /\ initialized \in BOOLEAN /\ haveRef \in BOOLEAN /\ havePrev \in BOOLEAN
    /\ drift \in -DriftLimit..DriftLimit
    /\ fresh \in BOOLEAN
    /\ LockTypeOK

\* configure(), with the settings and the sensor of one world.
EstimatorInit ==
    /\ world \in Worlds
    /\ haveTick = FALSE
    /\ warm = 0
    /\ lpf = 0
    /\ lpfReady = FALSE /\ restNow = FALSE /\ still = FALSE
    /\ stillTime = 0 /\ holdoff = 0
    /\ calRun = NoCalibration /\ calPhase = 0 /\ biasDone = FALSE
    /\ bias = 0
    /\ adapt = "calibrating"
    /\ escDwell = 0 /\ escOpen = FALSE /\ escArmed = FALSE /\ snapshot = 0 /\ retDwell = 0
    /\ initialized = FALSE /\ haveRef = FALSE /\ havePrev = FALSE /\ drift = 0
    /\ fresh = FALSE
    /\ calm = NoCalibration
    /\ LockInit

-------------------------------------------------------------------------------
\* The rest detector.

QuietSample(dev, rate) ==
    /\ dev \in {"calm", "quiet"}
    /\ biasDone => rate < RestRate
Motion(dev, rate) == dev = "motion" \/ (biasDone /\ rate > MotionRate)

\* update_rest_detector(): the first sample seeds the low-passes and counts as rest.
UpdateRestDetector(dev, rate) ==
    /\ lpf' = rate
    /\ IF ~lpfReady
       THEN /\ lpfReady' = TRUE
            /\ restNow' = TRUE
            /\ stillTime' = 0
            /\ still' = (StillHold = 0)
            /\ holdoff' = 0
       ELSE /\ restNow' = QuietSample(dev, rate)
            /\ UNCHANGED lpfReady
            /\ IF Motion(dev, rate)
               THEN /\ stillTime' = 0
                    /\ still' = FALSE
                    /\ holdoff' = MotionHoldoff
               ELSE /\ stillTime' = IF QuietSample(dev, rate) THEN CapAt(stillTime + 1, StillHold)
                                    ELSE stillTime
                    /\ still' = (still \/ (QuietSample(dev, rate) /\ stillTime + 1 >= StillHold))
                    /\ holdoff' = IF holdoff > 0 THEN holdoff - 1 ELSE 0

\* Rest that adaptation may use, as the detector leaves it after this sample.
RestEligible == still' /\ restNow' /\ holdoff' = 0

-------------------------------------------------------------------------------
\* Startup calibration.

\* finish_calibration(): the mean of the window becomes the bias and the fusion
\* restarts from a clean state.
FinishCalibration(run) ==
    /\ bias' \in {Clamp(b, 0, BiasLimit) :
                    b \in {m \in 0..MotionRate + BiasLimit :
                             \E lo, hi \in run.rates : lo <= m /\ m <= hi}}
    /\ biasDone' = TRUE
    /\ calRun' = NoCalibration
    /\ Reset
    /\ haveTick' = FALSE
    /\ initialized' = FALSE /\ haveRef' = FALSE /\ havePrev' = FALSE /\ drift' = 0
    /\ escDwell' = 0 /\ escOpen' = FALSE /\ escArmed' = FALSE /\ retDwell' = 0
    /\ adapt' = "idle"
    /\ UNCHANGED <<snapshot, calPhase>>

\* Fragments separated by movement are averaged together.
CalibrationRunStitchedMutant(dev, rate) ==
    IF RestEligible /\ dev = "calm"
    THEN [time |-> CapAt(calRun.time + 1, CalWindow), rates |-> calRun.rates \cup {rate}]
    ELSE calRun

\* The calibrating part of add_sample(): one contiguous window of calm rest, or the
\* run is thrown away.  The timeout only restarts the diagnostic epoch.
CalibrationRun(dev, rate) ==
    IF RestEligible /\ dev = "calm"
    THEN [time |-> CapAt(calRun.time + 1, CalWindow), rates |-> calRun.rates \cup {rate}]
    ELSE NoCalibration

Calibrate(dev, rate) ==
    LET run == CalibrationRun(dev, rate) IN
    /\ fresh' = FALSE
    /\ IF run.time = CalWindow
       THEN FinishCalibration(run)
       ELSE /\ calRun' = run
            /\ calPhase' = IF calPhase + 1 >= CalTimeout THEN 0 ELSE calPhase + 1
            /\ adapt' = "calibrating"
            /\ haveTick' = TRUE
            /\ UNCHANGED <<biasDone, bias, escVars, poseVars, lockVars>>

-------------------------------------------------------------------------------
\* Adaptation of the bias while tracking.

Escape == [bias |-> bias, dwell |-> escDwell, open |-> escOpen, armed |-> escArmed,
           ret |-> retDwell]

\* The guarded rollback, looked at before this sample adapts anything: a rate that
\* stays in the band of the snapshot for ReturnDwell restores the snapshot.
AfterRollback(rate) ==
    IF ~(escOpen /\ escArmed) THEN Escape
    ELSE IF ~RestEligible \/ Distance(rate, snapshot) > ReturnTol
         THEN [Escape EXCEPT !.ret = 0]
    ELSE IF retDwell + 1 < ReturnDwell THEN [Escape EXCEPT !.ret = retDwell + 1]
    ELSE [bias |-> snapshot, dwell |-> 0, open |-> FALSE, armed |-> FALSE, ret |-> 0]

\* The routine update also runs during an armed excursion.
RoutineUnwindsMutant(rate, e) ==
    /\ RestEligible
    /\ Distance(rate, bias) <= ResidualCap

\* The residual is taken from the bias as it was before a rollback.
Routine(rate, e) ==
    /\ RestEligible
    /\ Distance(rate, bias) <= ResidualCap
    /\ ~(e.open /\ e.armed)

RoutineUpdate(rate, e) ==
    /\ adapt' = "routine"
    /\ bias' \in StepBias(e.bias, rate, FastStep)
    /\ escDwell' = 0 /\ escOpen' = FALSE /\ escArmed' = FALSE /\ retDwell' = 0
    /\ UNCHANGED snapshot

\* Rest the routine update does not explain: recovery time adds up, and once there
\* is enough of it the escape follows the rate slowly.
EscapeUpdate(rate, e) ==
    /\ escDwell' = CapAt(e.dwell + 1, EscapeDwell)
    /\ IF escDwell' = EscapeDwell
       THEN /\ adapt' = "escape"
            /\ escOpen' = TRUE
            /\ snapshot' = IF e.open THEN snapshot ELSE e.bias
            /\ retDwell' = IF e.open THEN e.ret ELSE 0
            /\ escArmed' = ((e.open /\ e.armed) \/ Distance(e.bias, snapshot') > ExcursionMin)
            /\ bias' \in StepBias(e.bias, rate, SlowStep)
       ELSE /\ adapt' = "idle"
            /\ bias' = e.bias
            /\ escOpen' = e.open /\ escArmed' = e.armed /\ retDwell' = e.ret
            /\ UNCHANGED snapshot

\* Movement throws the recovery time away.
HoldBiasForgetsMutant(e) ==
    /\ adapt' = "idle"
    /\ bias' = e.bias
    /\ escDwell' = 0 /\ escOpen' = e.open /\ escArmed' = e.armed /\ retDwell' = e.ret
    /\ UNCHANGED snapshot

HoldBias(e) ==
    /\ adapt' = "idle"
    /\ bias' = e.bias
    /\ escDwell' = e.dwell /\ escOpen' = e.open /\ escArmed' = e.armed /\ retDwell' = e.ret
    /\ UNCHANGED snapshot

AdaptBias(rate) ==
    LET e == AfterRollback(rate) IN
    CASE Routine(rate, e) -> RoutineUpdate(rate, e)
      [] RestEligible /\ ~Routine(rate, e) -> EscapeUpdate(rate, e)
      [] ~RestEligible -> HoldBias(e)

-------------------------------------------------------------------------------
\* The pose path: every sample is integrated and published.

\* Drift absorption, which Config opts in: at rest a slow increment goes into the
\* correction, which leaks back to zero and is clamped.
Absorbed(rate) ==
    IF world.absorb /\ initialized /\ havePrev /\ rate < DriftRate
    THEN drift + rate - bias' ELSE drift

Leaked(d) == {d, IF d > 0 THEN d - 1 ELSE IF d < 0 THEN d + 1 ELSE 0}

PublishPose(rate) ==
    /\ initialized' = TRUE
    /\ haveRef' = TRUE
    /\ havePrev' = TRUE
    /\ IF RestEligible
       THEN drift' \in {Clamp(d, -DriftLimit, DriftLimit) : d \in Leaked(Absorbed(rate))}
       ELSE UNCHANGED drift
    /\ fresh' = TRUE

Track(rate) ==
    /\ AdaptBias(rate)
    /\ PublishPose(rate)
    /\ haveTick' = TRUE
    /\ IF world.mag THEN \E usable \in BOOLEAN : Update(usable) ELSE UNCHANGED lockVars
    /\ UNCHANGED calVars

-------------------------------------------------------------------------------
\* add_sample() on a sample that follows the one before it.

\* The first samples after the stream came on only warm the sensor up.
WarmUp ==
    /\ warm + 1 < Warmup
    /\ warm' = warm + 1
    /\ haveTick' = TRUE
    /\ fresh' = FALSE
    /\ UNCHANGED <<world, restVars, calVars, bias, adapt, escVars, poseVars, calm, lockVars>>

AddSample(dev, rate) ==
    /\ warm + 1 >= Warmup
    /\ lpfReady \/ dev = "calm"      \* the seeded low-passes deviate from nothing
    /\ warm' = Warmup
    /\ UpdateRestDetector(dev, rate)
    /\ IF biasDone THEN Track(rate) ELSE Calibrate(dev, rate)
    /\ calm' = IF biasDone \/ dev # "calm" THEN NoCalibration
               ELSE [time |-> CapAt(calm.time + 1, CalWindow), rates |-> calm.rates \cup {rate}]
    /\ UNCHANGED world

\* add_sample() on a sample after a gap: it is skipped, and whatever the missing
\* interval may have broken begins again.
LoseSamples ==
    /\ haveTick
    /\ calRun' = NoCalibration
    /\ lpf' \in world.rates
    /\ lpfReady' = TRUE
    /\ restNow' = FALSE /\ still' = FALSE /\ stillTime' = 0
    /\ holdoff' = MotionHoldoff
    /\ retDwell' = 0
    /\ havePrev' = FALSE
    /\ fresh' = FALSE
    /\ calm' = NoCalibration
    /\ UNCHANGED <<world, haveTick, warm, calPhase, biasDone, bias, adapt, escDwell, escOpen,
                   escArmed, snapshot, initialized, haveRef, drift, lockVars>>

\* recenter(): the live orientation becomes the reference.
Recenter ==
    /\ haveRef' = TRUE
    /\ drift' = 0
    /\ havePrev' = FALSE
    /\ UNCHANGED <<world, haveTick, warm, restVars, calVars, bias, adapt, escVars, initialized,
                   fresh, calm, lockVars>>

Sample == WarmUp \/ \E dev \in world.deviations, rate \in world.rates : AddSample(dev, rate)
EstimatorNext == Sample \/ LoseSamples \/ Recenter

EstimatorSpec == EstimatorInit /\ [][EstimatorNext]_estimatorVars

\* The glasses stream: samples keep coming while the thread reads them.
EstimatorFairSpec == EstimatorSpec /\ WF_estimatorVars(Sample)

-------------------------------------------------------------------------------
\* Properties.

\* Tracking opens on one contiguous window: the samples that gave the bias followed
\* each other calmly, without a gap or a movement among them, and the bias lies
\* between their rates (add_sample, finish_calibration).
OneWindowGaveTheBias ==
    [][~biasDone /\ biasDone' =>
          /\ calm'.time >= CalWindow
          /\ \E lo, hi \in calm'.rates :
                Clamp(lo, 0, BiasLimit) <= bias' /\ bias' <= Clamp(hi, 0, BiasLimit)]_estimatorVars

\* Nothing unwinds an armed excursion quickly: until it ends the bias only creeps, and
\* it ends by going back exactly to the bias it left (add_sample's guarded rollback).
ExcursionCreepsOrIsUndone ==
    [][escOpen /\ escArmed =>
          \/ escOpen' /\ escArmed' /\ Distance(bias, bias') <= SlowStep /\ snapshot' = snapshot
          \/ ~escArmed' /\ Distance(bias', snapshot) <= ReturnTol]_estimatorVars

\* A wearer who comes to rest again and again cannot lock a stale bias out, however
\* short each rest and however often samples are lost (escape_dwell_s_).
StaleBiasIsRecovered ==
    []<>(biasDone /\ still /\ restNow /\ holdoff = 0) => []<>(adapt \in {"routine", "escape"})

\* The heading lock gives its reference up only for a field that has really stayed
\* the same: a moving magnet is not taken for a new room (MagHeadingLock::update).
ReacquiresOnlySteadyFields ==
    [][lock = "disturbed" /\ lock' = "acquiring" =>
          \E f \in Field : \A g \in Field :
             Distance(g, f) > FieldStable => unseen'[g] >= ReacquireS - MaxStall]_estimatorVars

\* A field that stays different is taken as the new reference in the end, however
\* often the readings in between cannot be used (reacquire_s).
UsableReading == world.mag /\ biasDone /\ \E f \in Field : FreshReading(f, TRUE)
StaysAt(f) == \A g \in Field \ {f} : unseen[g] = ReacquireS
ANewFieldIsReacquired ==
    ([]<><<UsableReading>>_estimatorVars /\ \E f \in Field : <>[]StaysAt(f)) => []<>(lock # "disturbed")

\* PROTOCOL-NOTES.md on an armed escape: "only the rollback or the escape's own
\* convergence ends it".  Once the bias has converged onto the rate, one more rest
\* sample of that rate finds the excursion over (add_sample).
ConvergenceEndsTheEscape ==
    [][escArmed /\ bias = lpf /\ fresh' /\ still' /\ restNow' /\ holdoff' = 0 /\ lpf' = lpf
          => ~escArmed']_estimatorVars
===============================================================================
