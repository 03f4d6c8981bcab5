---------------------------- MODULE MagHeadingLock ----------------------------
(* The magnetometer heading lock of the pose estimator (src/imu/mag_heading.cpp):
   the state machine that decides when the measured field may correct the yaw.

   The field in the earth frame (magnitude, dip and heading) is one integer, so a
   gate is a distance.  How large a correction is is left out: the properties only
   tell whether one is applied.  One unit of time is one inertial sample.          *)
EXTENDS Integers, FiniteSets

CONSTANTS Field,        \* the fields a reading may show
          AcquireS,     \* Config::acquire_s
          ReacquireS,   \* Config::reacquire_s
          FieldGate,    \* field_tolerance, dip_tolerance_deg, max_plausible_error_deg
          FieldStable,  \* the tighter gates inside which a rejected field is steady
          MaxStall      \* bound: samples from one magnetometer reading to the next

ASSUME LockAssumption ==
    /\ Field \subseteq Nat
    /\ {AcquireS, ReacquireS, MaxStall} \subseteq Nat \ {0}
    /\ {FieldGate, FieldStable} \subseteq Nat
    /\ MaxStall < ReacquireS

VARIABLES lock,        \* state_
          acq,         \* acq_time_s_ and the readings acq_hx_, acq_field_... average
          reference,   \* ref_heading_rad_, ref_field_ut_, ref_dip_deg_
          haveError,   \* have_error_: while locked, update() corrects the yaw by it
          rejected,    \* rejected_s_ and rej_field_, rej_dip_, rej_heading_
          sinceFresh,  \* since_fresh_s_
          unseen       \* history: for how long no usable reading showed each field

lockVars == <<lock, acq, reference, haveError, rejected, sinceFresh, unseen>>

Distance(a, b) == IF a < b THEN b - a ELSE a - b
CapAt(n, limit) == IF n > limit THEN limit ELSE n

NoAcquisition == [time |-> 0, span |-> {}]
NoRejection == [time |-> 0, field |-> 0]

\* The mean of the readings of a span lies somewhere inside it.
MeanOf(span) == {m \in Field : \E lo, hi \in span : lo <= m /\ m <= hi}

LockTypeOK ==
    /\ lock \in {"acquiring", "locked", "disturbed"}
    /\ acq \in [time : 0..AcquireS, span : SUBSET Field]
    /\ reference \in Field \cup {0}
    /\ haveError \in BOOLEAN
    /\ rejected \in [time : 0..ReacquireS, field : Field \cup {0}]
    /\ sinceFresh \in 0..MaxStall
    /\ unseen \in [Field -> 0..ReacquireS]

LockInit ==
    /\ lock = "acquiring"
    /\ acq = NoAcquisition
    /\ reference = 0
    /\ haveError = FALSE
    /\ rejected = NoRejection
    /\ sinceFresh = 0
    /\ unseen = [f \in Field |-> ReacquireS]

\* reset(): the lock starts over without a reference.
Reset ==
    /\ lock' = "acquiring"
    /\ acq' = NoAcquisition
    /\ reference' = 0
    /\ haveError' = FALSE
    /\ rejected' = NoRejection
    /\ sinceFresh' = 0
    /\ UNCHANGED unseen

-------------------------------------------------------------------------------
\* update(), by what a reading does to the state.  elapsed is the time since the
\* reading before it, which the code books on this one.

\* Acquiring: usable readings are averaged until they fill the window.
Acquire(f, elapsed) ==
    LET time == CapAt(acq.time + elapsed, AcquireS)
        span == acq.span \cup {f}
    IN  IF time = AcquireS
        THEN /\ lock' = "locked"
             /\ acq' = NoAcquisition
             /\ reference' \in MeanOf(span)
             /\ rejected' = NoRejection
             /\ UNCHANGED haveError
        ELSE /\ acq' = [time |-> time, span |-> span]
             /\ UNCHANGED <<lock, reference, rejected, haveError>>

\* Locked or disturbed, and the field is the one of the reference: the error is
\* measured, and the reference follows the field slowly.
Accept(f) ==
    /\ lock' = "locked"
    /\ haveError' = TRUE
    /\ rejected' = NoRejection
    /\ reference' \in MeanOf({reference, f})
    /\ UNCHANGED acq

\* The field is another one: hold the loop, and take it as the new reference once
\* it has been steady for ReacquireS.  A reading too far from the one the stability
\* window began with begins the window again.
\* The window is never begun again: a moving magnet counts as a new room.
RejectionWindowUnstableMutant(f) ==
    IF rejected.time = 0 THEN [time |-> 0, field |-> f] ELSE rejected

RejectionWindow(f) ==
    IF rejected.time = 0 \/ Distance(f, rejected.field) > FieldStable
    THEN [time |-> 0, field |-> f]
    ELSE rejected

Reject(f, elapsed) ==
    LET window == RejectionWindow(f)
        time == window.time + elapsed
    IN  /\ haveError' = FALSE
        /\ IF time >= ReacquireS
           THEN /\ lock' = "acquiring"
                /\ acq' = NoAcquisition
                /\ rejected' = NoRejection
           ELSE /\ lock' = "disturbed"
                /\ rejected' = [window EXCEPT !.time = time]
                /\ UNCHANGED acq
        /\ UNCHANGED reference

\* A reading that cannot be used begins the stability window again.
SkipRestartsMutant ==
    /\ haveError' = FALSE
    /\ rejected' = NoRejection
    /\ UNCHANGED <<lock, acq, reference>>

\* The head turns fast or the horizontal field is weak: the reading is skipped.
\* There is no error to drop while acquiring: Acquire leaves it FALSE.
Skip ==
    /\ haveError' = FALSE
    /\ UNCHANGED <<lock, acq, reference, rejected>>

FreshReading(f, usable) ==
    LET elapsed == sinceFresh + 1 IN
    /\ CASE ~usable -> Skip
         [] usable /\ lock = "acquiring" -> Acquire(f, elapsed)
         [] usable /\ lock # "acquiring" /\ Distance(f, reference) <= FieldGate -> Accept(f)
         [] usable /\ lock # "acquiring" /\ Distance(f, reference) > FieldGate ->
              Reject(f, elapsed)
    /\ sinceFresh' = 0
    /\ unseen' = [g \in Field |-> IF usable /\ g = f THEN 0 ELSE CapAt(unseen[g] + 1, ReacquireS)]

\* The magnetometer has nothing new for this sample: only time passes.
NoReading ==
    /\ sinceFresh + 1 < MaxStall
    /\ sinceFresh' = sinceFresh + 1
    /\ unseen' = [g \in Field |-> CapAt(unseen[g] + 1, ReacquireS)]
    /\ UNCHANGED <<lock, acq, reference, haveError, rejected>>

\* update(): one inertial sample, with or without a new magnetometer reading.
Update(usable) ==
    \/ \E f \in Field : FreshReading(f, usable)
    \/ NoReading
===============================================================================
