------------------------------- MODULE ImuSource -------------------------------
(***************************************************************************)
(* The IMU thread and the pose it shares (imu/imu_source.{h,cpp}).         *)
(*                                                                         *)
(* ImuSource::run opens the glasses, starts the sample stream, feeds a     *)
(* fresh PoseEstimator and publishes each pose through four atomics        *)
(* guarded by a sequence counter; orientation() copies them without a      *)
(* lock.  The component stores and loads are relaxed: their order among    *)
(* themselves is left open.  A pose is represented by its number in        *)
(* publication order, which each of its components carries.                *)
(***************************************************************************)
EXTENDS Naturals

CONSTANTS
  Reader,     \* threads that call orientation()
  Comp,       \* components of the quaternion
  MaxPose     \* bound on published poses

ASSUME ImuAssumption == MaxPose \in Nat

VARIABLES
  owner,      \* the object's owner: "new", "started", "joining" or "stopped"
  running,    \* running_
  pc,         \* where ImuSource::run is
  seq,        \* pose_sequence_
  comp,       \* qw_, qx_, qy_, qz_
  hasPose,    \* has_pose_
  request,    \* recenter_request_
  open,       \* the estimator of this connection finished its calibration
  ref,        \* number of the pose whose orientation the estimator's reference is
  flowing,    \* the glasses send reports although the stream was switched off
  wtodo,      \* components the publication has yet to store
  pub,        \* history: publications completed
  asked,      \* history: {the number of the live pose} at one call of recenter(), any of them
  rpc,        \* where each reader is in orientation()
  before,     \* the sequence each reader loaded first
  rtodo,      \* components each reader has yet to load
  got,        \* components each reader loaded
  out         \* what each reader's latest call returned

seqlock == <<seq, comp, wtodo, pub>>
readers == <<rpc, before, rtodo, got, out>>
recentring == <<request, asked, ref>>
vars == <<owner, running, pc, hasPose, open, flowing, seqlock, recentring, readers>>

\* The producer's places inside the per-sample loop of one connection.
Streaming == {"loop", "read", "begin", "store", "end", "mark"}
\* The pose that is fused and on its way out, or the latest one.
Live == IF pc \in {"begin", "store"} THEN pub + 1 ELSE pub
ProducerPC == {"off", "init", "check", "device", "drain", "stream", "close", "failed"} \cup Streaming

TypeOK ==
  /\ owner \in {"new", "started", "joining", "stopped"} /\ running \in BOOLEAN
  /\ pc \in ProducerPC /\ hasPose \in BOOLEAN /\ open \in BOOLEAN
  /\ seq \in Nat /\ comp \in [Comp -> Nat] /\ wtodo \subseteq Comp /\ pub \in 0 .. MaxPose
  /\ request \in BOOLEAN /\ asked \subseteq 0 .. MaxPose /\ ref \in 0 .. MaxPose
  /\ flowing \in BOOLEAN
  /\ rpc \in [Reader -> {"idle", "first", "copy"}] /\ before \in [Reader -> Nat]
  /\ rtodo \in [Reader -> SUBSET Comp]
  /\ got \in [Reader -> [Comp -> Nat]] /\ out \in [Reader -> [Comp -> Nat]]

Init ==
  /\ owner = "new" /\ running = FALSE /\ pc = "off" /\ hasPose = FALSE /\ open = FALSE
  /\ seq = 0 /\ comp = [c \in Comp |-> 0] /\ wtodo = {} /\ pub = 0
  /\ request = FALSE /\ asked = {} /\ ref = 0 /\ flowing = FALSE
  /\ rpc = [r \in Reader |-> "idle"] /\ before = [r \in Reader |-> 0]
  /\ rtodo = [r \in Reader |-> {}]
  /\ got = [r \in Reader |-> [c \in Comp |-> 0]]
  /\ out = [r \in Reader |-> [c \in Comp |-> 0]]

(***************************************************************************)
(* The owner of the object (the engine's main thread).                     *)
(***************************************************************************)

Start ==
  /\ owner = "new"
  /\ owner' = "started" /\ running' = TRUE /\ pc' = "init"
  /\ UNCHANGED <<hasPose, open, flowing, seqlock, recentring, readers>>

\* recenter(): any number of calls before the thread looks are one request.
Recenter ==
  /\ owner = "started"
  /\ request' = TRUE /\ asked' \in {asked, {Live}}
  /\ UNCHANGED <<owner, running, pc, hasPose, open, flowing, seqlock, ref, readers>>

Stop ==
  /\ owner = "started"
  /\ owner' = "joining" /\ running' = FALSE
  /\ UNCHANGED <<pc, hasPose, open, flowing, seqlock, recentring, readers>>

\* thread_.join() returns once run() has.
Join ==
  /\ owner = "joining" /\ pc \in {"off", "failed"}
  /\ owner' = "stopped"
  /\ UNCHANGED <<running, pc, hasPose, open, flowing, seqlock, recentring, readers>>

(***************************************************************************)
(* ImuSource::run.                                                         *)
(***************************************************************************)

\* hid_init; its failure ends the thread with running_ still true.
HidInit ==
  /\ pc = "init"
  /\ pc' \in {"check", "failed"}
  /\ UNCHANGED <<owner, running, hasPose, open, flowing, seqlock, recentring, readers>>

\* while (running_), else hid_exit and return.
CheckRunning ==
  /\ pc = "check"
  /\ pc' = IF running THEN "device" ELSE "off"
  /\ UNCHANGED <<owner, running, hasPose, open, flowing, seqlock, recentring, readers>>

\* open_first, then kCmdStreamOff, whose result nobody looks at: the glasses may
\* go on sending.  No device means no pose; wait up to two seconds.
OpenDevice ==
  /\ pc = "device"
  /\ \/ /\ pc' = "drain" /\ flowing' \in BOOLEAN
        /\ UNCHANGED hasPose
     \/ /\ pc' = "check" /\ hasPose' = FALSE
        /\ UNCHANGED flowing
  /\ UNCHANGED <<owner, running, open, seqlock, recentring, readers>>

\* The drain loop reads until ten milliseconds bring nothing; it does not look at
\* running_.
Drain ==
  /\ pc = "drain" /\ ~flowing
  /\ pc' = "stream"
  /\ UNCHANGED <<owner, running, hasPose, open, flowing, seqlock, recentring, readers>>

\* The glasses fall silent, or are unplugged.
Silence ==
  /\ flowing /\ flowing' = FALSE
  /\ UNCHANGED <<owner, running, pc, hasPose, open, seqlock, recentring, readers>>

\* kCmdStreamOn: acknowledged, a fresh estimator starts to calibrate; or retry.
StartStream ==
  /\ pc = "stream"
  /\ hasPose' = FALSE
  /\ \/ pc' = "loop" /\ open' = FALSE /\ ref' = 0
     \/ pc' = "check" /\ UNCHANGED <<open, ref>>
  /\ UNCHANGED <<owner, running, flowing, seqlock, request, asked, readers>>

\* The top of the sample loop: running_, then recenter_request_.exchange(false) and
\* PoseEstimator::recenter, which makes the live orientation the reference.  Before
\* the first pose that is the identity, and the first pose replaces it.
LoopTop ==
  /\ pc = "loop"
  /\ IF ~running
     THEN pc' = "close" /\ UNCHANGED <<request, ref>>
     ELSE /\ pc' = "read"
          /\ request' = FALSE
          /\ ref' = IF request /\ open THEN Live ELSE ref
  /\ UNCHANGED <<owner, running, hasPose, open, flowing, asked, seqlock, readers>>

\* Mutant: a stream that timed out leaves has_pose_ alone.
LoseStreamMutant ==
  /\ pc = "read"
  /\ pc' = "close"
  /\ UNCHANGED <<owner, running, hasPose, open, flowing, seqlock, recentring, readers>>

\* read_report fails, or two seconds pass without an IMU report.
LoseStream ==
  /\ pc = "read"
  /\ pc' = "close" /\ hasPose' = FALSE
  /\ UNCHANGED <<owner, running, open, flowing, seqlock, recentring, readers>>

\* No report, another kind of report, or a sample that yields no pose (invalid,
\* after a gap, warming up, calibrating).
SampleWithoutPose ==
  /\ pc = "read"
  /\ pc' = "loop"
  /\ UNCHANGED <<owner, running, hasPose, open, flowing, seqlock, recentring, readers>>

\* add_sample yields a pose.  The first of a connection takes its reference now.
SampleWithPose ==
  /\ pc = "read" /\ pub < MaxPose
  /\ pc' = "begin" /\ open' = TRUE
  /\ ref' = IF open THEN ref ELSE pub + 1
  /\ UNCHANGED <<owner, running, hasPose, flowing, request, asked, seqlock, readers>>

\* First fetch_add: readers must wait.
BeginPublish ==
  /\ pc = "begin"
  /\ pc' = "store" /\ seq' = seq + 1 /\ wtodo' = Comp
  /\ UNCHANGED <<owner, running, hasPose, open, flowing, comp, pub, recentring, readers>>

StoreComponent(c) ==
  /\ pc = "store" /\ c \in wtodo
  /\ comp' = [comp EXCEPT ![c] = pub + 1]
  /\ wtodo' = wtodo \ {c}
  /\ UNCHANGED <<owner, running, pc, hasPose, open, flowing, seq, pub, recentring, readers>>

\* Mutant: a publication that meets stop() is left half done.
EndPublishMutant ==
  /\ pc = "store" /\ wtodo = {}
  /\ IF running
     THEN pc' = "mark" /\ seq' = seq + 1 /\ pub' = pub + 1
     ELSE pc' = "close" /\ UNCHANGED <<seq, pub>>
  /\ UNCHANGED <<owner, running, hasPose, open, flowing, comp, wtodo, recentring, readers>>

\* Second fetch_add: the pose is published.
EndPublish ==
  /\ pc = "store" /\ wtodo = {}
  /\ pc' = "mark" /\ seq' = seq + 1 /\ pub' = pub + 1
  /\ UNCHANGED <<owner, running, hasPose, open, flowing, comp, wtodo, recentring, readers>>

\* Mutant: the request is cleared when the sample is done with, not when it is taken.
MarkPoseMutant ==
  /\ pc = "mark"
  /\ pc' = "loop" /\ hasPose' = TRUE /\ request' = FALSE
  /\ UNCHANGED <<owner, running, open, flowing, seqlock, asked, ref, readers>>

MarkPose ==
  /\ pc = "mark"
  /\ pc' = "loop" /\ hasPose' = TRUE
  /\ UNCHANGED <<owner, running, open, flowing, seqlock, recentring, readers>>

\* fclose, kCmdStreamOff, and the estimator and the device go out of scope.
CloseDevice ==
  /\ pc = "close"
  /\ pc' = "check" /\ open' = FALSE
  /\ UNCHANGED <<owner, running, hasPose, flowing, seqlock, recentring, readers>>

Run ==
  \/ HidInit \/ CheckRunning \/ OpenDevice \/ Drain \/ StartStream \/ LoopTop \/ LoseStream
  \/ SampleWithoutPose \/ SampleWithPose \/ BeginPublish
  \/ (\E c \in Comp : StoreComponent(c)) \/ EndPublish \/ MarkPose \/ CloseDevice

(***************************************************************************)
(* orientation(), by any thread.                                           *)
(***************************************************************************)
producer == <<owner, running, pc, hasPose, open, flowing, seqlock, recentring>>

CallOrientation(r) ==
  /\ rpc[r] = "idle"
  /\ rpc' = [rpc EXCEPT ![r] = "first"]
  /\ UNCHANGED <<producer, before, rtodo, got, out>>

\* The first load; an odd sequence is a publication under way: yield and retry.
LoadBefore(r) ==
  /\ rpc[r] = "first" /\ seq % 2 = 0
  /\ rpc' = [rpc EXCEPT ![r] = "copy"]
  /\ before' = [before EXCEPT ![r] = seq]
  /\ rtodo' = [rtodo EXCEPT ![r] = Comp]
  /\ UNCHANGED <<producer, got, out>>

LoadComponent(r, c) ==
  /\ rpc[r] = "copy" /\ c \in rtodo[r]
  /\ got' = [got EXCEPT ![r][c] = comp[c]]
  /\ rtodo' = [rtodo EXCEPT ![r] = @ \ {c}]
  /\ UNCHANGED <<producer, rpc, before, out>>

\* Mutant: the copy is returned whatever the sequence says now.
LoadAfterMutant(r) ==
  /\ rpc[r] = "copy" /\ rtodo[r] = {}
  /\ rpc' = [rpc EXCEPT ![r] = "idle"]
  /\ out' = [out EXCEPT ![r] = got[r]]
  /\ UNCHANGED <<producer, before, rtodo, got>>

\* The second load: the copy counts only if the sequence did not move.
LoadAfter(r) ==
  /\ rpc[r] = "copy" /\ rtodo[r] = {}
  /\ IF seq = before[r]
     THEN /\ rpc' = [rpc EXCEPT ![r] = "idle"]
          /\ out' = [out EXCEPT ![r] = got[r]]
     ELSE rpc' = [rpc EXCEPT ![r] = "first"] /\ UNCHANGED out
  /\ UNCHANGED <<producer, before, rtodo, got>>

ReadStep(r) == LoadBefore(r) \/ (\E c \in Comp : LoadComponent(r, c)) \/ LoadAfter(r)

Next ==
  \/ Start \/ Recenter \/ Stop \/ Join
  \/ Run \/ Silence
  \/ \E r \in Reader : CallOrientation(r) \/ ReadStep(r)

Spec == Init /\ [][Next]_vars

\* The thread, every reader inside a call and the join are scheduled.
FairSpec ==
  /\ Spec
  /\ WF_vars(Run) /\ WF_vars(Join)
  /\ \A r \in Reader : WF_vars(ReadStep(r))

-------------------------------------------------------------------------------
(***************************************************************************)
(* Properties.                                                             *)
(***************************************************************************)

\* orientation() behaves as one atomic read of an atomically written pose: the
\* publication takes effect at the second fetch_add, the read at the second
\* load.  No torn pose, none older than the call, none going back in time.
Register == INSTANCE PoseRegister WITH reg <- pub
AtomicPose == Register!Spec

\* While the source runs, has_pose_ is true only on an open connection whose
\* estimator has been calibrated: every way to lose the stream takes it back.
HasPoseIsLive == hasPose /\ running => pc \in Streaming /\ open /\ pub > 0

\* A recenter() is honoured at once, whether it comes while the thread waits for
\* the glasses, calibrates or is in the middle of a sample: one pose at most is
\* still drawn against the old reference; from the second pose after the call the
\* reference is an orientation the head had at the call or later.
RecenterHonoured == open => \A n \in asked : Live >= n + 2 => ref >= n

\* Nobody waits for the source for ever.  A reader waits only for a publication
\* under way: wherever the thread ends or waits for the glasses the sequence is
\* even, so orientation() gets through.  And stop() returns: the thread sees
\* running_ from every wait and retry but the drain loop, where it stays, and
\* stop() with it, for as long as the glasses ignore kCmdStreamOff.
CallersReturn ==
  /\ \A r \in Reader : pc \notin Streaming /\ rpc[r] # "idle" ~> rpc[r] = "idle" \/ pc \in Streaming
  /\ (owner = "joining" ~> owner = "stopped") \/ <>[](pc = "drain" /\ flowing)

\* Expected and not so: stop() always returns.
StopReturns == owner = "joining" ~> owner = "stopped"
===============================================================================
