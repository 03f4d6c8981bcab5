---------------------------- MODULE ImuSourceProofs ----------------------------
(***************************************************************************)
(* The pose and the frames that are drawn from it, the two things the       *)
(* engine's threads keep fresh.  First, what holds of ImuSource for any     *)
(* number of readers, any set of pose components and any number of poses;   *)
(* then, what holds of EngineFrames for any number of screens, any rates    *)
(* and any number of errors.                                                *)
(***************************************************************************)
EXTENDS ImuSource, EngineFrames, TLAPS

\* A publication under way has room below the bound on poses.
TypeInv == TypeOK /\ (pc \in {"begin", "store"} => pub < MaxPose)

\* TypeInv holds initially and every step keeps it.
LEMMA TypeInvariant == Spec => []TypeInv
<1>1. Init => TypeInv
  <2> SUFFICES ASSUME Init PROVE TypeInv
    OBVIOUS
  <2>1. comp \in [Comp -> Nat] /\ [c \in Comp |-> 0] \in [Comp -> Nat]
    BY DEF Init
  <2>2. /\ rpc \in [Reader -> {"idle", "first", "copy"}] /\ before \in [Reader -> Nat]
        /\ rtodo \in [Reader -> SUBSET Comp]
    BY DEF Init
  <2>3. got \in [Reader -> [Comp -> Nat]] /\ out \in [Reader -> [Comp -> Nat]]
    BY <2>1 DEF Init
  <2>4. pub \in 0 .. MaxPose /\ asked \subseteq 0 .. MaxPose /\ ref \in 0 .. MaxPose
    BY ImuAssumption DEF Init
  <2>5. seq \in Nat /\ wtodo \subseteq Comp /\ pc \in ProducerPC /\ pc \notin {"begin", "store"}
    BY DEF Init, ProducerPC
  <2>6. QED
    BY <2>1, <2>2, <2>3, <2>4, <2>5 DEF Init, TypeOK, TypeInv
<1>2. TypeInv /\ [Next]_vars => TypeInv'
  <2> SUFFICES ASSUME TypeInv, [Next]_vars PROVE TypeInv'
    OBVIOUS
  <2> USE ImuAssumption DEF TypeInv, TypeOK, seqlock, recentring, readers, producer, ProducerPC, Streaming
  <2>1. CASE Start \/ Recenter \/ Stop \/ Join
    <3>1. CASE Start
      BY <3>1 DEF Start
    <3>2. CASE Recenter
      <4>1. Live \in 0 .. MaxPose
        BY DEF Live
      <4>2. QED
        BY <3>2, <4>1 DEF Recenter
    <3>3. CASE Stop \/ Join
      BY <3>3 DEF Stop, Join
    <3>4. QED
      BY <2>1, <3>1, <3>2, <3>3
  <2>2. CASE HidInit \/ CheckRunning \/ OpenDevice \/ Drain \/ Silence \/ StartStream \/ LoseStream
             \/ SampleWithoutPose \/ MarkPose \/ CloseDevice
    <3>1. CASE HidInit \/ CheckRunning \/ OpenDevice \/ Drain \/ Silence
      BY <3>1 DEF HidInit, CheckRunning, OpenDevice, Drain, Silence
    <3>2. CASE StartStream
      <4>1. 0 \in 0 .. MaxPose
        OBVIOUS
      <4>2. QED
        BY <3>2, <4>1 DEF StartStream
    <3>3. CASE LoseStream \/ SampleWithoutPose \/ MarkPose \/ CloseDevice
      BY <3>3 DEF LoseStream, SampleWithoutPose, MarkPose, CloseDevice
    <3>4. QED
      BY <2>2, <3>1, <3>2, <3>3
  <2>3. CASE LoopTop
    BY <2>3 DEF LoopTop, Live
  <2>4. CASE SampleWithPose
    BY <2>4 DEF SampleWithPose
  <2>5. CASE BeginPublish
    BY <2>5 DEF BeginPublish
  <2>6. ASSUME NEW c \in Comp, StoreComponent(c) PROVE TypeInv'
    BY <2>6 DEF StoreComponent
  <2>7. CASE EndPublish
    BY <2>7 DEF EndPublish
  <2>8. ASSUME NEW r \in Reader, CallOrientation(r) PROVE TypeInv'
    BY <2>8 DEF CallOrientation
  <2>9. ASSUME NEW r \in Reader, LoadBefore(r) PROVE TypeInv'
    BY <2>9 DEF LoadBefore
  <2>10. ASSUME NEW r \in Reader, NEW c \in Comp, LoadComponent(r, c) PROVE TypeInv'
    BY <2>10 DEF LoadComponent
  <2>11. ASSUME NEW r \in Reader, LoadAfter(r) PROVE TypeInv'
    BY <2>11 DEF LoadAfter
  <2>12. CASE UNCHANGED vars
    BY <2>12 DEF vars
  <2>13. QED
    BY <2>1, <2>2, <2>3, <2>4, <2>5, <2>6, <2>7, <2>8, <2>9, <2>10, <2>11, <2>12
       DEF Next, Run, ReadStep
<1>3. QED
  BY <1>1, <1>2, PTL DEF Spec

\* Type correctness: no interleaving of the thread, the owner and the readers
\* leaves the ranges of the shared variables.
THEOREM TypeCorrect == Spec => []TypeOK
<1>1. TypeInv => TypeOK
  BY DEF TypeInv
<1>2. QED
  BY <1>1, TypeInvariant, PTL
-------------------------------------------------------------------------------

\* Two facts about parity, all the sequence counter needs.
LEMMA Parity == \A n \in Nat : (2 * n) % 2 = 0 /\ (2 * n + 1) % 2 = 1
  OBVIOUS

\* The seqlock's invariant.  The counter is even outside a publication; then the
\* components are those of the latest pose, and what a reader copied while the
\* counter stood still is that pose as well.
SeqInv ==
  /\ owner = "new" => pc = "off"
  /\ seq = IF pc = "store" THEN 2 * pub + 1 ELSE 2 * pub
  /\ \A c \in Comp : comp[c] = IF pc = "store" /\ c \notin wtodo THEN pub + 1 ELSE pub
  /\ \A r \in Reader : rpc[r] = "copy" =>
       /\ before[r] <= seq /\ before[r] % 2 = 0
       /\ seq = before[r] => \A c \in Comp \ rtodo[r] : got[r][c] = pub

\* SeqInv holds initially and every step keeps it.
LEMMA SeqInvariant == Spec => [](TypeInv /\ SeqInv)
<1>1. Init => SeqInv
  BY DEF Init, SeqInv
<1>2. TypeInv /\ SeqInv /\ [Next]_vars => SeqInv'
  <2> SUFFICES ASSUME TypeInv, SeqInv, [Next]_vars PROVE SeqInv'
    OBVIOUS
  <2> USE DEF SeqInv, seqlock, recentring, readers, producer
  <2>1. CASE Start \/ Recenter \/ Stop \/ Join \/ Silence
    BY <2>1 DEF Start, Recenter, Stop, Join, Silence
  <2>2. CASE HidInit \/ CheckRunning \/ OpenDevice \/ Drain \/ StartStream \/ LoseStream
             \/ SampleWithoutPose \/ MarkPose \/ CloseDevice \/ LoopTop \/ SampleWithPose
    <3>1. /\ pc # "store" /\ pc' # "store" /\ pc # "off"
          /\ UNCHANGED <<owner, seqlock, readers>>
      BY <2>2 DEF HidInit, CheckRunning, OpenDevice, Drain, StartStream, LoseStream,
                  SampleWithoutPose, MarkPose, CloseDevice, LoopTop, SampleWithPose
    <3>2. QED
      BY <3>1
  <2>3. CASE BeginPublish
    <3>1. /\ pc = "begin" /\ pc' = "store" /\ wtodo' = Comp
          /\ seq = 2 * pub /\ seq' = 2 * pub + 1
          /\ UNCHANGED <<owner, comp, pub, readers>>
      BY <2>3 DEF BeginPublish
    <3>2. \A r \in Reader : rpc[r] = "copy" => before[r] <= seq' /\ seq' # before[r]
      BY <3>1, Parity DEF TypeInv, TypeOK
    <3>3. QED
      BY <3>1, <3>2
  <2>4. ASSUME NEW c \in Comp, StoreComponent(c) PROVE SeqInv'
    <3>1. /\ pc = "store" /\ pc' = "store" /\ wtodo' = wtodo \ {c}
          /\ comp' = [comp EXCEPT ![c] = pub + 1] /\ seq = 2 * pub + 1
          /\ UNCHANGED <<owner, seq, pub, readers>>
      BY <2>4 DEF StoreComponent
    <3>2. \A r \in Reader : rpc[r] = "copy" => seq # before[r]
      BY <3>1, Parity DEF TypeInv, TypeOK
    <3>3. \A d \in Comp : comp'[d] = IF d \notin wtodo' THEN pub + 1 ELSE pub
      BY <3>1 DEF TypeInv, TypeOK
    <3>4. QED
      BY <3>1, <3>2, <3>3
  <2>5. CASE EndPublish
    <3>1. /\ pc = "store" /\ pc' = "mark" /\ wtodo = {} /\ pub' = pub + 1
          /\ seq = 2 * pub + 1 /\ seq' = seq + 1
          /\ UNCHANGED <<owner, comp, readers>>
      BY <2>5 DEF EndPublish
    <3>2. seq' = 2 * pub'
      BY <3>1 DEF TypeInv, TypeOK
    <3>3. \A r \in Reader : rpc[r] = "copy" => before[r] <= seq' /\ seq' # before[r]
      BY <3>1 DEF TypeInv, TypeOK
    <3>4. QED
      BY <3>1, <3>2, <3>3
  <2>6. ASSUME NEW r \in Reader, CallOrientation(r) PROVE SeqInv'
    BY <2>6 DEF CallOrientation, TypeInv, TypeOK
  <2>7. ASSUME NEW r \in Reader, LoadBefore(r) PROVE SeqInv'
    <3>1. /\ before'[r] = seq /\ rtodo'[r] = Comp /\ seq % 2 = 0
          /\ \A q \in Reader : q # r => /\ rpc'[q] = rpc[q] /\ before'[q] = before[q]
                                        /\ rtodo'[q] = rtodo[q]
          /\ UNCHANGED <<owner, pc, seq, comp, wtodo, pub, got>>
      BY <2>7 DEF LoadBefore, TypeInv, TypeOK
    <3>2. before'[r] <= seq' /\ before'[r] % 2 = 0 /\ Comp \ rtodo'[r] = {}
      BY <3>1 DEF TypeInv, TypeOK
    <3>3. ASSUME NEW q \in Reader, rpc'[q] = "copy"
          PROVE  /\ before'[q] <= seq' /\ before'[q] % 2 = 0
                 /\ seq' = before'[q] => \A c \in Comp \ rtodo'[q] : got'[q][c] = pub'
      BY <3>1, <3>2, <3>3
    <3>4. QED
      BY <3>1, <3>3
  <2>8. ASSUME NEW r \in Reader, NEW c \in Comp, LoadComponent(r, c) PROVE SeqInv'
    <3>1. /\ rtodo' = [rtodo EXCEPT ![r] = @ \ {c}] /\ got' = [got EXCEPT ![r][c] = comp[c]]
          /\ rpc[r] = "copy"
          /\ UNCHANGED <<owner, pc, seq, comp, wtodo, pub, rpc, before>>
      BY <2>8 DEF LoadComponent
    <3>2. seq = before[r] => \A d \in Comp : comp[d] = pub
      BY <3>1, Parity DEF TypeInv, TypeOK
    <3>3. seq = before[r] => \A d \in Comp \ rtodo'[r] : got'[r][d] = pub
      BY <3>1, <3>2 DEF TypeInv, TypeOK
    <3>4. \A q \in Reader : q # r => got'[q] = got[q] /\ rtodo'[q] = rtodo[q]
      BY <3>1 DEF TypeInv, TypeOK
    <3>5. QED
      BY <3>1, <3>3, <3>4
  <2>9. ASSUME NEW r \in Reader, LoadAfter(r) PROVE SeqInv'
    BY <2>9 DEF LoadAfter, TypeInv, TypeOK
  <2>10. CASE UNCHANGED vars
    BY <2>10 DEF vars
  <2>11. QED
    BY <2>1, <2>2, <2>3, <2>4, <2>5, <2>6, <2>7, <2>8, <2>9, <2>10 DEF Next, Run, ReadStep
<1>3. QED
  BY <1>1, <1>2, TypeInvariant, PTL DEF Spec

\* The seqlock implements the atomic register: whatever the number of readers and
\* components, a returned pose is the one that is current at the second load.
THEOREM PoseIsAtomic == Spec => AtomicPose
<1>1. Init => Register!Init
  BY DEF Init, Register!Init, Register!Pose
<1>2. TypeInv /\ SeqInv /\ [Next]_vars => [Register!Next]_<<pub, out>>
  <2> SUFFICES ASSUME TypeInv, SeqInv, [Next]_vars PROVE [Register!Next]_<<pub, out>>
    OBVIOUS
  <2>1. CASE EndPublish
    BY <2>1 DEF EndPublish, readers, Register!Next, Register!Publish
  <2>2. ASSUME NEW r \in Reader, LoadAfter(r) PROVE [Register!Next]_<<pub, out>>
    <3>1. CASE seq = before[r]
      <4>1. \A c \in Comp : got[r][c] = pub
        BY <2>2, <3>1 DEF LoadAfter, SeqInv
      <4>2. got[r] = Register!Pose(pub)
        BY <4>1 DEF Register!Pose, TypeInv, TypeOK
      <4>3. Register!Read(r)
        BY <2>2, <3>1, <4>2 DEF LoadAfter, Register!Read, producer, seqlock
      <4>4. QED
        BY <4>3 DEF Register!Next
    <3>2. CASE seq # before[r]
      BY <2>2, <3>2 DEF LoadAfter, producer, seqlock
    <3>3. QED
      BY <3>1, <3>2
  <2>3. CASE ~EndPublish /\ ~\E r \in Reader : LoadAfter(r)
    <3>1. CASE Start \/ Recenter \/ Stop \/ Join \/ Silence
      BY <3>1 DEF Start, Recenter, Stop, Join, Silence, seqlock, readers
    <3>2. CASE Run
      BY <2>3, <3>2 DEF Run, HidInit, CheckRunning, OpenDevice, Drain, StartStream, LoopTop, LoseStream,
        SampleWithoutPose, SampleWithPose, BeginPublish, StoreComponent, MarkPose, CloseDevice,
        seqlock, readers
    <3>3. ASSUME NEW r \in Reader, CallOrientation(r) \/ ReadStep(r)
          PROVE  UNCHANGED <<pub, out>>
      BY <2>3, <3>3 DEF CallOrientation, ReadStep, LoadBefore, LoadComponent, producer, seqlock
    <3>4. QED
      BY <3>1, <3>2, <3>3 DEF Next, vars, seqlock, readers
  <2>4. QED
    BY <2>1, <2>2, <2>3
<1>3. QED
  BY <1>1, <1>2, SeqInvariant, PTL DEF Spec, AtomicPose, Register!Spec

\* The invariant behind the flag.
FlagInv ==
  /\ HasPoseIsLive
  /\ owner = "new" => pc = "off" /\ ~hasPose /\ ~open
  /\ pc \in Streaming \ {"loop", "read"} => open
  /\ pc = "mark" => pub > 0
  /\ open => pc \in Streaming \/ pc = "close"
  /\ open /\ pc \notin {"begin", "store"} => pub > 0

\* FlagInv holds initially and every step keeps it.
LEMMA FlagInvariant == Spec => [](TypeInv /\ FlagInv)
<1>1. Init => FlagInv
  BY DEF Init, FlagInv, HasPoseIsLive, Streaming
<1>2. TypeInv /\ FlagInv /\ [Next]_vars => FlagInv'
  <2> SUFFICES ASSUME TypeInv, FlagInv, [Next]_vars PROVE FlagInv'
    OBVIOUS
  <2> USE DEF FlagInv, HasPoseIsLive, Streaming, seqlock, recentring, readers, producer
  <2>1. CASE Start \/ Recenter \/ Stop \/ Join \/ Silence
    BY <2>1 DEF Start, Recenter, Stop, Join, Silence
  <2>2. CASE HidInit \/ CheckRunning \/ OpenDevice \/ Drain \/ StartStream \/ LoseStream
             \/ SampleWithoutPose \/ MarkPose \/ CloseDevice
    BY <2>2 DEF HidInit, CheckRunning, OpenDevice, Drain, StartStream, LoseStream,
                SampleWithoutPose, MarkPose, CloseDevice
  <2>3. CASE LoopTop
    BY <2>3 DEF LoopTop, TypeInv, TypeOK
  <2>4. CASE SampleWithPose
    BY <2>4 DEF SampleWithPose
  <2>5. CASE BeginPublish
    BY <2>5 DEF BeginPublish
  <2>6. ASSUME NEW c \in Comp, StoreComponent(c) PROVE FlagInv'
    BY <2>6 DEF StoreComponent
  <2>7. CASE EndPublish
    BY <2>7 DEF EndPublish, TypeInv, TypeOK
  <2>8. ASSUME NEW r \in Reader, CallOrientation(r) \/ ReadStep(r) PROVE FlagInv'
    BY <2>8 DEF CallOrientation, ReadStep, LoadBefore, LoadComponent, LoadAfter
  <2>9. CASE UNCHANGED vars
    BY <2>9 DEF vars
  <2>10. QED
    BY <2>1, <2>2, <2>3, <2>4, <2>5, <2>6, <2>7, <2>8, <2>9 DEF Next, Run
<1>3. QED
  BY <1>1, <1>2, TypeInvariant, PTL DEF Spec

\* has_pose_ never outlives the connection that set it, for any interleaving of the
\* thread with the owner's calls.
THEOREM FlagsAreHonest == Spec => []HasPoseIsLive
<1>1. FlagInv => HasPoseIsLive
  BY DEF FlagInv
<1>2. QED
  BY <1>1, FlagInvariant, PTL

\* The way of a request that the reference does not answer yet.  The flag still
\* carries it; the pose it was made at is the live one or, once the flag was looked
\* at and a sample read, the one before; while the thread waits for that sample it
\* is the live one.
Owed(n) == request /\ Live <= n + 1 /\ (pc = "read" => Live = n)

RefInv ==
  /\ \A n \in asked : n <= Live
  /\ ref <= Live
  /\ open => \A n \in asked : ref >= n \/ Owed(n)

\* RefInv holds initially and every step keeps it.
LEMMA RefInvariant == Spec => []RefInv
<1>1. Init => RefInv
  BY DEF Init, RefInv, Live
<1>2. TypeInv /\ FlagInv /\ RefInv /\ [Next]_vars => RefInv'
  <2> SUFFICES ASSUME TypeInv, FlagInv, RefInv, [Next]_vars PROVE RefInv'
    OBVIOUS
  <2>a. pub \in Nat /\ ref \in Nat /\ asked \subseteq Nat /\ Live \in Nat
    BY DEF TypeInv, TypeOK, Live
  <2> USE DEF RefInv, Owed, seqlock, recentring, readers, producer
  <2>1. CASE Recenter
    <3>1. Live' = Live /\ request' /\ ref' = ref /\ pc' = pc /\ open' = open
          /\ asked' \in {asked, {Live}}
      BY <2>1 DEF Recenter, Live
    <3>2. QED
      BY <2>a, <3>1
  <2>2. CASE Start \/ Stop \/ Join \/ Silence \/ MarkPose \/ SampleWithoutPose \/ BeginPublish
             \/ HidInit \/ CheckRunning \/ OpenDevice \/ Drain \/ LoseStream
    <3>1. Live' = Live /\ (pc' = pc \/ pc' # "read")
      BY <2>2 DEF Start, Stop, Join, Silence, MarkPose, SampleWithoutPose, BeginPublish,
                  HidInit, CheckRunning, OpenDevice, Drain, LoseStream, Live, FlagInv
    <3>2. UNCHANGED <<open, recentring>>
      BY <2>2 DEF Start, Stop, Join, Silence, MarkPose, SampleWithoutPose, BeginPublish,
                  HidInit, CheckRunning, OpenDevice, Drain, LoseStream
    <3>3. QED
      BY <2>a, <3>1, <3>2
  <2>3. CASE StartStream
    <3>1. Live' = Live /\ (open' => UNCHANGED recentring) /\ pc' # "read" /\ UNCHANGED asked
          /\ (open' => open) /\ ref' \in {0, ref}
      BY <2>3 DEF StartStream, Live
    <3>2. QED
      BY <2>a, <3>1
  <2>4. CASE LoopTop
    <3>1. Live' = Live /\ UNCHANGED <<open, asked>> /\ pc = "loop"
      BY <2>4 DEF LoopTop, Live
    <3>2. CASE running
      BY <2>a, <2>4, <3>1, <3>2 DEF LoopTop
    <3>3. CASE ~running
      BY <2>a, <2>4, <3>1, <3>3 DEF LoopTop
    <3>4. QED
      BY <3>2, <3>3
  <2>5. CASE SampleWithPose
    <3>1. Live = pub /\ Live' = pub + 1 /\ pc = "read" /\ pc' = "begin"
          /\ UNCHANGED <<asked, request>> /\ ref' = IF open THEN ref ELSE pub + 1
      BY <2>5 DEF SampleWithPose, Live
    <3>2. \A n \in asked : n <= pub
      BY <3>1
    <3>3. CASE open
      BY <2>a, <3>1, <3>2, <3>3
    <3>4. CASE ~open
      BY <2>a, <3>1, <3>2, <3>4
    <3>5. QED
      BY <3>3, <3>4
  <2>6. ASSUME NEW c \in Comp, StoreComponent(c) PROVE RefInv'
    <3>1. UNCHANGED <<Live, pc, open, recentring>>
      BY <2>6 DEF StoreComponent, Live
    <3>2. QED
      BY <3>1
  <2>7. CASE EndPublish
    <3>1. Live' = Live /\ pc' # "read" /\ UNCHANGED <<open, recentring>>
      BY <2>7 DEF EndPublish, Live
    <3>2. QED
      BY <3>1
  <2>8. CASE CloseDevice
    <3>1. Live' = Live /\ ~open' /\ UNCHANGED recentring
      BY <2>8 DEF CloseDevice, Live
    <3>2. QED
      BY <3>1
  <2>9. ASSUME NEW r \in Reader, CallOrientation(r) \/ ReadStep(r) PROVE RefInv'
    <3>1. UNCHANGED <<Live, pc, open, recentring>>
      BY <2>9 DEF CallOrientation, ReadStep, LoadBefore, LoadComponent, LoadAfter, Live
    <3>2. QED
      BY <3>1
  <2>10. CASE UNCHANGED vars
    <3>1. UNCHANGED <<Live, pc, open, recentring>>
      BY <2>10 DEF vars, Live
    <3>2. QED
      BY <3>1
  <2>11. QED
    BY <2>1, <2>2, <2>3, <2>4, <2>5, <2>6, <2>7, <2>8, <2>9, <2>10 DEF Next, Run
<1>3. QED
  BY <1>1, <1>2, FlagInvariant, PTL DEF Spec

\* Whenever recenter() is called, at most one pose is still drawn against a
\* reference older than the call: for any number of calls, poses and connections.
THEOREM RecentersAreHonoured == Spec => []RecenterHonoured
<1>1. TypeInv /\ RefInv => RecenterHonoured
  <2> SUFFICES ASSUME TypeInv, RefInv, open, NEW n \in asked, Live >= n + 2 PROVE ref >= n
    BY DEF RecenterHonoured
  <2>1. Live \in Nat /\ n \in Nat
    BY DEF TypeInv, TypeOK, Live
  <2>2. ref >= n \/ Live <= n + 1
    BY DEF RefInv, Owed
  <2>3. QED
    BY <2>1, <2>2
<1>2. QED
  BY <1>1, TypeInvariant, RefInvariant, PTL

--------------------------------------------------------------------------------
(* The frames of the engine's loop.                                        *)

\* The records of a capture and of an output keep their type when fields are set.
LEMMA CaptureFields ==
  ASSUME NEW c \in Capture
  PROVE  /\ c.backend \in {"dxgi", "gdi"} /\ c.have \in BOOLEAN /\ c.copy \in Contents
         /\ c.gdiCursor \in {"unknown", "hidden", "shown"}
         /\ [c EXCEPT !.duplication = FALSE, !.have = FALSE] \in Capture
         /\ \A b \in {"dxgi", "gdi"} : [c EXCEPT !.backend = b] \in Capture
         /\ \A x \in BOOLEAN, y \in Contents : [c EXCEPT !.copy = y, !.have = x] \in Capture
         /\ \A y \in Contents : [c EXCEPT !.copy = y] \in Capture
  BY DEF Capture, Contents

LEMMA OutputFields ==
  ASSUME NEW o \in Output
  PROVE  /\ NoNews(o) \in Output /\ [NoNews(o) EXCEPT !.lost = TRUE] \in Output
         /\ \A p \in BOOLEAN : Fresh(o, p) \in Output
         /\ \A x \in BOOLEAN : [o EXCEPT !.presented = x] \in Output
         /\ \A x \in BOOLEAN : [o EXCEPT !.moved = x] \in Output
         /\ \A x \in BOOLEAN : [o EXCEPT !.reshaped = x] \in Output
         /\ \A x \in BOOLEAN : [o EXCEPT !.lost = x] \in Output
         /\ \A x, y \in BOOLEAN : [o EXCEPT !.listed = x, !.lost = y] \in Output
         /\ {o.listed, o.lost, o.first, o.presented, o.moved, o.reshaped} \subseteq BOOLEAN
  BY DEF Output, NoNews, Fresh

\* What one call of create_duplication leaves of a capture over DXGI: over DXGI
\* with the copy it had, or over GDI with none and no pointer seen.
LEMMA Recreated ==
  ASSUME NEW c \in Capture, c.backend = "dxgi", NEW o \in Output,
         NEW refused \in BOOLEAN, NEW mayFail \in BOOLEAN,
         NEW r \in CreateDuplication(c, o, refused, mayFail)
  PROVE  /\ r.cap \in Capture /\ r.out \in Output /\ r.ok \in BOOLEAN
         /\ r.cap.backend = "dxgi" => r.cap.copy = c.copy
         /\ r.cap.backend = "gdi" => r.cap.copy = "none" /\ r.cap.gdiCursor = "unknown"
<1> DEFINE closed == [c EXCEPT !.duplication = FALSE, !.have = FALSE]
           base == [closed EXCEPT !.backend = "gdi"]
           gdi == {[ok |-> e.ok, cap |-> e.cap, out |-> o] : e \in EnsureGdiTexture(base, mayFail)}
           dxgi == {[ok |-> TRUE, cap |-> [closed EXCEPT !.duplication = TRUE, !.backend = "dxgi"],
                     out |-> Fresh(o, p)] : p \in BOOLEAN}
<1>1. \/ r = [ok |-> FALSE, cap |-> closed, out |-> o]
      \/ r \in gdi \/ r \in dxgi
  BY DEF CreateDuplication, If
<1>2. CASE r = [ok |-> FALSE, cap |-> closed, out |-> o]
  BY <1>2 DEF Capture
<1>3. CASE r \in gdi
  <2>1. base \in Capture
    BY DEF Capture
  <2> HIDE DEF base
  <2>2. PICK e \in EnsureGdiTexture(base, mayFail) : r = [ok |-> e.ok, cap |-> e.cap, out |-> o]
    BY <1>3
  <2> DEFINE g(x) == [base EXCEPT !.surface = x, !.copy = "none", !.gdiCursor = "unknown"]
  <2>3. PICK x \in BOOLEAN : e = [ok |-> x, cap |-> g(x)]
    BY DEF EnsureGdiTexture, If
  <2>4. g(x) \in Capture /\ g(x).copy = "none" /\ g(x).gdiCursor = "unknown" /\ g(x).backend = base.backend
    BY <2>1 DEF Capture, Contents
  <2>5. base.backend = "gdi"
    BY DEF base, Capture
  <2> HIDE DEF g
  <2>6. r.cap = g(x) /\ r.out = o /\ r.ok = x
    BY <2>2, <2>3
  <2>7. QED
    BY <2>4, <2>5, <2>6
<1>4. CASE r \in dxgi
  <2>1. /\ [closed EXCEPT !.duplication = TRUE, !.backend = "dxgi"] \in Capture
        /\ [closed EXCEPT !.duplication = TRUE, !.backend = "dxgi"].copy = c.copy
        /\ [closed EXCEPT !.duplication = TRUE, !.backend = "dxgi"].backend = "dxgi"
    BY DEF Capture
  <2> DEFINE d == [closed EXCEPT !.duplication = TRUE, !.backend = "dxgi"]
  <2>2. PICK p \in BOOLEAN : r = [ok |-> TRUE, cap |-> d, out |-> Fresh(o, p)]
    BY <1>4
  <2>3. Fresh(o, p) \in Output
    BY OutputFields
  <2> HIDE DEF d
  <2>4. r.cap = d /\ r.out = Fresh(o, p) /\ r.ok = TRUE
    BY <2>2
  <2>5. QED
    BY <2>1, <2>3, <2>4 DEF d
<1>5. QED
  BY <1>1, <1>2, <1>3, <1>4

Kinds == {"frame", "no frame", "failed", "reinitialized"}
Outcome ==
  [kind : Kinds, cap : Capture, out : Output, new : BOOLEAN, updated : BOOLEAN, masked : BOOLEAN,
   moved : BOOLEAN, visible : BOOLEAN, reshaped : BOOLEAN]

\* What a poll that brought no frame says of it: nothing.
LEMMA PolledIs ==
  \A kind \in Kinds, c \in Capture, o \in Output, isNew \in BOOLEAN :
    /\ Polled(kind, c, o, isNew) \in Outcome
    /\ Polled(kind, c, o, isNew).kind = kind /\ Polled(kind, c, o, isNew).cap = c
    /\ Polled(kind, c, o, isNew).out = o /\ Polled(kind, c, o, isNew).new = isNew
  BY DEF Polled, Outcome

\* A poll over GDI: over GDI still, and a frame of it hides the renderer's
\* pointer unless the pointer is as it was.
LEMMA GdiPolled ==
  ASSUME NEW c \in Capture, NEW o \in Output, NEW pointer \in BOOLEAN, NEW guard \in BOOLEAN,
         NEW sec \in BOOLEAN, NEW mayFail \in BOOLEAN, NEW p \in PollGdi(c, o, pointer, guard, sec, mayFail)
  PROVE  /\ p \in Outcome /\ p.cap.backend = c.backend
         /\ \/ p.kind = "failed" /\ p.cap = c
            \/ /\ p.kind = "frame" /\ ~p.masked /\ ~p.visible /\ ~p.reshaped
               /\ p.cap.gdiCursor # "unknown"
               /\ p.moved \/ p.cap.gdiCursor = c.gdiCursor
<1> DEFINE now == IF pointer THEN "shown" ELSE "hidden"
           f == [c EXCEPT !.copy = ImageOf(guard), !.gdiCursor = now]
<1>1. /\ f \in Capture /\ f.backend = c.backend /\ f.gdiCursor = now
  BY DEF Capture, Contents, ImageOf
<1>2. CASE p = Polled("failed", c, o, FALSE)
  <2>1. p \in Outcome /\ p.kind = "failed" /\ p.cap = c
    BY <1>2 DEF Polled, Outcome, Kinds
  <2>2. QED
    BY <2>1
<1>3. ASSUME NEW m \in {c.gdiCursor # now, c.gdiCursor # now \/ pointer},
             p = [Polled("frame", f, o, FALSE) EXCEPT !.updated = TRUE, !.moved = m]
      PROVE  /\ p \in Outcome /\ p.cap.backend = c.backend
             /\ p.kind = "frame" /\ ~p.masked /\ ~p.visible /\ ~p.reshaped
             /\ p.cap.gdiCursor # "unknown"
             /\ p.moved \/ p.cap.gdiCursor = c.gdiCursor
  <2> HIDE DEF f
  <2>1. m \in BOOLEAN /\ (m \/ c.gdiCursor = now)
    BY <1>3, Zenon
  <2>2. p = [kind |-> "frame", cap |-> f, out |-> o, new |-> FALSE, updated |-> TRUE, masked |-> FALSE,
             moved |-> m, visible |-> FALSE, reshaped |-> FALSE]
    BY <1>3 DEF Polled
  <2>3. QED
    BY <1>1, <2>1, <2>2 DEF Outcome, Kinds
<1>4. \/ p = Polled("failed", c, o, FALSE)
      \/ \E m \in {c.gdiCursor # now, c.gdiCursor # now \/ pointer} :
           p = [Polled("frame", f, o, FALSE) EXCEPT !.updated = TRUE, !.moved = m]
  BY DEF PollGdi, If
<1>5. QED
  BY <1>2, <1>3, <1>4

\* A frame read over DXGI: masked content is said to be masked, an image that
\* was not taken over leaves the copy, a new texture comes with a new image,
\* and an error once the frame is consumed shows on the output.
LEMMA FrameRead ==
  ASSUME NEW c \in Capture, NEW o \in Output, NEW pointer \in BOOLEAN, NEW guard \in BOOLEAN,
         NEW mayFail \in BOOLEAN, o.first \/ o.presented \/ o.moved \/ o.reshaped,
         NEW p \in ReadFrame(c, o, pointer, guard, mayFail)
  PROVE  /\ p \in Outcome /\ p.cap.backend = c.backend
         /\ \/ /\ p.kind = "frame" /\ p.masked = guard
               /\ guard \/ (p.updated /\ p.cap.copy = "current") \/ (~p.updated /\ p.cap.copy = c.copy /\ ~p.new)
            \/ p.kind = "failed" /\ p.out # o
<1> DEFINE updated == Updated(c, o)
           copied == [c EXCEPT !.copy = IF updated THEN ImageOf(guard) ELSE @, !.have = @ \/ updated]
           quiet == NoNews(o)
           torn == [quiet EXCEPT !.lost = TRUE]
           bare == [c EXCEPT !.copy = "none"]
<1>1. updated \in BOOLEAN
  BY CaptureFields, OutputFields DEF Updated
<1>2. /\ copied \in Capture /\ copied.backend = c.backend
      /\ copied.copy = IF updated THEN ImageOf(guard) ELSE c.copy
      /\ bare \in Capture /\ bare.backend = c.backend
  <2>1. /\ (IF updated THEN ImageOf(guard) ELSE c.copy) \in Contents
        /\ (c.have \/ updated) \in BOOLEAN /\ "none" \in Contents
    BY <1>1, CaptureFields DEF ImageOf, Contents
  <2> DEFINE i == IF updated THEN ImageOf(guard) ELSE c.copy
             h == (c.have \/ updated)
  <2>2. copied = [c EXCEPT !.copy = i, !.have = h]
    BY DEF Capture
  <2> HIDE DEF i, h
  <2>3. /\ [c EXCEPT !.copy = i, !.have = h].backend = c.backend
        /\ [c EXCEPT !.copy = i, !.have = h].copy = i
        /\ bare \in Capture /\ bare.backend = c.backend
    BY <2>1 DEF Capture, Contents
  <2>4. QED
    BY <2>1, <2>2, <2>3, CaptureFields DEF i, h
<1>3. /\ quiet \in Output /\ torn \in Output /\ quiet # o /\ torn # o
  <2>1. quiet # o /\ torn # o
    BY DEF NoNews, Output
  <2>2. QED
    BY <2>1, OutputFields
<1>4. ~updated => c.have
  BY DEF Updated
<1> DEFINE Took(n) ==
             [Polled("frame", copied, quiet, n)
                EXCEPT !.updated = updated, !.masked = guard, !.moved = o.moved,
                       !.visible = o.moved /\ pointer, !.reshaped = o.reshaped]
<1>5. ASSUME NEW n \in BOOLEAN, n => ~c.have, p = Took(n)
      PROVE  /\ p \in Outcome /\ p.cap.backend = c.backend
             /\ p.kind = "frame" /\ p.masked = guard
             /\ guard \/ (p.updated /\ p.cap.copy = "current") \/ (~p.updated /\ p.cap.copy = c.copy /\ ~p.new)
  <2> DEFINE seen == (o.moved /\ pointer)
  <2>1. seen \in BOOLEAN /\ o.moved \in BOOLEAN /\ o.reshaped \in BOOLEAN
    BY OutputFields
  <2> HIDE DEF updated, copied, quiet, seen
  <2>2. p = [kind |-> "frame", cap |-> copied, out |-> quiet, new |-> n, updated |-> updated,
             masked |-> guard, moved |-> o.moved, visible |-> seen, reshaped |-> o.reshaped]
    BY <1>5 DEF Polled, seen
  <2>3. p \in Outcome
    BY <1>1, <1>2, <1>3, <2>1, <2>2 DEF Outcome, Kinds
  <2>4. p.kind = "frame" /\ p.cap = copied /\ p.new = n /\ p.updated = updated /\ p.masked = guard
    BY <2>2
  <2>5. guard \/ (p.updated /\ p.cap.copy = "current") \/ (~p.updated /\ p.cap.copy = c.copy /\ ~p.new)
    BY <1>1, <1>2, <1>4, <1>5, <2>4 DEF ImageOf
  <2>6. QED
    BY <1>2, <2>3, <2>4, <2>5
<1>6. ASSUME NEW cap \in {copied, bare}, NEW x \in {quiet, torn}, NEW n \in BOOLEAN,
             p = Polled("failed", cap, x, n)
      PROVE  p \in Outcome /\ p.cap.backend = c.backend /\ p.kind = "failed" /\ p.out # o
  <2>1. cap \in Capture /\ cap.backend = c.backend /\ x \in Output /\ x # o
    BY <1>2, <1>3
  <2> HIDE DEF copied, bare, quiet, torn
  <2>2. "failed" \in Kinds
    BY DEF Kinds
  <2>3. p \in Outcome /\ p.kind = "failed" /\ p.cap = cap /\ p.out = x
    BY ONLY <1>6, <2>1, <2>2, n \in BOOLEAN, PolledIs
  <2>4. QED
    BY <2>1, <2>3
<1> DEFINE again == IF c.have THEN {FALSE} ELSE BOOLEAN
<1>7. \A n \in again : n \in BOOLEAN /\ (n => ~c.have)
  BY CaptureFields
<1>8. \/ \E n \in again : p = Took(n)
      \/ \E cap \in {copied, bare}, x \in {quiet, torn}, n \in again \cup {TRUE} : p = Polled("failed", cap, x, n)
  <2>1. \/ p \in {Took(n) : n \in again}
        \/ p \in If(mayFail /\ ~c.have, {Polled("failed", bare, quiet, TRUE)})
        \/ p \in If(mayFail /\ o.reshaped, {Polled("failed", copied, quiet, n) : n \in again})
        \/ p \in If(mayFail, {Polled("failed", copied, torn, n) : n \in again})
    BY Zenon DEF ReadFrame
  <2> HIDE DEF Took, bare, quiet, torn, copied, again
  <2>2. QED
    BY <2>1, Zenon DEF If
<1> HIDE DEF Took, bare, quiet, torn, copied, again
<1>9. CASE \E n \in again : p = Took(n)
  BY <1>5, <1>7, <1>9
<1>10. CASE \E cap \in {copied, bare}, x \in {quiet, torn}, n \in again \cup {TRUE} : p = Polled("failed", cap, x, n)
  BY <1>6, <1>7, <1>10
<1>11. QED
  BY <1>8, <1>9, <1>10

\* What a poll leaves, for both invariants of the frames: black comes in
\* unseen only with an error that shows, and what GDI has captured has the
\* renderer's pointer hidden.
LEMMA PollIs ==
  ASSUME NEW c \in Capture, NEW o \in Output, NEW pointer \in BOOLEAN, NEW guard \in BOOLEAN,
         NEW sec \in BOOLEAN, NEW refused \in BOOLEAN, NEW mayFail \in BOOLEAN,
         NEW p \in Poll(c, o, pointer, guard, sec, refused, mayFail)
  PROVE  /\ p \in Outcome
         /\ p.cap.backend = "dxgi" /\ p.cap.copy = "masked" =>
              \/ c.backend = "dxgi" /\ c.copy = "masked" /\ (p.kind = "frame" => ~p.updated)
              \/ p.kind = "frame" /\ p.masked
              \/ p.kind = "failed" /\ p.out # o
         /\ p.cap.backend = "gdi" =>
              \/ p.kind # "frame" /\ p.cap.gdiCursor = "unknown" /\ p.cap.copy = "none"
              \/ p.kind # "frame" /\ c.backend = "gdi" /\ p.cap = c
              \/ /\ p.kind = "frame" /\ ~p.masked /\ ~p.visible /\ ~p.reshaped
                 /\ c.backend = "gdi" /\ p.cap.gdiCursor # "unknown"
                 /\ p.moved \/ p.cap.gdiCursor = c.gdiCursor
<1>0. c.backend \in {"dxgi", "gdi"}
  BY CaptureFields
<1>1. CASE c.backend = "gdi"
  <2>1. p \in PollGdi(c, o, pointer, guard, sec, mayFail)
    BY <1>1 DEF Poll
  <2>2. QED
    BY <1>1, <2>1, GdiPolled
<1>2. CASE c.backend = "dxgi" /\ p \in Recreate(c, o, refused, mayFail)
  <2>1. PICK r \in CreateDuplication(c, o, refused, mayFail) :
          p = Polled(IF r.ok THEN "reinitialized" ELSE "failed", r.cap, r.out, r.cap.backend = "gdi")
    BY <1>2 DEF Recreate
  <2>2. /\ r.cap \in Capture /\ r.out \in Output /\ r.ok \in BOOLEAN
        /\ r.cap.backend = "dxgi" => r.cap.copy = c.copy
        /\ r.cap.backend = "gdi" => r.cap.copy = "none" /\ r.cap.gdiCursor = "unknown"
    BY <1>2, Recreated
  <2> DEFINE kind == IF r.ok THEN "reinitialized" ELSE "failed"
             isNew == (r.cap.backend = "gdi")
  <2>3. kind \in Kinds /\ kind # "frame"
    BY DEF Kinds
  <2>4. isNew \in BOOLEAN
    BY Zenon
  <2> HIDE DEF kind, isNew
  <2>5. p = Polled(kind, r.cap, r.out, isNew)
    BY <2>1 DEF kind, isNew
  <2>6. p \in Outcome /\ p.kind = kind /\ p.cap = r.cap
    BY <2>2, <2>3, <2>4, <2>5, PolledIs
  <2>7. QED
    BY <1>2, <2>2, <2>3, <2>6
<1>3. CASE c.backend = "dxgi" /\ \E k \in {"no frame", "failed"} : p = Polled(k, c, o, FALSE)
  <2>1. PICK k \in {"no frame", "failed"} : p = Polled(k, c, o, FALSE)
    BY <1>3
  <2>2. k \in Kinds /\ k # "frame"
    BY DEF Kinds
  <2>3. p \in Outcome /\ p.kind = k /\ p.cap = c
    BY <2>1, <2>2 DEF Polled, Outcome
  <2>4. QED
    BY <1>3, <2>2, <2>3
<1>4. CASE /\ c.backend = "dxgi" /\ (o.first \/ o.presented \/ o.moved \/ o.reshaped)
           /\ p \in ReadFrame(c, o, pointer, guard, mayFail)
  BY <1>4, FrameRead
<1>5. QED
  BY <1>0, <1>1, <1>2, <1>3, <1>4 DEF Poll, If

\* The two hazards of a screen, strengthened to every step: a black copy that
\* is drawn is one that was given up, and over GDI the renderer's pointer is
\* hidden from the first capture on, before which there is no copy.
ScreenInv(s) ==
  /\ captures[s].backend = "dxgi" /\ captures[s].copy = "masked" /\ live[s] = "copy" => s \in dropped
  /\ captures[s].backend = "gdi" /\ captures[s].gdiCursor # "unknown" => ~cursors[s].visible
  /\ captures[s].backend = "gdi" /\ captures[s].gdiCursor = "unknown" => captures[s].copy = "none"
FramesInv == \A s \in Screen : ScreenInv(s)

CapturesOK == captures \in [Screen -> Capture] /\ outputs \in [Screen -> Output]
SceneOK == live \in [Screen -> {"copy", "dead", "none"}] /\ cursors \in [Screen -> Cursor]
TierOK == tier \in [Screen -> DOMAIN Interval] /\ due \in [Screen -> Nat]
LoopOK ==
  /\ at \in 0 .. AllPolled /\ failures \in Nat
  /\ failing \in BOOLEAN /\ quit \in BOOLEAN /\ engine_failed \in BOOLEAN
OutsideOK == secure \in BOOLEAN /\ guarded \subseteq Screen /\ mouse \in Screen \cup {Nowhere}
HistoryOK == dropped \subseteq Screen /\ faults \in 0 .. MaxFaults

LEMMA TypeParts ==
  /\ FramesTypeOK <=> CapturesOK /\ SceneOK /\ TierOK /\ LoopOK /\ OutsideOK /\ HistoryOK
  /\ FramesTypeOK' <=> CapturesOK' /\ SceneOK' /\ TierOK' /\ LoopOK' /\ OutsideOK' /\ HistoryOK'
  BY DEF FramesTypeOK, CapturesOK, SceneOK, TierOK, LoopOK, OutsideOK, HistoryOK

LEMMA FrameBounds ==
  /\ Screens \in Nat /\ Screens > 0 /\ FatalFailures \in Nat /\ MaxFaults \in Nat
  /\ DOMAIN Interval = {"active", "mid", "idle"} /\ OnePerOutput \in BOOLEAN
  /\ \A t \in DOMAIN Interval : Interval[t] \in Nat
  BY FramesAssumption DEF FramesAssumption

LEMMA FramesInitInv == FramesInit => FramesTypeOK /\ FramesInv
<1> SUFFICES ASSUME FramesInit PROVE FramesTypeOK /\ FramesInv
  OBVIOUS
<1> USE FrameBounds
<1>1. /\ [NewCapture EXCEPT !.duplication = TRUE] \in Capture
      /\ [NewCapture EXCEPT !.duplication = TRUE].copy = "none"
      /\ [NewCapture EXCEPT !.duplication = TRUE].backend = "dxgi"
  BY DEF NewCapture, Capture, Contents
<1>2. Fresh(NewOutput, TRUE) \in Output
  BY DEF Fresh, NewOutput, Output
<1> DEFINE c == [NewCapture EXCEPT !.duplication = TRUE]
           o == Fresh(NewOutput, TRUE)
<1>3. captures = [s \in Screen |-> c] /\ outputs = [s \in Screen |-> o]
  BY DEF FramesInit
<1> HIDE DEF c, o
<1>4. CapturesOK
  BY <1>1, <1>2, <1>3 DEF CapturesOK, c, o
<1>5. FramesInv
  <2>1. \A s \in Screen : captures[s] = c
    BY <1>3
  <2>2. QED
    BY <1>1, <2>1 DEF FramesInv, ScreenInv, c
<1>6. SceneOK
  BY DEF FramesInit, SceneOK, NoCursor, Cursor
<1>7. TierOK
  BY DEF FramesInit, TierOK
<1>8. LoopOK
  <2>1. at = 0 /\ failing = FALSE /\ failures = 0 /\ quit = FALSE /\ engine_failed = FALSE
    BY DEF FramesInit, TopOfLoop
  <2>2. 0 \in 0 .. AllPolled
    BY DEF AllPolled
  <2>3. QED
    BY ONLY <2>1, <2>2 DEF LoopOK
<1>9. OutsideOK /\ HistoryOK
  <2>1. secure = FALSE /\ guarded = {} /\ mouse = Nowhere /\ faults = 0 /\ dropped = {}
    BY DEF FramesInit
  <2>2. 0 \in 0 .. MaxFaults
    OBVIOUS
  <2>3. QED
    BY ONLY <2>1, <2>2 DEF OutsideOK, HistoryOK
<1>10. QED
  BY <1>4, <1>5, <1>6, <1>7, <1>8, <1>9, TypeParts

\* An image that changed on the desktop is behind; the rest is as it was.
LEMMA BehindIs ==
  ASSUME NEW c \in Capture
  PROVE  /\ Behind(c) \in Capture /\ Behind(c).backend = c.backend
         /\ Behind(c).gdiCursor = c.gdiCursor
         /\ Behind(c).copy # "masked" /\ (c.copy = "none" => Behind(c).copy = "none")
<1> DEFINE y == IF c.copy \in {"current", "masked"} THEN "behind" ELSE c.copy
<1>1. y \in Contents /\ y # "masked" /\ (c.copy = "none" => y = "none")
  BY CaptureFields DEF Contents
<1>2. Behind(c) = [c EXCEPT !.copy = y]
  BY DEF Behind, Capture
<1> HIDE DEF y
<1>3. QED
  BY <1>1, <1>2 DEF Capture, Contents

LEMMA FaultIs ==
  ASSUME HistoryOK, Fault PROVE faults' \in 0 .. MaxFaults
  BY FrameBounds DEF HistoryOK, Fault, MayFail

\* What Windows does leaves the two hazards as they are.
LEMMA WindowsKeep ==
  ASSUME FramesTypeOK, FramesInv, Windows
  PROVE  FramesTypeOK' /\ FramesInv'
<1>0. CapturesOK /\ SceneOK /\ TierOK /\ LoopOK /\ OutsideOK /\ HistoryOK
  BY TypeParts
<1>1. UNCHANGED <<sceneVars, tierVars, loopVars>>
  BY DEF Windows
<1>2. SceneOK' /\ TierOK' /\ LoopOK' /\ UNCHANGED <<live, cursors>>
  BY <1>0, <1>1 DEF sceneVars, tierVars, loopVars, SceneOK, TierOK, LoopOK
\* What each part of a step has to show.
<1>3. ASSUME CapturesOK', OutsideOK', HistoryOK', UNCHANGED dropped,
             UNCHANGED captures \/ \E s \in Screen : captures' = [captures EXCEPT ![s] = Behind(@)]
      PROVE  FramesTypeOK' /\ FramesInv'
  <2>1. \A x \in Screen : captures[x] \in Capture
    BY <1>0 DEF CapturesOK
  <2>2. \A x \in Screen : captures'[x] \in {captures[x], Behind(captures[x])}
    BY <1>0, <1>3 DEF CapturesOK
  <2>3. \A x \in Screen :
          /\ captures'[x].backend = captures[x].backend /\ captures'[x].gdiCursor = captures[x].gdiCursor
          /\ captures'[x].copy = "masked" => captures[x].copy = "masked"
          /\ captures[x].copy = "none" => captures'[x].copy = "none"
    BY <2>1, <2>2, BehindIs
  <2>4. FramesInv'
    BY <1>2, <1>3, <2>3 DEF FramesInv, ScreenInv
  <2>5. QED
    BY <1>2, <1>3, <2>4, TypeParts
\* A step that marks one output, and may change its image.
<1>4. ASSUME NEW s \in Screen, NEW o \in Output,
             outputs' = [outputs EXCEPT ![s] = o],
             UNCHANGED captures \/ captures' = [captures EXCEPT ![s] = Behind(@)]
      PROVE  CapturesOK'
  <2>1. captures[s] \in Capture
    BY <1>0 DEF CapturesOK
  <2>2. Behind(captures[s]) \in Capture
    BY <2>1, BehindIs
  <2>3. QED
    BY <1>0, <1>4, <2>2 DEF CapturesOK
<1>5. \A s \in Screen : outputs[s] \in Output /\ captures[s].duplication \in BOOLEAN
  BY <1>0 DEF CapturesOK, Capture
<1>6. CASE MouseMoves
  <2>1. \A s \in Screen : (outputs[s].moved \/ (captures[s].duplication /\ s \in {mouse, mouse'})) \in BOOLEAN
    BY Zenon
  <2>2. \A s \in Screen :
          [outputs[s] EXCEPT !.moved = @ \/ (captures[s].duplication /\ s \in {mouse, mouse'})] \in Output
    <3>1. ASSUME NEW s \in Screen
          PROVE  [outputs[s] EXCEPT !.moved = @ \/ (captures[s].duplication /\ s \in {mouse, mouse'})] \in Output
      <4> DEFINE x == (outputs[s].moved \/ (captures[s].duplication /\ s \in {mouse, mouse'}))
      <4>1. x \in BOOLEAN
        BY <2>1
      <4> HIDE DEF x
      <4>2. [outputs[s] EXCEPT !.moved = x] \in Output
        BY <1>5, <4>1, OutputFields
      <4>3. QED
        BY <4>2 DEF x
    <3>2. QED
      BY <3>1
  <2>3. /\ UNCHANGED <<captures, guarded, secure, faults, dropped>> /\ mouse' \in Screen \cup {Nowhere}
    BY <1>6 DEF MouseMoves, historyVars
  <2>4. CapturesOK'
    BY <1>0, <1>6, <2>2, <2>3 DEF MouseMoves, CapturesOK
  <2>5. OutsideOK' /\ HistoryOK'
    BY <1>0, <2>3 DEF OutsideOK, HistoryOK
  <2>6. QED
    BY <1>3, <2>3, <2>4, <2>5
<1>7. CASE SecureDesktop
  <2>1. \A s \in Screen : [outputs[s] EXCEPT !.lost = captures[s].duplication] \in Output
    BY <1>5, OutputFields
  <2>2. /\ UNCHANGED <<captures, guarded, mouse, dropped>> /\ secure' = ~secure
        /\ Fault \/ UNCHANGED faults
    BY <1>0, <1>7 DEF SecureDesktop, OutsideOK
  <2>3. CapturesOK'
    BY <1>0, <1>7, <2>1, <2>2 DEF SecureDesktop, CapturesOK
  <2>4. secure' \in BOOLEAN
    BY <2>2, Zenon
  <2>5. OutsideOK' /\ HistoryOK'
    BY <1>0, <2>2, <2>4, FaultIs DEF OutsideOK, HistoryOK
  <2>6. QED
    BY <1>3, <2>2, <2>3, <2>5
<1>8. ASSUME NEW s \in Screen, DesktopChanges(s) \/ Guard(s) \/ MouseChanges(s)
      PROVE  FramesTypeOK' /\ FramesInv'
  <2>1. /\ UNCHANGED <<mouse, secure, faults, dropped>> /\ guarded' \subseteq Screen
    BY <1>0, <1>8 DEF DesktopChanges, Guard, MouseChanges, historyVars, OutsideOK
  <2>2. CapturesOK' /\ (UNCHANGED captures \/ captures' = [captures EXCEPT ![s] = Behind(@)])
    <3>1. /\ [outputs[s] EXCEPT !.presented = captures[s].duplication] \in Output
          /\ [outputs[s] EXCEPT !.reshaped = captures[s].duplication] \in Output
      BY <1>5, OutputFields
    <3>2. UNCHANGED captures \/ captures' = [captures EXCEPT ![s] = Behind(@)]
      BY <1>8 DEF DesktopChanges, Guard, MouseChanges
    <3>3. \/ outputs' = [outputs EXCEPT ![s] = [outputs[s] EXCEPT !.presented = captures[s].duplication]]
          \/ outputs' = [outputs EXCEPT ![s] = [outputs[s] EXCEPT !.reshaped = captures[s].duplication]]
      BY <1>8 DEF DesktopChanges, Guard, MouseChanges
    <3>4. QED
      BY <1>4, <3>1, <3>2, <3>3
  <2>3. OutsideOK' /\ HistoryOK'
    BY <1>0, <2>1 DEF OutsideOK, HistoryOK
  <2>4. QED
    BY <1>3, <2>1, <2>2, <2>3
<1>9. ASSUME NEW s \in Screen, OutputChanges(s)
      PROVE  FramesTypeOK' /\ FramesInv'
  <2>1. UNCHANGED <<captures, guarded, mouse, secure, dropped>> /\ (Fault \/ UNCHANGED faults)
    BY <1>9 DEF OutputChanges
  <2>2. PICK there \in BOOLEAN :
          outputs' = [outputs EXCEPT ![s] = [outputs[s] EXCEPT !.listed = there, !.lost = captures[s].duplication]]
    <3>1. PICK there \in BOOLEAN :
            outputs' = [outputs EXCEPT ![s].listed = there, ![s].lost = captures[s].duplication]
      BY <1>9 DEF OutputChanges
    <3>2. [outputs EXCEPT ![s].listed = there, ![s].lost = captures[s].duplication]
            = [outputs EXCEPT ![s] = [outputs[s] EXCEPT !.listed = there, !.lost = captures[s].duplication]]
      BY <1>0 DEF CapturesOK
    <3>3. QED
      BY <3>1, <3>2
  <2>3. [outputs[s] EXCEPT !.listed = there, !.lost = captures[s].duplication] \in Output
    BY <1>5, OutputFields
  <2>4. CapturesOK'
    BY <1>4, <2>1, <2>2, <2>3
  <2>5. OutsideOK' /\ HistoryOK'
    BY <1>0, <2>1, FaultIs DEF OutsideOK, HistoryOK
  <2>6. QED
    BY <1>3, <2>1, <2>4, <2>5
<1>10. QED
  BY <1>6, <1>7, <1>8, <1>9 DEF Windows

\* New captures have no copy, and no pointer seen.
LEMMA RebindIs ==
  ASSUME FramesTypeOK, Rebind
  PROVE  /\ CapturesOK'
         /\ \A s \in Screen : /\ captures'[s].copy = "none"
                              /\ captures'[s].backend = "gdi" => captures'[s].gdiCursor = "unknown"
<1>1. NewCapture \in Capture /\ NewCapture.backend = "dxgi" /\ NewCapture.copy = "none"
  BY DEF NewCapture, Capture, Contents
<1>2. PICK made :
        /\ \A s \in Screen : made[s] \in CreateDuplication(NewCapture, outputs[s], Refused(s), FALSE)
        /\ captures' = [s \in Screen |-> made[s].cap]
        /\ outputs' = [s \in Screen |-> made[s].out]
  BY DEF Rebind
<1>3. ASSUME NEW s \in Screen
      PROVE  /\ made[s].cap \in Capture /\ made[s].out \in Output
             /\ made[s].cap.copy = "none"
             /\ made[s].cap.backend = "gdi" => made[s].cap.gdiCursor = "unknown"
  <2>1. outputs[s] \in Output
    BY TypeParts DEF CapturesOK
  <2> DEFINE busy == Refused(s)
             no == FALSE
  <2>2. busy \in BOOLEAN
    BY Zenon DEF Refused
  <2>3. made[s] \in CreateDuplication(NewCapture, outputs[s], busy, no)
    BY <1>2
  <2>4. no \in BOOLEAN
    OBVIOUS
  <2> HIDE DEF busy, no
  <2>5. /\ made[s].cap \in Capture /\ made[s].out \in Output
        /\ made[s].cap.backend = "dxgi" => made[s].cap.copy = NewCapture.copy
        /\ made[s].cap.backend = "gdi" => made[s].cap.copy = "none" /\ made[s].cap.gdiCursor = "unknown"
    BY <1>1, <2>1, <2>2, <2>3, <2>4, Recreated
  <2>6. made[s].cap.backend \in {"dxgi", "gdi"}
    BY <2>5, CaptureFields
  <2>7. QED
    BY <1>1, <2>5, <2>6
<1>4. QED
  BY <1>2, <1>3 DEF CapturesOK

\* A layout reload, taken or undone.
LEMMA ReloadKeeps ==
  ASSUME FramesTypeOK, FramesInv, Reload
  PROVE  FramesTypeOK' /\ FramesInv'
<1>0. CapturesOK /\ SceneOK /\ TierOK /\ LoopOK /\ OutsideOK /\ HistoryOK
  BY TypeParts
<1>1. UNCHANGED <<at, failing, failures, secure, guarded, mouse>> /\ faults' \in 0 .. MaxFaults
  BY <1>0, FaultIs DEF Reload, outsideVars
<1>2. OutsideOK'
  BY <1>0, <1>1 DEF OutsideOK
<1>3. CASE Reloaded
  <2>1. Rebind /\ dropped' = {} /\ UNCHANGED <<quit, engine_failed>>
    BY <1>3 DEF Reloaded
  <2>2. SceneOK' /\ \A s \in Screen : live'[s] = "none" /\ cursors'[s].visible = FALSE
    BY <1>3 DEF Reloaded, Relabel, SceneOK, NoCursor, Cursor
  <2>3. TierOK'
    BY <1>3, FrameBounds DEF Reloaded, TierOK
  <2>4. LoopOK' /\ HistoryOK'
    BY <1>0, <1>1, <2>1 DEF LoopOK, HistoryOK
  <2>5. FramesInv'
    BY <2>1, <2>2, RebindIs DEF FramesInv, ScreenInv
  <2>6. QED
    BY <1>2, <2>1, <2>2, <2>3, <2>4, <2>5, RebindIs, TypeParts
<1>4. CASE ReloadUndone
  <2>1. PICK rendered \in BOOLEAN, moved \in BOOLEAN :
       LET kept(s) == IF rendered THEN "none" ELSE live[s]
       IN /\ cursors' = [s \in Screen |-> IF rendered THEN NoCursor ELSE cursors[s]]
          /\ \/ /\ moved /\ Rebind /\ dropped' = {}
                /\ live' = [s \in Screen |-> IF kept(s) = "copy" THEN "dead" ELSE kept(s)]
                /\ UNCHANGED <<quit, engine_failed>>
             \/ /\ ~moved /\ live' = [s \in Screen |-> kept(s)]
                /\ dropped' = IF rendered THEN Screen ELSE dropped
                /\ UNCHANGED <<captures, outputs, quit, engine_failed>>
             \/ /\ live' = [s \in Screen |-> kept(s)]
                /\ quit' = TRUE /\ engine_failed' = TRUE
                /\ UNCHANGED <<captures, outputs, dropped>>
    BY <1>4 DEF ReloadUndone
  <2> DEFINE kept(s) == IF rendered THEN "none" ELSE live[s]
  <2>2. \A s \in Screen : kept(s) \in {"copy", "dead", "none"} /\ (kept(s) = "copy" => live[s] = "copy")
    BY <1>0 DEF SceneOK
  <2>3. /\ cursors' \in [Screen -> Cursor]
        /\ \A s \in Screen : cursors'[s].visible => cursors[s].visible
    <3>1. \A s \in Screen : cursors[s] \in Cursor
      BY <1>0 DEF SceneOK
    <3>2. NoCursor \in Cursor /\ NoCursor.visible = FALSE
      BY DEF NoCursor, Cursor
    <3>3. QED
      BY <2>1, <3>1, <3>2
  <2>4. TierOK'
    BY <1>0, <1>4 DEF ReloadUndone, tierVars, TierOK
  <2>5. CASE /\ moved /\ Rebind /\ dropped' = {}
             /\ live' = [s \in Screen |-> IF kept(s) = "copy" THEN "dead" ELSE kept(s)]
             /\ UNCHANGED <<quit, engine_failed>>
    <3>1. SceneOK'
      BY <2>2, <2>3, <2>5 DEF SceneOK
    <3>2. LoopOK' /\ HistoryOK'
      BY <1>0, <1>1, <2>5 DEF LoopOK, HistoryOK
    <3>3. FramesInv'
      BY <2>5, RebindIs DEF FramesInv, ScreenInv
    <3>4. QED
      BY <1>2, <2>4, <2>5, <3>1, <3>2, <3>3, RebindIs, TypeParts
  <2>6. CASE /\ live' = [s \in Screen |-> kept(s)]
             /\ dropped' = dropped \/ dropped' = Screen
             /\ UNCHANGED <<captures, outputs>>
             /\ quit' \in BOOLEAN /\ engine_failed' \in BOOLEAN
    <3>1. SceneOK'
      BY <2>2, <2>3, <2>6 DEF SceneOK
    <3>2. LoopOK' /\ HistoryOK' /\ CapturesOK'
      BY <1>0, <1>1, <2>6 DEF LoopOK, HistoryOK, CapturesOK
    <3>3. \A s \in Screen : (live'[s] = "copy" => live[s] = "copy") /\ (s \in dropped => s \in dropped')
      BY <2>2, <2>6
    <3>4. FramesInv'
      BY <2>3, <2>6, <3>3 DEF FramesInv, ScreenInv
    <3>5. QED
      BY <1>2, <2>4, <3>1, <3>2, <3>4, TypeParts
  <2>7. QED
    BY <1>0, <2>1, <2>5, <2>6 DEF LoopOK
<1>5. QED
  BY <1>3, <1>4 DEF Reload

\* A screen's turn in the capture loop that is not due leaves everything but its tier.
LEMMA RetierIs ==
  ASSUME TierOK, NEW s \in Screen, Retier(s) PROVE tier' \in [Screen -> DOMAIN Interval]
  BY FrameBounds DEF TierOK, Retier

\* What the renderer is left with by a failed update.
LEMMA UpdateFailsIs ==
  ASSUME LoopOK, UpdateFails
  PROVE  failing' \in BOOLEAN /\ failures' \in Nat /\ quit' \in BOOLEAN /\ engine_failed' \in BOOLEAN
<1>1. CASE failures' >= FatalFailures
  BY <1>1 DEF LoopOK, UpdateFails
<1>2. CASE ~(failures' >= FatalFailures)
  BY <1>2 DEF LoopOK, UpdateFails
<1>3. QED
  BY <1>1, <1>2

\* A screen that is polled: whatever the capture brings.
LEMMA PollScreenKeeps ==
  ASSUME FramesTypeOK, FramesInv, NEW s \in Screen, PollScreen(s), at' \in 0 .. AllPolled
  PROVE  FramesTypeOK' /\ FramesInv'
<1>0. CapturesOK /\ SceneOK /\ TierOK /\ LoopOK /\ OutsideOK /\ HistoryOK
  BY TypeParts
<1>1. PICK mayFail \in {FALSE, MayFail} :
        \E p \in Poll(captures[s], outputs[s], mouse = s, s \in guarded, secure, secure, mayFail) :
         /\ captures' = [captures EXCEPT ![s] = p.cap]
         /\ outputs' = [outputs EXCEPT ![s] = p.out]
         /\ \/ /\ p.kind = "frame" /\ ~mayFail /\ ShowFrame(s, p, Seen(s, p))
            \/ /\ p.kind # "frame"
               /\ live' = Seen(s, p)
               /\ UNCHANGED <<cursors, failing, failures, quit, engine_failed>>
               /\ dropped' = dropped \cup {x \in {s} : p.kind = "failed" /\ p.out # outputs[s]}
               /\ IF mayFail THEN faults' = faults + 1 ELSE UNCHANGED faults
  BY DEF PollScreen
<1> DEFINE pointer == (mouse = s)
           guard == (s \in guarded)
<1>2. PICK p \in Poll(captures[s], outputs[s], pointer, guard, secure, secure, mayFail) :
         /\ captures' = [captures EXCEPT ![s] = p.cap]
         /\ outputs' = [outputs EXCEPT ![s] = p.out]
         /\ \/ /\ p.kind = "frame" /\ ~mayFail /\ ShowFrame(s, p, Seen(s, p))
            \/ /\ p.kind # "frame"
               /\ live' = Seen(s, p)
               /\ UNCHANGED <<cursors, failing, failures, quit, engine_failed>>
               /\ dropped' = dropped \cup {x \in {s} : p.kind = "failed" /\ p.out # outputs[s]}
               /\ IF mayFail THEN faults' = faults + 1 ELSE UNCHANGED faults
  BY <1>1
<1>3. pointer \in BOOLEAN /\ guard \in BOOLEAN
  <2>1. (mouse = s) \in BOOLEAN
    BY ONLY Zenon
  <2>2. (s \in guarded) \in BOOLEAN
    BY ONLY SMT
  <2>3. QED
    BY <2>1, <2>2
<1>4. mayFail \in BOOLEAN
  <2>1. faults \in Nat /\ MaxFaults \in Nat
    BY <1>0, FramesAssumption DEF HistoryOK
  <2>2. (faults < MaxFaults) \in BOOLEAN
    BY ONLY <2>1
  <2>3. mayFail = FALSE \/ mayFail = MayFail
    BY ONLY mayFail \in {FALSE, MayFail}, Zenon
  <2>4. QED
    BY ONLY <2>2, <2>3, Zenon DEF MayFail
<1>5. mayFail => MayFail
  BY <1>1
<1> HIDE DEF pointer, guard
<1> DEFINE c == captures[s]
           o == outputs[s]
<1>6. c \in Capture /\ o \in Output /\ secure \in BOOLEAN
  BY <1>0 DEF CapturesOK, OutsideOK
<1> HIDE DEF c, o
<1>7. p \in Poll(c, o, pointer, guard, secure, secure, mayFail)
  BY <1>2 DEF c, o
<1>8. /\ p \in Outcome
      /\ p.cap.backend = "dxgi" /\ p.cap.copy = "masked" =>
           \/ c.backend = "dxgi" /\ c.copy = "masked" /\ (p.kind = "frame" => ~p.updated)
           \/ p.kind = "frame" /\ p.masked
           \/ p.kind = "failed" /\ p.out # o
      /\ p.cap.backend = "gdi" =>
           \/ p.kind # "frame" /\ p.cap.gdiCursor = "unknown" /\ p.cap.copy = "none"
           \/ p.kind # "frame" /\ c.backend = "gdi" /\ p.cap = c
           \/ /\ p.kind = "frame" /\ ~p.masked /\ ~p.visible /\ ~p.reshaped
              /\ c.backend = "gdi" /\ p.cap.gdiCursor # "unknown"
              /\ p.moved \/ p.cap.gdiCursor = c.gdiCursor
  BY <1>3, <1>4, <1>6, <1>7, PollIs
<1>9. /\ p.cap \in Capture /\ p.out \in Output /\ p.updated \in BOOLEAN /\ p.masked \in BOOLEAN
      /\ p.moved \in BOOLEAN /\ p.visible \in BOOLEAN /\ p.reshaped \in BOOLEAN
  BY <1>8 DEF Outcome
<1>10. /\ CapturesOK'
       /\ captures'[s] = p.cap /\ \A x \in Screen \ {s} : captures'[x] = captures[x]
  BY <1>0, <1>2, <1>9 DEF CapturesOK
<1>11. TierOK'
  <2>1. Retier(s) /\ due' = [due EXCEPT ![s] = Interval[tier'[s]]]
    BY DEF PollScreen
  <2>2. tier' \in [Screen -> DOMAIN Interval]
    BY <1>0, <2>1, RetierIs
  <2>3. Interval[tier'[s]] \in Nat
    BY <2>2, FrameBounds
  <2>4. QED
    BY <1>0, <2>1, <2>2, <2>3 DEF TierOK
<1>12. OutsideOK'
  BY <1>0 DEF PollScreen, outsideVars, OutsideOK
<1> DEFINE seen == Seen(s, p)
<1>13. /\ seen \in [Screen -> {"copy", "dead", "none"}]
       /\ seen[s] = "copy" => live[s] = "copy"
       /\ \A x \in Screen \ {s} : seen[x] = live[x]
  BY <1>0 DEF SceneOK, Seen
<1> HIDE DEF seen
\* The other screens are as they were; what is to show is about this one.
<1>14. ASSUME SceneOK', LoopOK', HistoryOK', ScreenInv(s)',
              \A x \in Screen \ {s} : /\ live'[x] = live[x] /\ cursors'[x] = cursors[x]
                                      /\ x \in dropped => x \in dropped'
       PROVE  FramesTypeOK' /\ FramesInv'
  <2>1. FramesInv'
    BY <1>10, <1>14 DEF FramesInv, ScreenInv
  <2>2. QED
    BY <1>10, <1>11, <1>12, <1>14, <2>1, TypeParts
<1>15. ScreenInv(s)
  BY DEF FramesInv
<1>16. CASE p.kind = "frame" /\ p.masked
  <2>1. /\ live' = [seen EXCEPT ![s] = "none"] /\ dropped' = dropped \ {s}
        /\ UNCHANGED <<cursors, failing, failures, quit, engine_failed, faults>>
    BY <1>2, <1>16 DEF ShowFrame, seen
  <2>2. SceneOK' /\ LoopOK' /\ HistoryOK'
    BY <1>0, <1>13, <2>1 DEF SceneOK, LoopOK, HistoryOK
  <2>3. p.cap.backend # "gdi"
    BY <1>8, <1>16
  <2>4. ScreenInv(s)'
    BY <1>10, <1>13, <2>1, <2>3 DEF ScreenInv
  <2>5. QED
    BY <1>13, <1>14, <2>1, <2>2, <2>4
<1>17. CASE p.kind = "frame" /\ ~p.masked
  <2>1. /\ live' = [seen EXCEPT ![s] = IF p.updated THEN "copy" ELSE @]
        /\ dropped' = IF p.updated THEN dropped \ {s} ELSE dropped
    BY <1>2, <1>17 DEF ShowFrame, seen
  <2>2. /\ live' \in [Screen -> {"copy", "dead", "none"}] /\ dropped' \subseteq Screen
        /\ \A x \in Screen \ {s} : live'[x] = live[x] /\ (x \in dropped => x \in dropped')
    BY <1>0, <1>13, <2>1 DEF HistoryOK
  <2>3. p.cap.backend = "dxgi" /\ p.cap.copy = "masked" /\ live'[s] = "copy" => s \in dropped'
    <3>1. SUFFICES ASSUME p.cap.backend = "dxgi", p.cap.copy = "masked", live'[s] = "copy"
                   PROVE  s \in dropped'
      OBVIOUS
    <3>2. c.backend = "dxgi" /\ c.copy = "masked" /\ ~p.updated
      BY <1>8, <1>17, <3>1
    <3>3. dropped' = dropped /\ live'[s] = seen[s]
      BY <1>13, <2>1, <3>2
    <3>4. QED
      BY <1>13, <1>15, <3>1, <3>2, <3>3 DEF ScreenInv, c
  <2>4. CASE /\ cursors' = [cursors EXCEPT ![s].visible = IF p.moved THEN p.visible ELSE @,
                                          ![s].shape = @ \/ p.reshaped]
             /\ UNCHANGED <<failing, failures, quit, engine_failed, faults>>
    <3> DEFINE v == IF p.moved THEN p.visible ELSE cursors[s].visible
               h == (cursors[s].shape \/ p.reshaped)
    <3>1. cursors[s] \in Cursor
      BY <1>0 DEF SceneOK
    <3>2. v \in BOOLEAN
      BY <1>9, <3>1 DEF Cursor
    <3>3. h \in BOOLEAN
      BY Zenon
    <3>4. cursors' = [cursors EXCEPT ![s] = [cursors[s] EXCEPT !.visible = v, !.shape = h]]
      BY <1>0, <2>4, <3>1 DEF SceneOK, Cursor
    <3> HIDE DEF v, h
    <3>5. /\ [cursors[s] EXCEPT !.visible = v, !.shape = h] \in Cursor
          /\ [cursors[s] EXCEPT !.visible = v, !.shape = h].visible = v
      BY <3>1, <3>2, <3>3 DEF Cursor
    <3>6. /\ cursors' \in [Screen -> Cursor] /\ cursors'[s].visible = v
          /\ \A x \in Screen \ {s} : cursors'[x] = cursors[x]
      BY <1>0, <3>4, <3>5 DEF SceneOK
    <3>7. SceneOK' /\ LoopOK' /\ HistoryOK'
      BY <1>0, <2>2, <2>4, <3>6 DEF SceneOK, LoopOK, HistoryOK
    <3>8. /\ p.cap.backend = "gdi" /\ p.cap.gdiCursor # "unknown" => ~cursors'[s].visible
          /\ p.cap.backend = "gdi" => p.cap.gdiCursor # "unknown"
      <4>1. SUFFICES ASSUME p.cap.backend = "gdi"
                     PROVE  ~cursors'[s].visible /\ p.cap.gdiCursor # "unknown"
        OBVIOUS
      <4>2. /\ ~p.visible /\ c.backend = "gdi" /\ p.cap.gdiCursor # "unknown"
            /\ p.moved \/ p.cap.gdiCursor = c.gdiCursor
        BY <1>8, <1>17, <4>1
      <4>3. ~p.moved => ~cursors[s].visible
        BY <1>15, <4>2 DEF ScreenInv, c
      <4>4. QED
        BY <1>9, <3>6, <4>2, <4>3 DEF v
    <3>9. ScreenInv(s)'
      BY <1>10, <2>3, <3>8 DEF ScreenInv
    <3>10. QED
      BY <1>14, <2>2, <3>6, <3>7, <3>9
  <2>5. CASE /\ p.reshaped /\ UpdateFails /\ Fault
             /\ cursors' \in {[cursors EXCEPT ![s].visible = IF p.moved THEN p.visible ELSE @,
                                              ![s].shape = @ /\ kept] : kept \in BOOLEAN}
    <3>0. PICK kept \in BOOLEAN :
            cursors' = [cursors EXCEPT ![s].visible = IF p.moved THEN p.visible ELSE @, ![s].shape = @ /\ kept]
      BY <2>5
    <3> DEFINE v == IF p.moved THEN p.visible ELSE cursors[s].visible
               h == (cursors[s].shape /\ kept)
    <3>1. cursors[s] \in Cursor
      BY <1>0 DEF SceneOK
    <3>2. v \in BOOLEAN
      BY <1>9, <3>1 DEF Cursor
    <3>3. h \in BOOLEAN
      BY Zenon
    <3>4. cursors' = [cursors EXCEPT ![s] = [cursors[s] EXCEPT !.visible = v, !.shape = h]]
      BY <1>0, <3>0, <3>1 DEF SceneOK, Cursor
    <3> HIDE DEF v, h
    <3>5. [cursors[s] EXCEPT !.visible = v, !.shape = h] \in Cursor
      BY <3>1, <3>2, <3>3 DEF Cursor
    <3>6. /\ cursors' \in [Screen -> Cursor] /\ \A x \in Screen \ {s} : cursors'[x] = cursors[x]
      BY <1>0, <3>4, <3>5 DEF SceneOK
    <3>7. SceneOK' /\ LoopOK' /\ HistoryOK'
      BY <1>0, <2>2, <2>5, <3>6, UpdateFailsIs, FaultIs DEF SceneOK, LoopOK, HistoryOK
    <3>8. p.cap.backend # "gdi"
      BY <1>8, <1>17, <2>5
    <3>9. ScreenInv(s)'
      BY <1>10, <2>3, <3>8 DEF ScreenInv
    <3>10. QED
      BY <1>14, <2>2, <3>6, <3>7, <3>9
  <2>6. QED
    BY <1>2, <1>17, <2>4, <2>5 DEF ShowFrame
<1>18. CASE p.kind # "frame"
  <2>1. /\ live' = seen /\ UNCHANGED <<cursors, failing, failures, quit, engine_failed>>
        /\ dropped' = dropped \cup {x \in {s} : p.kind = "failed" /\ p.out # o}
        /\ IF mayFail THEN faults' = faults + 1 ELSE UNCHANGED faults
    BY <1>2, <1>18 DEF seen, o
  <2>2. faults' \in 0 .. MaxFaults
    BY <1>0, <1>4, <1>5, <2>1, FrameBounds DEF HistoryOK, MayFail
  <2>3. SceneOK' /\ LoopOK' /\ HistoryOK'
    BY <1>0, <1>13, <2>1, <2>2 DEF SceneOK, LoopOK, HistoryOK
  <2>4. p.cap.backend = "dxgi" /\ p.cap.copy = "masked" /\ live'[s] = "copy" => s \in dropped'
    BY <1>8, <1>13, <1>15, <1>18, <2>1 DEF ScreenInv, c
  <2>5. /\ p.cap.backend = "gdi" /\ p.cap.gdiCursor # "unknown" => ~cursors'[s].visible
        /\ p.cap.backend = "gdi" /\ p.cap.gdiCursor = "unknown" => p.cap.copy = "none"
    BY <1>8, <1>15, <1>18, <2>1 DEF ScreenInv, c
  <2>6. ScreenInv(s)'
    BY <1>10, <2>4, <2>5 DEF ScreenInv
  <2>7. QED
    BY <1>13, <1>14, <2>1, <2>3, <2>6
<1>19. QED
  BY <1>16, <1>17, <1>18

LEMMA FramesNextInv ==
  ASSUME FramesTypeOK, FramesInv, [FramesNext]_framesVars
  PROVE  FramesTypeOK' /\ FramesInv'
<1>0. CapturesOK /\ SceneOK /\ TierOK /\ LoopOK /\ OutsideOK /\ HistoryOK
  BY TypeParts
\* A step that leaves captures, scene and what was dropped leaves the hazards.
<1>1. ASSUME UNCHANGED <<captures, outputs, sceneVars, outsideVars, dropped>>,
             TierOK', LoopOK', faults' \in 0 .. MaxFaults
      PROVE  FramesTypeOK' /\ FramesInv'
  <2>1. UNCHANGED <<captures, outputs, live, cursors, secure, guarded, mouse, dropped>>
    BY <1>1 DEF sceneVars, outsideVars
  <2>2. CapturesOK' /\ SceneOK' /\ OutsideOK' /\ HistoryOK'
    BY <1>0, <1>1, <2>1 DEF CapturesOK, SceneOK, OutsideOK, HistoryOK
  <2>3. FramesInv'
    BY <2>1 DEF FramesInv, ScreenInv
  <2>4. QED
    BY <1>1, <2>2, <2>3, TypeParts
<1>2. CASE BeginFrame
  <2>1. /\ UNCHANGED <<captures, outputs, sceneVars, outsideVars, dropped>> /\ UNCHANGED <<tier, due, faults>>
        /\ at' = 1 /\ failing' = FALSE /\ UNCHANGED <<failures, quit, engine_failed>>
    BY <1>2 DEF BeginFrame, tierVars, historyVars
  <2>2. 1 \in 0 .. AllPolled
    BY FrameBounds DEF AllPolled
  <2>3. TierOK' /\ LoopOK' /\ faults' \in 0 .. MaxFaults
    BY <1>0, <2>1, <2>2 DEF TierOK, LoopOK, HistoryOK
  <2>4. QED
    BY <1>1, <2>1, <2>3
<1>3. CASE EndFrame
  <2>1. /\ UNCHANGED <<captures, outputs, sceneVars, outsideVars, dropped>> /\ UNCHANGED <<tier, failing>>
        /\ at' = TopOfLoop /\ failures' = IF failing THEN failures ELSE 0
        /\ due' = [s \in Screen |-> IF due[s] > 0 THEN due[s] - 1 ELSE 0]
        /\ \/ UNCHANGED <<quit, engine_failed, faults>>
           \/ Fault /\ quit' = TRUE /\ engine_failed' = TRUE
    BY <1>3 DEF EndFrame
  <2>2. TopOfLoop \in 0 .. AllPolled
    BY FrameBounds DEF AllPolled, TopOfLoop
  <2>3. TierOK'
    BY <1>0, <2>1 DEF TierOK
  <2>4. quit' \in BOOLEAN /\ engine_failed' \in BOOLEAN /\ failures' \in Nat
    BY <1>0, <2>1 DEF LoopOK
  <2>5. LoopOK'
    BY <1>0, <2>1, <2>2, <2>4 DEF LoopOK
  <2>6. faults' \in 0 .. MaxFaults
    BY <1>0, <2>1, FaultIs DEF HistoryOK
  <2>7. QED
    BY <1>1, <2>1, <2>3, <2>5, <2>6
<1>4. CASE CaptureScreen
  <2>1. at \in Screen /\ at' = at + 1 /\ (Skip(at) \/ PollScreen(at))
    BY <1>4 DEF CaptureScreen
  <2>2. at' \in 0 .. AllPolled
    BY <2>1, FrameBounds DEF Screen, AllPolled
  <2>3. CASE Skip(at)
    <3>1. /\ UNCHANGED <<captures, outputs, sceneVars, outsideVars, dropped>>
          /\ UNCHANGED <<due, failing, failures, quit, engine_failed, faults>> /\ Retier(at)
      BY <2>3 DEF Skip, historyVars
    <3>2. TierOK' /\ LoopOK' /\ faults' \in 0 .. MaxFaults
      BY <1>0, <2>1, <2>2, <3>1, RetierIs DEF TierOK, LoopOK, HistoryOK
    <3>3. QED
      BY <1>1, <3>1, <3>2
  <2>4. CASE PollScreen(at)
    BY <2>1, <2>2, <2>4, PollScreenKeeps
  <2>5. QED
    BY <2>1, <2>3, <2>4
<1>5. CASE Reload
  BY <1>5, ReloadKeeps
<1>6. CASE Quit
  <2>1. /\ UNCHANGED <<captures, outputs, sceneVars, outsideVars, dropped>> /\ UNCHANGED <<tier, due, faults>>
        /\ UNCHANGED <<at, failing, failures, engine_failed>> /\ quit' = TRUE
    BY <1>6 DEF Quit, tierVars, historyVars
  <2>2. TierOK' /\ LoopOK' /\ faults' \in 0 .. MaxFaults
    BY <1>0, <2>1 DEF TierOK, LoopOK, HistoryOK
  <2>3. QED
    BY <1>1, <2>1, <2>2
<1>7. CASE Windows
  BY <1>7, WindowsKeep
<1>8. CASE Done \/ UNCHANGED framesVars
  <2>1. /\ UNCHANGED <<captures, outputs, sceneVars, outsideVars, dropped>>
        /\ UNCHANGED <<tier, due, faults, at, failing, failures, quit, engine_failed>>
    BY <1>8 DEF Done, framesVars, tierVars, loopVars, historyVars
  <2>2. TierOK' /\ LoopOK' /\ faults' \in 0 .. MaxFaults
    BY <1>0, <2>1 DEF TierOK, LoopOK, HistoryOK
  <2>3. QED
    BY <1>1, <2>1, <2>2
<1>9. QED
  BY <1>2, <1>3, <1>4, <1>5, <1>6, <1>7, <1>8 DEF FramesNext, Frame

LEMMA FramesInvariant == FramesSpec => [](FramesTypeOK /\ FramesInv)
<1>1. FramesInit => FramesTypeOK /\ FramesInv
  BY FramesInitInv
<1>2. FramesTypeOK /\ FramesInv /\ [FramesNext]_framesVars => (FramesTypeOK /\ FramesInv)'
  BY FramesNextInv
<1>3. QED
  BY <1>1, <1>2, PTL DEF FramesSpec

\* Type correctness of the frames: captures, scene and loop, for any number of
\* screens, any rates and any number of errors.
THEOREM FramesTypeCorrect == FramesSpec => []FramesTypeOK
BY FramesInvariant, PTL

\* However protected content comes and goes between acquire, copy, errors, new
\* duplications and reloads, the black image of it is not presented on a screen
\* whose frames were shown as they came (poll, the masked frame of the loop).
THEOREM BlackIsNeverPresented == FramesSpec => []NoBlackFrame
<1>1. FramesTypeOK /\ FramesInv => NoBlackFrame
  <2> SUFFICES ASSUME FramesTypeOK, FramesInv, NEW s \in Screen \ dropped,
                      captures[s].backend = "dxgi", Drawn(s) = "masked"
               PROVE  FALSE
    BY DEF NoBlackFrame
  <2>1. live[s] \in {"copy", "dead", "none"}
    BY TypeParts DEF SceneOK
  <2>2. live[s] = "copy" /\ captures[s].copy = "masked"
    BY <2>1 DEF Drawn
  <2>3. QED
    BY <2>2 DEF FramesInv, ScreenInv
<1>2. QED
  BY <1>1, FramesInvariant, PTL

\* Once the fallback draws the pointer into the image, the renderer draws none
\* beside it (poll_gdi, the pointer's update of the loop).
THEOREM ThePointerIsDrawnOnce == FramesSpec => []OnePointer
<1>1. FramesInv => OnePointer
  BY DEF FramesInv, ScreenInv, OnePointer
<1>2. QED
  BY <1>1, FramesInvariant, PTL
================================================================================
