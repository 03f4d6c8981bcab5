------------------------ MODULE OrientationCalibration ------------------------
(***************************************************************************)
(* The guided calibration (tools/orientation_calibrate.cpp), the analysis   *)
(* of its recordings (imu/orientation_calibration.cpp, imu/mag_heading.cpp) *)
(* and the file both leave for the engine.  One tool runs at a time; it may *)
(* be run again, die at any point, and share glasses and file with others.  *)
(*                                                                         *)
(* A recording is a sequence of turning rates in deg/s, one per sample.  The *)
(* axis of a motion, the fit of the field and the comparison of the axes are *)
(* any of their outcomes.                                                   *)
(***************************************************************************)
EXTENDS Integers, Sequences, SequencesExt, FiniteSets

CONSTANTS
  Rates,         \* turning rates a sample may have, deg/s
  MaxSamples,    \* bound on a recording
  MinSamples,    \* the 100 samples a recording must have
  StillWindow,   \* the 1.5 s of stillness asked for
  StillLength,   \* the 2 s a still recording must last
  Hold,          \* the 0.45 s below the off rate that end a motion
  MinMotion,     \* the 0.25 s a motion must last
  MaxRuns,       \* bound on how often the tool is started
  MaxFaults      \* bound on interruptions, refusals, crashes and foreign edits

ASSUME CalibrationAssumption ==
  /\ {MaxSamples, MinSamples, StillWindow, StillLength, Hold, MinMotion} \subseteq Nat \ {0}
  /\ {MaxRuns, MaxFaults} \subseteq Nat /\ Rates \subseteq Nat
  /\ MinSamples < StillLength /\ StillLength <= MaxSamples

VARIABLES
  file,        \* orientation.json: its matrix and its magnetometer keys
  temp,        \* the temporary file beside it
  tool,        \* the running session
  samples,     \* what the step being recorded has received
  broken,      \* the recording of the field has a hole; no other step looks for one
  streaming,   \* the glasses send reports
  runs,        \* how often the tool was started
  faults,      \* how much went wrong
  disk,        \* history: the file as something else than this session left it
  seen         \* history: the file as the session last read it to save

calibVars == <<file, temp, tool, samples, broken, streaming, runs, faults, disk, seen>>

Good == 0 .. MaxRuns     \* values by the session that measured them, 0: before all
Missing == -1
Bad == -2
File == [matrix : Good \cup {Missing, Bad}, mag : Good \cup {Missing, Bad}]
NoFile == [matrix |-> Missing, mag |-> Missing]

Steps == {"still", "yaw", "nod", "tilt", "field"}
Motions == {"yaw", "nod", "tilt"}
NextStep == [yaw |-> "nod", nod |-> "tilt"]

Off(status) ==
  [pc |-> "off", mode |-> "orient", step |-> "still", attempt |-> 1, long |-> FALSE,
   out |-> NoFile, exit |-> status, why |-> "none"]

Reasons == {"none", "cancelled", "device", "few", "prerequisite", "still", "motion", "field",
            "short", "axes", "io"}
Tool ==
  [pc : {"off", "start", "ask", "record", "conclude", "save", "write", "replace"},
   mode : {"orient", "mag"}, step : Steps, attempt : 1 .. 3, long : BOOLEAN, out : File,
   exit : {"none", "ok", "failed", "killed"}, why : Reasons]

TypeOK ==
  /\ file \in File /\ disk \in File /\ seen \in File /\ temp \in {"none", "part", "whole"}
  /\ tool \in Tool /\ samples \in Seq(Nat) /\ broken \in BOOLEAN /\ streaming \in BOOLEAN
  /\ runs \in 0 .. MaxRuns /\ faults \in 0 .. MaxFaults

Sum(s) == FoldLeft(LAMBDA total, r : total + r, 0, s)
\* The squares of the first n rates, summed up.
Spent(s) == LET e[n \in 0 .. Len(s)] == IF n = 0 THEN 0 ELSE e[n - 1] + s[n] * s[n] IN e
Energy(s) == Spent(s)[Len(s)]

(***************************************************************************)
(* The analysis.                                                            *)
(***************************************************************************)
\* A window is usable if its mean rate is below 2 deg/s and its spread at most 1.5.
Quiet(w) ==
  /\ Sum(w) < 2 * Len(w)
  /\ 4 * (Len(w) * Energy(w) - Sum(w) * Sum(w)) <= 9 * Len(w) * Len(w)
estimate_still_bias(s) == \E i \in 1 .. Len(s) - StillWindow + 1 : Quiet(SubSeq(s, i, i + StillWindow - 1))

On(r) == 2 * r > 5
AboveOff(r) == 2 * r > 3
NoRun == [in |-> FALSE, start |-> 0, last |-> 0, below |-> 0, energy |-> 0,
          best |-> [first |-> 0, last |-> 0, energy |-> -1]]

FinishRunMutant(r) ==
  [r EXCEPT !.in = FALSE, !.below = 0,
     !.best = IF r.in /\ r.last > r.start /\ r.energy > r.best.energy
                THEN [first |-> r.start, last |-> r.last, energy |-> r.energy] ELSE @]
FinishRun(r) ==
  [r EXCEPT !.in = FALSE, !.below = 0, !.energy = 0,
     !.best = IF r.in /\ r.last > r.start /\ r.energy > r.best.energy
                THEN [first |-> r.start, last |-> r.last, energy |-> r.energy] ELSE @]

\* One sample of the scan: on and off rates differ, a short rest does not end the run.
Scan(s, r, i) ==
  LET run == IF ~r.in /\ On(s[i]) THEN [r EXCEPT !.in = TRUE, !.start = i, !.last = i] ELSE r
      fed == [run EXCEPT !.energy = @ + s[i] * s[i]]
      rest == [fed EXCEPT !.below = @ + 1]
  IN IF ~run.in THEN run
     ELSE IF AboveOff(s[i]) THEN [fed EXCEPT !.last = i, !.below = 0]
     ELSE IF rest.below >= Hold THEN FinishRun(rest) ELSE rest

\* The samples taken for the motion; last = 0 if there is none.
Scanned(s) == LET r[n \in 0 .. Len(s)] == IF n = 0 THEN NoRun ELSE Scan(s, r[n - 1], n) IN r
MotionFound(s) == FinishRun(Scanned(s)[Len(s)]).best

\* Its axis may then be too short a way, mixed with another, or wobbling.
extract_axis(s) ==
  LET m == MotionFound(s)
  IN IF m.last <= m.first \/ m.last - m.first < MinMotion
       THEN {"NO_MOTION"} ELSE {"SMALL_EXCURSION", "AMBIGUOUS_AXIS", "OFF_AXIS", "OK"}

\* The fit integrates the gyro over the whole recording: a hole in it is refused.
fit_mag_hard_iron(s) ==
  IF broken THEN {"GAP"}
  ELSE {"TOO_SHORT", "TOO_FEW_MAG_SAMPLES", "SINGULAR", "IMPLAUSIBLE_FIELD", "POOR_FIT",
        "SMALL_COVERAGE", "OK"}

\* What is checked again when all steps have passed, and the axes against each other.
calibrate_orientation ==
  IF ~tool.long THEN {"STILL_TOO_SHORT"}
  ELSE {"BAD_ACCEL", "UP_MISMATCH", "NOD_NOT_LEVEL", "NON_ORTHO", "HANDEDNESS", "OK"}

load_orientation_calibration(f) == f.matrix \in Good
load_mag_calibration(f) == f.matrix # Missing /\ f.mag # Bad

(***************************************************************************)
(* The session.                                                             *)
(***************************************************************************)
Init ==
  /\ file \in {NoFile, [matrix |-> 0, mag |-> Missing], [matrix |-> 0, mag |-> 0],
               [matrix |-> 0, mag |-> Bad], [matrix |-> Bad, mag |-> 0]}
  /\ disk = file /\ seen = file /\ temp = "none" /\ tool = Off("none")
  /\ samples = <<>> /\ broken = FALSE /\ streaming = FALSE /\ runs = 0 /\ faults = 0

Fault == faults < MaxFaults /\ faults' = faults + 1

\* Leaving main: the guard turns the stream off.
Exit(status, why) ==
  /\ tool' = [Off(status) EXCEPT !.mode = tool.mode, !.out = tool.out, !.why = why]
  /\ streaming' = FALSE /\ samples' = <<>> /\ broken' = FALSE

Launch(mode) ==
  /\ tool.pc = "off" /\ runs < MaxRuns
  /\ tool' = [Off("none") EXCEPT !.pc = "start", !.mode = mode] /\ runs' = runs + 1
  /\ disk' = file /\ seen' = file
  /\ UNCHANGED <<file, temp, samples, broken, streaming, faults>>

\* The glasses are opened and stream; --mag first wants a matrix to add the field to.
Start ==
  /\ tool.pc = "start"
  /\ \/ /\ tool.mode = "orient" \/ load_orientation_calibration(file)
        /\ tool' = [tool EXCEPT !.pc = "ask"] /\ streaming' = TRUE
        /\ UNCHANGED <<samples, broken, faults>>
     \/ /\ tool.mode = "mag" /\ ~load_orientation_calibration(file)
        /\ Exit("failed", "prerequisite") /\ UNCHANGED faults
     \/ Fault /\ Exit("failed", "device")
  /\ UNCHANGED <<file, temp, runs, disk, seen>>

\* The command is carried out and its acknowledgement does not come in time.
StartUnacknowledged ==
  /\ tool.pc = "start" /\ Fault
  /\ tool' = [Off("failed") EXCEPT !.mode = tool.mode, !.why = "device"] /\ streaming' = TRUE
  /\ UNCHANGED <<file, temp, samples, broken, runs, disk, seen>>

Enter ==
  /\ tool.pc = "ask" /\ tool' = [tool EXCEPT !.pc = "record"]
  /\ samples' = <<>> /\ broken' = FALSE
  /\ UNCHANGED <<file, temp, streaming, runs, faults, disk, seen>>
Cancel ==
  /\ tool.pc = "ask" /\ Exit("failed", "cancelled") /\ UNCHANGED <<file, temp, runs, faults, disk, seen>>

\* The rates of a recording of the field are nothing to the model.
Receive ==
  /\ tool.pc = "record" /\ streaming /\ Len(samples) < MaxSamples
  /\ \E r \in IF tool.step = "field" THEN {0} ELSE Rates : samples' = Append(samples, r)
  /\ UNCHANGED <<file, temp, tool, broken, streaming, runs, faults, disk, seen>>
\* Another program stops the stream, and may start it again.
Silence ==
  /\ tool.pc = "record" /\ streaming /\ Fault /\ streaming' = FALSE
  /\ UNCHANGED <<file, temp, tool, samples, broken, runs, disk, seen>>
Resume ==
  /\ tool.pc = "record" /\ ~streaming /\ streaming' = TRUE
  /\ broken' = (tool.step = "field" /\ samples # <<>>)
  /\ UNCHANGED <<file, temp, tool, samples, runs, faults, disk, seen>>
Disconnect ==
  /\ tool.pc = "record" /\ Fault /\ Exit("failed", "device") /\ UNCHANGED <<file, temp, runs, disk, seen>>

\* The time of the step is over.  Too little received ends the session at once.
Recorded == tool.pc = "record" /\ Len(samples) >= MinSamples
capture_phase ==
  /\ tool.pc = "record" /\ Len(samples) < MinSamples /\ Exit("failed", "few")
  /\ UNCHANGED <<file, temp, runs, faults, disk, seen>>

Passed(next, pc) ==
  /\ tool' = [tool EXCEPT !.pc = pc, !.step = next, !.attempt = 1,
                          !.long = IF tool.step = "still" THEN Len(samples) >= StillLength ELSE @]
  /\ samples' = <<>> /\ broken' = FALSE /\ UNCHANGED streaming
Repeat(why) ==
  IF tool.attempt < 3
    THEN /\ tool' = [tool EXCEPT !.pc = "ask", !.attempt = @ + 1]
         /\ samples' = <<>> /\ broken' = FALSE /\ UNCHANGED streaming
    ELSE Exit("failed", why)

capture_still ==
  /\ Recorded /\ tool.step = "still"
  /\ IF estimate_still_bias(samples)
       THEN Passed(IF tool.mode = "mag" THEN "field" ELSE "yaw", "ask")
       ELSE Repeat("still")
  /\ UNCHANGED <<file, temp, runs, faults, disk, seen>>
capture_motion ==
  /\ Recorded /\ tool.step \in Motions
  /\ \E code \in extract_axis(samples) :
       IF code # "OK" THEN Repeat("motion")
       ELSE IF tool.step = "tilt" THEN Passed("tilt", "conclude")
       ELSE Passed(NextStep[tool.step], "ask")
  /\ UNCHANGED <<file, temp, runs, faults, disk, seen>>
calibrate_magnetometer ==
  /\ Recorded /\ tool.step = "field"
  /\ \E code \in fit_mag_hard_iron(samples) :
       IF code = "OK" THEN Passed("field", "save") ELSE Repeat("field")
  /\ UNCHANGED <<file, temp, runs, faults, disk, seen>>
Conclude ==
  /\ tool.pc = "conclude"
  /\ \E code \in calibrate_orientation :
       IF code = "OK"
         THEN tool' = [tool EXCEPT !.pc = "save"] /\ UNCHANGED <<samples, broken, streaming>>
         ELSE Exit("failed", IF code = "STILL_TOO_SHORT" THEN "short" ELSE "axes")
  /\ UNCHANGED <<file, temp, runs, faults, disk, seen>>

(***************************************************************************)
(* Saving: each calibration rewrites the file and keeps the other half, as   *)
(* it is when it saves.  A file that cannot be read has no other half.       *)
(***************************************************************************)
Merge(f) ==
  IF tool.mode = "mag" THEN [matrix |-> f.matrix, mag |-> runs]
  ELSE [matrix |-> runs, mag |-> IF load_mag_calibration(f) THEN f.mag ELSE Missing]

\* The merge of a session that kept what it read when it started.
SaveMutant ==
  /\ tool.pc = "save" /\ seen' = file
  /\ IF tool.mode = "mag" /\ ~load_orientation_calibration(file)
       THEN Exit("failed", "io")
       ELSE /\ tool' = [tool EXCEPT !.pc = "write", !.out = Merge(seen)]
            /\ UNCHANGED <<samples, broken, streaming>>
  /\ UNCHANGED <<file, temp, runs, faults, disk>>
Save ==
  /\ tool.pc = "save" /\ seen' = file
  /\ IF tool.mode = "mag" /\ ~load_orientation_calibration(file)
       THEN Exit("failed", "io")
       ELSE /\ tool' = [tool EXCEPT !.pc = "write", !.out = Merge(file)]
            /\ UNCHANGED <<samples, broken, streaming>>
  /\ UNCHANGED <<file, temp, runs, faults, disk>>
\* Something else has the file open: the field is lost, the matrix step gives up.
SaveUnread ==
  /\ tool.pc = "save" /\ file # NoFile /\ Fault /\ seen' = NoFile
  /\ IF tool.mode = "mag" THEN Exit("failed", "io")
     ELSE /\ tool' = [tool EXCEPT !.pc = "write", !.out = Merge(NoFile)]
          /\ UNCHANGED <<samples, broken, streaming>>
  /\ UNCHANGED <<file, temp, runs, disk>>

\* The text goes to the temporary file: it cannot be opened, written or flushed, or it is whole.
write_calibration_file ==
  /\ tool.pc = "write"
  /\ \/ temp' = "whole" /\ tool' = [tool EXCEPT !.pc = "replace"]
        /\ UNCHANGED <<faults, samples, broken, streaming>>
     \/ Fault /\ temp' \in {temp, "part", "none"} /\ Exit("failed", "io")
  /\ UNCHANGED <<file, runs, disk, seen>>
Replace ==
  /\ tool.pc = "replace" /\ temp' = "none"
  /\ \/ file' = tool.out /\ Exit("ok", "none") /\ UNCHANGED faults
     \/ Fault /\ Exit("failed", "io") /\ UNCHANGED file
  /\ UNCHANGED <<runs, disk, seen>>

\* The console is closed: no guard runs, and a write may be cut short.
Killed ==
  /\ tool.pc # "off" /\ Fault
  /\ tool' = [Off("killed") EXCEPT !.mode = tool.mode, !.out = tool.out]
  /\ samples' = <<>> /\ broken' = FALSE
  /\ \/ /\ temp' \in IF tool.pc = "write" THEN {temp, "part", "whole"} ELSE {temp}
        /\ UNCHANGED file
     \/ tool.pc = "replace" /\ temp' = "none" /\ file' = tool.out
  /\ UNCHANGED <<streaming, runs, disk, seen>>

\* The other calibration is run beside this one, or the file is put there or edited by hand.
Edit ==
  /\ Fault
  /\ file' \in {NoFile, [matrix |-> 0, mag |-> 0], [matrix |-> Bad, mag |-> Missing]} \ {file}
  /\ disk' = file'
  /\ tool' = IF tool.pc = "off" THEN Off("none") ELSE tool
  /\ UNCHANGED <<temp, samples, broken, streaming, runs, seen>>

Next ==
  \/ \E mode \in {"orient", "mag"} : Launch(mode)
  \/ Start \/ StartUnacknowledged \/ Enter \/ Cancel \/ Receive \/ Silence \/ Resume \/ Disconnect
  \/ capture_phase \/ capture_still \/ capture_motion \/ calibrate_magnetometer \/ Conclude
  \/ Save \/ SaveUnread \/ write_calibration_file \/ Replace \/ Killed \/ Edit

Spec == Init /\ [][Next]_calibVars

(***************************************************************************)
(* Properties.                                                              *)
(***************************************************************************)
\* What the tool says when it ends is what the file is: "Saved" means this session's measurement
\* beside the other half as it was when saving began, a failure ("No calibration file was
\* changed") the file as it was, and a console closed at any moment one of the two.
ExitSaysTheFile ==
  tool.pc = "off" =>
    /\ tool.exit = "ok" => file = Merge(seen)
    /\ tool.exit = "failed" => file = disk
    /\ tool.exit = "killed" => file \in {disk, Merge(seen)}

\* The definition the scan of a motion is checked against (orientation_calibration.cpp:202-205): a
\* motion goes from a sample above the on rate to one above the off rate, without a rest of Hold
\* samples in it, and is neither a part of a longer one nor two of them.
Continuous(s, i, j) == ~\E k \in i .. j + 1 - Hold : \A x \in k .. k + Hold - 1 : ~AboveOff(s[x])
IsMotion(s, i, j) ==
  /\ i < j /\ On(s[i]) /\ AboveOff(s[j]) /\ Continuous(s, i, j)
  /\ ~\E h \in 1 .. i - 1 : On(s[h]) /\ Continuous(s, h, i)
  /\ ~\E k \in j + 1 .. Len(s) : AboveOff(s[k]) /\ Continuous(s, j, k)

\* What a motion spent, the rest that ended it included.
MotionEnergy(s, i, j) == Spent(s)[IF j + Hold <= Len(s) THEN j + Hold ELSE Len(s)] - Spent(s)[i - 1]

\* If the head moved more than once in a step, the axis is taken from the motion with the most
\* energy alone: separate motions are not merged, and the turn at the end of one does not split it.
OneMotionIsJudged ==
  (tool.pc = "record" /\ tool.step \in Motions) =>
    LET m == MotionFound(samples)
        motions == {p \in (1 .. Len(samples)) \X (1 .. Len(samples)) : IsMotion(samples, p[1], p[2])}
        energy(p) == MotionEnergy(samples, p[1], p[2])
    IN IF motions = {} THEN m.last = 0
       ELSE /\ <<m.first, m.last>> \in motions
            /\ \A p \in motions : energy(p) <= energy(<<m.first, m.last>>)

(***************************************************************************)
(* What the code does not keep (findings and hazards): each is violated.    *)
(***************************************************************************)
\* "Re-running the orientation calibration must not discard a stored magnetometer calibration"
\* (orientation_calibration.cpp:620).  It does if the file cannot be opened in that moment.
FieldIsKept ==
  [][tool.pc = "replace" /\ file' = tool.out /\ file.mag \in Good => file'.mag \in Good]_calibVars
\* "analyses a single motion phase so a tool can retry one step without repeating the whole session"
\* (orientation_calibration.h:61).  A step with too few samples ends it.
AStepIsRepeated == tool.why # "few"
\* Stillness that passed its step is long enough at the end of the session.
StillnessIsNotRefusedLate == tool.why # "short"
\* No stream is left on by a tool that left by itself.
StreamIsLeftOff == (tool.pc = "off" /\ tool.exit \in {"ok", "failed"}) => ~streaming
===============================================================================
