-------------------- MODULE OrientationCalibrationProofs --------------------
(***************************************************************************)
(* Both ways of learning what the glasses' sensors add to a movement.       *)
(* First, what the guided calibration says when it ends is what its file    *)
(* is, for every number of sessions and faults and whatever the recordings  *)
(* are, and that the scan of a recording finds its biggest motion; then,    *)
(* how the bias and the heading are learnt while the glasses are worn       *)
(* (PoseEstimator), for any samples, gates and windows.                     *)
(***************************************************************************)
EXTENDS OrientationCalibration, PoseEstimator, WellFoundedInduction, TLAPS

\* Merging keeps a file a file: a session writes the number it was given.
LEMMA MergeIsAFile ==
  ASSUME TypeOK, NEW f \in File
  PROVE  Merge(f) \in File
<1>1. runs \in Good /\ f.matrix \in Good \cup {Missing, Bad} /\ f.mag \in Good \cup {Missing, Bad}
  BY DEF TypeOK, File, Good
<1>2. QED
  BY <1>1 DEF Merge, File

LEMMA NoFileIsAFile == NoFile \in File
<1>1. Missing \in Good \cup {Missing, Bad}
  OBVIOUS
<1>2. QED
  BY <1>1 DEF NoFile, File

LEMMA NoSamples == <<>> \in Seq(Nat)
OBVIOUS

\* A step begins and ends with an empty recording and the stream as it was, or off.
LEMMA Cleared ==
  ASSUME TypeOK, samples' = <<>>, broken' = FALSE,
         UNCHANGED streaming \/ streaming' = FALSE \/ streaming' = TRUE
  PROVE  samples' \in Seq(Nat) /\ broken' \in BOOLEAN /\ streaming' \in BOOLEAN
<1>1. samples' \in Seq(Nat)
  BY samples' = <<>>, NoSamples, Zenon
<1>2. broken' \in BOOLEAN
  BY broken' = FALSE, Zenon
<1>3. streaming \in BOOLEAN
  BY DEF TypeOK
<1>4. streaming' \in BOOLEAN
  BY <1>3, UNCHANGED streaming \/ streaming' = FALSE \/ streaming' = TRUE, Zenon
<1>5. QED
  BY <1>1, <1>2, <1>4

LEMMA ToolFields ==
  ASSUME TypeOK
  PROVE  /\ tool.mode \in {"orient", "mag"} /\ tool.out \in File /\ tool.step \in Steps
         /\ tool.attempt \in 1 .. 3 /\ tool.long \in BOOLEAN
         /\ tool.exit \in {"none", "ok", "failed", "killed"} /\ tool.why \in Reasons
  BY DEF TypeOK, Tool

\* What leaving main does to the session.
LEMMA ExitShape ==
  ASSUME TypeOK, NEW status \in {"none", "ok", "failed", "killed"}, NEW why \in Reasons,
         Exit(status, why)
  PROVE  /\ tool' \in Tool /\ tool'.pc = "off" /\ tool'.exit = status
         /\ tool'.mode = tool.mode /\ tool'.out = tool.out
         /\ samples' \in Seq(Nat) /\ broken' \in BOOLEAN /\ streaming' \in BOOLEAN
<1>1. tool.mode \in {"orient", "mag"} /\ tool.out \in File
  BY ToolFields
<1>2. tool' = [pc |-> "off", mode |-> tool.mode, step |-> "still", attempt |-> 1, long |-> FALSE,
               out |-> tool.out, exit |-> status, why |-> why]
  BY Exit(status, why) DEF Exit, Off
<1>3. samples' = <<>> /\ broken' = FALSE /\ streaming' = FALSE
  BY Exit(status, why) DEF Exit
<1>4. tool' \in Tool
  BY <1>1, <1>2 DEF Tool, Steps
<1>5. samples' \in Seq(Nat) /\ broken' \in BOOLEAN /\ streaming' \in BOOLEAN
  BY <1>3, Cleared
<1>6. QED
  BY <1>2, <1>4, <1>5

\* A step that passed moves the session on and leaves alone what it is to write.
LEMMA PassedShape ==
  ASSUME TypeOK, NEW next \in Steps, NEW pc \in {"ask", "conclude", "save"}, Passed(next, pc)
  PROVE  /\ tool' \in Tool /\ tool'.pc = pc /\ tool'.mode = tool.mode
         /\ samples' \in Seq(Nat) /\ broken' \in BOOLEAN /\ streaming' \in BOOLEAN
<1>. DEFINE long == IF tool.step = "still" THEN Len(samples) >= StillLength ELSE tool.long
<1>1. long \in BOOLEAN
  <2>1. (Len(samples) >= StillLength) \in BOOLEAN
    OBVIOUS
  <2>2. tool.long \in BOOLEAN
    BY ToolFields
  <2>3. QED
    BY <2>1, <2>2, Zenon
<1>2. tool' \in Tool /\ tool'.pc = pc /\ tool'.mode = tool.mode
  <2>1. tool' = [tool EXCEPT !.pc = pc, !.step = next, !.attempt = 1, !.long = long]
    BY Passed(next, pc) DEF Passed
  <2>. HIDE DEF long
  <2>2. tool \in Tool /\ 1 \in 1 .. 3
    BY DEF TypeOK
  <2>3. tool' = [pc |-> pc, mode |-> tool.mode, step |-> next, attempt |-> 1, long |-> long,
                 out |-> tool.out, exit |-> tool.exit, why |-> tool.why]
    BY <2>1, <2>2 DEF Tool
  <2>4. tool' \in Tool
    BY <1>1, <2>2, <2>3, ToolFields DEF Tool
  <2>5. QED
    BY <2>3, <2>4
<1>3. samples' = <<>> /\ broken' = FALSE /\ UNCHANGED streaming
  BY Passed(next, pc) DEF Passed
<1>4. samples' \in Seq(Nat) /\ broken' \in BOOLEAN /\ streaming' \in BOOLEAN
  BY <1>3, Cleared
<1>5. QED
  BY <1>2, <1>4

\* A step that did not is asked for again, or ends the session as a failure.
LEMMA RepeatShape ==
  ASSUME TypeOK, NEW why \in Reasons, Repeat(why)
  PROVE  /\ tool' \in Tool /\ tool'.mode = tool.mode
         /\ tool'.pc = "ask" \/ (tool'.pc = "off" /\ tool'.exit = "failed")
         /\ samples' \in Seq(Nat) /\ broken' \in BOOLEAN /\ streaming' \in BOOLEAN
<1>1. CASE tool.attempt < 3
  <2>1. tool.attempt + 1 \in 1 .. 3
    <3>1. tool.attempt \in 1 .. 3
      BY ToolFields
    <3>2. QED
      BY <1>1, <3>1
  <2>2. tool' = [tool EXCEPT !.pc = "ask", !.attempt = tool.attempt + 1]
    BY <1>1, Repeat(why) DEF Repeat
  <2>3. tool' \in Tool /\ tool'.pc = "ask" /\ tool'.mode = tool.mode
    BY <2>1, <2>2 DEF TypeOK, Tool
  <2>4. samples' = <<>> /\ broken' = FALSE /\ UNCHANGED streaming
    BY <1>1, Repeat(why) DEF Repeat
  <2>5. samples' \in Seq(Nat) /\ broken' \in BOOLEAN /\ streaming' \in BOOLEAN
    BY <2>4, Cleared
  <2>6. QED
    BY <2>3, <2>5
<1>2. CASE ~(tool.attempt < 3)
  <2>1. Exit("failed", why)
    BY <1>2, Repeat(why) DEF Repeat
  <2>2. QED
    BY <2>1, ExitShape
<1>3. QED
  BY <1>1, <1>2

LEMMA FaultShape ==
  ASSUME TypeOK, Fault
  PROVE  faults' \in 0 .. MaxFaults
<1>1. faults \in 0 .. MaxFaults /\ MaxFaults \in Nat
  BY CalibrationAssumption DEF TypeOK
<1>2. QED
  BY <1>1, Fault DEF Fault

(***************************************************************************)
(* Types.                                                                   *)
(***************************************************************************)
Session == tool \in Tool /\ samples \in Seq(Nat) /\ broken \in BOOLEAN /\ streaming \in BOOLEAN
Files == file \in File /\ disk \in File /\ seen \in File /\ temp \in {"none", "part", "whole"}
Counts == runs \in 0 .. MaxRuns /\ faults \in 0 .. MaxFaults

LEMMA TypeParts == TypeOK <=> (Session /\ Files /\ Counts)
BY DEF TypeOK, Session, Files, Counts

LEMMA ExitTypes ==
  ASSUME TypeOK, NEW status \in {"none", "ok", "failed", "killed"}, NEW why \in Reasons,
         Exit(status, why)
  PROVE  Session'
BY ExitShape DEF Session

\* What is put into the session when it is started, stopped from outside or forgotten.
LEMMA OffIsATool ==
  ASSUME NEW status \in {"none", "ok", "failed", "killed"}, NEW pc \in {"off", "start"},
         NEW mode \in {"orient", "mag"}, NEW out \in File, NEW why \in Reasons
  PROVE  [pc |-> pc, mode |-> mode, step |-> "still", attempt |-> 1, long |-> FALSE,
          out |-> out, exit |-> status, why |-> why] \in Tool
<1>1. "still" \in Steps /\ 1 \in 1 .. 3 /\ FALSE \in BOOLEAN
  BY DEF Steps
<1>2. QED
  BY <1>1 DEF Tool

LEMMA LaunchTypes ==
  ASSUME TypeOK, NEW mode \in {"orient", "mag"}, Launch(mode)
  PROVE  TypeOK'
<1>. USE Launch(mode)
<1>1. runs' \in 0 .. MaxRuns
  <2>1. runs \in 0 .. MaxRuns /\ MaxRuns \in Nat
    BY CalibrationAssumption DEF TypeOK
  <2>2. QED
    BY <2>1 DEF Launch
<1>2. tool' \in Tool
  <2>1. tool' = [pc |-> "start", mode |-> mode, step |-> "still", attempt |-> 1, long |-> FALSE,
                 out |-> NoFile, exit |-> "none", why |-> "none"]
    BY DEF Launch, Off
  <2>2. "none" \in Reasons
    BY DEF Reasons
  <2>3. QED
    BY <2>1, <2>2, NoFileIsAFile, OffIsATool
<1>3. Session'
  BY <1>2 DEF Session, Launch, TypeOK
<1>4. Files' /\ Counts'
  BY <1>1 DEF Files, Counts, Launch, TypeOK
<1>5. QED
  BY <1>3, <1>4 DEF TypeOK, Session, Files, Counts

\* The steps that neither touch a file nor end a write.
SessionStep ==
  \/ Start \/ StartUnacknowledged \/ Enter \/ Cancel \/ Receive \/ Silence \/ Resume \/ Disconnect
  \/ capture_phase \/ capture_still \/ capture_motion \/ calibrate_magnetometer \/ Conclude

LEMMA SessionKeepsFiles ==
  ASSUME SessionStep
  PROVE  UNCHANGED <<file, temp, runs, disk, seen>> /\ (UNCHANGED faults \/ Fault)
BY SessionStep DEF SessionStep, Start, StartUnacknowledged, Enter, Cancel, Receive, Silence, Resume,
     Disconnect, capture_phase, capture_still, capture_motion, calibrate_magnetometer, Conclude

\* What such a step leaves behind: a session that works, or one that has ended as a failure.
LEMMA SessionShape ==
  ASSUME TypeOK, SessionStep
  PROVE  /\ Session' /\ tool.pc # "off" /\ tool'.mode = tool.mode
         /\ tool'.pc \notin {"off", "write", "replace"} \/ (tool'.pc = "off" /\ tool'.exit = "failed")
<1>. DEFINE Goal == /\ Session' /\ tool.pc # "off" /\ tool'.mode = tool.mode
                    /\ \/ tool'.pc \notin {"off", "write", "replace"}
                       \/ tool'.pc = "off" /\ tool'.exit = "failed"
<1>. SUFFICES Goal
  OBVIOUS
<1>0. {"cancelled", "device", "few", "prerequisite", "still", "motion", "field", "short", "axes", "io"}
        \subseteq Reasons
  BY DEF Reasons
<1>a. ASSUME NEW why \in Reasons, Exit("failed", why), tool.pc # "off" PROVE Goal
  BY <1>a, ExitShape DEF Session
<1>b. ASSUME NEW next \in Steps, NEW pc \in {"ask", "conclude", "save"}, Passed(next, pc),
             tool.pc # "off" PROVE Goal
  BY <1>b, PassedShape DEF Session
<1>c. ASSUME NEW why \in Reasons, Repeat(why), tool.pc # "off" PROVE Goal
  BY <1>c, RepeatShape DEF Session
<1>d. ASSUME NEW pc \in {"ask", "record", "save"}, tool' = [tool EXCEPT !.pc = pc],
             samples' \in Seq(Nat), broken' \in BOOLEAN, streaming' \in BOOLEAN, tool.pc # "off"
      PROVE  Goal
  <2>1. tool' \in Tool /\ tool'.pc = pc /\ tool'.mode = tool.mode
    BY <1>d DEF TypeOK, Tool
  <2>2. QED
    BY <1>d, <2>1 DEF Session
<1>e. samples \in Seq(Nat) /\ broken \in BOOLEAN /\ streaming \in BOOLEAN
  BY DEF TypeOK
<1>. HIDE DEF Goal
<1>1. CASE Start
  <2>1. tool.pc # "off"
    BY <1>1 DEF Start
  <2>2. CASE Exit("failed", "prerequisite") \/ Exit("failed", "device")
    BY <1>0, <1>a, <2>1, <2>2
  <2>3. CASE tool' = [tool EXCEPT !.pc = "ask"] /\ streaming' = TRUE /\ UNCHANGED <<samples, broken>>
    <3>1. streaming' \in BOOLEAN
      BY <2>3, Zenon
    <3>2. samples' \in Seq(Nat) /\ broken' \in BOOLEAN
      BY <1>e, <2>3
    <3>3. QED
      BY <1>d, <2>1, <2>3, <3>1, <3>2
  <2>4. QED
    BY <1>1, <2>2, <2>3 DEF Start
<1>2. CASE StartUnacknowledged
  <2>1. tool' = [pc |-> "off", mode |-> tool.mode, step |-> "still", attempt |-> 1, long |-> FALSE,
                 out |-> NoFile, exit |-> "failed", why |-> "device"]
    BY <1>2 DEF StartUnacknowledged, Off
  <2>2. tool' \in Tool
    BY <1>0, <2>1, ToolFields, NoFileIsAFile, OffIsATool
  <2>3. streaming' \in BOOLEAN
    BY <1>2, Zenon DEF StartUnacknowledged
  <2>4. samples' \in Seq(Nat) /\ broken' \in BOOLEAN /\ tool.pc # "off"
    BY <1>2, <1>e DEF StartUnacknowledged
  <2>5. QED
    BY <2>1, <2>2, <2>3, <2>4 DEF Goal, Session
<1>3. CASE Enter
  <2>1. samples' = <<>> /\ broken' = FALSE /\ UNCHANGED streaming
    BY <1>3 DEF Enter
  <2>2. tool.pc # "off" /\ tool' = [tool EXCEPT !.pc = "record"]
    BY <1>3 DEF Enter
  <2>3. QED
    BY <2>1, <2>2, Cleared, <1>d
<1>4. CASE Cancel \/ Disconnect \/ capture_phase
  BY <1>0, <1>4, <1>a DEF Cancel, Disconnect, capture_phase
<1>5. CASE Receive
  <2>1. PICK r \in Nat : samples' = Append(samples, r)
    <3>1. {0} \subseteq Nat /\ Rates \subseteq Nat
      BY CalibrationAssumption
    <3>2. QED
      BY <1>5, <3>1 DEF Receive
  <2>2. samples' \in Seq(Nat)
    BY <1>e, <2>1
  <2>3. tool' = tool /\ broken' = broken /\ streaming' = streaming /\ tool.pc = "record"
    BY <1>5 DEF Receive
  <2>4. tool \in Tool
    BY DEF TypeOK
  <2>5. QED
    BY <1>e, <2>2, <2>3, <2>4 DEF Goal, Session
<1>6. CASE Silence \/ Resume
  <2>1. tool' = tool /\ samples' = samples /\ tool.pc = "record"
    BY <1>6 DEF Silence, Resume
  <2>2. tool \in Tool
    BY DEF TypeOK
  <2>3. streaming' \in BOOLEAN
    BY <1>6, Zenon DEF Silence, Resume
  <2>4. (tool.step = "field" /\ samples # <<>>) \in BOOLEAN
    OBVIOUS
  <2>5. broken' = broken \/ broken' = (tool.step = "field" /\ samples # <<>>)
    BY <1>6, Zenon DEF Silence, Resume
  <2>6. broken' \in BOOLEAN
    BY <1>e, <2>4, <2>5, Zenon
  <2>7. QED
    BY <1>e, <2>1, <2>2, <2>3, <2>6 DEF Goal, Session
<1>7. CASE capture_still
  <2>1. tool.pc # "off"
    BY <1>7 DEF capture_still, Recorded
  <2>2. {"field", "yaw"} \subseteq Steps
    BY DEF Steps
  <2>3. Repeat("still") \/ Passed("field", "ask") \/ Passed("yaw", "ask")
    BY <1>7, Zenon DEF capture_still
  <2>4. QED
    BY <1>0, <1>b, <1>c, <2>1, <2>2, <2>3
<1>8. CASE capture_motion
  <2>1. tool.pc # "off" /\ tool.step \in Motions
    BY <1>8 DEF capture_motion, Recorded
  <2>2. {"nod", "tilt"} \subseteq Steps
    BY DEF Steps
  <2>3. tool.step # "tilt" => NextStep[tool.step] \in Steps
    BY <2>1, <2>2 DEF Motions, NextStep
  <2>4. \/ Repeat("motion") \/ Passed("tilt", "conclude")
        \/ tool.step # "tilt" /\ Passed(NextStep[tool.step], "ask")
    BY <1>8, Zenon DEF capture_motion
  <2>5. QED
    BY <1>0, <1>b, <1>c, <2>1, <2>2, <2>3, <2>4
<1>9. CASE calibrate_magnetometer
  <2>1. tool.pc # "off"
    BY <1>9 DEF calibrate_magnetometer, Recorded
  <2>2. "field" \in Steps
    BY DEF Steps
  <2>3. Repeat("field") \/ Passed("field", "save")
    BY <1>9, Zenon DEF calibrate_magnetometer
  <2>4. QED
    BY <1>0, <1>b, <1>c, <2>1, <2>2, <2>3
<1>10. CASE Conclude
  <2>1. tool.pc # "off"
    BY <1>10 DEF Conclude
  <2>2. \/ Exit("failed", "short") \/ Exit("failed", "axes")
        \/ tool' = [tool EXCEPT !.pc = "save"] /\ UNCHANGED <<samples, broken, streaming>>
    BY <1>10, Zenon DEF Conclude
  <2>3. CASE Exit("failed", "short") \/ Exit("failed", "axes")
    BY <1>0, <1>a, <2>1, <2>3
  <2>4. CASE tool' = [tool EXCEPT !.pc = "save"] /\ UNCHANGED <<samples, broken, streaming>>
    BY <1>d, <1>e, <2>1, <2>4
  <2>5. QED
    BY <2>2, <2>3, <2>4
<1>11. QED
  BY SessionStep, <1>1, <1>2, <1>3, <1>4, <1>5, <1>6, <1>7, <1>8, <1>9, <1>10 DEF SessionStep

LEMMA SessionTypes ==
  ASSUME TypeOK, SessionStep
  PROVE  TypeOK'
<1>1. Session'
  BY SessionStep, SessionShape
<1>2. UNCHANGED <<file, temp, runs, disk, seen>> /\ (UNCHANGED faults \/ Fault)
  BY SessionStep, SessionKeepsFiles
<1>3. Files'
  BY <1>2 DEF TypeOK, Files
<1>4. Counts'
  BY <1>2, FaultShape DEF TypeOK, Counts
<1>5. QED
  BY <1>1, <1>3, <1>4 DEF TypeOK, Session, Files, Counts

\* The steps that save, and the death of the tool.
SaveStep == Save \/ SaveUnread \/ write_calibration_file \/ Replace \/ Killed

\* Each ends the session, or moves it from the merge to the write to the replacement.
LEMMA SaveShape ==
  ASSUME TypeOK, SaveStep
  PROVE  /\ Session' /\ tool'.mode = tool.mode
         /\ \/ tool'.pc = "off"
            \/ tool'.pc = "write" /\ tool'.out = Merge(seen')
            \/ tool.pc = "write" /\ tool'.pc = "replace" /\ tool'.out = tool.out
<1>. DEFINE Goal == /\ Session' /\ tool'.mode = tool.mode
                    /\ \/ tool'.pc = "off"
                       \/ tool'.pc = "write" /\ tool'.out = Merge(seen')
                       \/ tool.pc = "write" /\ tool'.pc = "replace" /\ tool'.out = tool.out
<1>. SUFFICES Goal
  OBVIOUS
<1>0. {"none", "io"} \subseteq Reasons
  BY DEF Reasons
<1>a. ASSUME NEW status \in {"ok", "failed"}, NEW why \in Reasons, Exit(status, why) PROVE Goal
  BY <1>a, ExitShape DEF Session
<1>b. ASSUME NEW f \in File, tool' = [tool EXCEPT !.pc = "write", !.out = Merge(f)], seen' = f,
             UNCHANGED <<samples, broken, streaming>> PROVE Goal
  <2>1. Merge(f) \in File
    BY MergeIsAFile
  <2>2. tool' \in Tool /\ tool'.pc = "write" /\ tool'.mode = tool.mode /\ tool'.out = Merge(f)
    BY <2>1, <1>b DEF TypeOK, Tool
  <2>3. samples' \in Seq(Nat) /\ broken' \in BOOLEAN /\ streaming' \in BOOLEAN
    BY <1>b DEF TypeOK
  <2>4. QED
    BY <1>b, <2>2, <2>3 DEF Session
<1>. HIDE DEF Goal
<1>1. CASE Save
  <2>1. file \in File
    BY DEF TypeOK
  <2>2. \/ Exit("failed", "io")
        \/ /\ tool' = [tool EXCEPT !.pc = "write", !.out = Merge(file)]
           /\ UNCHANGED <<samples, broken, streaming>> /\ seen' = file
    BY <1>1 DEF Save
  <2>3. QED
    BY <1>0, <1>a, <1>b, <2>1, <2>2
<1>2. CASE SaveUnread
  <2>1. \/ Exit("failed", "io")
        \/ /\ tool' = [tool EXCEPT !.pc = "write", !.out = Merge(NoFile)]
           /\ UNCHANGED <<samples, broken, streaming>> /\ seen' = NoFile
    BY <1>2 DEF SaveUnread
  <2>2. QED
    BY <1>0, <1>a, <1>b, <2>1, NoFileIsAFile
<1>3. CASE write_calibration_file
  <2>1. CASE Exit("failed", "io")
    BY <1>0, <1>a, <2>1
  <2>2. CASE tool' = [tool EXCEPT !.pc = "replace"] /\ UNCHANGED <<samples, broken, streaming>>
    <3>1. tool' \in Tool /\ tool'.pc = "replace" /\ tool'.mode = tool.mode /\ tool'.out = tool.out
      BY <2>2 DEF TypeOK, Tool
    <3>2. samples' \in Seq(Nat) /\ broken' \in BOOLEAN /\ streaming' \in BOOLEAN
      BY <2>2 DEF TypeOK
    <3>3. tool.pc = "write"
      BY <1>3 DEF write_calibration_file
    <3>4. QED
      BY <3>1, <3>2, <3>3 DEF Goal, Session
  <2>3. QED
    BY <1>3, <2>1, <2>2 DEF write_calibration_file
<1>4. CASE Replace
  <2>1. Exit("ok", "none") \/ Exit("failed", "io")
    BY <1>4 DEF Replace
  <2>2. QED
    BY <1>0, <1>a, <2>1
<1>5. CASE Killed
  <2>1. tool' = [pc |-> "off", mode |-> tool.mode, step |-> "still", attempt |-> 1, long |-> FALSE,
                 out |-> tool.out, exit |-> "killed", why |-> "none"]
    BY <1>5 DEF Killed, Off
  <2>2. tool' \in Tool
    BY <1>0, <2>1, ToolFields, OffIsATool
  <2>3. samples' = <<>> /\ broken' = FALSE /\ UNCHANGED streaming
    BY <1>5 DEF Killed
  <2>4. QED
    BY <2>1, <2>2, <2>3, Cleared DEF Goal, Session
<1>6. QED
  BY SaveStep, <1>1, <1>2, <1>3, <1>4, <1>5 DEF SaveStep

LEMMA SaveTypes ==
  ASSUME TypeOK, SaveStep
  PROVE  TypeOK'
<1>1. Session'
  BY SaveStep, SaveShape
<1>2. UNCHANGED <<runs, disk>> /\ (UNCHANGED faults \/ Fault)
  BY SaveStep DEF SaveStep, Save, SaveUnread, write_calibration_file, Replace, Killed
<1>3. file' \in {file, tool.out} /\ seen' \in {seen, file, NoFile}
  BY SaveStep DEF SaveStep, Save, SaveUnread, write_calibration_file, Replace, Killed
<1>4. temp' \in {temp, "none", "part", "whole"}
  BY SaveStep DEF SaveStep, Save, SaveUnread, write_calibration_file, Replace, Killed
<1>5. Files'
  BY <1>2, <1>3, <1>4, ToolFields, NoFileIsAFile DEF TypeOK, Files
<1>6. Counts'
  BY <1>2, FaultShape DEF TypeOK, Counts
<1>7. QED
  BY <1>1, <1>5, <1>6 DEF TypeOK, Session, Files, Counts

LEMMA EditTypes ==
  ASSUME TypeOK, Edit
  PROVE  TypeOK'
<1>1. tool' \in Tool
  <2>1. CASE tool.pc = "off"
    <3>1. tool' = [pc |-> "off", mode |-> "orient", step |-> "still", attempt |-> 1, long |-> FALSE,
                   out |-> NoFile, exit |-> "none", why |-> "none"]
      BY <2>1, Edit DEF Edit, Off
    <3>2. "none" \in Reasons
      BY DEF Reasons
    <3>3. QED
      BY <3>1, <3>2, NoFileIsAFile, OffIsATool
  <2>2. CASE tool.pc # "off"
    BY <2>2, Edit DEF Edit, TypeOK
  <2>3. QED
    BY <2>1, <2>2
<1>2. Session'
  BY <1>1, Edit DEF Edit, Session, TypeOK
<1>3. file' \in File
  <2>1. 0 \in Good
    BY CalibrationAssumption DEF Good
  <2>2. {[matrix |-> 0, mag |-> 0], [matrix |-> Bad, mag |-> Missing]} \subseteq File
    BY <2>1 DEF File
  <2>3. QED
    BY <2>2, NoFileIsAFile, Edit DEF Edit
<1>4. Files'
  BY <1>3, Edit DEF Edit, Files, TypeOK
<1>5. Counts'
  BY Edit, FaultShape DEF Edit, Counts, TypeOK
<1>6. QED
  BY <1>2, <1>4, <1>5 DEF TypeOK, Session, Files, Counts

LEMMA InitTypes == Init => TypeOK
<1>. SUFFICES ASSUME Init PROVE TypeOK
  OBVIOUS
<1>1. tool \in Tool
  <2>1. tool = [pc |-> "off", mode |-> "orient", step |-> "still", attempt |-> 1, long |-> FALSE,
                out |-> NoFile, exit |-> "none", why |-> "none"]
    BY DEF Init, Off
  <2>2. "none" \in Reasons
    BY DEF Reasons
  <2>3. QED
    BY <2>1, <2>2, NoFileIsAFile, OffIsATool
<1>2. Files
  <2>1. 0 \in Good
    BY CalibrationAssumption DEF Good
  <2>2. {[matrix |-> 0, mag |-> Missing], [matrix |-> 0, mag |-> 0], [matrix |-> 0, mag |-> Bad],
         [matrix |-> Bad, mag |-> 0]} \subseteq File
    BY <2>1 DEF File
  <2>3. QED
    BY <2>2, NoFileIsAFile DEF Init, Files
<1>3. Session
  BY <1>1, NoSamples DEF Init, Session
<1>4. Counts
  BY CalibrationAssumption DEF Init, Counts
<1>5. QED
  BY <1>2, <1>3, <1>4, TypeParts

LEMMA TypeStep == TypeOK /\ [Next]_calibVars => TypeOK'
<1>. SUFFICES ASSUME TypeOK, [Next]_calibVars PROVE TypeOK'
  OBVIOUS
<1>1. CASE \E mode \in {"orient", "mag"} : Launch(mode)
  BY <1>1, LaunchTypes
<1>2. CASE SessionStep
  BY <1>2, SessionTypes
<1>3. CASE SaveStep
  BY <1>3, SaveTypes
<1>4. CASE Edit
  BY <1>4, EditTypes
<1>5. CASE UNCHANGED calibVars
  BY <1>5 DEF calibVars, TypeOK
<1>6. QED
  BY <1>1, <1>2, <1>3, <1>4, <1>5 DEF Next, SessionStep, SaveStep

\* Every variable keeps its type.
THEOREM TypeCorrect == Spec => []TypeOK
BY InitTypes, TypeStep, PTL DEF Spec

(***************************************************************************)
(* What the tool says is what the file is.                                  *)
(***************************************************************************)
\* While a session runs it has not touched the file, and what it is about to write is the merge of
\* its measurement with the file as it read it.
SaveInv ==
  /\ tool.pc # "off" => file = disk
  /\ tool.pc \in {"write", "replace"} => tool.out = Merge(seen)
  /\ ExitSaysTheFile

LEMMA SaveInvInit == Init => SaveInv
BY DEF Init, Off, SaveInv, ExitSaysTheFile

LEMMA SaveInvStep == TypeOK /\ SaveInv /\ [Next]_calibVars => SaveInv'
<1>. SUFFICES ASSUME TypeOK, SaveInv, [Next]_calibVars PROVE SaveInv'
  OBVIOUS
<1>1. CASE \E mode \in {"orient", "mag"} : Launch(mode)
  BY <1>1 DEF Launch, Off, SaveInv, ExitSaysTheFile
<1>2. CASE SessionStep
  <2>1. UNCHANGED <<file, runs, disk, seen>> /\ tool.pc # "off"
    BY <1>2, SessionKeepsFiles, SessionShape
  <2>2. tool'.pc \notin {"off", "write", "replace"} \/ (tool'.pc = "off" /\ tool'.exit = "failed")
    BY <1>2, SessionShape
  <2>3. QED
    BY <2>1, <2>2 DEF SaveInv, ExitSaysTheFile
<1>3. CASE SaveStep
  <2>1. tool'.mode = tool.mode /\ UNCHANGED <<runs, disk>> /\ tool.pc # "off"
    BY <1>3, SaveShape DEF SaveStep, Save, SaveUnread, write_calibration_file, Replace, Killed
  <2>2. Merge(seen)' = Merge(seen')
    BY <2>1 DEF Merge
  <2>3. tool'.pc # "off" => UNCHANGED file /\ (tool.pc = "write" => UNCHANGED seen)
    BY <1>3 DEF SaveStep, Save, SaveUnread, write_calibration_file, Replace, Killed, Exit, Off
  <2>4. /\ tool'.pc # "off" => file' = disk'
        /\ tool'.pc \in {"write", "replace"} => tool'.out = Merge(seen)'
    BY <1>3, <2>1, <2>2, <2>3, SaveShape DEF SaveInv
  <2>5. ExitSaysTheFile'
    <3>1. CASE Save \/ SaveUnread \/ write_calibration_file
      <4>1. UNCHANGED <<file, disk>> /\ file = disk
        BY <2>1, <3>1 DEF Save, SaveUnread, write_calibration_file, SaveInv
      <4>2. tool'.pc # "off" \/ tool'.exit = "failed"
        <5>1. CASE Exit("failed", "io")
          BY <5>1 DEF Exit, Off
        <5>2. CASE ~Exit("failed", "io")
          BY <3>1, <5>2 DEF Save, SaveUnread, write_calibration_file, TypeOK, Tool
        <5>3. QED
          BY <5>1, <5>2
      <4>3. QED
        BY <4>1, <4>2 DEF ExitSaysTheFile
    <3>2. CASE Replace
      <4>1. CASE file' = tool.out /\ Exit("ok", "none")
        BY <2>1, <2>2, <3>2, <4>1 DEF Replace, Exit, Off, SaveInv, ExitSaysTheFile
      <4>2. CASE Exit("failed", "io") /\ UNCHANGED file
        BY <2>1, <4>2 DEF Exit, Off, SaveInv, ExitSaysTheFile
      <4>3. QED
        BY <3>2, <4>1, <4>2 DEF Replace
    <3>3. CASE Killed
      <4>1. tool'.exit = "killed" /\ UNCHANGED seen
        BY <3>3 DEF Killed, Off
      <4>2. file' = disk' \/ file' = Merge(seen)
        BY <2>1, <3>3 DEF Killed, SaveInv
      <4>3. QED
        BY <2>2, <4>1, <4>2 DEF ExitSaysTheFile
    <3>4. QED
      BY <1>3, <3>1, <3>2, <3>3 DEF SaveStep
  <2>6. QED
    BY <2>4, <2>5 DEF SaveInv
<1>4. CASE Edit
  <2>1. CASE tool.pc = "off"
    BY <1>4, <2>1 DEF Edit, Off, SaveInv, ExitSaysTheFile
  <2>2. CASE tool.pc # "off"
    BY <1>4, <2>2 DEF Edit, SaveInv, ExitSaysTheFile, Merge
  <2>3. QED
    BY <2>1, <2>2
<1>5. CASE UNCHANGED calibVars
  BY <1>5 DEF calibVars, SaveInv, ExitSaysTheFile, Merge
<1>6. QED
  BY <1>1, <1>2, <1>3, <1>4, <1>5 DEF Next, SessionStep, SaveStep

\* When the tool says "Saved" the file holds this session's measurement beside the other half as it
\* was; when it reports a failure the file is as it was; when it is killed it is one of the two.
THEOREM TheToolTellsTheTruth == Spec => []ExitSaysTheFile
<1>1. SaveInv => ExitSaysTheFile
  BY DEF SaveInv
<1>2. QED
  BY <1>1, SaveInvInit, SaveInvStep, TypeCorrect, PTL DEF Spec

--------------------------------------------------------------------------------
(* The scan of a recording for its motion.                                   *)

\* A set of naturals that has a member has a least one.
LEMMA LeastOf ==
  ASSUME NEW T \in SUBSET Nat, T # {}
  PROVE  \E n \in T : \A m \in T : n <= m
<1> DEFINE R == OpToRel(<, Nat)
<1>1. IsWellFoundedOn(R, Nat)
  BY NatLessThanWellFounded
<1>2. \A x, y \in Nat : <<x, y>> \in R <=> x < y
  BY DEF OpToRel
<1> HIDE DEF R
<1>3. PICK n \in T : \A y \in T : ~(<<y, n>> \in R)
  BY <1>1, WFMin
<1>4. \A y \in T : ~(y < n)
  BY <1>2, <1>3, Zenon
<1>5. QED
  BY ONLY <1>4, T \in SUBSET Nat, n \in T

\* What holds of no sample, and of a sample if of the one before, holds of all.
LEMMA Along ==
  ASSUME NEW N \in Nat, NEW T \in SUBSET (0 .. N), 0 \in T, \A n \in 0 .. N - 1 : n \in T => n + 1 \in T
  PROVE  T = 0 .. N
<1> DEFINE U == (0 .. N) \ T
<1>1. SUFFICES ASSUME U # {} PROVE FALSE
  OBVIOUS
<1>2. U \in SUBSET Nat
  OBVIOUS
<1>3. PICK n \in U : \A m \in U : n <= m
  BY <1>1, <1>2, LeastOf
<1>4. n # 0 /\ n \in 0 .. N
  OBVIOUS
<1>5. n - 1 \in 0 .. N - 1 /\ n - 1 \notin U
  BY <1>3, <1>4
<1>6. n - 1 \in T
  BY <1>5
<1>7. n \in T
  BY <1>5, <1>6
<1>8. QED
  BY <1>7

\* A function of the samples so far, each value from the one before.
HasIterate(S, base, N, step) ==
  \E r \in [0 .. N -> S] : r[0] = base /\ \A n \in 1 .. N : r[n] = step[<<r[n - 1], n>>]

LEMMA Iterates ==
  ASSUME NEW S, NEW base \in S, NEW N \in Nat, NEW step \in [S \X (1 .. N) -> S]
  PROVE  HasIterate(S, base, N, step)
<1> DEFINE Upto(k) == \E r \in [0 .. k -> S] : r = [n \in 0 .. k |-> IF n = 0 THEN base ELSE step[<<r[n - 1], n>>]]
           T == {k \in 0 .. N : Upto(k)}
<1>1. Upto(0)
  <2> DEFINE r == [n \in 0 .. 0 |-> base]
  <2>1. r \in [0 .. 0 -> S] /\ \A n \in 0 .. 0 : n = 0
    OBVIOUS
  <2>2. r = [n \in 0 .. 0 |-> IF n = 0 THEN base ELSE step[<<r[n - 1], n>>]]
    OBVIOUS
  <2> HIDE DEF r
  <2>3. QED
    BY <2>1, <2>2
<1>2. ASSUME NEW k \in 0 .. N - 1, Upto(k) PROVE Upto(k + 1)
  <2>1. PICK r \in [0 .. k -> S] : r = [n \in 0 .. k |-> IF n = 0 THEN base ELSE step[<<r[n - 1], n>>]]
    BY <1>2
  <2> DEFINE q == [n \in 0 .. k + 1 |-> IF n = k + 1 THEN step[<<r[k], k + 1>>] ELSE r[n]]
  <2>2. step[<<r[k], k + 1>>] \in S
    OBVIOUS
  <2>3. q \in [0 .. k + 1 -> S]
    BY <2>2
  <2>4. ASSUME NEW n \in 0 .. k + 1
        PROVE  q[n] = IF n = 0 THEN base ELSE step[<<q[n - 1], n>>]
    <3>1. CASE n = k + 1
      BY <3>1
    <3>2. CASE n # k + 1
      <4>1. n \in 0 .. k
        BY <3>2
      <4>2. r[n] = IF n = 0 THEN base ELSE step[<<r[n - 1], n>>]
        BY <2>1, <4>1
      <4>3. q[n] = r[n] /\ (n # 0 => q[n - 1] = r[n - 1])
        BY <4>1
      <4>4. QED
        BY <4>2, <4>3
    <3>3. QED
      BY <3>1, <3>2
  <2> HIDE DEF q
  <2>5. q = [n \in 0 .. k + 1 |-> IF n = 0 THEN base ELSE step[<<q[n - 1], n>>]]
    BY <2>3, <2>4
  <2>6. QED
    BY <2>3, <2>5
<1> HIDE DEF Upto
<1>3. 0 \in T /\ \A k \in 0 .. N - 1 : k \in T => k + 1 \in T
  BY <1>1, <1>2
<1>4. T = 0 .. N
  <2>1. T \in SUBSET (0 .. N)
    OBVIOUS
  <2> HIDE DEF T
  <2>2. QED
    BY <1>3, <2>1, Along
<1>5. Upto(N)
  <2>1. N \in 0 .. N
    OBVIOUS
  <2>2. QED
    BY <1>4, <2>1
<1>6. PICK r \in [0 .. N -> S] : r = [n \in 0 .. N |-> IF n = 0 THEN base ELSE step[<<r[n - 1], n>>]]
  BY <1>5 DEF Upto
<1>7. r[0] = base /\ \A n \in 1 .. N : r[n] = step[<<r[n - 1], n>>]
  <2>1. 0 \in 0 .. N /\ \A n \in 1 .. N : n \in 0 .. N /\ n # 0
    OBVIOUS
  <2>2. ASSUME NEW n \in 0 .. N PROVE r[n] = IF n = 0 THEN base ELSE step[<<r[n - 1], n>>]
    BY <1>6, Zenon
  <2>3. QED
    BY <2>1, <2>2, Zenon
<1>8. QED
  BY <1>7 DEF HasIterate

\* The scan of a recording keeps such a record.
RunState ==
  [in : BOOLEAN, start : Nat, last : Nat, below : Nat, energy : Nat,
   best : [first : Nat, last : Nat, energy : Int]]

LEMMA FinishType ==
  ASSUME NEW r \in RunState
  PROVE  FinishRun(r) \in RunState
<1> DEFINE b == IF r.in /\ r.last > r.start /\ r.energy > r.best.energy
                  THEN [first |-> r.start, last |-> r.last, energy |-> r.energy] ELSE r.best
<1>1. b \in [first : Nat, last : Nat, energy : Int]
  BY DEF RunState
<1> HIDE DEF b
<1>2. [r EXCEPT !.in = FALSE, !.below = 0, !.energy = 0, !.best = b] \in RunState
  BY <1>1 DEF RunState
<1>3. QED
  BY <1>2, Zenon DEF FinishRun, b

LEMMA ScanType ==
  ASSUME NEW s \in Seq(Nat), NEW r \in RunState, NEW i \in 1 .. Len(s)
  PROVE  Scan(s, r, i) \in RunState
<1>1. s[i] \in Nat /\ s[i] * s[i] \in Nat
  OBVIOUS
<1> DEFINE sq == s[i] * s[i]
           run == IF ~r.in /\ On(s[i]) THEN [r EXCEPT !.in = TRUE, !.start = i, !.last = i] ELSE r
           fed == [run EXCEPT !.energy = @ + sq]
           rest == [fed EXCEPT !.below = @ + 1]
           above == [fed EXCEPT !.last = i, !.below = 0]
<1>2. run \in RunState
  <2>1. i \in Nat
    OBVIOUS
  <2>2. \A q \in RunState : [q EXCEPT !.in = TRUE, !.start = i, !.last = i] \in RunState
    BY ONLY <2>1, Zenon DEF RunState
  <2>3. QED
    BY <2>2
<1>3. sq \in Nat /\ i \in Nat
  BY <1>1
<1> HIDE DEF run, sq
<1>4. fed \in RunState
  <2>1. ASSUME NEW q \in RunState PROVE [q EXCEPT !.energy = @ + sq] \in RunState
    <3>1. q.energy + sq \in Nat
      BY ONLY <1>3, q \in RunState DEF RunState
    <3> DEFINE e == q.energy + sq
    <3> HIDE DEF e
    <3>2. e \in Nat
      BY <3>1 DEF e
    <3>3. [q EXCEPT !.energy = e] \in RunState
      BY ONLY <3>2, q \in RunState DEF RunState
    <3>4. QED
      BY <3>3 DEF e
  <2>2. QED
    BY <1>2, <2>1
<1> HIDE DEF fed
<1>5. rest \in RunState /\ above \in RunState
  <2>1. ASSUME NEW q \in RunState PROVE [q EXCEPT !.below = @ + 1] \in RunState
    <3>1. q.below + 1 \in Nat
      BY ONLY q \in RunState DEF RunState
    <3> DEFINE b == q.below + 1
    <3> HIDE DEF b
    <3>2. b \in Nat
      BY <3>1 DEF b
    <3>3. [q EXCEPT !.below = b] \in RunState
      BY ONLY <3>2, q \in RunState DEF RunState
    <3>4. QED
      BY <3>3 DEF b
  <2>2. \A q \in RunState : [q EXCEPT !.last = i, !.below = 0] \in RunState
    BY ONLY <1>3 DEF RunState
  <2>3. QED
    BY <1>4, <2>1, <2>2
<1> HIDE DEF rest
<1>6. FinishRun(rest) \in RunState
  BY <1>5, FinishType, Zenon
<1> HIDE DEF above
<1>7. Scan(s, r, i) = IF ~run.in THEN run ELSE IF AboveOff(s[i]) THEN above
                      ELSE IF rest.below >= Hold THEN FinishRun(rest) ELSE rest
  BY Zenon DEF Scan, run, fed, rest, above, sq
<1>8. QED
  BY <1>2, <1>5, <1>6, <1>7, Zenon

\* The record after each sample is the scan of that sample and the record before it.
LEMMA ScannedSteps ==
  ASSUME NEW s \in Seq(Nat)
  PROVE  /\ Scanned(s) \in [0 .. Len(s) -> RunState]
         /\ Scanned(s)[0] = NoRun
         /\ \A n \in 1 .. Len(s) : Scanned(s)[n] = Scan(s, Scanned(s)[n - 1], n)
<1> DEFINE L == Len(s)
           step == [p \in RunState \X (1 .. L) |-> Scan(s, p[1], p[2])]
<1>1. L \in Nat /\ NoRun \in RunState
  BY DEF NoRun, RunState
<1>2. step \in [RunState \X (1 .. L) -> RunState]
  <2>1. \A p \in RunState \X (1 .. L) : Scan(s, p[1], p[2]) \in RunState
    BY ScanType
  <2>2. QED
    BY <2>1, Zenon
<1>3. PICK r \in [0 .. L -> RunState] : r[0] = NoRun /\ \A n \in 1 .. L : r[n] = step[<<r[n - 1], n>>]
  <2> HIDE DEF step, L
  <2>1. HasIterate(RunState, NoRun, L, step)
    BY <1>1, <1>2, Iterates
  <2>2. QED
    BY <2>1 DEF HasIterate
<1>4. \A n \in 0 .. L : n # 0 => step[<<r[n - 1], n>>] = Scan(s, r[n - 1], n)
  <2>1. SUFFICES ASSUME NEW n \in 0 .. L, n # 0 PROVE step[<<r[n - 1], n>>] = Scan(s, r[n - 1], n)
    OBVIOUS
  <2>2. n - 1 \in 0 .. L /\ n \in 1 .. L
    BY <1>1, <2>1
  <2>3. <<r[n - 1], n>> \in RunState \X (1 .. L)
    BY <2>2
  <2>4. QED
    BY <2>3, Zenon
<1> HIDE DEF step
<1>5. r = [n \in 0 .. L |-> IF n = 0 THEN NoRun ELSE Scan(s, r[n - 1], n)]
  <2>1. \A n \in 0 .. L : n # 0 => n \in 1 .. L
    BY <1>1
  <2>2. \A n \in 0 .. L : r[n] = IF n = 0 THEN NoRun ELSE Scan(s, r[n - 1], n)
    BY <1>3, <1>4, <2>1, Zenon
  <2>3. r = [n \in 0 .. L |-> r[n]]
    BY Zenon
  <2>4. QED
    BY <2>2, <2>3, Zenon
<1> DEFINE R == Scanned(s)
<1>6. R = [n \in 0 .. L |-> IF n = 0 THEN NoRun ELSE Scan(s, R[n - 1], n)]
  BY <1>5, Zenon DEF Scanned
<1>7. ASSUME NEW n \in 0 .. L, n # 0 PROVE Scan(s, R[n - 1], n) = R[n]
  BY <1>6, <1>7, Zenon
<1>8. R[0] = NoRun
  <2>1. 0 \in 0 .. L
    BY <1>1
  <2>2. QED
    BY <1>6, <2>1, Zenon
<1> DEFINE T == {n \in 0 .. L : R[n] \in RunState}
<1>9. 0 \in T /\ T \in SUBSET (0 .. L)
  BY <1>1, <1>8
<1>10. ASSUME NEW n \in 0 .. L - 1, n \in T PROVE n + 1 \in T
  <2>1. n + 1 \in 1 .. L /\ n + 1 \in 0 .. L /\ n + 1 # 0 /\ (n + 1) - 1 = n
    BY <1>1
  <2>2. R[n + 1] = Scan(s, R[n], n + 1)
    BY <1>7, <2>1, Zenon
  <2>3. R[n] \in RunState
    BY <1>10
  <2>4. R[n + 1] \in RunState
    BY <2>1, <2>2, <2>3, ScanType, Zenon
  <2>5. QED
    BY <2>1, <2>4
<1>11. T = 0 .. L
  <2> HIDE DEF T, R, L
  <2>1. QED
    BY <1>1, <1>9, <1>10, Along
<1>12. \A n \in 0 .. L : R[n] \in RunState
  BY <1>11
<1>13. R \in [0 .. L -> RunState]
  <2> HIDE DEF L
  <2>1. R = [n \in 0 .. L |-> R[n]]
    <3> DEFINE e(n) == IF n = 0 THEN NoRun ELSE Scan(s, R[n - 1], n)
    <3> HIDE DEF e
    <3>1. R = [n \in 0 .. L |-> e(n)]
      BY <1>6, Zenon DEF e
    <3>2. QED
      BY ONLY <3>1
  <2> HIDE DEF R
  <2>2. QED
    BY <1>12, <2>1, Zenon
<1>14. QED
  <2>1. \A n \in 1 .. L : n \in 0 .. L /\ n # 0
    BY <1>1
  <2>2. QED
    BY <1>7, <1>8, <1>13, <2>1, Zenon

\* So is what the first n samples spent.
LEMMA SpentSteps ==
  ASSUME NEW s \in Seq(Nat)
  PROVE  /\ \A n \in 0 .. Len(s) : Spent(s)[n] \in Nat
         /\ \A n \in 1 .. Len(s) : Spent(s)[n] = Spent(s)[n - 1] + s[n] * s[n]
<1> DEFINE L == Len(s)
           step == [p \in Nat \X (1 .. L) |-> p[1] + s[p[2]] * s[p[2]]]
<1>1. L \in Nat /\ 0 \in Nat /\ \A n \in 1 .. L : s[n] * s[n] \in Nat
  OBVIOUS
<1>2. step \in [Nat \X (1 .. L) -> Nat]
  BY <1>1
<1>3. PICK r \in [0 .. L -> Nat] : r[0] = 0 /\ \A n \in 1 .. L : r[n] = step[<<r[n - 1], n>>]
  <2> HIDE DEF step, L
  <2>1. HasIterate(Nat, 0, L, step)
    BY <1>1, <1>2, Iterates
  <2>2. QED
    BY <2>1 DEF HasIterate
<1>4. \A n \in 0 .. L : n # 0 => step[<<r[n - 1], n>>] = r[n - 1] + s[n] * s[n]
  <2>1. SUFFICES ASSUME NEW n \in 0 .. L, n # 0 PROVE step[<<r[n - 1], n>>] = r[n - 1] + s[n] * s[n]
    OBVIOUS
  <2>2. n - 1 \in 0 .. L /\ n \in 1 .. L
    BY <1>1, <2>1
  <2>3. <<r[n - 1], n>> \in Nat \X (1 .. L)
    BY <2>2
  <2>4. QED
    BY <2>3, Zenon
<1> HIDE DEF step
<1>5. r = [n \in 0 .. L |-> IF n = 0 THEN 0 ELSE r[n - 1] + s[n] * s[n]]
  <2>1. \A n \in 0 .. L : n # 0 => n \in 1 .. L
    BY <1>1
  <2>2. \A n \in 0 .. L : r[n] = IF n = 0 THEN 0 ELSE r[n - 1] + s[n] * s[n]
    BY <1>3, <1>4, <2>1, Zenon
  <2>3. r = [n \in 0 .. L |-> r[n]]
    BY Zenon
  <2>4. QED
    BY <2>2, <2>3, Zenon
<1> DEFINE E == Spent(s)
<1>6. E = [n \in 0 .. L |-> IF n = 0 THEN 0 ELSE E[n - 1] + s[n] * s[n]]
  BY <1>5, Zenon DEF Spent
<1>7. ASSUME NEW n \in 0 .. L, n # 0 PROVE E[n - 1] + s[n] * s[n] = E[n]
  BY <1>6, <1>7, Zenon
<1>8. E[0] = 0
  <2>1. 0 \in 0 .. L
    BY <1>1
  <2>2. QED
    BY <1>6, <2>1, Zenon
<1> DEFINE T == {n \in 0 .. L : E[n] \in Nat}
<1>9. 0 \in T /\ T \in SUBSET (0 .. L)
  BY <1>1, <1>8
<1>10. ASSUME NEW n \in 0 .. L - 1, n \in T PROVE n + 1 \in T
  <2>1. n + 1 \in 1 .. L /\ n + 1 \in 0 .. L /\ n + 1 # 0 /\ (n + 1) - 1 = n
    BY <1>1
  <2>2. E[n] + s[n + 1] * s[n + 1] = E[n + 1]
    BY <1>7, <2>1, Zenon
  <2>3. E[n] \in Nat /\ s[n + 1] * s[n + 1] \in Nat
    BY <1>1, <1>10, <2>1
  <2>4. QED
    BY <2>1, <2>2, <2>3
<1>11. T = 0 .. L
  <2> HIDE DEF T, E, L
  <2>1. QED
    BY <1>1, <1>9, <1>10, Along
<1>12. \A n \in 0 .. L : E[n] \in Nat
  BY <1>11
<1>13. QED
  <2>1. \A n \in 1 .. L : n \in 0 .. L /\ n # 0
    BY <1>1
  <2>2. QED
    BY <1>7, <1>12, <2>1, Zenon

\* A run is continuous in any part of it, and while the rest after its last sample above the off
\* rate is shorter than Hold.
LEMMA PartsAreContinuous ==
  ASSUME NEW s \in Seq(Nat), NEW i \in Nat, NEW j \in Nat, NEW k \in Nat, NEW l \in Nat,
         Continuous(s, i, l), i <= j, k <= l
  PROVE  Continuous(s, j, k)
<1>1. Hold \in Nat \ {0}
  BY CalibrationAssumption
<1>2. \A w \in j .. k + 1 - Hold : w \in i .. l + 1 - Hold
  BY <1>1
<1>3. QED
  BY <1>2, Zenon DEF Continuous

LEMMA RestsGoOn ==
  ASSUME NEW s \in Seq(Nat), NEW i \in Nat, NEW j \in Nat, NEW k \in Nat,
         Continuous(s, i, j), AboveOff(s[j]), i <= j, j <= k, k < j + Hold
  PROVE  Continuous(s, i, k)
<1>1. Hold \in Nat \ {0}
  BY CalibrationAssumption
<1>2. SUFFICES ASSUME NEW w \in i .. k + 1 - Hold, \A x \in w .. w + Hold - 1 : ~AboveOff(s[x])
               PROVE  FALSE
  BY Zenon DEF Continuous
<1>3. CASE w + Hold - 1 <= j
  <2>1. w \in i .. j + 1 - Hold
    BY <1>1, <1>3
  <2>2. QED
    BY <1>2, <2>1, Zenon DEF Continuous
<1>4. CASE w + Hold - 1 > j
  <2>1. j \in w .. w + Hold - 1
    BY <1>1, <1>4
  <2>2. QED
    BY <1>2, <2>1, Zenon
<1>5. QED
  BY <1>1, <1>3, <1>4

LEMMA AboveGoesOn ==
  ASSUME NEW s \in Seq(Nat), NEW i \in Nat, NEW k \in Nat, Continuous(s, i, k), AboveOff(s[k + 1])
  PROVE  Continuous(s, i, k + 1)
<1>1. Hold \in Nat \ {0}
  BY CalibrationAssumption
<1>2. SUFFICES ASSUME NEW w \in i .. k + 2 - Hold, \A x \in w .. w + Hold - 1 : ~AboveOff(s[x])
               PROVE  FALSE
  <2>1. (k + 1) + 1 - Hold = k + 2 - Hold
    BY <1>1
  <2>2. QED
    BY <2>1, Zenon DEF Continuous
<1>3. w + Hold - 1 # k + 1
  <2>1. CASE w + Hold - 1 = k + 1
    <3>1. k + 1 \in w .. w + Hold - 1
      BY <1>1, <2>1
    <3>2. QED
      BY <1>2, <3>1, Zenon
  <2>2. QED
    BY <2>1
<1>4. w \in i .. k + 1 - Hold
  BY <1>1, <1>3
<1>5. QED
  BY <1>2, <1>4, Zenon DEF Continuous

\* A rest of Hold samples ends it.
LEMMA HoldEnds ==
  ASSUME NEW s \in Seq(Nat), NEW i \in Nat, NEW j \in Nat, NEW k \in Nat,
         i <= j + 1, j + Hold <= k, \A x \in j + 1 .. j + Hold : ~AboveOff(s[x])
  PROVE  ~Continuous(s, i, k)
<1>1. Hold \in Nat \ {0}
  BY CalibrationAssumption
<1>2. j + 1 \in i .. k + 1 - Hold /\ (j + 1) + Hold - 1 = j + Hold
  BY <1>1
<1>3. QED
  BY <1>2, Zenon DEF Continuous

LEMMA OnIsAbove ==
  ASSUME NEW r \in Nat, On(r)
  PROVE  AboveOff(r)
BY DEF On, AboveOff

\* What the record of the scan means when n samples have been scanned: no run is open, and every
\* sample above the on rate is separated from the next by a rest; or one is, and this is the run.
Closed(s, r, n) ==
  /\ ~r.in /\ r.below = 0 /\ r.energy = 0
  /\ \A h \in 1 .. n : On(s[h]) => ~Continuous(s, h, n)
Run(s, r, n) ==
  /\ r.in /\ r.start \in 1 .. r.last /\ r.last \in 1 .. n
  /\ r.below = n - r.last
  /\ r.energy = Spent(s)[n] - Spent(s)[r.start - 1]
  /\ On(s[r.start]) /\ AboveOff(s[r.last]) /\ Continuous(s, r.start, r.last)
  /\ \A x \in r.last + 1 .. n : ~AboveOff(s[x])
  /\ \A h \in 1 .. r.start - 1 : On(s[h]) => ~Continuous(s, h, r.start)
Open(s, r, n) == Run(s, r, n) /\ r.below < Hold

\* A motion whose rest is not over belongs to the open run.
LEMMA NoneWhenClosed ==
  ASSUME NEW s \in Seq(Nat), NEW n \in 0 .. Len(s), NEW r \in RunState, Closed(s, r, n),
         NEW i \in 1 .. Len(s), NEW j \in 1 .. Len(s), IsMotion(s, i, j), j <= n, n < j + Hold
  PROVE  FALSE
<1>1. i \in Nat /\ j \in Nat /\ n \in Nat /\ i < j
  BY DEF IsMotion
<1>2. On(s[i]) /\ AboveOff(s[j]) /\ Continuous(s, i, j)
  BY DEF IsMotion
<1>3. Continuous(s, i, n)
  BY <1>1, <1>2, RestsGoOn
<1>4. i \in 1 .. n
  BY <1>1
<1>5. QED
  BY <1>2, <1>3, <1>4, Zenon DEF Closed

LEMMA OneWhenOpen ==
  ASSUME NEW s \in Seq(Nat), NEW n \in 0 .. Len(s), NEW r \in RunState, Open(s, r, n),
         NEW i \in 1 .. Len(s), NEW j \in 1 .. Len(s), IsMotion(s, i, j), j <= n, n < j + Hold
  PROVE  i = r.start /\ j = r.last
<1> DEFINE a == r.start
           b == r.last
<1>1. a \in Nat /\ b \in Nat /\ a \in 1 .. b /\ b \in 1 .. n /\ n < b + Hold
  <2>1. Hold \in Nat
    BY CalibrationAssumption
  <2>2. QED
    BY <2>1 DEF Open, Run, RunState
<1>2. /\ On(s[a]) /\ AboveOff(s[b]) /\ Continuous(s, a, b)
      /\ \A x \in b + 1 .. n : ~AboveOff(s[x])
      /\ \A h \in 1 .. a - 1 : On(s[h]) => ~Continuous(s, h, a)
  BY Zenon DEF Open, Run
<1> HIDE DEF a, b
<1>3. i \in Nat /\ j \in Nat /\ n \in Nat /\ i < j
  BY DEF IsMotion
<1>4. /\ On(s[i]) /\ AboveOff(s[j]) /\ Continuous(s, i, j)
      /\ \A h \in 1 .. i - 1 : On(s[h]) => ~Continuous(s, h, i)
      /\ \A k \in j + 1 .. Len(s) : AboveOff(s[k]) => ~Continuous(s, j, k)
  BY Zenon DEF IsMotion
<1>5. Continuous(s, i, n) /\ Continuous(s, a, n)
  BY <1>1, <1>2, <1>3, <1>4, RestsGoOn
<1>6. ~(i < a)
  <2>1. SUFFICES ASSUME i < a PROVE FALSE
    OBVIOUS
  <2>2. Continuous(s, i, a)
    BY <1>1, <1>3, <1>5, PartsAreContinuous
  <2>3. i \in 1 .. a - 1
    BY <1>1, <2>1
  <2>4. QED
    BY <1>2, <1>4, <2>2, <2>3, Zenon
<1>7. ~(a < i)
  <2>1. SUFFICES ASSUME a < i PROVE FALSE
    OBVIOUS
  <2>2. Continuous(s, a, i)
    BY <1>1, <1>3, <1>5, PartsAreContinuous
  <2>3. a \in 1 .. i - 1
    BY <1>1, <2>1
  <2>4. QED
    BY <1>2, <1>4, <2>2, <2>3, Zenon
<1>8. ~(j < b)
  <2>1. SUFFICES ASSUME j < b PROVE FALSE
    OBVIOUS
  <2>2. Continuous(s, j, b)
    BY <1>1, <1>3, <1>5, <1>6, <1>7, PartsAreContinuous
  <2>3. b \in j + 1 .. Len(s)
    BY <1>1, <2>1
  <2>4. QED
    BY <1>2, <1>4, <2>2, <2>3, Zenon
<1>9. ~(b < j)
  <2>1. SUFFICES ASSUME b < j PROVE FALSE
    OBVIOUS
  <2>2. j \in b + 1 .. n
    BY <1>1, <2>1
  <2>3. QED
    BY <1>2, <1>4, <2>2, Zenon
<1>10. QED
  BY <1>1, <1>3, <1>6, <1>7, <1>8, <1>9 DEF a, b

\* The open run is a motion when no more comes, or a rest of Hold samples does.
LEMMA TheRunIsAMotion ==
  ASSUME NEW s \in Seq(Nat), NEW n \in 0 .. Len(s), NEW r \in RunState, Run(s, r, n),
         r.start < r.last,
         n = Len(s) \/ \A x \in r.last + 1 .. r.last + Hold : ~AboveOff(s[x])
  PROVE  /\ <<r.start, r.last>> \in (1 .. Len(s)) \X (1 .. Len(s))
         /\ IsMotion(s, r.start, r.last)
<1> DEFINE a == r.start
           b == r.last
<1>1. a \in Nat /\ b \in Nat /\ a \in 1 .. b /\ b \in 1 .. n /\ Hold \in Nat /\ a < b
  BY CalibrationAssumption DEF Run, RunState
<1>2. /\ On(s[a]) /\ AboveOff(s[b]) /\ Continuous(s, a, b)
      /\ \A x \in b + 1 .. n : ~AboveOff(s[x])
      /\ \A h \in 1 .. a - 1 : On(s[h]) => ~Continuous(s, h, a)
  BY Zenon DEF Run
<1>3. n = Len(s) \/ \A x \in b + 1 .. b + Hold : ~AboveOff(s[x])
  OBVIOUS
<1> HIDE DEF a, b
<1>4. ASSUME NEW k \in b + 1 .. Len(s), AboveOff(s[k]), Continuous(s, b, k)
      PROVE  FALSE
  <2>1. CASE n = Len(s)
    BY <1>2, <1>4, <2>1, Zenon
  <2>2. CASE \A x \in b + 1 .. b + Hold : ~AboveOff(s[x])
    <3>1. k \notin b + 1 .. b + Hold
      BY <1>4, <2>2, Zenon
    <3>2. k \in Nat /\ b <= b + 1 /\ b + Hold <= k
      BY <1>1, <3>1
    <3>3. ~Continuous(s, b, k)
      BY <1>1, <2>2, <3>2, HoldEnds
    <3>4. QED
      BY <1>4, <3>3
  <2>3. QED
    BY <1>3, <2>1, <2>2
<1>5. IsMotion(s, a, b)
  BY <1>1, <1>2, <1>4, Zenon DEF IsMotion
<1>6. <<a, b>> \in (1 .. Len(s)) \X (1 .. Len(s))
  BY <1>1
<1>7. QED
  BY <1>5, <1>6 DEF a, b

\* The motions of a recording, those whose rest is over after n samples, and the one with the most
\* energy of some of them.
MotionsOf(s) == {p \in (1 .. Len(s)) \X (1 .. Len(s)) : IsMotion(s, p[1], p[2])}
EndedBy(s, n) == {p \in MotionsOf(s) : p[2] + Hold <= n}
Best(s, M, b) ==
  IF M = {} THEN b.last = 0 /\ b.energy = -1
  ELSE /\ <<b.first, b.last>> \in M
       /\ b.energy = MotionEnergy(s, b.first, b.last)
       /\ \A p \in M : MotionEnergy(s, p[1], p[2]) <= b.energy

LEMMA EnergyIsWhole ==
  ASSUME NEW s \in Seq(Nat), NEW p \in MotionsOf(s)
  PROVE  MotionEnergy(s, p[1], p[2]) \in Int
<1>1. p[1] \in 1 .. Len(s) /\ p[2] \in 1 .. Len(s) /\ Len(s) \in Nat /\ Hold \in Nat
  BY CalibrationAssumption DEF MotionsOf
<1>2. p[1] - 1 \in 0 .. Len(s) /\ (IF p[2] + Hold <= Len(s) THEN p[2] + Hold ELSE Len(s)) \in 0 .. Len(s)
  BY <1>1
<1>3. Spent(s)[p[1] - 1] \in Nat /\ Spent(s)[IF p[2] + Hold <= Len(s) THEN p[2] + Hold ELSE Len(s)] \in Nat
  BY <1>2, SpentSteps, Zenon
<1>4. QED
  BY <1>3 DEF MotionEnergy

LEMMA BestGrows ==
  ASSUME NEW s \in Seq(Nat), NEW M \in SUBSET MotionsOf(s), NEW i, NEW j, <<i, j>> \in MotionsOf(s),
         NEW b \in [first : Nat, last : Nat, energy : Int], Best(s, M, b),
         MotionEnergy(s, i, j) \in Nat
  PROVE  Best(s, M \cup {<<i, j>>},
              IF MotionEnergy(s, i, j) > b.energy
                THEN [first |-> i, last |-> j, energy |-> MotionEnergy(s, i, j)] ELSE b)
<1> DEFINE e == MotionEnergy(s, i, j)
           c == [first |-> i, last |-> j, energy |-> e]
           q == <<i, j>>
<1>1. q \in M \cup {q} /\ M \cup {q} # {}
  OBVIOUS
<1>2. c.first = i /\ c.last = j /\ c.energy = e /\ q[1] = i /\ q[2] = j
  OBVIOUS
<1>3. MotionEnergy(s, q[1], q[2]) = e
  BY <1>2, Zenon
<1>4. e \in Nat /\ b.energy \in Int
  OBVIOUS
<1>5. \A p \in M : MotionEnergy(s, p[1], p[2]) \in Int
  BY EnergyIsWhole, Zenon
<1> HIDE DEF e, c, q
<1>6. CASE e > b.energy
  <2>1. ASSUME NEW p \in M \cup {q} PROVE MotionEnergy(s, p[1], p[2]) <= e
    <3>1. CASE p = q
      BY <1>3, <1>4, <3>1
    <3>2. CASE p # q
      <4>1. p \in M /\ M # {}
        BY <3>2
      <4>2. MotionEnergy(s, p[1], p[2]) <= b.energy
        BY <4>1, Zenon DEF Best
      <4>3. MotionEnergy(s, p[1], p[2]) \in Int
        BY <1>5, <4>1, Zenon
      <4>4. QED
        BY ONLY <1>4, <1>6, <4>2, <4>3
    <3>3. QED
      BY <3>1, <3>2
  <2>2. Best(s, M \cup {q}, c)
    <3>1. <<c.first, c.last>> = q
      BY <1>2, Zenon DEF q
    <3>2. c.energy = MotionEnergy(s, c.first, c.last)
      BY <1>2, Zenon DEF e
    <3>3. QED
      BY <1>1, <1>2, <2>1, <3>1, <3>2, Zenon DEF Best
  <2>3. QED
    BY <1>6, <2>2, Zenon DEF e, c, q
<1>7. CASE ~(e > b.energy)
  <2>1. M # {}
    <3>1. M = {} => b.energy = -1
      BY Zenon DEF Best
    <3>2. QED
      BY <1>4, <1>7, <3>1
  <2>2. /\ <<b.first, b.last>> \in M
        /\ b.energy = MotionEnergy(s, b.first, b.last)
        /\ \A p \in M : MotionEnergy(s, p[1], p[2]) <= b.energy
    BY <2>1, Zenon DEF Best
  <2>3. e <= b.energy
    BY <1>4, <1>7
  <2>4. ASSUME NEW p \in M \cup {q} PROVE MotionEnergy(s, p[1], p[2]) <= b.energy
    BY <1>3, <2>2, <2>3, Zenon
  <2>5. <<b.first, b.last>> \in M \cup {q}
    BY <2>2
  <2>6. Best(s, M \cup {q}, b)
    BY <1>1, <2>2, <2>4, <2>5, Zenon DEF Best
  <2>7. QED
    BY <1>7, <2>6, Zenon DEF e, c, q
<1>8. QED
  BY <1>6, <1>7

\* Ending the open run: it becomes the best motion if it is one and beats what was the best.
LEMMA EndOfARun ==
  ASSUME NEW s \in Seq(Nat), NEW n \in 0 .. Len(s), NEW r \in RunState, Run(s, r, n),
         NEW M \in SUBSET MotionsOf(s), Best(s, M, r.best),
         n = Len(s) \/ (n = r.last + Hold /\ \A x \in r.last + 1 .. r.last + Hold : ~AboveOff(s[x])),
         n <= r.last + Hold
  PROVE  Best(s, IF r.start < r.last THEN M \cup {<<r.start, r.last>>} ELSE M, FinishRun(r).best)
<1> DEFINE a == r.start
           b == r.last
<1>1. FinishRun(r).best = IF r.last > r.start /\ r.energy > r.best.energy
                            THEN [first |-> a, last |-> b, energy |-> r.energy] ELSE r.best
  <2>1. r.in
    BY DEF Run
  <2>2. QED
    BY <2>1 DEF FinishRun, RunState
<1>2. a \in Nat /\ b \in Nat /\ r.best \in [first : Nat, last : Nat, energy : Int] /\ r.energy \in Nat
  BY DEF RunState
<1>3. CASE a < b
  <2>1. IsMotion(s, a, b) /\ <<a, b>> \in (1 .. Len(s)) \X (1 .. Len(s))
    BY <1>3, TheRunIsAMotion
  <2>2. <<a, b>> \in MotionsOf(s)
    BY <2>1 DEF MotionsOf
  <2>3. (IF b + Hold <= Len(s) THEN b + Hold ELSE Len(s)) = n
    <3>1. Hold \in Nat
      BY CalibrationAssumption
    <3>2. QED
      BY <1>2, <3>1
  <2>4. r.energy = MotionEnergy(s, a, b)
    BY <2>3, Zenon DEF Run, MotionEnergy
  <2>5. MotionEnergy(s, a, b) \in Nat
    BY <1>2, <2>4
  <2> DEFINE e == MotionEnergy(s, a, b)
  <2>6. FinishRun(r).best = IF e > r.best.energy THEN [first |-> a, last |-> b, energy |-> e] ELSE r.best
    <3>1. b > a
      BY <1>2, <1>3
    <3>2. QED
      BY <1>1, <2>4, <3>1, Zenon
  <2> HIDE DEF a, b
  <2>7. Best(s, M \cup {<<a, b>>}, IF e > r.best.energy THEN [first |-> a, last |-> b, energy |-> e] ELSE r.best)
    BY <1>2, <2>2, <2>5, BestGrows, Zenon
  <2>8. QED
    BY <1>3, <2>6, <2>7, Zenon DEF a, b
<1>4. CASE ~(a < b)
  <2>1. ~(r.last > r.start)
    BY <1>2, <1>4
  <2>2. FinishRun(r).best = r.best
    BY <1>1, <2>1, Zenon
  <2>3. QED
    BY <1>4, <2>2, Zenon
<1>5. QED
  BY <1>3, <1>4

\* One sample of the scan keeps all this.
ScanInv(s, r, n) ==
  /\ r \in RunState
  /\ Closed(s, r, n) \/ Open(s, r, n)
  /\ Best(s, EndedBy(s, n), r.best)

\* The motions that one more sample ends.
LEMMA NewlyEnded ==
  ASSUME NEW s \in Seq(Nat), NEW n \in 0 .. Len(s) - 1, NEW r \in RunState
  PROVE  /\ Closed(s, r, n) => EndedBy(s, n + 1) = EndedBy(s, n)
         /\ Open(s, r, n) => /\ EndedBy(s, n + 1) \subseteq EndedBy(s, n) \cup {<<r.start, r.last>>}
                             /\ EndedBy(s, n) \subseteq EndedBy(s, n + 1)
                             /\ r.last + Hold # n + 1 => EndedBy(s, n + 1) = EndedBy(s, n)
<1>1. Hold \in Nat \ {0} /\ n \in Nat /\ n \in 0 .. Len(s)
  BY CalibrationAssumption
<1>2. \A p \in MotionsOf(s) : /\ p[1] \in 1 .. Len(s) /\ p[2] \in 1 .. Len(s)
                              /\ p = <<p[1], p[2]>> /\ IsMotion(s, p[1], p[2])
  BY DEF MotionsOf
<1>3. EndedBy(s, n) \subseteq EndedBy(s, n + 1)
  BY <1>1, <1>2 DEF EndedBy
<1>4. ASSUME NEW p \in EndedBy(s, n + 1), p \notin EndedBy(s, n)
      PROVE  p \in MotionsOf(s) /\ p[2] + Hold = n + 1 /\ p[2] <= n /\ n < p[2] + Hold
  <2>1. p \in MotionsOf(s) /\ p[2] + Hold <= n + 1 /\ ~(p[2] + Hold <= n)
    BY <1>4, Zenon DEF EndedBy
  <2>2. p[2] \in 1 .. Len(s)
    BY <1>2, <2>1, Zenon
  <2>3. p[2] + Hold = n + 1 /\ p[2] <= n /\ n < p[2] + Hold
    BY ONLY <1>1, <2>1, <2>2
  <2>4. QED
    BY <2>1, <2>3
<1>5. ASSUME Closed(s, r, n), NEW p \in EndedBy(s, n + 1), p \notin EndedBy(s, n)
      PROVE  FALSE
  BY <1>1, <1>2, <1>4, <1>5, NoneWhenClosed, Zenon
<1>6. ASSUME Open(s, r, n), NEW p \in EndedBy(s, n + 1), p \notin EndedBy(s, n)
      PROVE  p = <<r.start, r.last>> /\ r.last + Hold = n + 1
  <2>1. p[1] = r.start /\ p[2] = r.last
    BY <1>1, <1>2, <1>4, <1>6, OneWhenOpen, Zenon
  <2>2. QED
    BY <1>2, <1>4, <1>6, <2>1, Zenon
<1>7. QED
  BY <1>3, <1>5, <1>6

LEMMA ScanKeeps ==
  ASSUME NEW s \in Seq(Nat), NEW n \in 0 .. Len(s) - 1, NEW r, ScanInv(s, r, n)
  PROVE  ScanInv(s, Scan(s, r, n + 1), n + 1)
<1> DEFINE i == n + 1
           sq == s[i] * s[i]
           E == Spent(s)
<1>1. /\ r \in RunState /\ Best(s, EndedBy(s, n), r.best)
      /\ Closed(s, r, n) \/ Open(s, r, n)
  BY Zenon DEF ScanInv
<1>2. /\ n \in Nat /\ n \in 0 .. Len(s) /\ i \in 1 .. Len(s) /\ i \in Nat /\ i \in 0 .. Len(s)
      /\ Hold \in Nat \ {0} /\ s[i] \in Nat /\ sq \in Nat /\ i - 1 = n
  BY CalibrationAssumption
<1>3. E[i] = E[n] + sq /\ E[n] \in Nat /\ E[i] \in Nat
  <2>1. E[i] = E[i - 1] + s[i] * s[i]
    BY <1>2, SpentSteps, Zenon
  <2>2. E[n] \in Nat /\ E[i] \in Nat
    BY <1>2, SpentSteps, Zenon
  <2>3. QED
    BY <1>2, <2>1, <2>2
<1>4. Scan(s, r, i) \in RunState
  BY <1>1, <1>2, ScanType, Zenon
<1> SUFFICES /\ Closed(s, Scan(s, r, i), i) \/ Open(s, Scan(s, r, i), i)
             /\ Best(s, EndedBy(s, i), Scan(s, r, i).best)
  BY <1>4, Zenon DEF ScanInv
<1> HIDE DEF sq, E
\* No run is open and none begins.
<1>5. CASE Closed(s, r, n) /\ ~On(s[i])
  <2>1. Scan(s, r, i) = r
    BY <1>5, Zenon DEF Scan, Closed
  <2>2. ASSUME NEW h \in 1 .. i, On(s[h]) PROVE ~Continuous(s, h, i)
    <3>1. h \in 1 .. n
      <4>1. h # i
        BY <1>5, <2>2, Zenon
      <4>2. QED
        BY <1>2, <4>1
    <3>2. ~Continuous(s, h, n)
      BY <1>5, <2>2, <3>1, Zenon DEF Closed
    <3>3. h \in Nat /\ h <= h /\ n <= i
      BY <1>2, <3>1
    <3>4. QED
      BY <1>2, <3>2, <3>3, PartsAreContinuous
  <2>3. Closed(s, r, i)
    BY <1>5, <2>2, Zenon DEF Closed
  <2>4. EndedBy(s, i) = EndedBy(s, n)
    BY <1>1, <1>5, NewlyEnded
  <2>5. QED
    BY <1>1, <2>1, <2>3, <2>4, Zenon
\* A run begins.
<1>6. CASE Closed(s, r, n) /\ On(s[i])
  <2> DEFINE q == [r EXCEPT !.in = TRUE, !.start = i, !.last = i, !.energy = sq, !.below = 0]
  <2>1. AboveOff(s[i])
    BY <1>2, <1>6, OnIsAbove, Zenon
  <2>2. Scan(s, r, i) = q
    <3> DEFINE run == [r EXCEPT !.in = TRUE, !.start = i, !.last = i]
    <3>1. ~r.in /\ r.energy = 0
      BY <1>6 DEF Closed
    <3>2. run \in RunState /\ run.in /\ run.energy = 0
      BY <1>1, <1>2, <3>1 DEF RunState
    <3>3. Scan(s, r, i) = [[run EXCEPT !.energy = @ + sq] EXCEPT !.last = i, !.below = 0]
      BY <1>6, <2>1, <3>1, <3>2, Zenon DEF Scan, sq
    <3>4. run.energy + sq = sq
      BY <1>2, <3>2
    <3>5. Scan(s, r, i) = [[run EXCEPT !.energy = sq] EXCEPT !.last = i, !.below = 0]
      BY <3>3, <3>4, Zenon
    <3>6. QED
      BY <1>1, <1>2, <3>5 DEF RunState
  <2>3. /\ q.in = TRUE /\ q.start = i /\ q.last = i /\ q.below = 0 /\ q.energy = sq /\ q.best = r.best
    BY <1>1 DEF RunState
  <2> HIDE DEF q
  <2>4. Continuous(s, i, i)
    <3>1. SUFFICES ASSUME NEW k \in i .. i + 1 - Hold, \A x \in k .. k + Hold - 1 : ~AboveOff(s[x])
                   PROVE  FALSE
      BY Zenon DEF Continuous
    <3>2. i \in k .. k + Hold - 1
      BY <1>2, <3>1
    <3>3. QED
      BY <2>1, <3>1, <3>2, Zenon
  <2>5. ASSUME NEW h \in 1 .. i - 1, On(s[h]) PROVE ~Continuous(s, h, i)
    <3>1. h \in 1 .. n /\ h \in Nat /\ h <= h /\ n <= i
      BY <1>2
    <3>2. ~Continuous(s, h, n)
      BY <1>6, <2>5, <3>1, Zenon DEF Closed
    <3>3. QED
      BY <1>2, <3>1, <3>2, PartsAreContinuous
  <2>6. sq = E[i] - E[i - 1]
    BY <1>2, <1>3
  <2>7. \A x \in i + 1 .. i : ~AboveOff(s[x])
    BY <1>2
  <2>8. i \in 1 .. i /\ i - i = 0 /\ 0 < Hold
    BY <1>2
  <2>9. Open(s, q, i)
    BY <1>6, <2>1, <2>3, <2>4, <2>5, <2>6, <2>7, <2>8, Zenon DEF Open, Run, E
  <2>10. EndedBy(s, i) = EndedBy(s, n)
    BY <1>1, <1>6, NewlyEnded
  <2>11. QED
    BY <1>1, <2>2, <2>3, <2>9, <2>10, Zenon
\* The open run goes on.
<1>7. ASSUME Open(s, r, n)
      PROVE  /\ r.in /\ r.start \in Nat /\ r.last \in Nat /\ r.energy \in Nat /\ r.below \in Nat
             /\ r.start \in 1 .. r.last /\ r.last \in 1 .. n
             /\ r.below = n - r.last /\ r.below < Hold /\ n < r.last + Hold
             /\ r.energy = E[n] - E[r.start - 1]
             /\ On(s[r.start]) /\ AboveOff(s[r.last]) /\ Continuous(s, r.start, r.last)
             /\ \A x \in r.last + 1 .. n : ~AboveOff(s[x])
             /\ \A h \in 1 .. r.start - 1 : On(s[h]) => ~Continuous(s, h, r.start)
             /\ E[r.start - 1] \in Nat
  <2>1. r.start \in Nat /\ r.last \in Nat /\ r.energy \in Nat /\ r.below \in Nat
    BY <1>1 DEF RunState
  <2>2. /\ r.in /\ r.start \in 1 .. r.last /\ r.last \in 1 .. n
        /\ r.below = n - r.last /\ r.below < Hold /\ r.energy = E[n] - E[r.start - 1]
        /\ On(s[r.start]) /\ AboveOff(s[r.last]) /\ Continuous(s, r.start, r.last)
        /\ \A x \in r.last + 1 .. n : ~AboveOff(s[x])
        /\ \A h \in 1 .. r.start - 1 : On(s[h]) => ~Continuous(s, h, r.start)
    BY <1>7, Zenon DEF Open, Run, E
  <2>3. n < r.last + Hold /\ r.start - 1 \in 0 .. Len(s)
    <3>1. r.start \in 1 .. r.last /\ r.last \in 1 .. n /\ r.below = n - r.last /\ r.below < Hold
      BY <2>2, Zenon
    <3>2. Len(s) \in Nat /\ n <= Len(s) /\ n \in Nat /\ Hold \in Nat
      BY <1>2
    <3>3. QED
      BY ONLY <2>1, <3>1, <3>2
  <2>4. E[r.start - 1] \in Nat
    BY <2>3, SpentSteps, Zenon DEF E
  <2>5. QED
    BY <2>1, <2>2, <2>3, <2>4, Zenon
<1> DEFINE fed == [r EXCEPT !.energy = r.energy + sq]
           rest == [fed EXCEPT !.below = fed.below + 1]
           above == [fed EXCEPT !.last = i, !.below = 0]
<1>8. ASSUME r.in
      PROVE  Scan(s, r, i) = IF AboveOff(s[i]) THEN above
                             ELSE IF rest.below >= Hold THEN FinishRun(rest) ELSE rest
  <2> DEFINE run == IF ~r.in /\ On(s[i]) THEN [r EXCEPT !.in = TRUE, !.start = i, !.last = i] ELSE r
             f == [run EXCEPT !.energy = @ + sq]
             g == [f EXCEPT !.below = @ + 1]
             a == [f EXCEPT !.last = i, !.below = 0]
  <2>1. run = r
    BY <1>8, Zenon
  <2>2. Scan(s, r, i) = IF ~run.in THEN run ELSE IF AboveOff(s[i]) THEN a
                        ELSE IF g.below >= Hold THEN FinishRun(g) ELSE g
    BY Zenon DEF Scan, sq
  <2> HIDE DEF run
  <2>3. f = fed
    BY <2>1, Zenon
  <2> HIDE DEF f, fed
  <2>4. a = above /\ g = rest
    BY <2>3, Zenon
  <2>5. QED
    BY <1>8, <2>1, <2>2, <2>4, Zenon
<1>9. r.energy + sq \in Nat /\ r.below + 1 \in Nat
  BY <1>1, <1>2 DEF RunState
<1> DEFINE e == r.energy + sq
           d == r.below + 1
<1>10. /\ fed.below = r.below
       /\ rest = [[r EXCEPT !.energy = e] EXCEPT !.below = d]
       /\ above = [[[r EXCEPT !.energy = e] EXCEPT !.last = i] EXCEPT !.below = 0]
  BY <1>1 DEF RunState
<1>11. e \in Nat /\ d \in Nat
  BY <1>9
<1> HIDE DEF e, d
<1>12. /\ rest.in = r.in /\ rest.start = r.start /\ rest.last = r.last /\ rest.below = d
       /\ rest.energy = e /\ rest.best = r.best
       /\ above.in = r.in /\ above.start = r.start /\ above.last = i /\ above.below = 0
       /\ above.energy = e /\ above.best = r.best
  BY <1>1, <1>2, <1>10, <1>11 DEF RunState
<1>13. rest \in RunState
  BY <1>1, <1>10, <1>11 DEF RunState
<1> HIDE DEF fed, rest, above
<1>14. ASSUME Open(s, r, n) PROVE e = E[i] - E[r.start - 1]
  <2>1. r.energy = E[n] - E[r.start - 1] /\ E[r.start - 1] \in Nat
    BY <1>7, <1>14, Zenon
  <2> DEFINE x == E[r.start - 1]
             y == E[n]
  <2>2. x \in Nat /\ y \in Nat /\ r.energy = y - x /\ E[i] = y + sq
    BY <1>3, <2>1, Zenon
  <2> HIDE DEF x, y
  <2>3. E[i] - x = r.energy + sq
    BY ONLY <1>2, <2>2
  <2>4. QED
    BY <2>3, Zenon DEF e, x
<1>15. CASE Open(s, r, n) /\ AboveOff(s[i])
  <2>1. Scan(s, r, i) = above
    BY <1>7, <1>8, <1>15, Zenon
  <2>2. Continuous(s, r.start, n)
    <3>1. r.start \in Nat /\ r.last \in Nat /\ r.start <= r.last /\ r.last <= n /\ n < r.last + Hold
      BY <1>2, <1>7, <1>15
    <3>2. QED
      BY <1>2, <1>7, <1>15, <3>1, RestsGoOn, Zenon
  <2>3. Continuous(s, r.start, i)
    BY <1>2, <1>7, <1>15, <2>2, AboveGoesOn
  <2>4. \A x \in i + 1 .. i : ~AboveOff(s[x])
    BY <1>2
  <2>5. r.start \in 1 .. i /\ i \in 1 .. i /\ i - i = 0 /\ 0 < Hold
    BY <1>2, <1>7, <1>15
  <2>6. Open(s, above, i)
    BY <1>7, <1>12, <1>14, <1>15, <2>3, <2>4, <2>5, Zenon DEF Open, Run, E
  <2>7. EndedBy(s, i) = EndedBy(s, n)
    <3>1. CASE r.last + Hold = i
      <4>1. <<r.start, r.last>> \notin MotionsOf(s)
        <5>1. SUFFICES ASSUME IsMotion(s, r.start, r.last) PROVE FALSE
          BY DEF MotionsOf
        <5>2. r.start \in Nat /\ r.last \in Nat /\ r.start <= r.last /\ i <= i /\ i \in r.last + 1 .. Len(s)
          BY <1>2, <1>7, <1>15
        <5>3. Continuous(s, r.last, i)
          BY <1>2, <2>3, <5>2, PartsAreContinuous, Zenon
        <5>4. QED
          BY <1>15, <5>1, <5>2, <5>3, Zenon DEF IsMotion
      <4>2. <<r.start, r.last>> \notin EndedBy(s, i)
        BY <4>1, Zenon DEF EndedBy
      <4>3. EndedBy(s, i) \subseteq EndedBy(s, n) \cup {<<r.start, r.last>>} /\ EndedBy(s, n) \subseteq EndedBy(s, i)
        BY <1>1, <1>15, NewlyEnded
      <4>4. QED
        BY <4>2, <4>3
    <3>2. CASE r.last + Hold # i
      BY <1>1, <1>15, <3>2, NewlyEnded
    <3>3. QED
      BY <3>1, <3>2
  <2>8. QED
    BY <1>1, <1>12, <2>1, <2>6, <2>7, Zenon
<1>16. ASSUME Open(s, r, n), ~AboveOff(s[i])
       PROVE  Run(s, rest, i) /\ \A x \in rest.last + 1 .. i : ~AboveOff(s[x])
  <2>1. \A x \in r.last + 1 .. i : x \in r.last + 1 .. n \/ x = i
    BY <1>2, <1>7, <1>16
  <2>2. \A x \in r.last + 1 .. i : ~AboveOff(s[x])
    BY <1>7, <1>16, <2>1, Zenon
  <2>3. d = i - r.last /\ r.last \in 1 .. i
    <3>1. r.last \in 1 .. n /\ r.below = n - r.last
      BY <1>7, <1>16, Zenon
    <3>2. QED
      BY ONLY <1>2, <3>1 DEF d
  <2>4. QED
    BY <1>7, <1>12, <1>14, <1>16, <2>2, <2>3, Zenon DEF Run, E
\* A rest, too short to end it.
<1>17. CASE Open(s, r, n) /\ ~AboveOff(s[i]) /\ d < Hold
  <2>1. Scan(s, r, i) = rest
    <3>1. ~(rest.below >= Hold)
      BY <1>2, <1>11, <1>12, <1>17
    <3>2. QED
      BY <1>7, <1>8, <1>17, <3>1, Zenon
  <2>2. Open(s, rest, i)
    BY <1>12, <1>16, <1>17, Zenon DEF Open
  <2>3. r.last + Hold # i
    BY <1>2, <1>7, <1>17 DEF d
  <2>4. EndedBy(s, i) = EndedBy(s, n)
    BY <1>1, <1>17, <2>3, NewlyEnded
  <2>5. QED
    BY <1>1, <1>12, <2>1, <2>2, <2>4, Zenon
\* The rest that ends it.
<1>18. CASE Open(s, r, n) /\ ~AboveOff(s[i]) /\ ~(d < Hold)
  <2>1. Scan(s, r, i) = FinishRun(rest)
    <3>1. rest.below >= Hold
      BY <1>2, <1>11, <1>12, <1>18
    <3>2. QED
      BY <1>7, <1>8, <1>18, <3>1, Zenon
  <2>2. i = r.last + Hold
    <3>1. r.last \in 1 .. n /\ r.below = n - r.last /\ r.below < Hold /\ ~(r.below + 1 < Hold)
      BY <1>7, <1>18, Zenon DEF d
    <3>2. n \in Nat /\ Hold \in Nat
      BY <1>2
    <3>3. QED
      BY ONLY <3>1, <3>2
  <2>3. \A x \in rest.last + 1 .. rest.last + Hold : ~AboveOff(s[x])
    BY <1>12, <1>16, <1>18, <2>2, Zenon
  <2> DEFINE M == IF r.start < r.last THEN EndedBy(s, n) \cup {<<r.start, r.last>>} ELSE EndedBy(s, n)
  <2>4. EndedBy(s, i) = M
    <3>1. EndedBy(s, i) \subseteq EndedBy(s, n) \cup {<<r.start, r.last>>} /\ EndedBy(s, n) \subseteq EndedBy(s, i)
      BY <1>1, <1>18, NewlyEnded
    <3>2. CASE r.start < r.last
      <4>1. IsMotion(s, rest.start, rest.last) /\ <<rest.start, rest.last>> \in (1 .. Len(s)) \X (1 .. Len(s))
        BY <1>2, <1>12, <1>13, <1>16, <1>18, <2>3, <3>2, TheRunIsAMotion
      <4>2. <<r.start, r.last>> \in MotionsOf(s)
        BY <1>12, <4>1 DEF MotionsOf
      <4>3. <<r.start, r.last>>[2] + Hold <= i
        BY <1>2, <2>2
      <4>4. <<r.start, r.last>> \in EndedBy(s, i)
        BY <4>2, <4>3, Zenon DEF EndedBy
      <4>5. QED
        BY <3>1, <3>2, <4>4
    <3>3. CASE ~(r.start < r.last)
      <4>1. ~IsMotion(s, r.start, r.last)
        BY <3>3, Zenon DEF IsMotion
      <4>2. <<r.start, r.last>> \notin EndedBy(s, i)
        BY <4>1 DEF EndedBy, MotionsOf
      <4>3. QED
        <5>1. EndedBy(s, i) = EndedBy(s, n)
          BY ONLY <3>1, <4>2
        <5>2. QED
          BY <3>3, <5>1, Zenon
    <3>4. QED
      BY <3>2, <3>3
  <2>5. Best(s, M, FinishRun(rest).best)
    <3>1. EndedBy(s, n) \in SUBSET MotionsOf(s)
      BY DEF EndedBy
    <3>2. i = rest.last + Hold /\ i <= rest.last + Hold /\ Run(s, rest, i)
      BY <1>2, <1>12, <1>16, <1>18, <2>2
    <3>3. Best(s, IF rest.start < rest.last THEN EndedBy(s, n) \cup {<<rest.start, rest.last>>} ELSE EndedBy(s, n),
               FinishRun(rest).best)
      BY <1>1, <1>2, <1>12, <1>13, <2>3, <3>1, <3>2, EndOfARun, Zenon
    <3>4. QED
      BY <1>12, <3>3, Zenon
  <2>6. FinishRun(rest).in = FALSE /\ FinishRun(rest).below = 0 /\ FinishRun(rest).energy = 0
    BY <1>13 DEF FinishRun, RunState
  <2>7. ASSUME NEW h \in 1 .. i, On(s[h]) PROVE ~Continuous(s, h, i)
    <3>1. s[h] \in Nat
      BY <1>2
    <3>2. AboveOff(s[h])
      BY <2>7, <3>1, OnIsAbove, Zenon
    <3>3. h \notin r.last + 1 .. i
      BY <1>12, <1>16, <1>18, <3>2, Zenon
    <3>4. h \in Nat /\ r.last \in Nat /\ h <= r.last + 1 /\ r.last + Hold <= i
      <4>1. r.last \in 1 .. n
        BY <1>7, <1>18, Zenon
      <4>2. QED
        BY ONLY <1>2, <2>2, <3>3, <4>1, h \in 1 .. i
    <3>5. QED
      BY <1>2, <1>12, <2>3, <3>4, HoldEnds, Zenon
  <2>8. Closed(s, FinishRun(rest), i)
    BY <2>6, <2>7, Zenon DEF Closed
  <2>9. QED
    BY <2>1, <2>4, <2>5, <2>8, Zenon
<1>19. QED
  BY <1>1, <1>5, <1>6, <1>15, <1>17, <1>18, Zenon

\* What the scan finds in a recording is its motion with the most energy.
LEMMA ScanOfAll ==
  ASSUME NEW s \in Seq(Nat)
  PROVE  ScanInv(s, Scanned(s)[Len(s)], Len(s))
<1> DEFINE L == Len(s)
           R == Scanned(s)
           T == {n \in 0 .. L : ScanInv(s, R[n], n)}
<1>1. L \in Nat /\ 0 \in 0 .. L /\ L \in 0 .. L
  OBVIOUS
<1>2. 0 \in T
  <2>1. R[0] = NoRun
    BY ScannedSteps, Zenon
  <2>2. NoRun \in RunState /\ NoRun.best.last = 0 /\ NoRun.best.energy = -1
    BY DEF NoRun, RunState
  <2>3. Closed(s, NoRun, 0)
    <3>1. \A h \in 1 .. 0 : FALSE
      OBVIOUS
    <3>2. ~NoRun.in /\ NoRun.below = 0 /\ NoRun.energy = 0
      BY DEF NoRun
    <3>3. QED
      BY <3>1, <3>2, Zenon DEF Closed
  <2>4. EndedBy(s, 0) = {}
    <3>1. Hold \in Nat \ {0}
      BY CalibrationAssumption
    <3>2. \A p \in MotionsOf(s) : p[2] \in 1 .. Len(s)
      BY DEF MotionsOf
    <3>3. \A p \in MotionsOf(s) : ~(p[2] + Hold <= 0)
      BY <3>1, <3>2
    <3>4. QED
      BY <3>3 DEF EndedBy
  <2>5. Best(s, EndedBy(s, 0), NoRun.best)
    BY <2>2, <2>4, Zenon DEF Best
  <2>6. ScanInv(s, R[0], 0)
    BY <2>1, <2>2, <2>3, <2>5, Zenon DEF ScanInv
  <2>7. QED
    BY <1>1, <2>6
<1>3. ASSUME NEW n \in 0 .. L - 1, n \in T PROVE n + 1 \in T
  <2>1. n + 1 \in 1 .. L /\ n + 1 \in 0 .. L /\ (n + 1) - 1 = n
    BY <1>1
  <2>2. R[n + 1] = Scan(s, R[n], n + 1)
    BY <2>1, ScannedSteps, Zenon
  <2>3. ScanInv(s, R[n], n)
    BY <1>3
  <2>4. ScanInv(s, R[n + 1], n + 1)
    BY <2>2, <2>3, ScanKeeps, Zenon
  <2>5. QED
    BY <2>1, <2>4
<1>4. T = 0 .. L
  <2>1. T \in SUBSET (0 .. L)
    OBVIOUS
  <2> HIDE DEF T, R, L
  <2>2. QED
    BY <1>1, <1>2, <1>3, <2>1, Along
<1>5. QED
  BY <1>1, <1>4

LEMMA TheBestIsFound ==
  ASSUME NEW s \in Seq(Nat)
  PROVE  Best(s, MotionsOf(s), MotionFound(s))
<1> DEFINE L == Len(s)
           r == Scanned(s)[L]
           M == EndedBy(s, L)
<1>1. L \in Nat /\ L \in 0 .. L /\ Hold \in Nat
  BY CalibrationAssumption
<1>2. r \in RunState /\ (Closed(s, r, L) \/ Open(s, r, L)) /\ Best(s, M, r.best)
  BY ScanOfAll, Zenon DEF ScanInv
<1>3. MotionFound(s) = FinishRun(r).best
  BY Zenon DEF MotionFound
<1>4. M \in SUBSET MotionsOf(s)
  BY DEF EndedBy
<1>5. ASSUME NEW p \in MotionsOf(s), p \notin M
      PROVE  /\ p[1] \in 1 .. L /\ p[2] \in 1 .. L /\ p = <<p[1], p[2]>> /\ IsMotion(s, p[1], p[2])
             /\ p[2] <= L /\ L < p[2] + Hold
  <2>1. ~(p[2] + Hold <= L)
    BY <1>5, Zenon DEF EndedBy
  <2>2. p[1] \in 1 .. L /\ p[2] \in 1 .. L /\ p = <<p[1], p[2]>> /\ IsMotion(s, p[1], p[2])
    BY DEF MotionsOf
  <2>3. p[2] <= L /\ L < p[2] + Hold
    BY <1>1, <2>1, <2>2
  <2>4. QED
    BY <2>2, <2>3
<1> HIDE DEF r, M
<1>6. CASE Closed(s, r, L)
  <2>1. ASSUME NEW p \in MotionsOf(s) PROVE p \in M
    BY <1>1, <1>2, <1>5, <1>6, NoneWhenClosed, Zenon
  <2>2. M = MotionsOf(s)
    BY <1>4, <2>1
  <2>3. ~r.in
    BY <1>6 DEF Closed
  <2>4. FinishRun(r).best = r.best
    BY <1>2, <2>3 DEF FinishRun, RunState
  <2>5. QED
    BY <1>2, <1>3, <2>2, <2>4, Zenon
<1>7. CASE Open(s, r, L)
  <2>1. ASSUME NEW p \in MotionsOf(s), p \notin M PROVE p = <<r.start, r.last>>
    <3>1. p[1] = r.start /\ p[2] = r.last
      BY <1>1, <1>2, <1>5, <1>7, <2>1, OneWhenOpen, Zenon
    <3>2. QED
      BY <1>5, <2>1, <3>1, Zenon
  <2>2. Run(s, r, L) /\ r.below < Hold
    BY <1>7 DEF Open
  <2>3. L <= r.last + Hold
    <3>1. r.last \in 1 .. L /\ r.below = L - r.last
      BY <2>2, Zenon DEF Run
    <3>2. QED
      BY ONLY <1>1, <2>2, <3>1
  <2>4. Best(s, IF r.start < r.last THEN M \cup {<<r.start, r.last>>} ELSE M, FinishRun(r).best)
    BY <1>1, <1>2, <1>4, <2>2, <2>3, EndOfARun, Zenon
  <2>5. MotionsOf(s) = IF r.start < r.last THEN M \cup {<<r.start, r.last>>} ELSE M
    <3>1. CASE r.start < r.last
      <4>1. IsMotion(s, r.start, r.last) /\ <<r.start, r.last>> \in (1 .. L) \X (1 .. L)
        BY <1>1, <1>2, <2>2, <3>1, TheRunIsAMotion, Zenon
      <4>2. <<r.start, r.last>> \in MotionsOf(s)
        BY <4>1 DEF MotionsOf
      <4>3. QED
        BY <1>4, <2>1, <3>1, <4>2
    <3>2. CASE ~(r.start < r.last)
      <4>1. <<r.start, r.last>> \notin MotionsOf(s)
        BY <3>2 DEF MotionsOf, IsMotion
      <4>2. \A p \in MotionsOf(s) : p \in M
        BY <2>1, <4>1, Zenon
      <4>3. MotionsOf(s) = M
        BY ONLY <1>4, <4>2
      <4>4. QED
        BY <3>2, <4>3, Zenon
    <3>3. QED
      BY <3>1, <3>2
  <2>6. QED
    BY <1>3, <2>4, <2>5, Zenon
<1>8. QED
  BY <1>2, <1>6, <1>7

\* A head that moved more than once in a step is judged by its motion with the most energy, for
\* every length of a recording, of the rest and of the rates (orientation_calibration.cpp:202-246).
THEOREM TheBiggestMotionIsJudged == Spec => []OneMotionIsJudged
<1>1. ASSUME samples \in Seq(Nat) PROVE OneMotionIsJudged
  <2> DEFINE m == MotionFound(samples)
             energy(p) == MotionEnergy(samples, p[1], p[2])
  <2>1. Best(samples, MotionsOf(samples), m)
    BY <1>1, TheBestIsFound
  <2>2. energy(<<m.first, m.last>>) = MotionEnergy(samples, m.first, m.last)
    OBVIOUS
  <2> HIDE DEF m
  <2>3. IF MotionsOf(samples) = {} THEN m.last = 0
        ELSE /\ <<m.first, m.last>> \in MotionsOf(samples)
             /\ \A p \in MotionsOf(samples) : energy(p) <= energy(<<m.first, m.last>>)
    BY <2>1, <2>2, Zenon DEF Best
  <2>4. QED
    BY <2>3, Zenon DEF OneMotionIsJudged, MotionsOf, m
<1>2. TypeOK => OneMotionIsJudged
  BY <1>1, Zenon DEF TypeOK
<1>3. QED
  BY <1>2, TypeCorrect, PTL

--------------------------------------------------------------------------------
(* Bias and heading while the glasses are worn.                             *)

\* A window of calm samples: how many there are, capped, and their rates.
CalmWindow == [time : 0..CalWindow, rates : SUBSET Nat]

RestOK ==
  /\ world \in Worlds /\ haveTick \in BOOLEAN /\ warm \in 0..Warmup /\ fresh \in BOOLEAN
  /\ lpf \in world.rates \cup {0} /\ lpfReady \in BOOLEAN /\ restNow \in BOOLEAN /\ still \in BOOLEAN
  /\ stillTime \in 0..StillHold /\ holdoff \in 0..MotionHoldoff
CalibrationOK ==
  /\ calRun \in CalmWindow /\ calm \in CalmWindow
  /\ calPhase \in 0..CalTimeout /\ biasDone \in BOOLEAN
EscapeOK ==
  /\ bias \in 0..BiasLimit /\ snapshot \in 0..BiasLimit
  /\ adapt \in {"idle", "routine", "escape", "calibrating"}
  /\ escDwell \in 0..EscapeDwell /\ retDwell \in 0..ReturnDwell
  /\ escOpen \in BOOLEAN /\ escArmed \in BOOLEAN
PoseOK ==
  /\ initialized \in BOOLEAN /\ haveRef \in BOOLEAN /\ havePrev \in BOOLEAN
  /\ drift \in -DriftLimit..DriftLimit

\* Until the calibration is done its run is a part of the calm samples since
\* the last one that was not, and neither escape nor lock has begun.
Calibrating ==
  ~biasDone =>
    /\ calRun.time <= calm.time /\ calRun.rates \subseteq calm.rates
    /\ ~escOpen /\ lock = "acquiring"

\* While a stability window is open, no reading outside its band is younger than
\* the window, save for the time its first reading booked.
Steady ==
  /\ sinceFresh < MaxStall
  /\ lock = "acquiring" => rejected.time = 0
  /\ rejected.time > 0 =>
       /\ rejected.field \in Field
       /\ \A g \in Field : Distance(g, rejected.field) > FieldStable =>
            unseen[g] + MaxStall >= rejected.time + sinceFresh
  /\ rejected.time < ReacquireS

EstimatorInv ==
  /\ RestOK /\ CalibrationOK /\ EscapeOK /\ PoseOK /\ LockTypeOK
  /\ Calibrating /\ Steady

LEMMA EstimatorConstants ==
  /\ Warmup \in Nat /\ StillHold \in Nat /\ MotionHoldoff \in Nat /\ CalTimeout \in Nat
  /\ BiasLimit \in Nat /\ ResidualCap \in Nat /\ FastStep \in Nat /\ SlowStep \in Nat
  /\ EscapeDwell \in Nat /\ ReturnTol \in Nat /\ ReturnDwell \in Nat /\ ExcursionMin \in Nat
  /\ DriftRate \in Nat /\ DriftLimit \in Nat /\ RestRate \in Nat /\ MotionRate \in Nat
  /\ CalWindow \in Nat /\ CalWindow > 0
  /\ \A w \in Worlds : w.rates \subseteq Nat
  /\ Field \subseteq Nat /\ AcquireS \in Nat /\ AcquireS > 0 /\ ReacquireS \in Nat /\ MaxStall \in Nat
  /\ MaxStall > 0 /\ MaxStall < ReacquireS /\ FieldGate \in Nat /\ FieldStable \in Nat
BY EstimatorAssumption, LockAssumption

LEMMA EstimatorInitInv == EstimatorInit => EstimatorInv
<1> SUFFICES ASSUME EstimatorInit PROVE EstimatorInv
  OBVIOUS
<1>0. \A n \in Nat : 0 \in 0..n
  OBVIOUS
<1>1. RestOK
  <2>1. 0 \in 0..Warmup /\ 0 \in 0..StillHold /\ 0 \in 0..MotionHoldoff
    BY ONLY <1>0, EstimatorConstants
  <2>2. /\ world \in Worlds /\ haveTick = FALSE /\ warm = 0 /\ lpf = 0 /\ lpfReady = FALSE
        /\ restNow = FALSE /\ still = FALSE /\ stillTime = 0 /\ holdoff = 0 /\ fresh = FALSE
    BY DEF EstimatorInit
  <2>3. QED
    BY ONLY <2>1, <2>2 DEF RestOK
<1>2. CalibrationOK
  <2>1. 0 \in 0..CalWindow /\ 0 \in 0..CalTimeout
    BY ONLY <1>0, EstimatorConstants
  <2>2. calRun = NoCalibration /\ calm = NoCalibration /\ calPhase = 0 /\ biasDone = FALSE
    BY DEF EstimatorInit
  <2>3. QED
    BY ONLY <2>1, <2>2 DEF CalibrationOK, CalmWindow, NoCalibration
<1>3. EscapeOK
  <2>1. 0 \in 0..BiasLimit /\ 0 \in 0..EscapeDwell /\ 0 \in 0..ReturnDwell
    BY ONLY <1>0, EstimatorConstants
  <2>2. /\ bias = 0 /\ snapshot = 0 /\ adapt = "calibrating" /\ escDwell = 0 /\ retDwell = 0
        /\ escOpen = FALSE /\ escArmed = FALSE
    BY DEF EstimatorInit
  <2>3. QED
    BY ONLY <2>1, <2>2 DEF EscapeOK
<1>4. PoseOK
  <2>1. 0 \in -DriftLimit..DriftLimit
    BY ONLY EstimatorConstants
  <2>2. initialized = FALSE /\ haveRef = FALSE /\ havePrev = FALSE /\ drift = 0
    BY DEF EstimatorInit
  <2>3. QED
    BY ONLY <2>1, <2>2 DEF PoseOK
<1>5. LockTypeOK
  <2>1. 0 \in 0..AcquireS /\ 0 \in 0..ReacquireS /\ 0 \in 0..MaxStall /\ ReacquireS \in 0..ReacquireS
    BY ONLY EstimatorConstants
  <2>2. LockInit
    BY DEF EstimatorInit
  <2>3. unseen \in [Field -> 0..ReacquireS]
    BY ONLY <2>1, <2>2 DEF LockInit
  <2>4. acq \in [time : 0..AcquireS, span : SUBSET Field]
    BY ONLY <2>1, <2>2 DEF LockInit, NoAcquisition
  <2>5. rejected \in [time : 0..ReacquireS, field : Field \cup {0}]
    BY ONLY <2>1, <2>2 DEF LockInit, NoRejection
  <2>6. QED
    BY ONLY <2>1, <2>2, <2>3, <2>4, <2>5 DEF LockInit, LockTypeOK
<1>6. Calibrating
  BY DEF EstimatorInit, LockInit, Calibrating, NoCalibration
<1>7. Steady
  BY EstimatorConstants DEF EstimatorInit, LockInit, Steady, NoRejection
<1>8. QED
  BY <1>1, <1>2, <1>3, <1>4, <1>5, <1>6, <1>7 DEF EstimatorInv

\* What the rest detector leaves, whatever the sample.
LEMMA RestKept ==
  ASSUME EstimatorInv, NEW dev, NEW rate \in world.rates, UpdateRestDetector(dev, rate),
         world' = world, haveTick' \in BOOLEAN, warm' \in 0..Warmup, fresh' \in BOOLEAN
  PROVE  RestOK'
<1> USE EstimatorConstants
<1>0. RestOK
  BY DEF EstimatorInv
<1>1. lpf' \in world'.rates \cup {0}
  BY DEF UpdateRestDetector
<1>2. CASE ~lpfReady
  <2>1. lpfReady' = TRUE /\ restNow' = TRUE /\ stillTime' = 0 /\ still' \in BOOLEAN /\ holdoff' = 0
    BY <1>2 DEF UpdateRestDetector
  <2>2. QED
    BY <1>0, <1>1, <2>1 DEF RestOK
<1>3. CASE lpfReady
  <2> DEFINE quiet == QuietSample(dev, rate)
  <2>1. quiet \in BOOLEAN
    BY DEF QuietSample
  <2>2. /\ restNow' = quiet /\ lpfReady' = lpfReady
        /\ \/ stillTime' = 0 /\ still' = FALSE /\ holdoff' = MotionHoldoff
           \/ /\ stillTime' \in {stillTime, CapAt(stillTime + 1, StillHold)}
              /\ still' = (still \/ (quiet /\ stillTime + 1 >= StillHold))
              /\ holdoff' = IF holdoff > 0 THEN holdoff - 1 ELSE 0
    BY <1>3 DEF UpdateRestDetector
  <2> HIDE DEF quiet
  <2>3. stillTime' \in 0..StillHold /\ holdoff' \in 0..MotionHoldoff
    BY <1>0, <2>2 DEF RestOK, CapAt
  <2>4. still' \in BOOLEAN
    <3>1. (quiet /\ stillTime + 1 >= StillHold) \in BOOLEAN /\ still \in BOOLEAN
      BY <1>0, <2>1 DEF RestOK
    <3>2. QED
      BY <2>2, <3>1
  <2>5. QED
    BY <1>0, <1>1, <2>1, <2>2, <2>3, <2>4 DEF RestOK
<1>4. QED
  BY <1>0, <1>2, <1>3 DEF RestOK

\* One step of the bias stays in the band, goes at most its length, and never
\* past the rate it aims at.
LEMMA StepIs ==
  ASSUME NEW b \in 0..BiasLimit, NEW target \in Nat, NEW step \in Nat, NEW x \in StepBias(b, target, step)
  PROVE  x \in 0..BiasLimit /\ Distance(b, x) <= step /\ Distance(x, b) <= Distance(target, b)
<1> USE EstimatorConstants
<1>1. PICK y \in (b - step)..(b + step) :
        /\ \/ y = b /\ b = target
           \/ b < y /\ y <= target
           \/ target <= y /\ y < b
        /\ x = Clamp(y, 0, BiasLimit)
  BY DEF StepBias
<1>2. b \in Int /\ BiasLimit \in Int /\ b - step \in Int /\ b + step \in Int
  OBVIOUS
<1>3. y \in Int /\ b - step <= y /\ y <= b + step
  BY <1>2
<1>4. QED
  BY <1>1, <1>3 DEF Clamp, Distance

Excursion == [bias : 0..BiasLimit, dwell : 0..EscapeDwell, open : BOOLEAN, armed : BOOLEAN, ret : 0..ReturnDwell]

\* The rollback looks at the excursion and leaves it, or puts the bias back to
\* where it left, for a rate in the band of the snapshot.
LEMMA RollbackIs ==
  ASSUME EscapeOK, NEW rate \in Nat, NEW e, e = AfterRollback(rate)
  PROVE  /\ e \in Excursion
         /\ \/ e.bias = bias /\ e.open = escOpen /\ e.armed = escArmed
            \/ /\ escOpen /\ escArmed /\ RestEligible /\ Distance(rate, snapshot) <= ReturnTol
               /\ e.bias = snapshot /\ ~e.open /\ ~e.armed /\ e.dwell = 0
<1> USE EstimatorConstants
<1>1. Escape \in Excursion /\ Escape.bias = bias /\ Escape.open = escOpen /\ Escape.armed = escArmed
  BY DEF Escape, Excursion, EscapeOK
<1>2. \A r \in 0..ReturnDwell :
        /\ [Escape EXCEPT !.ret = r] \in Excursion
        /\ [Escape EXCEPT !.ret = r].bias = bias /\ [Escape EXCEPT !.ret = r].open = escOpen
        /\ [Escape EXCEPT !.ret = r].armed = escArmed
  BY <1>1 DEF Excursion
<1>3. CASE ~(escOpen /\ escArmed)
  BY <1>1, <1>3 DEF AfterRollback
<1>4. CASE escOpen /\ escArmed /\ (~RestEligible \/ Distance(rate, snapshot) > ReturnTol)
  <2>1. e = [Escape EXCEPT !.ret = 0] /\ 0 \in 0..ReturnDwell
    BY <1>4 DEF AfterRollback
  <2>2. QED
    BY <1>2, <2>1
<1>5. CASE /\ escOpen /\ escArmed /\ ~(~RestEligible \/ Distance(rate, snapshot) > ReturnTol)
           /\ retDwell + 1 < ReturnDwell
  <2>1. e = [Escape EXCEPT !.ret = retDwell + 1] /\ retDwell + 1 \in 0..ReturnDwell
    BY <1>5 DEF AfterRollback, EscapeOK
  <2>2. QED
    BY <1>2, <2>1
<1>6. CASE /\ escOpen /\ escArmed /\ ~(~RestEligible \/ Distance(rate, snapshot) > ReturnTol)
           /\ ~(retDwell + 1 < ReturnDwell)
  <2>1. e = [bias |-> snapshot, dwell |-> 0, open |-> FALSE, armed |-> FALSE, ret |-> 0]
    BY <1>6 DEF AfterRollback
  <2>2. Distance(rate, snapshot) <= ReturnTol
    BY <1>6 DEF Distance, EscapeOK
  <2>3. e \in Excursion
    BY <2>1 DEF Excursion, EscapeOK
  <2>4. QED
    BY <1>6, <2>1, <2>2, <2>3
<1>7. QED
  BY <1>3, <1>4, <1>5, <1>6

\* What ExcursionCreepsOrIsUndone says of a step.
CreepsOrIsUndone ==
  escOpen /\ escArmed =>
    \/ escOpen' /\ escArmed' /\ Distance(bias, bias') <= SlowStep /\ snapshot' = snapshot
    \/ ~escArmed' /\ Distance(bias', snapshot) <= ReturnTol

LEMMA StaysPut == ASSUME EscapeOK, UNCHANGED <<bias, escOpen, escArmed, snapshot>> PROVE CreepsOrIsUndone
BY EstimatorConstants DEF EscapeOK, CreepsOrIsUndone, Distance

LEMMA DistanceIs ==
  \A x, y \in Nat : Distance(x, y) \in Nat /\ Distance(x, x) = 0 /\ Distance(x, y) = Distance(y, x)
BY DEF Distance

\* Adaptation keeps the bias in its band.  An armed excursion that is not rolled
\* back keeps the routine update out; one that is has left the bias in the band of
\* the snapshot, from where a step towards a rate of that band does not leave it.
LEMMA AdaptKeeps ==
  ASSUME EscapeOK, NEW rate \in Nat, AdaptBias(rate)
  PROVE  EscapeOK' /\ CreepsOrIsUndone
<1> USE EstimatorConstants
<1> DEFINE e == AfterRollback(rate)
<1>1. /\ e \in Excursion
      /\ \/ e.bias = bias /\ e.open = escOpen /\ e.armed = escArmed
         \/ /\ escOpen /\ escArmed /\ RestEligible /\ Distance(rate, snapshot) <= ReturnTol
            /\ e.bias = snapshot /\ ~e.open /\ ~e.armed /\ e.dwell = 0
  BY RollbackIs
<1>2. \/ Routine(rate, e) /\ RoutineUpdate(rate, e)
      \/ EscapeUpdate(rate, e)
      \/ HoldBias(e)
  BY DEF AdaptBias
<1> HIDE DEF e
<1>3. /\ e.bias \in 0..BiasLimit /\ e.dwell \in 0..EscapeDwell /\ e.ret \in 0..ReturnDwell
      /\ e.open \in BOOLEAN /\ e.armed \in BOOLEAN
  BY <1>1 DEF Excursion
<1>4. /\ bias \in 0..BiasLimit /\ snapshot \in 0..BiasLimit
      /\ escOpen \in BOOLEAN /\ escArmed \in BOOLEAN
  BY DEF EscapeOK
<1>5. \A x, y \in 0..BiasLimit : Distance(x, x) = 0 /\ Distance(x, y) \in Nat
  BY DEF Distance
<1>10. 0 \in 0..EscapeDwell /\ 0 \in 0..ReturnDwell
  OBVIOUS
<1>6. CASE Routine(rate, e) /\ RoutineUpdate(rate, e)
  <2>1. /\ bias' \in 0..BiasLimit /\ Distance(bias', e.bias) <= Distance(rate, e.bias)
    <3>1. bias' \in StepBias(e.bias, rate, FastStep)
      BY <1>6 DEF RoutineUpdate
    <3>2. QED
      BY <1>3, <3>1, StepIs
  <2>2. /\ adapt' = "routine" /\ escDwell' = 0 /\ escOpen' = FALSE /\ escArmed' = FALSE
        /\ retDwell' = 0 /\ snapshot' = snapshot
    BY <1>6 DEF RoutineUpdate
  <2>3. EscapeOK'
    BY ONLY <1>4, <1>10, <2>1, <2>2 DEF EscapeOK
  <2>4. ~(e.open /\ e.armed)
    BY <1>6 DEF Routine
  <2>5. escOpen /\ escArmed => Distance(rate, snapshot) <= ReturnTol /\ e.bias = snapshot
    BY <1>1, <2>4
  <2>6. escOpen /\ escArmed => Distance(bias', snapshot) <= ReturnTol
    <3>1. snapshot \in Nat /\ bias' \in Nat
      BY <1>4, <2>1
    <3>3. Distance(rate, snapshot) \in Nat /\ Distance(bias', snapshot) \in Nat
      BY ONLY rate \in Nat, <3>1, DistanceIs
    <3>2. QED
      BY <2>1, <2>5, <3>3
  <2>7. QED
    BY <2>2, <2>3, <2>6 DEF CreepsOrIsUndone
<1>7. CASE EscapeUpdate(rate, e)
  <2>1. escDwell' = CapAt(e.dwell + 1, EscapeDwell) /\ escDwell' \in 0..EscapeDwell
    BY <1>3, <1>7 DEF EscapeUpdate, CapAt
  <2>2. CASE escDwell' = EscapeDwell
    <3>1. /\ adapt' = "escape" /\ escOpen' = TRUE
          /\ snapshot' = IF e.open THEN snapshot ELSE e.bias
          /\ retDwell' = IF e.open THEN e.ret ELSE 0
          /\ escArmed' = ((e.open /\ e.armed) \/ Distance(e.bias, snapshot') > ExcursionMin)
          /\ bias' \in StepBias(e.bias, rate, SlowStep)
      BY <1>7, <2>2 DEF EscapeUpdate
    <3>2. /\ bias' \in 0..BiasLimit /\ Distance(e.bias, bias') <= SlowStep
          /\ Distance(bias', e.bias) <= Distance(rate, e.bias)
      BY <1>3, <3>1, StepIs
    <3>3. snapshot' \in 0..BiasLimit /\ retDwell' \in 0..ReturnDwell /\ escArmed' \in BOOLEAN
      <4>1. snapshot' \in 0..BiasLimit /\ retDwell' \in 0..ReturnDwell
        BY <1>3, <1>4, <3>1
      <4>2. (Distance(e.bias, snapshot') > ExcursionMin) \in BOOLEAN /\ (e.open /\ e.armed) \in BOOLEAN
        BY <1>3, <1>5, <4>1
      <4>3. QED
        BY <3>1, <4>1, <4>2
    <3>4. EscapeOK'
      BY <2>1, <3>1, <3>2, <3>3 DEF EscapeOK
    <3>5. ASSUME escOpen, escArmed, e.bias = bias, e.open = escOpen, e.armed = escArmed
          PROVE  escOpen' /\ escArmed' /\ Distance(bias, bias') <= SlowStep /\ snapshot' = snapshot
      BY <3>1, <3>2, <3>5
    <3>6. ASSUME ~e.open, e.bias = snapshot, Distance(rate, snapshot) <= ReturnTol
          PROVE  ~escArmed' /\ Distance(bias', snapshot) <= ReturnTol
      <4>1. snapshot' = e.bias
        BY <3>1, <3>6
      <4>2. ~(Distance(e.bias, snapshot') > ExcursionMin)
        BY <1>3, <1>5, <4>1
      <4>3. ~escArmed'
        BY <3>1, <3>6, <4>2
      <4>6. snapshot \in Nat /\ bias' \in Nat
        BY <1>4, <3>2
      <4>4. Distance(rate, snapshot) \in Nat /\ Distance(bias', snapshot) \in Nat
        BY ONLY rate \in Nat, <4>6, DistanceIs
      <4>5. QED
        BY <3>2, <3>6, <4>3, <4>4
    <3>7. QED
      BY <1>1, <3>4, <3>5, <3>6 DEF CreepsOrIsUndone
  <2>3. CASE escDwell' # EscapeDwell
    <3>1. /\ adapt' = "idle" /\ bias' = e.bias /\ escOpen' = e.open /\ escArmed' = e.armed
          /\ retDwell' = e.ret /\ snapshot' = snapshot
      BY <1>7, <2>3 DEF EscapeUpdate
    <3>2. EscapeOK'
      BY <1>3, <1>4, <2>1, <3>1 DEF EscapeOK
    <3>3. QED
      BY <1>1, <1>4, <1>5, <3>1, <3>2 DEF CreepsOrIsUndone
  <2>4. QED
    BY <2>2, <2>3
<1>8. CASE HoldBias(e)
  <2>1. /\ adapt' = "idle" /\ bias' = e.bias /\ escDwell' = e.dwell /\ escOpen' = e.open
        /\ escArmed' = e.armed /\ retDwell' = e.ret /\ snapshot' = snapshot
    BY <1>8 DEF HoldBias
  <2>2. EscapeOK'
    BY <1>3, <1>4, <2>1 DEF EscapeOK
  <2>3. QED
    BY <1>1, <1>4, <1>5, <2>1, <2>2 DEF CreepsOrIsUndone
<1>9. QED
  BY <1>2, <1>6, <1>7, <1>8

\* What ReacquiresOnlySteadyFields says of a step.
OnlySteadyIsReacquired ==
  lock = "disturbed" /\ lock' = "acquiring" =>
    \E f \in Field : \A g \in Field :
      Distance(g, f) > FieldStable => unseen'[g] >= ReacquireS - MaxStall

LEMMA MeanIsAField == ASSUME NEW span PROVE MeanOf(span) \subseteq Field
BY DEF MeanOf

\* A sample takes the lock from one state to another as its window allows.  A
\* window is begun, goes on with a reading of its band, or is given up.
LEMMA LockKeeps ==
  ASSUME LockTypeOK, Steady, NEW usable \in BOOLEAN, Update(usable)
  PROVE  LockTypeOK' /\ Steady' /\ OnlySteadyIsReacquired
<1> USE EstimatorConstants
<1>1. /\ lock \in {"acquiring", "locked", "disturbed"}
      /\ acq.time \in 0..AcquireS /\ acq.span \subseteq Field /\ acq \in [time : 0..AcquireS, span : SUBSET Field]
      /\ reference \in Field \cup {0} /\ haveError \in BOOLEAN
      /\ rejected \in [time : 0..ReacquireS, field : Field \cup {0}]
      /\ rejected.time \in 0..ReacquireS /\ rejected.field \in Field \cup {0}
      /\ sinceFresh \in Nat /\ sinceFresh < MaxStall /\ rejected.time < ReacquireS
      /\ \A g \in Field : unseen[g] \in 0..ReacquireS
  BY DEF LockTypeOK, Steady
<1>2. /\ lock = "acquiring" => rejected.time = 0
      /\ rejected.time > 0 =>
           /\ rejected.field \in Field
           /\ \A g \in Field : Distance(g, rejected.field) > FieldStable =>
                unseen[g] + MaxStall >= rejected.time + sinceFresh
  BY DEF Steady
<1>3. /\ NoRejection.time = 0 /\ NoRejection \in [time : 0..ReacquireS, field : Field \cup {0}]
      /\ NoAcquisition \in [time : 0..AcquireS, span : SUBSET Field]
  BY DEF NoRejection, NoAcquisition
<1>4. unseen' \in [Field -> 0..ReacquireS] /\ sinceFresh' \in 0..MaxStall /\ sinceFresh' < MaxStall
  <2>1. \A n \in 0..ReacquireS : CapAt(n + 1, ReacquireS) \in 0..ReacquireS
    BY DEF CapAt
  <2>2. CASE NoReading
    BY <1>1, <2>1, <2>2 DEF NoReading
  <2>3. ASSUME NEW f \in Field, FreshReading(f, usable)
        PROVE  unseen' \in [Field -> 0..ReacquireS] /\ sinceFresh' = 0
    <3>1. sinceFresh' = 0
      BY <2>3 DEF FreshReading
    <3>2. unseen' = [g \in Field |-> IF usable /\ g = f THEN 0 ELSE CapAt(unseen[g] + 1, ReacquireS)]
      BY <2>3 DEF FreshReading
    <3>3. 0 \in 0..ReacquireS
      OBVIOUS
    <3>4. QED
      BY ONLY <1>1, <2>1, <3>1, <3>2, <3>3
  <2>4. QED
    BY <2>2, <2>3 DEF Update
\* It is enough that the window is accounted for.
<1>5. ASSUME lock' \in {"acquiring", "locked", "disturbed"}, reference' \in Field \cup {0},
             haveError' \in BOOLEAN, acq' \in [time : 0..AcquireS, span : SUBSET Field],
             rejected' \in [time : 0..ReacquireS, field : Field \cup {0}],
             rejected'.time < ReacquireS, lock' = "acquiring" => rejected'.time = 0,
             rejected'.time > 0 =>
               /\ rejected'.field \in Field
               /\ \A g \in Field : Distance(g, rejected'.field) > FieldStable =>
                    unseen'[g] + MaxStall >= rejected'.time + sinceFresh'
      PROVE  LockTypeOK' /\ Steady'
  BY <1>4, <1>5 DEF LockTypeOK, Steady
<1>6. CASE NoReading
  <2>1. /\ sinceFresh' = sinceFresh + 1
        /\ \A g \in Field : unseen'[g] = CapAt(unseen[g] + 1, ReacquireS)
        /\ UNCHANGED <<lock, acq, reference, haveError, rejected>>
    BY <1>6 DEF NoReading
  <2>2. \A g \in Field : unseen'[g] = unseen[g] + 1 \/ unseen'[g] = ReacquireS
    BY <1>1, <2>1 DEF CapAt
  <2>3. rejected.time > 0 =>
          \A g \in Field : Distance(g, rejected.field) > FieldStable =>
            unseen'[g] + MaxStall >= rejected.time + sinceFresh'
    BY <1>1, <1>2, <1>4, <2>1, <2>2
  <2>4. LockTypeOK' /\ Steady'
    BY <1>1, <1>2, <1>5, <2>1, <2>3
  <2>5. QED
    BY <2>1, <2>4 DEF OnlySteadyIsReacquired
<1>7. ASSUME NEW f \in Field, FreshReading(f, usable)
      PROVE  LockTypeOK' /\ Steady' /\ OnlySteadyIsReacquired
  <2> DEFINE elapsed == sinceFresh + 1
  <2>0. Distance(f, reference) <= FieldGate \/ Distance(f, reference) > FieldGate
    <3>1. f \in Nat /\ reference \in Nat
      BY <1>1
    <3>2. QED
      BY <3>1, DistanceIs
  <2>1. /\ sinceFresh' = 0
        /\ unseen' = [g \in Field |-> IF usable /\ g = f THEN 0 ELSE CapAt(unseen[g] + 1, ReacquireS)]
        /\ \/ ~usable /\ Skip
           \/ usable /\ lock = "acquiring" /\ Acquire(f, elapsed)
           \/ usable /\ lock # "acquiring" /\ Accept(f)
           \/ usable /\ lock # "acquiring" /\ Reject(f, elapsed)
    <3>1. /\ sinceFresh' = 0
          /\ unseen' = [g \in Field |-> IF usable /\ g = f THEN 0 ELSE CapAt(unseen[g] + 1, ReacquireS)]
      BY <1>7 DEF FreshReading
    <3>2. CASE ~usable
      BY <1>7, <3>1, <3>2 DEF FreshReading
    <3>3. CASE usable /\ lock = "acquiring"
      BY <1>7, <3>1, <3>3 DEF FreshReading
    <3>4. CASE usable /\ lock # "acquiring" /\ Distance(f, reference) <= FieldGate
      BY <1>7, <3>1, <3>4 DEF FreshReading
    <3>5. CASE usable /\ lock # "acquiring" /\ Distance(f, reference) > FieldGate
      BY <1>7, <3>1, <3>5 DEF FreshReading
    <3>6. QED
      BY ONLY <2>0, <3>2, <3>3, <3>4, <3>5, usable \in BOOLEAN
  <2>2. elapsed \in Nat /\ 1 <= elapsed /\ elapsed <= MaxStall
    BY <1>1
  <2> HIDE DEF elapsed
  <2>3. \A g \in Field : (~usable \/ g # f) => unseen'[g] = unseen[g] + 1 \/ unseen'[g] = ReacquireS
    BY <1>1, <2>1 DEF CapAt
  <2>4. CASE ~usable /\ Skip
    <3>1. haveError' = FALSE /\ UNCHANGED <<lock, acq, reference, rejected>>
      BY <2>4 DEF Skip
    <3>2. rejected.time > 0 =>
            \A g \in Field : Distance(g, rejected.field) > FieldStable =>
              unseen'[g] + MaxStall >= rejected.time + sinceFresh'
      BY <1>1, <1>2, <2>1, <2>3, <2>4
    <3>3. LockTypeOK' /\ Steady'
      BY <1>1, <1>2, <1>5, <3>1, <3>2
    <3>4. QED
      BY <3>1, <3>3 DEF OnlySteadyIsReacquired
  <2>5. CASE lock = "acquiring" /\ Acquire(f, elapsed)
    <3>1. rejected'.time = 0 /\ rejected' \in [time : 0..ReacquireS, field : Field \cup {0}]
      BY <1>1, <1>2, <1>3, <2>5 DEF Acquire
    <3>2. lock' \in {"locked", "acquiring"} /\ haveError' = haveError /\ reference' \in Field \cup {0}
      BY <1>1, <2>5, MeanIsAField DEF Acquire
    <3>3. acq' \in [time : 0..AcquireS, span : SUBSET Field]
      <4> DEFINE time == CapAt(acq.time + elapsed, AcquireS)
                 span == acq.span \cup {f}
      <4>1. time \in 0..AcquireS /\ span \subseteq Field
        BY <1>1, <2>2 DEF CapAt
      <4>2. acq' = NoAcquisition \/ acq' = [time |-> time, span |-> span]
        BY <2>5 DEF Acquire
      <4> HIDE DEF time, span
      <4>3. QED
        BY ONLY <1>3, <4>1, <4>2
    <3>4. LockTypeOK' /\ Steady'
      BY <1>1, <1>5, <3>1, <3>2, <3>3
    <3>5. QED
      BY <2>5, <3>4 DEF OnlySteadyIsReacquired
  <2>6. CASE Accept(f)
    <3>1. /\ lock' = "locked" /\ haveError' = TRUE /\ rejected' = NoRejection /\ acq' = acq
          /\ reference' \in Field
      BY <2>6, MeanIsAField DEF Accept
    <3>2. LockTypeOK' /\ Steady'
      BY <1>1, <1>3, <1>5, <3>1
    <3>3. QED
      BY <3>1, <3>2 DEF OnlySteadyIsReacquired
  <2>7. CASE usable /\ lock # "acquiring" /\ Reject(f, elapsed)
    <3> DEFINE window == RejectionWindow(f)
               time == window.time + elapsed
    <3>1. /\ haveError' = FALSE /\ reference' = reference
          /\ \/ /\ time >= ReacquireS /\ lock' = "acquiring" /\ acq' = NoAcquisition /\ rejected' = NoRejection
             \/ /\ ~(time >= ReacquireS) /\ lock' = "disturbed"
                /\ rejected' = [window EXCEPT !.time = time] /\ acq' = acq
      BY <2>7 DEF Reject
    <3>2. /\ window \in [time : 0..ReacquireS, field : Field]
          /\ Distance(f, window.field) <= FieldStable
          /\ \/ window.time = 0
             \/ window = rejected /\ rejected.time > 0
      <4>1. CASE rejected.time = 0 \/ Distance(f, rejected.field) > FieldStable
        <5>1. window = [time |-> 0, field |-> f] /\ 0 \in 0..ReacquireS
          BY <4>1 DEF RejectionWindow
        <5>2. QED
          BY <5>1 DEF Distance
      <4>2. CASE ~(rejected.time = 0 \/ Distance(f, rejected.field) > FieldStable)
        <5>1. window = rejected /\ rejected.time > 0
          BY <1>1, <4>2 DEF RejectionWindow
        <5>2. rejected.field \in Field /\ rejected \in [time : 0..ReacquireS, field : Field]
          BY <1>1, <1>2, <5>1
        <5>3. Distance(f, rejected.field) <= FieldStable
          <6>1. f \in Nat /\ rejected.field \in Nat
            BY <5>2
          <6>2. Distance(f, rejected.field) \in Nat
            BY <6>1, DistanceIs
          <6>3. QED
            BY ONLY <4>2, <6>2, EstimatorConstants
        <5>4. QED
          BY <5>1, <5>2, <5>3
      <4>3. QED
        BY <4>1, <4>2
    <3> HIDE DEF window
    <3>3. /\ window.time \in Nat /\ window.field \in Field /\ time \in Nat /\ time > 0
      BY <2>2, <3>2
    \* Of a reading outside the band there has been none since the window began.
    <3>4. ASSUME NEW g \in Field, Distance(g, window.field) > FieldStable
          PROVE  unseen'[g] + MaxStall >= time \/ unseen'[g] = ReacquireS
      <4>1. g # f
        <5>1. f \in Nat /\ window.field \in Nat
          BY <3>3
        <5>2. Distance(f, window.field) \in Nat
          BY <5>1, DistanceIs
        <5>3. QED
          BY ONLY <3>2, <3>4, <5>2, EstimatorConstants
      <4>2. unseen'[g] \in Nat /\ (unseen'[g] = unseen[g] + 1 \/ unseen'[g] = ReacquireS)
        BY <1>4, <2>3, <4>1
      <4>3. CASE window.time = 0
        BY <2>2, <4>2, <4>3
      <4>4. CASE window = rejected /\ rejected.time > 0
        <5>1. unseen[g] + MaxStall >= rejected.time + sinceFresh
          BY <1>2, <3>4, <4>4
        <5>2. time = rejected.time + sinceFresh + 1
          BY <1>1, <4>4 DEF elapsed
        <5>3. QED
          BY <1>1, <4>2, <5>1, <5>2
      <4>5. QED
        BY <3>2, <4>3, <4>4
    <3> HIDE DEF time
    <3>5. CASE time >= ReacquireS
      <4>1. lock' = "acquiring" /\ acq' = NoAcquisition /\ rejected' = NoRejection
        BY <3>1, <3>5
      <4>2. LockTypeOK' /\ Steady'
        <5>1. /\ haveError' \in BOOLEAN /\ reference' \in Field \cup {0} /\ rejected'.time = 0
              /\ lock' \in {"acquiring", "locked", "disturbed"}
              /\ acq' \in [time : 0..AcquireS, span : SUBSET Field]
              /\ rejected' \in [time : 0..ReacquireS, field : Field \cup {0}]
          BY ONLY <1>1, <1>3, <3>1, <4>1
        <5>2. QED
          BY <1>5, <5>1
      <4>3. ASSUME NEW g \in Field, Distance(g, window.field) > FieldStable
            PROVE  unseen'[g] >= ReacquireS - MaxStall
        <5>1. unseen'[g] \in Nat
          BY <1>4
        <5>2. unseen'[g] + MaxStall >= time \/ unseen'[g] = ReacquireS
          BY <3>4, <4>3
        <5>3. QED
          BY ONLY <3>3, <3>5, <5>1, <5>2, EstimatorConstants
      <4>4. QED
        BY <3>3, <4>2, <4>3 DEF OnlySteadyIsReacquired
    <3>6. CASE ~(time >= ReacquireS)
      <4>1. lock' = "disturbed" /\ rejected' = [window EXCEPT !.time = time] /\ acq' = acq
        BY <3>1, <3>6
      <4>2. /\ rejected' \in [time : 0..ReacquireS, field : Field \cup {0}]
            /\ rejected'.time = time /\ rejected'.field = window.field
        <5>1. time \in 0..ReacquireS
          BY <3>3, <3>6
        <5>2. QED
          BY <3>2, <4>1, <5>1
      <4>3. ASSUME NEW g \in Field, Distance(g, window.field) > FieldStable
            PROVE  unseen'[g] + MaxStall >= time + sinceFresh'
        <5>1. unseen'[g] \in Nat
          BY <1>4
        <5>2. unseen'[g] + MaxStall >= time \/ unseen'[g] = ReacquireS
          BY <3>4, <4>3
        <5>3. QED
          BY ONLY <2>1, <3>3, <3>6, <5>1, <5>2, EstimatorConstants
      <4>4. LockTypeOK' /\ Steady'
        <5>1. /\ haveError' \in BOOLEAN /\ reference' \in Field \cup {0} /\ rejected'.time < ReacquireS
              /\ lock' \in {"acquiring", "locked", "disturbed"} /\ lock' # "acquiring"
              /\ acq' \in [time : 0..AcquireS, span : SUBSET Field]
          <6>1. rejected'.time < ReacquireS
            BY <3>3, <3>6, <4>2
          <6>2. haveError' \in BOOLEAN /\ reference' \in Field \cup {0}
            BY ONLY <1>1, <3>1
          <6>3. QED
            BY ONLY <1>1, <4>1, <6>1, <6>2
        <5>2. /\ rejected'.field \in Field
              /\ \A g \in Field : Distance(g, rejected'.field) > FieldStable =>
                   unseen'[g] + MaxStall >= rejected'.time + sinceFresh'
          BY ONLY <3>3, <4>2, <4>3
        <5>3. QED
          BY <1>5, <4>2, <5>1, <5>2
      <4>5. QED
        BY <4>1, <4>4 DEF OnlySteadyIsReacquired
    <3>7. QED
      BY <3>5, <3>6
  <2>8. QED
    BY <2>1, <2>4, <2>5, <2>6, <2>7
<1>8. QED
  BY <1>6, <1>7 DEF Update

\* What OneWindowGaveTheBias says of a step.
OneWindow ==
  ~biasDone /\ biasDone' =>
    /\ calm'.time >= CalWindow
    /\ \E lo, hi \in calm'.rates :
         Clamp(lo, 0, BiasLimit) <= bias' /\ bias' <= Clamp(hi, 0, BiasLimit)

LEMMA WindowsGrow ==
  ASSUME NEW w \in CalmWindow, NEW rate \in Nat
  PROVE  /\ [time |-> CapAt(w.time + 1, CalWindow), rates |-> w.rates \cup {rate}] \in CalmWindow
         /\ NoCalibration \in CalmWindow /\ w.time \in 0..CalWindow /\ w.rates \subseteq Nat
<1>1. w.time \in 0..CalWindow /\ w.rates \subseteq Nat
  BY DEF CalmWindow
<1>2. CapAt(w.time + 1, CalWindow) \in 0..CalWindow
  BY <1>1, EstimatorConstants DEF CapAt
<1>3. 0 \in 0..CalWindow /\ w.rates \cup {rate} \in SUBSET Nat
  BY <1>1, EstimatorConstants
<1>4. QED
  BY ONLY <1>1, <1>2, <1>3 DEF CalmWindow, NoCalibration

\* A sample of the calibration: the run it adds to is a part of the calm samples,
\* and the window that is full gives a bias between its rates.
LEMMA CalibrateKeeps ==
  ASSUME EstimatorInv, ~biasDone, NEW dev, NEW rate \in Nat, Calibrate(dev, rate),
         calm' = IF biasDone \/ dev # "calm" THEN NoCalibration
                 ELSE [time |-> CapAt(calm.time + 1, CalWindow), rates |-> calm.rates \cup {rate}]
  PROVE  /\ CalibrationOK' /\ EscapeOK' /\ PoseOK' /\ LockTypeOK' /\ Calibrating' /\ Steady'
         /\ OneWindow /\ lock # "disturbed" /\ ~escOpen
<1> USE EstimatorConstants
<1>0. /\ CalibrationOK /\ EscapeOK /\ PoseOK /\ LockTypeOK /\ Steady
      /\ calRun.time <= calm.time /\ calRun.rates \subseteq calm.rates /\ ~escOpen /\ lock = "acquiring"
  BY DEF EstimatorInv, Calibrating
<1> DEFINE run == CalibrationRun(dev, rate)
<1>1. calRun \in CalmWindow /\ calm \in CalmWindow /\ calPhase \in 0..CalTimeout
  BY <1>0 DEF CalibrationOK
<1>2. calm' \in CalmWindow
  BY <1>1, WindowsGrow
<1>3. /\ run \in CalmWindow
      /\ \/ run = NoCalibration
         \/ /\ dev = "calm"
            /\ run = [time |-> CapAt(calRun.time + 1, CalWindow), rates |-> calRun.rates \cup {rate}]
  BY <1>1, WindowsGrow DEF CalibrationRun
<1>4. run.time <= calm'.time /\ run.rates \subseteq calm'.rates
  <2>1. CASE run = NoCalibration
    BY <1>2, <2>1 DEF NoCalibration, CalmWindow
  <2>2. CASE /\ dev = "calm"
             /\ run = [time |-> CapAt(calRun.time + 1, CalWindow), rates |-> calRun.rates \cup {rate}]
    <3>1. calm' = [time |-> CapAt(calm.time + 1, CalWindow), rates |-> calm.rates \cup {rate}]
      BY <2>2
    <3>2. calRun.time \in Nat /\ calm.time \in Nat
      BY <1>1 DEF CalmWindow
    <3>3. CapAt(calRun.time + 1, CalWindow) <= CapAt(calm.time + 1, CalWindow)
      BY <1>0, <3>2 DEF CapAt
    <3>4. run.time = CapAt(calRun.time + 1, CalWindow) /\ run.rates = calRun.rates \cup {rate}
      BY <2>2
    <3>5. calm'.time = CapAt(calm.time + 1, CalWindow) /\ calm'.rates = calm.rates \cup {rate}
      BY <3>1
    <3>6. QED
      BY <1>0, <3>3, <3>4, <3>5
  <2>3. QED
    BY <1>3, <2>1, <2>2
<1>5. \/ run.time = CalWindow /\ FinishCalibration(run)
      \/ /\ calRun' = run /\ calPhase' = IF calPhase + 1 >= CalTimeout THEN 0 ELSE calPhase + 1
         /\ adapt' = "calibrating" /\ UNCHANGED <<biasDone, bias, escVars, poseVars, lockVars>>
  BY DEF Calibrate
<1> HIDE DEF run
<1>6. CASE run.time = CalWindow /\ FinishCalibration(run)
  <2>1. /\ biasDone' = TRUE /\ calRun' = NoCalibration /\ Reset
        /\ initialized' = FALSE /\ haveRef' = FALSE /\ havePrev' = FALSE /\ drift' = 0
        /\ escDwell' = 0 /\ escOpen' = FALSE /\ escArmed' = FALSE /\ retDwell' = 0
        /\ adapt' = "idle" /\ snapshot' = snapshot /\ calPhase' = calPhase
    BY <1>6 DEF FinishCalibration
  <2>2. PICK m \in 0..MotionRate + BiasLimit :
          /\ \E lo, hi \in run.rates : lo <= m /\ m <= hi
          /\ bias' = Clamp(m, 0, BiasLimit)
    BY <1>6 DEF FinishCalibration
  <2>3. m \in Int
    BY <2>2
  <2>4. bias' \in 0..BiasLimit
    BY <2>2, <2>3 DEF Clamp
  <2>5. PICK lo \in run.rates, hi \in run.rates : lo <= m /\ m <= hi
    BY <2>2
  <2>6. lo \in Nat /\ hi \in Nat /\ lo \in calm'.rates /\ hi \in calm'.rates
    BY <1>3, <1>4 DEF CalmWindow
  <2>7. Clamp(lo, 0, BiasLimit) <= bias' /\ bias' <= Clamp(hi, 0, BiasLimit)
    BY <2>2, <2>3, <2>5, <2>6 DEF Clamp
  <2>8. calm'.time >= CalWindow
    <3>1. calm'.time \in Nat
      BY <1>2 DEF CalmWindow
    <3>2. QED
      BY <1>4, <1>6, <3>1
  <2>9. OneWindow
    BY <2>6, <2>7, <2>8 DEF OneWindow
  <2>10. CalibrationOK'
    BY <1>1, <1>2, <2>1, WindowsGrow DEF CalibrationOK
  <2>11. EscapeOK'
    <3>1. 0 \in 0..EscapeDwell /\ 0 \in 0..ReturnDwell
      OBVIOUS
    <3>2. snapshot' \in 0..BiasLimit
      BY <1>0, <2>1 DEF EscapeOK
    <3>3. QED
      BY ONLY <2>1, <2>4, <3>1, <3>2 DEF EscapeOK
  <2>12. PoseOK'
    <3>1. 0 \in -DriftLimit..DriftLimit
      BY ONLY EstimatorConstants
    <3>2. QED
      BY ONLY <2>1, <3>1 DEF PoseOK
  <2>13. LockTypeOK' /\ Steady'
    <3>1. /\ lock' = "acquiring" /\ acq' = NoAcquisition /\ reference' = 0 /\ haveError' = FALSE
          /\ rejected' = NoRejection /\ sinceFresh' = 0 /\ unseen' = unseen
      BY <2>1 DEF Reset
    <3>2. 0 \in 0..AcquireS /\ 0 \in 0..ReacquireS /\ 0 \in 0..MaxStall
      OBVIOUS
    <3>3. LockTypeOK'
      BY ONLY <1>0, <3>1, <3>2 DEF LockTypeOK, NoAcquisition, NoRejection
    <3>4. Steady'
      BY <3>1 DEF Steady, NoRejection
    <3>5. QED
      BY <3>3, <3>4
  <2>14. Calibrating'
    BY <2>1 DEF Calibrating
  <2>15. QED
    BY <1>0, <2>9, <2>10, <2>11, <2>12, <2>13, <2>14
<1>7. CASE /\ calRun' = run /\ calPhase' = IF calPhase + 1 >= CalTimeout THEN 0 ELSE calPhase + 1
           /\ adapt' = "calibrating" /\ UNCHANGED <<biasDone, bias, escVars, poseVars, lockVars>>
  <2>1. /\ UNCHANGED <<biasDone, bias, escDwell, escOpen, escArmed, snapshot, retDwell>>
        /\ UNCHANGED <<initialized, haveRef, havePrev, drift>>
        /\ UNCHANGED <<lock, acq, reference, haveError, rejected, sinceFresh, unseen>>
    BY <1>7 DEF escVars, poseVars, lockVars
  <2>2. calPhase' \in 0..CalTimeout
    BY <1>1, <1>7
  <2>3. CalibrationOK'
    BY <1>0, <1>2, <1>3, <1>7, <2>1, <2>2 DEF CalibrationOK
  <2>4. EscapeOK'
    BY <1>0, <1>7, <2>1 DEF EscapeOK
  <2>5. PoseOK' /\ LockTypeOK' /\ Steady'
    BY <1>0, <2>1 DEF PoseOK, LockTypeOK, Steady
  <2>6. Calibrating'
    BY <1>0, <1>4, <1>7, <2>1 DEF Calibrating
  <2>7. OneWindow
    BY <2>1 DEF OneWindow
  <2>8. QED
    BY <1>0, <2>3, <2>4, <2>5, <2>6, <2>7
<1>8. QED
  BY <1>5, <1>6, <1>7

\* Publishing keeps the drift correction in its clamp.
LEMMA PublishKeeps ==
  ASSUME PoseOK, EscapeOK', NEW rate \in Nat, PublishPose(rate)
  PROVE  PoseOK' /\ fresh' = TRUE
<1> USE EstimatorConstants
<1>1. initialized' = TRUE /\ haveRef' = TRUE /\ havePrev' = TRUE /\ fresh' = TRUE
  BY DEF PublishPose
<1>2. drift' = drift \/ \E d \in Leaked(Absorbed(rate)) : drift' = Clamp(d, -DriftLimit, DriftLimit)
  BY DEF PublishPose
<1>3. Absorbed(rate) \in Int
  <2>1. drift \in Int /\ bias' \in Int /\ rate \in Int
    BY DEF PoseOK, EscapeOK
  <2>2. QED
    BY <2>1 DEF Absorbed
<1>4. \A d \in Leaked(Absorbed(rate)) : d \in Int
  BY <1>3 DEF Leaked
<1>5. \A d \in Int : Clamp(d, -DriftLimit, DriftLimit) \in -DriftLimit..DriftLimit
  BY DEF Clamp
<1>6. drift' \in -DriftLimit..DriftLimit
  BY <1>2, <1>4, <1>5 DEF PoseOK
<1>7. QED
  BY <1>1, <1>6 DEF PoseOK

\* A sample of the tracking: adaptation, pose and lock side by side.
LEMMA TrackKeeps ==
  ASSUME EstimatorInv, biasDone, NEW rate \in Nat, Track(rate), calm' = NoCalibration
  PROVE  /\ CalibrationOK' /\ EscapeOK' /\ PoseOK' /\ LockTypeOK' /\ Calibrating' /\ Steady'
         /\ OneWindow /\ CreepsOrIsUndone /\ OnlySteadyIsReacquired
<1>0. CalibrationOK /\ EscapeOK /\ PoseOK /\ LockTypeOK /\ Steady
  BY DEF EstimatorInv
<1>1. AdaptBias(rate) /\ PublishPose(rate) /\ UNCHANGED <<calRun, calPhase, biasDone>>
  BY DEF Track, calVars
<1>2. EscapeOK' /\ CreepsOrIsUndone
  BY <1>0, <1>1, AdaptKeeps
<1>3. PoseOK'
  BY <1>0, <1>1, <1>2, PublishKeeps
<1>4. LockTypeOK' /\ Steady' /\ OnlySteadyIsReacquired
  <2>1. CASE world.mag
    BY <1>0, <2>1, LockKeeps DEF Track
  <2>2. CASE ~world.mag
    <3>1. UNCHANGED <<lock, acq, reference, haveError, rejected, sinceFresh, unseen>>
      BY <2>2 DEF Track, lockVars
    <3>2. QED
      BY <1>0, <3>1 DEF LockTypeOK, Steady, OnlySteadyIsReacquired
  <2>3. QED
    BY <2>1, <2>2
<1>5. CalibrationOK' /\ Calibrating' /\ OneWindow
  <2>1. NoCalibration \in CalmWindow
    BY EstimatorConstants DEF NoCalibration, CalmWindow
  <2>2. QED
    BY <1>0, <1>1, <2>1 DEF CalibrationOK, Calibrating, OneWindow
<1>6. QED
  BY <1>2, <1>3, <1>4, <1>5

\* Every step keeps the invariant and is as the three properties say.
EstimatorStep == OneWindow /\ CreepsOrIsUndone /\ OnlySteadyIsReacquired

LEMMA EstimatorStepKeeps ==
  ASSUME EstimatorInv, [EstimatorNext]_estimatorVars
  PROVE  EstimatorInv' /\ EstimatorStep
<1> USE EstimatorConstants
<1>0. RestOK /\ CalibrationOK /\ EscapeOK /\ PoseOK /\ LockTypeOK /\ Calibrating /\ Steady
  BY DEF EstimatorInv
<1>1. world \in Worlds /\ world.rates \subseteq Nat
  BY <1>0 DEF RestOK
\* Most steps leave bias, escape and lock alone.
<1>2. ASSUME UNCHANGED <<bias, escDwell, escOpen, escArmed, snapshot, adapt, drift, initialized>>,
             UNCHANGED <<lock, acq, reference, haveError, rejected, sinceFresh, unseen>>,
             UNCHANGED <<calPhase, biasDone>>, retDwell' \in 0..ReturnDwell,
             haveRef' \in BOOLEAN, havePrev' \in BOOLEAN, RestOK',
             \/ calRun' = calRun /\ calm' = calm
             \/ calRun' = NoCalibration /\ calm' = NoCalibration
      PROVE  EstimatorInv' /\ EstimatorStep
  <2>1. NoCalibration \in CalmWindow /\ NoCalibration.time <= NoCalibration.time
    BY DEF NoCalibration, CalmWindow
  <2>2. CalibrationOK' /\ Calibrating'
    BY <1>0, <1>2, <2>1 DEF CalibrationOK, Calibrating
  <2>3. EscapeOK'
    BY <1>0, <1>2 DEF EscapeOK
  <2>4. PoseOK' /\ LockTypeOK' /\ Steady'
    BY <1>0, <1>2 DEF PoseOK, LockTypeOK, Steady
  <2>5. CreepsOrIsUndone
    BY <1>0, <1>2, StaysPut
  <2>6. OneWindow /\ OnlySteadyIsReacquired
    BY <1>2 DEF OneWindow, OnlySteadyIsReacquired
  <2>7. QED
    BY <1>2, <2>2, <2>3, <2>4, <2>5, <2>6 DEF EstimatorInv, EstimatorStep
<1>3. CASE WarmUp
  <2>1. /\ warm + 1 < Warmup /\ warm' = warm + 1 /\ haveTick' = TRUE /\ fresh' = FALSE
        /\ UNCHANGED <<world, lpf, lpfReady, restNow, still, stillTime, holdoff>>
        /\ UNCHANGED <<calRun, calm, calPhase, biasDone, retDwell, haveRef, havePrev>>
        /\ UNCHANGED <<bias, escDwell, escOpen, escArmed, snapshot, adapt, drift, initialized>>
        /\ UNCHANGED <<lock, acq, reference, haveError, rejected, sinceFresh, unseen>>
    BY <1>3 DEF WarmUp, restVars, calVars, escVars, poseVars, lockVars
  <2>2. warm' \in 0..Warmup
    BY <1>0, <2>1 DEF RestOK
  <2>3. RestOK'
    BY <1>0, <2>1, <2>2 DEF RestOK
  <2>4. retDwell' \in 0..ReturnDwell /\ haveRef' \in BOOLEAN /\ havePrev' \in BOOLEAN
    BY <1>0, <2>1 DEF EscapeOK, PoseOK
  <2>5. QED
    BY <1>2, <2>1, <2>3, <2>4
<1>4. ASSUME NEW dev \in world.deviations, NEW rate \in world.rates, AddSample(dev, rate)
      PROVE  EstimatorInv' /\ EstimatorStep
  <2>1. /\ warm' = Warmup /\ UpdateRestDetector(dev, rate) /\ world' = world
        /\ calm' = IF biasDone \/ dev # "calm" THEN NoCalibration
                   ELSE [time |-> CapAt(calm.time + 1, CalWindow), rates |-> calm.rates \cup {rate}]
        /\ biasDone => Track(rate)
        /\ ~biasDone => Calibrate(dev, rate)
    BY <1>4 DEF AddSample
  <2>2. rate \in Nat /\ Warmup \in 0..Warmup
    BY <1>1
  <2>3. CASE biasDone
    <3>1. Track(rate) /\ calm' = NoCalibration
      BY <2>1, <2>3
    <3>2. /\ CalibrationOK' /\ EscapeOK' /\ PoseOK' /\ LockTypeOK' /\ Calibrating' /\ Steady'
          /\ OneWindow /\ CreepsOrIsUndone /\ OnlySteadyIsReacquired
      BY <2>2, <2>3, <3>1, TrackKeeps
    <3>3. haveTick' = TRUE /\ fresh' = TRUE
      BY <3>1 DEF Track, PublishPose
    <3>4. RestOK'
      BY <2>1, <2>2, <3>3, RestKept
    <3>5. QED
      BY <3>2, <3>4 DEF EstimatorInv, EstimatorStep
  <2>4. CASE ~biasDone
    <3>1. Calibrate(dev, rate)
      BY <2>1, <2>4
    <3>2. /\ CalibrationOK' /\ EscapeOK' /\ PoseOK' /\ LockTypeOK' /\ Calibrating' /\ Steady'
          /\ OneWindow /\ lock # "disturbed" /\ ~escOpen
      BY <2>1, <2>2, <2>4, <3>1, CalibrateKeeps
    <3>3. haveTick' \in BOOLEAN /\ fresh' = FALSE
      BY <3>1 DEF Calibrate, FinishCalibration
    <3>4. RestOK'
      BY <2>1, <2>2, <3>3, RestKept
    <3>5. CreepsOrIsUndone /\ OnlySteadyIsReacquired
      BY <3>2 DEF CreepsOrIsUndone, OnlySteadyIsReacquired
    <3>6. QED
      BY <3>2, <3>4, <3>5 DEF EstimatorInv, EstimatorStep
  <2>5. QED
    BY <1>0, <2>3, <2>4
<1>5. CASE LoseSamples
  <2>1. /\ calRun' = NoCalibration /\ lpf' \in world.rates /\ lpfReady' = TRUE /\ restNow' = FALSE
        /\ still' = FALSE /\ stillTime' = 0 /\ holdoff' = MotionHoldoff /\ retDwell' = 0
        /\ havePrev' = FALSE /\ fresh' = FALSE /\ calm' = NoCalibration
        /\ UNCHANGED <<world, haveTick, warm, calPhase, biasDone, haveRef>>
        /\ UNCHANGED <<bias, escDwell, escOpen, escArmed, snapshot, adapt, drift, initialized>>
        /\ UNCHANGED <<lock, acq, reference, haveError, rejected, sinceFresh, unseen>>
    BY <1>5 DEF LoseSamples, lockVars
  <2>2. 0 \in 0..StillHold /\ MotionHoldoff \in 0..MotionHoldoff /\ 0 \in 0..ReturnDwell
    OBVIOUS
  <2>3. RestOK'
    BY ONLY <1>0, <2>1, <2>2 DEF RestOK
  <2>4. retDwell' \in 0..ReturnDwell /\ haveRef' \in BOOLEAN /\ havePrev' \in BOOLEAN
    BY <1>0, <2>1, <2>2 DEF PoseOK
  <2>5. QED
    BY <1>2, <2>1, <2>3, <2>4
<1>6. CASE Recenter
  <2>1. /\ haveRef' = TRUE /\ drift' = 0 /\ havePrev' = FALSE
        /\ UNCHANGED <<world, haveTick, warm, lpf, lpfReady, restNow, still, stillTime, holdoff, fresh>>
        /\ UNCHANGED <<calRun, calm, calPhase, biasDone, retDwell, initialized>>
        /\ UNCHANGED <<bias, escDwell, escOpen, escArmed, snapshot, adapt>>
        /\ UNCHANGED <<lock, acq, reference, haveError, rejected, sinceFresh, unseen>>
    BY <1>6 DEF Recenter, restVars, calVars, escVars, lockVars
  <2>2. 0 \in -DriftLimit..DriftLimit
    BY ONLY EstimatorConstants
  <2>3. PoseOK'
    BY ONLY <1>0, <2>1, <2>2 DEF PoseOK
  <2>4. RestOK' /\ CalibrationOK' /\ Calibrating' /\ EscapeOK'
    BY ONLY <1>0, <2>1 DEF RestOK, CalibrationOK, Calibrating, EscapeOK
  <2>5. LockTypeOK' /\ Steady'
    BY ONLY <1>0, <2>1 DEF LockTypeOK, Steady
  <2>6. CreepsOrIsUndone
    BY <1>0, <2>1, StaysPut
  <2>7. OneWindow /\ OnlySteadyIsReacquired
    BY <2>1 DEF OneWindow, OnlySteadyIsReacquired
  <2>8. QED
    BY <2>3, <2>4, <2>5, <2>6, <2>7 DEF EstimatorInv, EstimatorStep
<1>7. CASE UNCHANGED estimatorVars
  <2>1. /\ UNCHANGED <<world, haveTick, warm, lpf, lpfReady, restNow, still, stillTime, holdoff, fresh>>
        /\ UNCHANGED <<calRun, calm, calPhase, biasDone, retDwell, haveRef, havePrev>>
        /\ UNCHANGED <<bias, escDwell, escOpen, escArmed, snapshot, adapt, drift, initialized>>
        /\ UNCHANGED <<lock, acq, reference, haveError, rejected, sinceFresh, unseen>>
    BY <1>7 DEF estimatorVars, restVars, calVars, escVars, poseVars, lockVars
  <2>2. RestOK'
    BY <1>0, <2>1 DEF RestOK
  <2>3. retDwell' \in 0..ReturnDwell /\ haveRef' \in BOOLEAN /\ havePrev' \in BOOLEAN
    BY <1>0, <2>1 DEF EscapeOK, PoseOK
  <2>4. QED
    BY <1>2, <2>1, <2>2, <2>3
<1>8. QED
  BY <1>3, <1>4, <1>5, <1>6, <1>7 DEF EstimatorNext, Sample

LEMMA EstimatorInvariant == EstimatorSpec => []EstimatorInv
<1>1. EstimatorInv /\ [EstimatorNext]_estimatorVars => EstimatorInv'
  BY EstimatorStepKeeps
<1>2. QED
  BY <1>1, EstimatorInitInv, PTL DEF EstimatorSpec

\* Type correctness of estimator and lock, for any samples, gates and windows.
THEOREM EstimatorTypeCorrect == EstimatorSpec => []EstimatorTypeOK
<1>1. EstimatorInv => EstimatorTypeOK
  BY DEF EstimatorInv, RestOK, CalibrationOK, EscapeOK, PoseOK, CalmWindow, EstimatorTypeOK
<1>2. QED
  BY <1>1, EstimatorInvariant, PTL

\* However movement, gaps and timeouts follow each other, the startup bias lies
\* between the rates of one unbroken window of calm samples (add_sample,
\* finish_calibration).
THEOREM TheBiasIsOfOneWindow == EstimatorSpec => OneWindowGaveTheBias
<1>1. EstimatorInv /\ [EstimatorNext]_estimatorVars =>
        [~biasDone /\ biasDone' =>
          /\ calm'.time >= CalWindow
          /\ \E lo, hi \in calm'.rates :
                Clamp(lo, 0, BiasLimit) <= bias' /\ bias' <= Clamp(hi, 0, BiasLimit)]_estimatorVars
  BY EstimatorStepKeeps DEF EstimatorStep, OneWindow
<1>2. QED
  BY <1>1, EstimatorInvariant, PTL DEF EstimatorSpec, OneWindowGaveTheBias

\* No order of rest, turns and gaps unwinds an armed excursion: the bias creeps at
\* the slow step, or the excursion is over and the bias is in the band of the
\* snapshot it left (add_sample's guarded rollback).
THEOREM AnExcursionDoesNotSlideBack == EstimatorSpec => ExcursionCreepsOrIsUndone
<1>1. EstimatorInv /\ [EstimatorNext]_estimatorVars =>
        [escOpen /\ escArmed =>
          \/ escOpen' /\ escArmed' /\ Distance(bias, bias') <= SlowStep /\ snapshot' = snapshot
          \/ ~escArmed' /\ Distance(bias', snapshot) <= ReturnTol]_estimatorVars
  BY EstimatorStepKeeps DEF EstimatorStep, CreepsOrIsUndone
<1>2. QED
  BY <1>1, EstimatorInvariant, PTL DEF EstimatorSpec, ExcursionCreepsOrIsUndone

\* Whatever fields are read, skipped and missed, the lock gives its reference up
\* only if all readings of the window lay in one band (MagHeadingLock::update).
THEOREM OnlySteadyFieldsAreTaken == EstimatorSpec => ReacquiresOnlySteadyFields
<1>1. EstimatorInv /\ [EstimatorNext]_estimatorVars =>
        [lock = "disturbed" /\ lock' = "acquiring" =>
          \E f \in Field : \A g \in Field :
             Distance(g, f) > FieldStable => unseen'[g] >= ReacquireS - MaxStall]_estimatorVars
  BY EstimatorStepKeeps DEF EstimatorStep, OnlySteadyIsReacquired
<1>2. QED
  BY <1>1, EstimatorInvariant, PTL DEF EstimatorSpec, ReacquiresOnlySteadyFields
================================================================================
