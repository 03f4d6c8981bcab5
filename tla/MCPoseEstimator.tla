---------------------------- MODULE MCPoseEstimator ----------------------------
(* Instances of PoseEstimator for TLC: the bias without a usable magnetometer, and
   the heading lock with a wearer whose bias no longer changes.                     *)
EXTENDS PoseEstimator

\* No valid calibration of the magnetometer: the gyro alone, rates on both sides of
\* every gate.
Biased == [mag |-> FALSE, absorb |-> FALSE, rates |-> {0, 1, 3, 6},
           deviations |-> {"calm", "between", "motion"}]

\* Drift absorption opted in.
Absorbing == [mag |-> FALSE, absorb |-> TRUE, rates |-> {0, 2}, deviations |-> Deviation]

\* The heading lock over every sequence of fields.
Locking == [mag |-> TRUE, absorb |-> FALSE, rates |-> {1}, deviations |-> {"calm"}]

MCWorlds == {Biased, Absorbing, Locking}
\* 0 and 1 are taken for one field, 3 and 5 for others: what is rejected may stay or vary.
MCField == {0, 1, 3, 5}
===============================================================================
