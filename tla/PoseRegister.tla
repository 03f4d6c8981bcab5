----------------------------- MODULE PoseRegister -----------------------------
(***************************************************************************)
(* What ImuSource promises its readers (imu/imu_source.h): the head pose   *)
(* is a register that is written and read in one piece.  A pose is the     *)
(* assignment of a value to every component of the quaternion; poses are   *)
(* numbered in publication order and every component of pose n carries n.  *)
(***************************************************************************)
EXTENDS Naturals

CONSTANTS Reader, Comp

VARIABLES
  reg,   \* number of the pose that orientation() returns now
  out    \* what each reader's latest call returned

Pose(n) == [c \in Comp |-> n]

Init ==
  /\ reg = 0
  /\ out = [r \in Reader |-> Pose(0)]

Publish ==
  /\ reg' = reg + 1
  /\ UNCHANGED out

Read(r) ==
  /\ out' = [out EXCEPT ![r] = Pose(reg)]
  /\ UNCHANGED reg

Next == Publish \/ \E r \in Reader : Read(r)

Spec == Init /\ [][Next]_<<reg, out>>
===============================================================================
