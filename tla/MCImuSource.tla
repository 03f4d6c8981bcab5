------------------------------ MODULE MCImuSource ------------------------------
(* Instances of ImuSource for TLC. *)
EXTENDS ImuSource

CONSTANTS r1

\* Readers share nothing with each other: one stands for each of them.
MCReader == {r1}
MCComp == {"w", "x"}
===============================================================================
