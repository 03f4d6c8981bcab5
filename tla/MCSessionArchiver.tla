------------------------- MODULE MCSessionArchiver -------------------------
(* Instances of SessionArchiver for TLC. *)
EXTENDS SessionArchiver

CONSTANTS h1, h2

MCHelper == {h1, h2}
MCLogNames == <<"engine.log", "imu_raw.csv">>
\* The local clock only moves forward (a clock set back would let prune keep an older archive).
MCStem == [s \in Session |-> s]
=============================================================================
