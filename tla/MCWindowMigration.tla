--------------------------- MODULE MCWindowMigration ---------------------------
(* Two windows, two sessions: the second meets what the first left behind.   *)
EXTENDS WindowMigration, TLC

CONSTANTS w1, w2

WindowSymmetry == Permutations(Windows)
================================================================================
