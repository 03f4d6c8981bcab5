--------------------------- MODULE MCEngineFrames ---------------------------
(* One screen, active at every frame and idle at every third.              *)
EXTENDS EngineFrames

MCInterval == [active |-> 1, mid |-> 2, idle |-> 3]
===============================================================================
