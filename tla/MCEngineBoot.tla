----------------------------- MODULE MCEngineBoot -----------------------------
(* One pair of glasses, one television, a laptop panel and one virtual       *)
(* display: every way the first two may be plugged in, with the panel open   *)
(* or the machine a desktop one.                                            *)
EXTENDS EngineBoot, TLC

CONSTANTS glasses, tv, panel, vdd, e1, e2, app

MCOptions == {[workspace |-> TRUE, given |-> FALSE], [workspace |-> FALSE, given |-> FALSE],
              [workspace |-> TRUE, given |-> TRUE]}
EngineSymmetry == Permutations(Engines)

MCWorlds ==
  {w \in [{glasses, tv, panel, vdd} -> Link] :
     /\ w[vdd] = "unplugged" /\ w[glasses] # "unplugged" /\ w[tv] # "detached"
     /\ w[panel] \in {"attached", "unplugged"}
     /\ \E d \in {panel, tv} : w[d] = "attached"}
===============================================================================
