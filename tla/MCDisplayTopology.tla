------------------------- MODULE MCDisplayTopology -------------------------
(* Instances of DisplayTopology for TLC. *)
EXTENDS DisplayTopology, TLC

CONSTANTS laptop, glasses, tv, v1, v2

\* A laptop with the glasses, and a computer without a panel.
MCHomes == {laptop :> 0 @@ glasses :> 1, tv :> 0 @@ glasses :> -1}

\* The lid is open but the television is the primary display.
MCSecondHomes == {tv :> 0 @@ laptop :> 1 @@ glasses :> 2}

MCPos == -1 .. 3

MCPlans == {v1 :> 0 @@ v2 :> 1, v1 :> -1 @@ v2 :> 0}
=============================================================================
