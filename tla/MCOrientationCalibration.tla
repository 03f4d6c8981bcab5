---------------------- MODULE MCOrientationCalibration ----------------------
(* Rates below the off rate, between the two and above the on rate; a rest   *)
(* of two samples ends a motion and, at a rate above zero, adds to it.      *)
EXTENDS OrientationCalibration
===============================================================================
