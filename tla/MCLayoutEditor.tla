---------------------------- MODULE MCLayoutEditor ----------------------------
(* Layouts of up to three screens, angles 0..2, rates 1..2, two preset names. *)
EXTENDS LayoutEditor

MCScreens(n) == [i \in 1 .. n |-> [id |-> i, vdd |-> i, at |-> 0]]
MCLayout(n) == [screens |-> MCScreens(n), idle |-> 1, mid |-> 1, active |-> 2, enter |-> 2, leave |-> 1]
MCHome == [MCLayout(2) EXCEPT !.mid = 2]
MCFactory == <<MCLayout(2), MCLayout(1)>>
MCSaved == [n \in Names |-> IF n = 1 THEN MCLayout(1) ELSE Absent]
================================================================================
