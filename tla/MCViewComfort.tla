--------------------------- MODULE MCViewComfort ---------------------------
(* An instance of ViewComfort for TLC. *)
EXTENDS ViewComfort

\* The groups are handled apart from each other: a user of one at a time.
MCAreas == {{"stabilise"}, {"dim"}, {"tint"}}
=============================================================================
