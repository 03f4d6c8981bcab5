--------------------------- MODULE MCLayoutReload ---------------------------
(* The instances of LayoutReload that TLC checks.                           *)
EXTENDS LayoutReload

\* One screen; three of them, listed in two orders whose plans differ.
MCLayouts == {<<0>>, <<-45, 0, 45>>, <<45, -45, 0>>}
===============================================================================
