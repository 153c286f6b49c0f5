----------------------------- MODULE MCLiveView -----------------------------
(***************************************************************************)
(* Instances of LiveView for TLC.                                          *)
(***************************************************************************)
EXTENDS LiveView

CONSTANTS a, b
TwoNodes == {a, b}
\* One node that reports twice and one that gets in its way.
TwoAndOne == [n \in TwoNodes |-> IF n = a THEN 2 ELSE 1]
=============================================================================
