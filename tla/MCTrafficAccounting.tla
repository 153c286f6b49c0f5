------------------------ MODULE MCTrafficAccounting ------------------------
(* Small instances of TrafficAccounting: one agent, one administrator.     *)
EXTENDS TrafficAccounting

OneHandler == {"h1"}
OneAdmin == {"a1"}
Credit == {-2}
=============================================================================
