---------------------------- MODULE MCPersister ----------------------------
(* The history queue with two producers and more rows than it can hold.    *)
EXTENDS Persister, TLC

CONSTANTS i1, i2, bad, p1, p2

FewRows      == {i1, i2, bad}
BadRow       == {bad}
TwoProducers == {p1, p2}
=============================================================================
