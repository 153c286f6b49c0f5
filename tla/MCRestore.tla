----------------------------- MODULE MCRestore -----------------------------
(* Small instances of Restore: the bounds are given in the configurations. *)
EXTENDS Restore
=============================================================================
