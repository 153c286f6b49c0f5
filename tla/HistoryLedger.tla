--------------------------- MODULE HistoryLedger ---------------------------
(***************************************************************************)
(* What the history queue promises to the rest of the server: every row it *)
(* is handed stays pending until it is saved or given up, never both, and  *)
(* the dropped counter shown by /healthz moves exactly when a row is given *)
(* up.                                                                     *)
(***************************************************************************)
EXTENDS Naturals

CONSTANT Item

VARIABLES
  entry,   \* the state of each row
  count    \* the number shown by /healthz

ledgerVars == <<entry, count>>

LedgerInit ==
  /\ entry = [i \in Item |-> "new"]
  /\ count = 0

\* A producer hands row i over.
Take(i) ==
  /\ entry[i] = "new"
  /\ entry' = [entry EXCEPT ![i] = "pending"]
  /\ UNCHANGED count

\* The database has row i.
Save(i) ==
  /\ entry[i] = "pending"
  /\ entry' = [entry EXCEPT ![i] = "saved"]
  /\ UNCHANGED count

\* Row i is given up and counted in the same step.
Drop(i) ==
  /\ entry[i] = "pending"
  /\ entry' = [entry EXCEPT ![i] = "dropped"]
  /\ count' = count + 1

LedgerNext == \E i \in Item : Take(i) \/ Save(i) \/ Drop(i)

LedgerSpec == LedgerInit /\ [][LedgerNext]_ledgerVars
=============================================================================
