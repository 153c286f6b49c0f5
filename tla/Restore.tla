------------------------------ MODULE Restore ------------------------------
(***************************************************************************)
(* Applying a staged backup at the start of the server:                    *)
(* ApplyPendingRestore of internal/backup/restore.go, StageRestore of      *)
(* internal/backup/manager.go, and the loop of serve in                    *)
(* cmd/hostpin-server/main.go, with crashes between any two file           *)
(* operations and with failing operations.                                 *)
(*                                                                         *)
(* The site is four paths: the database, its write-ahead log, the master   *)
(* key and the themes.  The content of a path is the number of the attempt *)
(* that put it there, 0 for the site as it was; an attempt that is run     *)
(* again puts new files in place, so it has a number of its own.           *)
(***************************************************************************)
EXTENDS Naturals, Sequences

CONSTANTS
  MaxCrashes,   \* bound: crashes of the process
  MaxFailures,  \* bound: file operations that fail
  MaxStops,     \* bound: regular stops of the server
  MaxStages,    \* bound: backups imported
  None

ASSUME RestoreAssumption ==
  /\ MaxCrashes \in Nat /\ MaxFailures \in Nat
  /\ MaxStops \in Nat /\ MaxStages \in Nat
  /\ None \notin Nat

Slots == {"db", "wal", "key", "themes"}
Parts == {"db", "key", "themes"}   \* what an archive contains

VARIABLES
  cur,      \* content of each path
  saved,    \* the .pre-restore-* files: which path, which content, which attempt
  pending,  \* the staging directory: whole, without its metadata, or damaged
  pc,       \* what the process is doing
  at,       \* the next operation of the plan
  id,       \* number of the last attempt
  moved,    \* paths this attempt has saved, in order
  active,   \* paths this attempt has activated, in order
  reload,   \* an import has asked the running server to reload
  crashes, failures, stops, stages,
  served    \* history: what the server has run with

bounds == <<crashes, failures, stops, stages>>
vars == <<cur, saved, pending, pc, at, id, moved, active, reload, bounds, served>>

Init ==
  /\ cur = [s \in Slots |-> IF s = "wal" THEN None ELSE 0]
  /\ saved = {}
  /\ pending = "none"
  /\ pc = "serving"
  /\ at = 1
  /\ id = 0
  /\ moved = <<>>
  /\ active = <<>>
  /\ reload = FALSE
  /\ crashes = 0 /\ failures = 0 /\ stops = 0 /\ stages = 0
  /\ served = [s \in Parts |-> {0}]

-----------------------------------------------------------------------------
(* The running server.                                                     *)

\* StageRestore: one rename puts the validated directory in place; it refuses
\* while a restore is pending.
Stage ==
  /\ pc = "serving"
  /\ pending = "none"
  /\ stages < MaxStages
  /\ stages' = stages + 1
  /\ pending' = "staged"
  /\ reload' = TRUE
  /\ UNCHANGED <<cur, saved, pc, at, id, moved, active, crashes, failures, stops, served>>

\* The server shuts down and closes its database, to reload or for good.
Reload ==
  /\ pc = "serving"
  /\ reload
  /\ reload' = FALSE
  /\ pc' = "start"
  /\ UNCHANGED <<cur, saved, pending, at, id, moved, active, bounds, served>>

Stop ==
  /\ pc = "serving"
  /\ stops < MaxStops
  /\ stops' = stops + 1
  /\ reload' = FALSE
  /\ pc' = "start"
  /\ UNCHANGED <<cur, saved, pending, at, id, moved, active, crashes, failures, stages, served>>

\* The process dies.  A serving process leaves a write-ahead log behind.
Crash ==
  /\ crashes < MaxCrashes
  /\ crashes' = crashes + 1
  /\ pc' = "start"
  /\ cur' = IF pc = "serving" THEN [cur EXCEPT !["wal"] = cur["db"]] ELSE cur
  /\ at' = 1 /\ moved' = <<>> /\ active' = <<>> /\ reload' = FALSE
  /\ UNCHANGED <<saved, pending, id, failures, stops, stages, served>>

\* serveInstance: a missing key is generated, a missing database and missing
\* themes are created, and the log is merged into its database.
Serve ==
  /\ pc = "serve"
  /\ LET new == [s \in Slots |-> CASE s = "wal" -> None
                                   [] s # "wal" /\ cur[s] = None -> id + 1
                                   [] s # "wal" /\ cur[s] # None -> cur[s]]
     IN  /\ cur' = new
         /\ served' = [s \in Parts |-> served[s] \cup {new[s]}]
  /\ id' = IF \E s \in Parts : cur[s] = None THEN id + 1 ELSE id
  /\ pc' = "serving"
  /\ at' = 1 /\ moved' = <<>> /\ active' = <<>>
  /\ UNCHANGED <<saved, pending, reload, bounds>>

-----------------------------------------------------------------------------
(* ApplyPendingRestore.                                                    *)

\* The operations on files, in the order of the code.  The -shm file has no
\* content of its own and is left out.
Plan == << [op |-> "save", slot |-> "db"], [op |-> "save", slot |-> "wal"],
           [op |-> "activate", slot |-> "db"],
           [op |-> "save", slot |-> "key"], [op |-> "activate", slot |-> "key"],
           [op |-> "save", slot |-> "themes"], [op |-> "activate", slot |-> "themes"] >>

MayFail == failures < MaxFailures /\ failures' = failures + 1

\* Fault: the staging directory is not looked at after a reload.
Validate_Never ==
  /\ pc = "start"
  /\ pc' = "serve"
  /\ UNCHANGED <<cur, saved, pending, at, id, moved, active, reload, bounds, served>>

\* No staging directory: serve.  Missing metadata: an error, and serve.
\* A damaged directory: quarantine.
Validate ==
  /\ pc = "start"
  /\ \/ pending \in {"none", "nameless"} /\ pc' = "serve" /\ UNCHANGED failures
     \/ pending = "damaged" /\ pc' = "quarantine" /\ UNCHANGED failures
     \/ pending = "staged" /\ pc' = "prepare" /\ UNCHANGED failures
     \/ pending = "staged" /\ MayFail /\ pc' = "quarantine"
  /\ UNCHANGED <<cur, saved, pending, at, id, moved, active, reload, crashes, stops, stages, served>>

\* Copies of the three parts are made next to their paths.
Prepare ==
  /\ pc = "prepare"
  /\ id' = id + 1
  /\ \/ pc' = "apply" /\ UNCHANGED failures
     \/ MayFail /\ pc' = "quarantine"
  /\ UNCHANGED <<cur, saved, pending, at, moved, active, reload, crashes, stops, stages, served>>

\* Fault: the new files are put in place over the old ones.
Apply_Overwrites ==
  /\ pc = "apply"
  /\ at <= Len(Plan)
  /\ at' = at + 1
  /\ LET step == Plan[at]
     IN  IF step.op = "activate"
         THEN cur' = [cur EXCEPT ![step.slot] = id] /\ active' = Append(active, step.slot)
         ELSE UNCHANGED <<cur, active>>
  /\ UNCHANGED <<saved, moved, pending, pc, id, reload, bounds, served>>

\* moveExisting and os.Rename, in the order of the plan.
Apply ==
  /\ pc = "apply"
  /\ at <= Len(Plan)
  /\ LET step == Plan[at]
         s    == step.slot
     IN  \/ /\ step.op = "save" /\ cur[s] = None
            /\ at' = at + 1
            /\ UNCHANGED <<cur, saved, moved, active>>
         \/ /\ step.op = "save" /\ cur[s] # None
            /\ saved' = saved \cup {[slot |-> s, gen |-> cur[s], id |-> id]}
            /\ cur' = [cur EXCEPT ![s] = None]
            /\ moved' = Append(moved, s)
            /\ at' = at + 1
            /\ UNCHANGED active
         \/ /\ step.op = "activate"
            /\ cur' = [cur EXCEPT ![s] = id]
            /\ active' = Append(active, s)
            /\ at' = at + 1
            /\ UNCHANGED <<saved, moved>>
  /\ UNCHANGED <<pending, pc, id, reload, bounds, served>>

\* A rename fails.
ApplyFails ==
  /\ pc = "apply"
  /\ at <= Len(Plan)
  /\ MayFail
  /\ pc' = "rollback"
  /\ UNCHANGED <<cur, saved, pending, at, id, moved, active, reload, crashes, stops, stages, served>>

\* Fault: the staging directory goes once the database is in place.
Applied_Early ==
  /\ pc = "apply"
  /\ at > 3
  /\ pc' = "cleanup"
  /\ UNCHANGED <<cur, saved, pending, at, id, moved, active, reload, bounds, served>>

Applied ==
  /\ pc = "apply"
  /\ at > Len(Plan)
  /\ pc' = "cleanup"
  /\ UNCHANGED <<cur, saved, pending, at, id, moved, active, reload, bounds, served>>

\* rollback: the activated paths are removed, the last one first; a path that
\* cannot be removed is passed over.
RemoveActivated ==
  /\ pc = "rollback"
  /\ active # <<>>
  /\ active' = SubSeq(active, 1, Len(active) - 1)
  /\ \/ cur' = [cur EXCEPT ![active[Len(active)]] = None] /\ UNCHANGED failures
     \/ MayFail /\ UNCHANGED cur
  /\ UNCHANGED <<saved, pending, pc, at, id, moved, reload, crashes, stops, stages, served>>

\* rollback: then the saved paths are moved back, the last one first.
MoveBack ==
  /\ pc = "rollback"
  /\ active = <<>>
  /\ moved # <<>>
  /\ LET s == moved[Len(moved)]
         r == CHOOSE x \in saved : x.slot = s /\ x.id = id
     IN  \/ /\ cur' = [cur EXCEPT ![s] = r.gen]
            /\ saved' = saved \ {r}
            /\ UNCHANGED failures
         \/ MayFail /\ UNCHANGED <<cur, saved>>
  /\ moved' = SubSeq(moved, 1, Len(moved) - 1)
  /\ UNCHANGED <<pending, pc, at, id, active, reload, crashes, stops, stages, served>>

RolledBack ==
  /\ pc = "rollback"
  /\ active = <<>> /\ moved = <<>>
  /\ pc' = "quarantine"
  /\ UNCHANGED <<cur, saved, pending, at, id, moved, active, reload, bounds, served>>

\* quarantineRestore renames the staging directory; the server then goes on
\* with what it finds.
Quarantine ==
  /\ pc = "quarantine"
  /\ pc' = "serve"
  /\ \/ pending' = "none" /\ UNCHANGED failures
     \/ MayFail /\ UNCHANGED pending
  /\ UNCHANGED <<cur, saved, at, id, moved, active, reload, crashes, stops, stages, served>>

\* os.RemoveAll of the staging directory, file by file: the metadata or a
\* payload file may go first, and a failure or a crash may leave the rest.
RemovePart ==
  /\ pc = "cleanup"
  /\ pending \in {"staged", "damaged"}
  /\ pending' \in {"damaged", "nameless"}
  /\ pending' # pending
  /\ UNCHANGED <<cur, saved, pc, at, id, moved, active, reload, bounds, served>>

RemovePending ==
  /\ pc = "cleanup"
  /\ pc' = "serve"
  /\ \/ pending' = "none" /\ UNCHANGED failures
     \/ MayFail /\ UNCHANGED pending
  /\ UNCHANGED <<cur, saved, at, id, moved, active, reload, crashes, stops, stages, served>>

-----------------------------------------------------------------------------
Restoring ==
  \/ Validate \/ Prepare \/ Apply \/ ApplyFails \/ Applied
  \/ RemoveActivated \/ MoveBack \/ RolledBack \/ Quarantine \/ RemovePart \/ RemovePending \/ Serve

Next == Stage \/ Reload \/ Stop \/ Crash \/ Restoring

Spec == Init /\ [][Next]_vars

\* A process that is up goes on, and a reload that was asked for happens.
Fairness == WF_vars(Restoring) /\ WF_vars(Reload)

FairSpec == Spec /\ Fairness

-----------------------------------------------------------------------------
Saved == [slot : Slots, gen : Nat, id : Nat]

\* The types of the variables.
TypeOK ==
  /\ cur \in [Slots -> Nat \cup {None}]
  /\ saved \subseteq Saved
  /\ pending \in {"none", "staged", "damaged", "nameless"}
  /\ pc \in {"serving", "start", "prepare", "apply", "rollback", "quarantine", "cleanup", "serve"}
  /\ at \in 1..8
  /\ id \in Nat
  /\ moved \in Seq(Slots)
  /\ active \in Seq(Parts)
  /\ reload \in BOOLEAN
  /\ crashes \in Nat /\ failures \in Nat /\ stops \in Nat /\ stages \in Nat
  /\ served \in [Parts -> SUBSET Nat]

Kept(s, g) == cur[s] = g \/ \E r \in saved : r.slot = s /\ r.gen = g

\* A database, key or themes directory the server has run with is never
\* deleted or overwritten: it is at its path or under a .pre-restore-* name,
\* however many operations fail and wherever the process dies.
NothingLost == \A s \in Parts : \A g \in served[s] : Kept(s, g)

\* cmd/hostpin-server/main.go: a failed restore leaves the server "continuing
\* with current data", so a server runs with a database, a key and themes
\* that belong together.
SiteConsistent == pc = "serving" => cur["db"] = cur["key"] /\ cur["db"] = cur["themes"]

\* Crashes alone, at any point and any number of times, never mix two sites:
\* the next start does the restore again.  One failed operation alone never
\* does either: rollback undoes the attempt.
OneTroubleIsHarmless == failures = 0 \/ (crashes = 0 /\ failures = 1) => SiteConsistent

\* A database is never opened beside the write-ahead log of another one, as
\* long as no operation fails (the log is moved away with its database).
NoForeignLog ==
  failures = 0 /\ pc = "serve" /\ cur["wal"] # None => cur["wal"] = cur["db"]

\* No data is lost or opened beside a foreign log, wherever a restore is interrupted.
DataKept == TypeOK /\ NothingLost /\ NoForeignLog

\* A staged backup is what the server runs with in the end, when nothing but
\* crashes gets in its way.
RestoreArrives ==
  pending = "staged" ~>
    \/ failures > 0
    \/ pc = "serving" /\ pending # "staged" /\ \A s \in Parts : cur[s] = id
=============================================================================
