---------------------------- MODULE BackupPanel ----------------------------
(***************************************************************************)
(* The Backups section.  An accepted import makes the server replace its   *)
(* data and restart; the page waits, polls /readyz a bounded number of     *)
(* times and then goes to the login page, or gives up.  Export and import  *)
(* share one busy flag.  The server is external (module Restore models     *)
(* it): here it serves, has accepted a restore, is down, or serves again.  *)
(***************************************************************************)
EXTENDS Naturals

CONSTANTS MaxPolls, MaxImports

ASSUME BackupAssumption == MaxPolls \in Nat \ {0} /\ MaxImports \in Nat

VARIABLES
    backupBusy,     \* busy: "", "export" or "import"
    filled,         \* the forms whose fields are filled in
    call,           \* what the page awaits: "none", "export", "import", "accepted", "refused"
    restarting,     \* restarting: the import was accepted and the page waits for the reload
    polls,          \* attempt
    place,          \* "console", or "login" once the page has been left
    hostpin,        \* the server: "serving", "accepted", "down"
    imports,        \* imports sent, bounded by MaxImports
    unseen          \* history variable: the page lost the answer, or gave up, on a restore

backupVars == <<backupBusy, filled, call, restarting, polls, place, hostpin, imports, unseen>>

BackupTypeOK ==
    /\ backupBusy \in {"", "export", "import"} /\ filled \subseteq {"export", "import"}
    /\ call \in {"none", "export", "import", "accepted", "refused"} /\ restarting \in BOOLEAN
    /\ polls \in 0..MaxPolls /\ place \in {"console", "login"}
    /\ hostpin \in {"serving", "accepted", "down"} /\ imports \in 0..MaxImports /\ unseen \in BOOLEAN

BackupInit ==
    /\ backupBusy = "" /\ filled = {} /\ call = "none" /\ restarting = FALSE /\ polls = 0
    /\ place = "console" /\ hostpin = "serving" /\ imports = 0 /\ unseen = FALSE

----------------------------------------------------------------------------
\* canExport and canImport: the fields are valid and nothing is under way.
CanExport == "export" \in filled /\ backupBusy = ""
CanImport == "import" \in filled /\ backupBusy = ""

Fill(form) ==
    /\ place = "console" /\ form \notin filled /\ filled' = filled \cup {form}
    /\ UNCHANGED <<backupBusy, call, restarting, polls, place, hostpin, imports, unseen>>

ExportBackup ==
    /\ place = "console" /\ CanExport
    /\ backupBusy' = "export" /\ call' = "export"
    /\ UNCHANGED <<filled, restarting, polls, place, hostpin, imports, unseen>>

\* The download is saved and the fields are cleared, or an error is shown.
EndExport(ok) ==
    /\ call = "export" /\ (ok => hostpin # "down")
    /\ filled' = IF ok THEN filled \ {"export"} ELSE filled
    /\ backupBusy' = "" /\ call' = "none"
    /\ UNCHANGED <<restarting, polls, place, hostpin, imports, unseen>>

ImportBackup ==
    /\ place = "console" /\ CanImport /\ imports < MaxImports
    /\ backupBusy' = "import" /\ call' = "import" /\ imports' = imports + 1
    /\ UNCHANGED <<filled, restarting, polls, place, hostpin, unseen>>

\* The server validates and stages the file (and restarts a quarter of a second later), or
\* refuses it; one staged restore excludes another.
ServeImport(ok) ==
    /\ call = "import" /\ (ok => hostpin = "serving")
    /\ call' = IF ok THEN "accepted" ELSE "refused"
    /\ hostpin' = IF ok THEN "accepted" ELSE hostpin
    /\ UNCHANGED <<backupBusy, filled, restarting, polls, place, imports, unseen>>

\* Fault: the reload is not awaited, so finally{} ends busy at once.
AnswerImportAtOnce ==
    /\ call = "accepted"
    /\ restarting' = TRUE /\ filled' = filled \ {"import"} /\ polls' = 0
    /\ backupBusy' = "" /\ call' = "none"
    /\ UNCHANGED <<place, hostpin, imports, unseen>>

\* importBackup after a 202: the fields are cleared and the reload awaited.
AnswerImport ==
    /\ call = "accepted"
    /\ restarting' = TRUE /\ filled' = filled \ {"import"} /\ polls' = 0
    /\ call' = "none"
    /\ UNCHANGED <<backupBusy, place, hostpin, imports, unseen>>

\* The import is refused, or its answer is lost: an error, and the form is usable again.
FailImport ==
    /\ call \in {"accepted", "refused"}
    /\ unseen' = (unseen \/ call = "accepted")
    /\ backupBusy' = "" /\ call' = "none" /\ restarting' = FALSE
    /\ UNCHANGED <<filled, polls, place, hostpin, imports>>

\* Fault: the number of attempts is not bounded.
PollReadyForever ==
    /\ restarting /\ place = "console"
    /\ place' = IF hostpin # "down" THEN "login" ELSE place
    /\ UNCHANGED <<backupBusy, filled, call, restarting, polls, hostpin, imports, unseen>>

\* waitForReload: /readyz answers and the page goes to /login?restored=1; or it is refused,
\* and the last refusal ends the wait with an error.
PollReady ==
    /\ restarting /\ place = "console"
    /\ IF hostpin # "down"
          THEN place' = "login" /\ UNCHANGED <<backupBusy, restarting, polls, unseen>>
          ELSE /\ polls' = polls + 1
               /\ restarting' = (polls' < MaxPolls)
               /\ backupBusy' = IF restarting' THEN backupBusy ELSE ""
               /\ unseen' = (unseen \/ ~restarting')
               /\ UNCHANGED place
    /\ UNCHANGED <<filled, call, hostpin, imports>>

GoDown == hostpin = "accepted" /\ hostpin' = "down"
          /\ UNCHANGED <<backupBusy, filled, call, restarting, polls, place, imports, unseen>>
ComeBack == hostpin = "down" /\ hostpin' = "serving"
          /\ UNCHANGED <<backupBusy, filled, call, restarting, polls, place, imports, unseen>>

ImportServed == \E ok \in BOOLEAN : ServeImport(ok)

BackupNext ==
    \/ \E form \in {"export", "import"} : Fill(form)
    \/ ExportBackup \/ ImportBackup \/ AnswerImport \/ FailImport \/ PollReady \/ GoDown \/ ComeBack
    \/ (\E ok \in BOOLEAN : EndExport(ok)) \/ ImportServed

BackupSpec == BackupInit /\ [][BackupNext]_backupVars

----------------------------------------------------------------------------
\* While the server replaces its data nothing can be exported or imported on the page that
\* started it, unless that page lost the answer or gave up waiting.
RestartKeepsBusy ==
    /\ BackupTypeOK
    /\ hostpin # "serving" /\ place = "console" /\ ~unseen => ~CanExport /\ ~CanImport
=============================================================================
