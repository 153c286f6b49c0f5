---------------------------- MODULE AdminConsole ----------------------------
(***************************************************************************)
(* The admin console in one browser: signing in and out, and the sections. *)
(* A section's component keeps its own state and is unmounted when another *)
(* one is chosen, so a behaviour is one of the part it is about and the    *)
(* other parts rest in their initial state.                                *)
(***************************************************************************)
EXTENDS ConsoleSession, NodeEditor, TrafficUnits, PinPanel, SettingsForm, AdminLists, BackupPanel,
        ThemeForm

VARIABLE part       \* the part of the console the behaviour is about

consoleVars == <<part, sessionVars, editorVars, unitVars, pinVars, settingsVars, listVars, backupVars,
                 themeVars>>

Parts == {"session", "editor", "units", "pin", "settings", "lists", "backup", "theme"}

ConsoleInit ==
    /\ part \in Parts
    /\ SessionInit /\ (part # "session" => setUp /\ live /\ to = "admin")
    /\ EditorInit /\ (part # "editor" => drawer = "nodes")
    /\ UnitsInit /\ (part # "units" => applied = [w \in Ways |-> CHOOSE t \in Totals : TRUE])
    /\ PinInit /\ (part # "pin" => latestPIN.id = 0)
    /\ SettingsInit /\ (part # "settings" => ~pinWeak)
    /\ ListsInit /\ (part # "lists" => section = "nodes" /\ stored = [i \in Items |-> 0])
    /\ BackupInit
    /\ ThemeInit /\ (part # "theme" => ThemesPlain)

\* A behaviour of a form or a list is followed up to the overlap, the lost answer or the
\* overtaken one that its property excepts: nothing is claimed of it afterwards.
ConsoleNext ==
    \/ /\ part = "session" /\ SessionNext
       /\ UNCHANGED <<part, editorVars, unitVars, pinVars, settingsVars, listVars, backupVars, themeVars>>
    \/ /\ part = "editor" /\ EditorNext
       /\ UNCHANGED <<part, sessionVars, unitVars, pinVars, settingsVars, listVars, backupVars, themeVars>>
    \/ /\ part = "units" /\ UnitsNext
       /\ UNCHANGED <<part, sessionVars, editorVars, pinVars, settingsVars, listVars, backupVars, themeVars>>
    \/ /\ part = "pin" /\ PinNext
       /\ UNCHANGED <<part, sessionVars, editorVars, unitVars, settingsVars, listVars, backupVars, themeVars>>
    \/ /\ part = "settings" /\ ~entangled /\ SettingsNext
       /\ UNCHANGED <<part, sessionVars, editorVars, unitVars, pinVars, listVars, backupVars, themeVars>>
    \/ /\ part = "lists" /\ ~disordered /\ ~lost /\ ListsNext
       /\ UNCHANGED <<part, sessionVars, editorVars, unitVars, pinVars, settingsVars, backupVars, themeVars>>
    \/ /\ part = "backup" /\ BackupNext
       /\ UNCHANGED <<part, sessionVars, editorVars, unitVars, pinVars, settingsVars, listVars, themeVars>>
    \/ /\ part = "theme" /\ ~unheard /\ ThemeNext
       /\ UNCHANGED <<part, sessionVars, editorVars, unitVars, pinVars, settingsVars, listVars,
                      backupVars>>

\* The router goes on once the refresh its guard awaits has ended; the polling timers fire,
\* requests end, and not every poll of the PIN is lost.  Nobody has to act, and nothing is
\* assumed of the server's return from a restore.
ConsoleFairness ==
    /\ WF_sessionVars(part = "session" /\ Decide)
    /\ WF_sessionVars(part = "session" /\ GuardRefreshEnds)
    /\ \A r \in 1..MaxReads : /\ WF_pinVars(part = "pin" /\ PollPIN(r))
                              /\ SF_pinVars(part = "pin" /\ EndRead(r))
    /\ WF_pinVars(part = "pin" /\ (EndChange \/ FailChange))
    /\ WF_backupVars(part = "backup" /\ ImportServed)
    /\ WF_backupVars(part = "backup" /\ (AnswerImport \/ FailImport))
    /\ WF_backupVars(part = "backup" /\ PollReady)

ConsoleSpec == ConsoleInit /\ [][ConsoleNext]_consoleVars /\ ConsoleFairness

----------------------------------------------------------------------------
\* Every navigation ends at a view: the guard's redirects never send each other round,
\* whatever refreshes change in the store between two of its decisions, and a refresh
\* that fails does not hold a navigation for ever.
NavigationSettles == part = "session" /\ to # "none" ~> to = "none"

\* Whatever order the answers come in, an open panel ends up showing the server's PIN in the
\* state it is in.
PinConverges ==
    <>[](/\ temporaryPIN.id = latestPIN.id
         /\ EffectiveTemporaryStatus = StatusOf(latestPIN).status)

\* An import ends: on the login page, or with a usable form, whether or not the server
\* comes back.
ImportSettles == backupBusy = "import" ~> (place = "login" \/ backupBusy = "")
=============================================================================
