----------------------------- MODULE Enrollment -----------------------------
(***************************************************************************)
(* Enrolling a machine: the installer (internal/installer/install.go,      *)
(* internal/agentconfig/config.go), its HTTP request, the handler          *)
(* handleEnrollment of internal/httpapi/agent.go, the transaction          *)
(* EnrollNode of internal/store/sqlstore/nodes.go, and the PINs that an    *)
(* administrator creates, revokes and rotates.                             *)
(*                                                                         *)
(* The installer may die at any point and be run again, requests may be    *)
(* answered late or never, and a handler may outlive the client that gave  *)
(* up on it.  An identity stands for the install id and the token, which   *)
(* are generated, saved and sent together.                                 *)
(***************************************************************************)
EXTENDS Naturals, Sequences, FiniteSetsExt

CONSTANTS
  Machines,      \* machines on which the installer is run
  Slots,         \* handlers of the server that may run at the same time
  SitePins,      \* values of the permanent enrollment PIN
  MaxPins,       \* bound: temporary PINs
  MaxEvents,     \* bound: failures, acts of the administrator and needless runs
  None

Temps == 1..MaxPins
Pins == SitePins \cup Temps
Idents == Machines \X (1..(MaxEvents + 1))    \* the identities a machine may draw
Configs == [ident: Idents, node: Nat]          \* config files
Attempts == 2    \* requests of one run of the installer

ASSUME EnrollmentAssumption ==
  /\ MaxPins \in Nat /\ MaxEvents \in Nat
  /\ SitePins # {} /\ SitePins \cap Nat = {}
  /\ None \notin SitePins \cup Nat \cup Machines \cup {"refused", "failed", "enrolled"}
  /\ None \notin Idents /\ None \notin Configs

VARIABLES
  site,       \* the permanent PIN
  temps,      \* the temporary PINs: revoked, expired, identity that claimed it
  issued,     \* number of temporary PINs issued
  made,       \* the identities for which nodes were made, oldest first
  nodes,      \* the nodes that still exist, by their place in made
  disk,       \* of each machine: config file and pending identity file
  inst,       \* of each machine: the running installer
  gen,        \* of each machine: number of identities it has generated
  slot,       \* the handlers
  revoking,   \* the temporary PIN a revocation has read, or None
  events,     \* events so far, of the kinds that MaxEvents bounds
  admitted    \* history: identities for which each temporary PIN made a node

admin == <<site, temps, issued, revoking>>
table == <<made, nodes, admitted>>
client == <<disk, inst, gen>>
vars == <<admin, table, client, slot, events>>

Idle == [step |-> "idle", ident |-> None, pin |-> None, try |-> 0, node |-> None]
Free == [step |-> "free", m |-> None, ident |-> None, pin |-> None,
         dead |-> {}, temp |-> None, answer |-> None, node |-> None]

Init ==
  /\ site \in SitePins
  /\ temps = [k \in Temps |-> [revoked |-> FALSE, expired |-> FALSE, claim |-> None]]
  /\ issued = 0
  /\ made = <<>>
  /\ nodes = {}
  /\ disk = [m \in Machines |-> [config |-> None, pending |-> None]]
  /\ inst = [m \in Machines |-> Idle]
  /\ gen = [m \in Machines |-> 0]
  /\ slot = [h \in Slots |-> Free]
  /\ revoking = None
  /\ events = 0
  /\ admitted = [k \in Temps |-> {}]

\* One more of the events that the bound allows.
Event ==
  /\ events < MaxEvents
  /\ events' = events + 1

-----------------------------------------------------------------------------
(* The installer.                                                          *)

\* Run, up to the request: the identity of the config file, else of the
\* pending file, else a new one.
Begin(m, pin) ==
  /\ inst[m].step = "idle"
  /\ IF disk[m].config = None THEN UNCHANGED events ELSE Event
  /\ LET known == IF disk[m].config # None THEN disk[m].config.ident ELSE disk[m].pending
     IN  /\ gen' = [gen EXCEPT ![m] = IF known = None THEN @ + 1 ELSE @]
         /\ inst' = [inst EXCEPT ![m] = [Idle EXCEPT !.pin = pin,
              !.step = IF disk[m].config = None THEN "remember" ELSE "send",
              !.ident = IF known = None THEN <<m, gen[m] + 1>> ELSE known]]
  /\ UNCHANGED <<admin, table, disk, slot>>

\* Fault: the identity is not written down before it is sent.
SavePending_Skipped(m) ==
  /\ inst[m].step = "remember"
  /\ inst' = [inst EXCEPT ![m].step = "send"]
  /\ UNCHANGED <<admin, table, disk, gen, slot, events>>

\* SavePending: a temporary file and a rename.
SavePending(m) ==
  /\ inst[m].step = "remember"
  /\ disk' = [disk EXCEPT ![m].pending = inst[m].ident]
  /\ inst' = [inst EXCEPT ![m].step = "send"]
  /\ UNCHANGED <<admin, table, gen, slot, events>>

\* enrollWithRetry: one request, handled whenever a handler picks it up.
Send(m, h) ==
  /\ inst[m].step = "send"
  /\ slot[h].step = "free"
  /\ inst' = [inst EXCEPT ![m].step = "wait", ![m].try = @ + 1]
  /\ slot' = [slot EXCEPT ![h] = [Free EXCEPT !.step = "arrived", !.m = m,
                                              !.ident = inst[m].ident, !.pin = inst[m].pin]]
  /\ UNCHANGED <<admin, table, disk, gen, events>>

\* What the installer does after a failed attempt.
Retried(m) == IF inst[m].try < Attempts THEN [inst[m] EXCEPT !.step = "send"] ELSE Idle

\* The client of machine m is gone: its handler goes on for nobody.
Abandon(m) ==
  slot' = [h \in Slots |->
    CASE slot[h].m # m -> slot[h]
      [] slot[h].m = m /\ slot[h].step = "answer" -> Free
      [] slot[h].m = m /\ slot[h].step # "answer" -> [slot[h] EXCEPT !.m = None]]

\* The answer arrives: shouldRetryEnrollment tells a refusal from a failure.
Receive(m, h) ==
  /\ inst[m].step = "wait"
  /\ slot[h].step = "answer"
  /\ slot[h].m = m
  /\ inst' = [inst EXCEPT ![m] =
       CASE slot[h].answer = "refused" -> Idle
         [] slot[h].answer = "failed" -> Retried(m)
         [] slot[h].answer = "enrolled" -> [@ EXCEPT !.step = "save", !.node = slot[h].node]]
  /\ slot' = [slot EXCEPT ![h] = Free]
  /\ UNCHANGED <<admin, table, disk, gen, events>>

\* The client times out or loses its connection; the handler goes on, and
\* its answer reaches nobody.
GiveUp(m) ==
  /\ inst[m].step = "wait"
  /\ Event
  /\ inst' = [inst EXCEPT ![m] = Retried(m)]
  /\ Abandon(m)
  /\ UNCHANGED <<admin, table, disk, gen>>

\* agentconfig.Save: a temporary file and a rename.
SaveConfig(m) ==
  /\ inst[m].step = "save"
  /\ disk' = [disk EXCEPT ![m].config = [ident |-> inst[m].ident, node |-> inst[m].node]]
  /\ inst' = [inst EXCEPT ![m].step = "clean"]
  /\ UNCHANGED <<admin, table, gen, slot, events>>

RemovePending(m) ==
  /\ inst[m].step = "clean"
  /\ disk' = [disk EXCEPT ![m].pending = None]
  /\ inst' = [inst EXCEPT ![m] = Idle]
  /\ UNCHANGED <<admin, table, gen, slot, events>>

\* The installer is killed, or one of its file operations fails.
Die(m) ==
  /\ inst[m].step # "idle"
  /\ Event
  /\ inst' = [inst EXCEPT ![m] = Idle]
  /\ Abandon(m)
  /\ UNCHANGED <<admin, table, disk, gen>>

-----------------------------------------------------------------------------
(* The handler.                                                            *)

\* The answer waits for the client; without a client it goes nowhere.
Answer(h, answer, node) ==
  slot' = [slot EXCEPT ![h] =
    IF @.m = None THEN Free
    ELSE [Free EXCEPT !.step = "answer", !.m = slot[h].m,
                      !.answer = answer, !.node = node]]

\* The first steps of handleEnrollment: the time is read, which fixes the
\* temporary PINs that count as expired for this request.
Admit(h) ==
  /\ slot[h].step = "arrived"
  /\ slot' = [slot EXCEPT ![h].step = "site", ![h].dead = {k \in Temps : temps[k].expired}]
  /\ UNCHANGED <<admin, table, client, events>>

\* Set-up missing, enrollment disabled, network not allowed, invalid request.
TurnAway(h) ==
  /\ slot[h].step = "arrived"
  /\ Event
  /\ Answer(h, "refused", None)
  /\ UNCHANGED <<admin, table, client>>

\* The rate limit (429), or an error of the transaction (500), which may
\* come after the commit, when the new node is read back.
Fail(h) ==
  /\ slot[h].step \in {"arrived", "enroll", "answer"}
  /\ slot[h].answer \in {None, "enrolled"}
  /\ Event
  /\ Answer(h, "failed", None)
  /\ UNCHANGED <<admin, table, client>>

\* A PIN that cannot be read counts as one that does not match.
PinUnread(h) ==
  /\ \/ /\ slot[h].step = "site"
        /\ slot' = [slot EXCEPT ![h].step = "temp"]
     \/ /\ slot[h].step = "temp"
        /\ Answer(h, "refused", None)
  /\ Event
  /\ UNCHANGED <<admin, table, client>>

\* authorizeEnrollmentPIN, first half: the permanent PIN.
CheckSitePin(h) ==
  /\ slot[h].step = "site"
  /\ slot' = [slot EXCEPT ![h].step = IF slot[h].pin = site THEN "enroll" ELSE "temp"]
  /\ UNCHANGED <<admin, table, client, events>>

\* The newest temporary PIN that is neither revoked nor expired.
ActiveTemporaryEnrollmentPIN(dead) ==
  LET live == {k \in 1..issued : ~temps[k].revoked /\ k \notin dead}
  IN  IF live = {} THEN None ELSE Max(live)

\* authorizeEnrollmentPIN, second half; rejectEnrollmentPIN if that fails too.
CheckTemporaryPin(h) ==
  /\ slot[h].step = "temp"
  /\ LET k == ActiveTemporaryEnrollmentPIN(slot[h].dead)
     IN  IF k # None /\ slot[h].pin = k
         THEN slot' = [slot EXCEPT ![h].step = "enroll", ![h].temp = k]
         ELSE Answer(h, "refused", None)
  /\ UNCHANGED <<admin, table, client, events>>

\* Fault: revocation is only looked at when the PIN is first checked.
Claimable_Revoked(k, ident, dead) == k \notin dead /\ temps[k].claim \in {None, ident}

\* The condition of the UPDATE in claimTemporaryEnrollmentPIN.
Claimable(k, ident, dead) ==
  /\ ~temps[k].revoked
  /\ k \notin dead
  /\ temps[k].claim \in {None, ident}

\* EnrollNode when the credential exists: the same node once more.
EnrollExisting(h) ==
  /\ slot[h].step = "enroll"
  /\ \E n \in nodes :
       /\ made[n] = slot[h].ident
       /\ Answer(h, "enrolled", n)
  /\ UNCHANGED <<admin, table, client, events>>

\* EnrollNode for a new identity: claim and insertion in one transaction.
EnrollNew(h) ==
  LET k == slot[h].temp
      new == slot[h].ident
  IN  /\ slot[h].step = "enroll"
      /\ \A n \in nodes : made[n] # new
      /\ k # None => Claimable(k, new, slot[h].dead)
      /\ made' = Append(made, new)
      /\ nodes' = nodes \cup {Len(made')}
      /\ IF k = None
         THEN UNCHANGED <<temps, admitted>>
         ELSE /\ temps' = [temps EXCEPT ![k].claim = new]
              /\ admitted' = [admitted EXCEPT ![k] = @ \cup {new}]
      /\ Answer(h, "enrolled", Len(made'))
      /\ UNCHANGED <<site, issued, revoking, client, events>>

\* ErrTemporaryPINUnavailable.
EnrollUnavailable(h) ==
  LET k == slot[h].temp
  IN  /\ slot[h].step = "enroll"
      /\ \A n \in nodes : made[n] # slot[h].ident
      /\ k # None
      /\ ~Claimable(k, slot[h].ident, slot[h].dead)
      /\ Answer(h, "refused", None)
      /\ UNCHANGED <<admin, table, client, events>>

-----------------------------------------------------------------------------
(* The administrator, and time.                                            *)

\* handleAdminCreateTemporaryPIN: ReplaceTemporaryEnrollmentPIN revokes the
\* others and inserts the new one in one transaction.
CreateTemporaryPin ==
  /\ issued < MaxPins
  /\ Event
  /\ issued' = issued + 1
  /\ temps' = [k \in Temps |-> [temps[k] EXCEPT !.revoked = @ \/ k <= issued]]
  /\ UNCHANGED <<site, revoking, table, client, slot>>

\* handleAdminRevokeTemporaryPIN reads the newest PIN ...
RevokeRead ==
  /\ revoking = None
  /\ issued > 0
  /\ Event
  /\ revoking' = issued
  /\ UNCHANGED <<site, temps, issued, table, client, slot>>

\* ... and then revokes that one, which another may have replaced.
RevokeWrite ==
  /\ revoking # None
  /\ temps' = [temps EXCEPT ![revoking].revoked = TRUE]
  /\ revoking' = None
  /\ UNCHANGED <<site, issued, table, client, slot, events>>

\* A temporary PIN reaches its expires_at.
Expire(k) ==
  /\ k <= issued
  /\ ~temps[k].expired
  /\ Event
  /\ temps' = [temps EXCEPT ![k].expired = TRUE]
  /\ UNCHANGED <<site, issued, revoking, table, client, slot>>

\* handleAdminRotatePIN.
RotatePin(pin) ==
  /\ Event
  /\ site' = pin
  /\ UNCHANGED <<temps, issued, revoking, table, client, slot>>

\* handleAdminDeleteNode; the credential goes with the node.
DeleteNode(n) ==
  /\ Event
  /\ nodes' = nodes \ {n}
  /\ UNCHANGED <<made, admitted, admin, client, slot>>

-----------------------------------------------------------------------------
Install(m) ==
  \/ \E pin \in SitePins \cup 1..issued : Begin(m, pin)
  \/ SavePending(m) \/ SaveConfig(m) \/ RemovePending(m)
  \/ \E h \in Slots : Send(m, h) \/ Receive(m, h)
  \/ GiveUp(m) \/ Die(m)

Handle(h) ==
  \/ Admit(h) \/ TurnAway(h) \/ Fail(h) \/ PinUnread(h)
  \/ CheckSitePin(h) \/ CheckTemporaryPin(h)
  \/ EnrollExisting(h) \/ EnrollNew(h) \/ EnrollUnavailable(h)

Administer ==
  \/ CreateTemporaryPin \/ RevokeRead \/ RevokeWrite
  \/ \E k \in Temps : Expire(k)
  \/ \E pin \in SitePins : RotatePin(pin)
  \/ \E n \in nodes : DeleteNode(n)

Next == (\E m \in Machines : Install(m)) \/ (\E h \in Slots : Handle(h)) \/ Administer

Spec == Init /\ [][Next]_vars

-----------------------------------------------------------------------------
(* Properties.                                                             *)

\* The types of the stored rows, files, requests and installers.  A machine
\* only draws a new identity after a run that died before writing one down,
\* so the number of identities is bounded by the number of such deaths.
TypeOK ==
  /\ site \in SitePins
  /\ temps \in [Temps -> [revoked: BOOLEAN, expired: BOOLEAN, claim: Idents \cup {None}]]
  /\ issued \in 0..MaxPins /\ events \in 0..MaxEvents
  /\ made \in Seq(Idents) /\ nodes \subseteq DOMAIN made
  /\ disk \in [Machines -> [config: Configs \cup {None}, pending: Idents \cup {None}]]
  /\ inst \in [Machines -> [step: {"idle", "remember", "send", "wait", "save", "clean"},
                            ident: Idents \cup {None}, pin: Pins \cup {None},
                            try: 0..Attempts, node: Nat \cup {None}]]
  /\ slot \in [Slots -> [step: {"free", "arrived", "site", "temp", "enroll", "answer"},
                         m: Machines \cup {None},
                         ident: Idents \cup {None}, pin: Pins \cup {None},
                         dead: SUBSET Temps, temp: Temps \cup {None},
                         answer: {"refused", "failed", "enrolled", None},
                         node: Nat \cup {None}]]
  /\ gen \in [Machines -> 0..(MaxEvents + 1)]
  /\ revoking \in Temps \cup {None}
  /\ admitted \in [Temps -> SUBSET Idents]

\* However often the installer is run, dies or loses an answer, a machine
\* has at most one node: Run writes the identity down before it sends it,
\* and EnrollNode returns the node an identity already has.
OneNodePerMachine ==
  \A a, b \in nodes : made[a][1] = made[b][1] => a = b

\* A temporary PIN is spent exactly by the node it made: at most one identity
\* was ever admitted with it, and a claim without a node never stays behind
\* (claimTemporaryEnrollmentPIN runs inside the transaction of EnrollNode).
PinBuysOneNode ==
  \A k \in Temps : admitted[k] = IF temps[k].claim = None THEN {} ELSE {temps[k].claim}

\* A saved config file names a node that the server made for exactly that
\* identity, however many attempts, answers and deletions lie between.
ConfigNamesNode ==
  \A m \in Machines :
    disk[m].config # None =>
      /\ disk[m].config.node \in DOMAIN made
      /\ made[disk[m].config.node] = disk[m].config.ident

\* No node is made with a temporary PIN that was revoked or replaced before
\* the transaction, even when the handler had accepted the PIN earlier.
RevokedMakesNoNode ==
  \A k \in Temps : admitted'[k] # admitted[k] => ~temps[k].revoked /\ k = issued

\* The machine that spent a temporary PIN may use it again: its request is
\* refused only if the PIN was revoked, had expired when the request came
\* in, or could not be read.
RetryIsAdmitted ==
  \A h \in Slots :
       (/\ events' = events
        /\ slot[h].step \in {"temp", "enroll"}
        /\ slot'[h].answer = "refused"
        /\ slot[h].pin \in 1..issued
        /\ temps[slot[h].pin].claim = slot[h].ident)
       => temps[slot[h].pin].revoked \/ slot[h].pin \in slot[h].dead

\* A machine has one node, the one its config file names, and a temporary PIN admits one
\* machine: identities, PINs and config files stay in step through lost answers and crashes.
OwnNode == TypeOK /\ OneNodePerMachine /\ ConfigNamesNode /\ PinBuysOneNode

\* A temporary PIN admits nobody once it is revoked or replaced, and keeps admitting the
\* machine that spent it, whatever happens between its check and its claim.
PinHonoured == [][RevokedMakesNoNode /\ RetryIsAdmitted]_vars
=============================================================================
