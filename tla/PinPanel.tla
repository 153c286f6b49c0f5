------------------------------ MODULE PinPanel ------------------------------
(***************************************************************************)
(* The temporary enrollment PIN of the Settings section.  The panel polls  *)
(* the latest PIN, creates and revokes it; only the answer to a creation   *)
(* carries the plaintext, which the panel keeps while the PIN it shows is  *)
(* that one.  Polls are not numbered and may be answered out of order.     *)
(* Enrollment uses the PIN, time ends it, another administrator may        *)
(* replace it.  A PIN is its number, in order of creation; 0 is none.      *)
(***************************************************************************)
EXTENDS Naturals

CONSTANTS MaxPins, MaxReads

ASSUME PinAssumption == MaxPins \in Nat \ {0} /\ MaxReads \in Nat \ {0}

VARIABLES
    latestPIN,      \* the server's latest PIN: [id, mark], mark "used", "revoked" or "none"
    lapsed,         \* PINs whose expires_at has passed (clock is at most a second behind)
    temporaryPIN,   \* the PIN shown: [id, status]
    plainOf,        \* temporaryPINPlain: the PIN whose plaintext is shown, 0 for ''
    reads,          \* answers of loadTemporaryPIN on their way, by slot
    change,         \* the answer of a creation or revocation on its way (temporaryBusy)
    mine,           \* history variable: the PIN last created here, 0 after a revocation
    overtaken       \* history variable: an answer older than mine was on its way when it came

pinVars == <<latestPIN, lapsed, temporaryPIN, plainOf, reads, change, mine, overtaken>>

Pins == 0..MaxPins
Statuses == {"none", "active", "used", "expired", "revoked", "free"}
PINViews == [id : Pins, status : Statuses]
NoPIN == [id |-> 0, status |-> "none"]
Free == [id |-> 0, status |-> "free"]       \* no answer on its way

PinTypeOK ==
    /\ latestPIN \in [id : Pins, mark : {"none", "used", "revoked"}]
    /\ temporaryPIN \in PINViews /\ plainOf \in Pins /\ mine \in Pins
    /\ reads \in [1..MaxReads -> PINViews]
    /\ change \in [op : {"none", "create", "revoke"}, pin : PINViews]
    /\ lapsed \subseteq Pins /\ overtaken \in BOOLEAN

PinInit ==
    /\ latestPIN \in {[id |-> 0, mark |-> "none"], [id |-> 1, mark |-> "none"]} /\ lapsed = {}
    /\ temporaryPIN = NoPIN /\ plainOf = 0
    /\ reads = [r \in 1..MaxReads |-> Free]
    /\ change = [op |-> "none", pin |-> Free] /\ mine = 0 /\ overtaken = FALSE

----------------------------------------------------------------------------
\* temporaryEnrollmentPINStatus: what the server answers of its latest PIN.
StatusOf(pin) ==
    IF pin.id = 0 THEN NoPIN
    ELSE [id |-> pin.id, status |-> CASE pin.mark = "revoked" -> "revoked"
                                      [] pin.id \in lapsed -> "expired"
                                      [] pin.mark = "used" -> "used"
                                      [] OTHER -> "active"]

\* effectiveTemporaryStatus: an active PIN past its expires_at is shown as expired.
EffectiveTemporaryStatus ==
    IF temporaryPIN.status = "active" /\ temporaryPIN.id \in lapsed
    THEN "expired" ELSE temporaryPIN.status

CanRevokeTemporaryPIN == EffectiveTemporaryStatus \in {"active", "used"}

\* The server serves a call of loadTemporaryPIN, made on mount or by the 15-second timer,
\* whether or not an earlier call was answered.
PollPIN(r) ==
    /\ reads[r] = Free
    /\ reads' = [reads EXCEPT ![r] = StatusOf(latestPIN)]
    /\ UNCHANGED <<latestPIN, lapsed, temporaryPIN, plainOf, change, mine, overtaken>>

\* Fault: the plaintext is not compared with the PIN that was loaded.
EndReadKeeping(r) ==
    /\ reads[r] # Free
    /\ temporaryPIN' = reads[r]
    /\ reads' = [reads EXCEPT ![r] = Free]
    /\ UNCHANGED <<latestPIN, lapsed, plainOf, change, mine, overtaken>>

\* Fault: an answer with the PIN already shown is taken for no news.
EndReadNewOnly(r) ==
    /\ reads[r] # Free
    /\ IF reads[r].id # temporaryPIN.id THEN plainOf' = 0 /\ temporaryPIN' = reads[r]
                                       ELSE UNCHANGED <<plainOf, temporaryPIN>>
    /\ reads' = [reads EXCEPT ![r] = Free]
    /\ UNCHANGED <<latestPIN, lapsed, change, mine, overtaken>>

\* loadTemporaryPIN's answer: another PIN than the one shown takes the plaintext away.
EndRead(r) ==
    /\ reads[r] # Free
    /\ plainOf' = IF reads[r].id # temporaryPIN.id THEN 0 ELSE plainOf
    /\ temporaryPIN' = reads[r]
    /\ reads' = [reads EXCEPT ![r] = Free]
    /\ UNCHANGED <<latestPIN, lapsed, change, mine, overtaken>>

FailRead(r) ==
    /\ reads[r] # Free
    /\ reads' = [reads EXCEPT ![r] = Free]
    /\ UNCHANGED <<latestPIN, lapsed, temporaryPIN, plainOf, change, mine, overtaken>>

\* createTemporaryPIN and revokeTemporaryPIN, one at a time, served: the server replaces its
\* latest PIN, or revokes it whichever it is by now.
CreatePIN ==
    /\ change.op = "none" /\ latestPIN.id < MaxPins
    /\ latestPIN' = [id |-> latestPIN.id + 1, mark |-> "none"]
    /\ change' = [op |-> "create", pin |-> StatusOf(latestPIN')]
    /\ UNCHANGED <<lapsed, temporaryPIN, plainOf, reads, mine, overtaken>>

RevokePIN ==
    /\ change.op = "none" /\ CanRevokeTemporaryPIN
    /\ latestPIN' = [latestPIN EXCEPT !.mark = "revoked"]
    /\ change' = [op |-> "revoke", pin |-> StatusOf(latestPIN')]
    /\ UNCHANGED <<lapsed, temporaryPIN, plainOf, reads, mine, overtaken>>

EndChange ==
    /\ change.op # "none"
    /\ temporaryPIN' = change.pin
    /\ plainOf' = IF change.op = "create" THEN change.pin.id ELSE 0
    /\ change' = [op |-> "none", pin |-> Free]
    /\ mine' = plainOf'
    /\ overtaken' = \E r \in 1..MaxReads : reads[r] # Free /\ reads[r].id # change.pin.id
    /\ UNCHANGED <<latestPIN, lapsed, reads>>

\* The answer is lost, and with it the plaintext.
FailChange ==
    /\ change.op # "none"
    /\ change' = [op |-> "none", pin |-> Free]
    /\ UNCHANGED <<latestPIN, lapsed, temporaryPIN, plainOf, reads, mine, overtaken>>

\* A node enrolls with the PIN; another administrator replaces it; its time is over.
UsePIN ==
    /\ StatusOf(latestPIN).status = "active"
    /\ latestPIN' = [latestPIN EXCEPT !.mark = "used"]
    /\ UNCHANGED <<lapsed, temporaryPIN, plainOf, reads, change, mine, overtaken>>

ReplacePIN ==
    /\ latestPIN.id < MaxPins
    /\ latestPIN' = [id |-> latestPIN.id + 1, mark |-> "none"]
    /\ UNCHANGED <<lapsed, temporaryPIN, plainOf, reads, change, mine, overtaken>>

LapsePIN(i) ==
    /\ i \in 1..latestPIN.id \ lapsed
    /\ lapsed' = lapsed \cup {i}
    /\ UNCHANGED <<latestPIN, temporaryPIN, plainOf, reads, change, mine, overtaken>>

PinNext ==
    \/ \E r \in 1..MaxReads : PollPIN(r) \/ EndRead(r) \/ FailRead(r)
    \/ CreatePIN \/ RevokePIN \/ EndChange \/ FailChange
    \/ UsePIN \/ ReplacePIN \/ (\E i \in Pins : LapsePIN(i))

PinSpec == PinInit /\ [][PinNext]_pinVars

----------------------------------------------------------------------------
\* The plaintext on the page is the one of the PIN it is shown under.  It is shown once, in
\* the answer to the creation, and stays as long as the PIN created here is the server's
\* latest, unless an older answer was on its way at that time.
PlainOwned ==
    /\ PinTypeOK
    /\ plainOf # 0 => plainOf = temporaryPIN.id
    /\ mine # 0 /\ latestPIN.id = mine /\ ~overtaken => plainOf = mine
=============================================================================
