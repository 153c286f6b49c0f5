----------------------------- MODULE SettingsForm -----------------------------
(***************************************************************************)
(* The site settings and the enrollment PIN of the Settings section.  The  *)
(* page saves the whole record it holds; the server keeps its own flag     *)
(* "the PIN is weak" and reads it before it writes the record.  A rotation *)
(* of the PIN stores the PIN, then reads the record and writes it back     *)
(* with the new flag.  Requests may be in flight together.  Everything in  *)
(* the record but the flag is one number, the body.                        *)
(***************************************************************************)
EXTENDS Naturals

CONSTANTS Slots, MaxBody

ASSUME SettingsAssumption == MaxBody \in Nat

VARIABLES
    saved,          \* the server's record
    pinWeak,        \* the PIN it checks enrollments with is weak
    settings,       \* the record the page holds; NoSettings until it is loaded
    requests,       \* requests[k]: the request in slot k
    bodyAsked,      \* history variable: the body of the save the server wrote last
    entangled,        \* history variable: a save and a rotation overlapped in the server,
                    \* or the record could not be read or written
    stale           \* history variable: an answer was lost or overtaken by an older one

settingsVars == <<saved, pinWeak, settings, requests, bodyAsked, entangled, stale>>

SiteSettings == [body : 0..(MaxBody + 1), weak : BOOLEAN]
NoSettings == [body |-> MaxBody + 1, weak |-> FALSE]
Stages == {"sent", "pin", "read", "written"}
Request == [kind : {"none", "save", "rotate"}, stage : Stages, body : 0..MaxBody, weak : BOOLEAN,
            after : SUBSET Slots]     \* the slots whose answers, still in flight, are older
NoRequest == [kind |-> "none", stage |-> "sent", body |-> 0, weak |-> FALSE, after |-> {}]

SettingsTypeOK ==
    /\ {saved, settings} \subseteq SiteSettings /\ pinWeak \in BOOLEAN
    /\ requests \in [Slots -> Request]
    /\ bodyAsked \in 0..MaxBody /\ entangled \in BOOLEAN /\ stale \in BOOLEAN

SettingsInit ==
    /\ pinWeak \in BOOLEAN /\ saved = [body |-> 0, weak |-> pinWeak] /\ bodyAsked = 0
    /\ settings = NoSettings /\ requests = [k \in Slots |-> NoRequest]
    /\ entangled = FALSE /\ stale = FALSE

----------------------------------------------------------------------------
Pending(k) == requests[k].kind # "none"
\* The server has begun to handle the request and has not written the record yet.
Inside(k) == Pending(k) /\ requests[k].stage \in {"pin", "read"}

\* load(): the record is read and shown, once, when the section is mounted; until then the
\* section has no forms.
LoadSettings ==
    /\ settings = NoSettings /\ settings' = saved
    /\ UNCHANGED <<saved, pinWeak, requests, bodyAsked, entangled, stale>>

\* The fields of the form are the record itself.
TypeSettings(b) ==
    /\ settings # NoSettings /\ settings' = [settings EXCEPT !.body = b]
    /\ UNCHANGED <<saved, pinWeak, requests, bodyAsked, entangled, stale>>

Send(k, request) ==
    /\ ~Pending(k) /\ requests' = [requests EXCEPT ![k] = request]
    /\ UNCHANGED <<saved, pinWeak, settings, bodyAsked, entangled, stale>>

\* save() and rotatePIN() up to their await: neither disables its button.
SaveSettings(k) ==
    /\ settings # NoSettings
    /\ Send(k, [kind |-> "save", stage |-> "sent", body |-> settings.body, weak |-> settings.weak, after |-> {}])

RotatePIN(k, weak) ==
    /\ settings # NoSettings
    /\ Send(k, [kind |-> "rotate", stage |-> "sent", body |-> 0, weak |-> weak, after |-> {}])

\* handleAdminRotatePIN stores the hash of the new PIN ...
StorePIN(k) ==
    /\ requests[k].kind = "rotate" /\ requests[k].stage = "sent"
    /\ pinWeak' = requests[k].weak
    /\ requests' = [requests EXCEPT ![k].stage = "pin"]
    /\ entangled' = (entangled \/ \E j \in Slots \ {k} : Inside(j))
    /\ UNCHANGED <<saved, settings, bodyAsked, stale>>

\* Fault: a save writes the flag the page holds.
ReadRecordOfPage(k) ==
    LET r == requests[k]
    IN  /\ \/ r.kind = "save" /\ r.stage = "sent" /\ requests' = [requests EXCEPT ![k].stage = "read"]
           \/ /\ r.kind = "rotate" /\ r.stage = "pin"
              /\ requests' = [requests EXCEPT ![k].stage = "read", ![k].body = saved.body]
        /\ entangled' = (entangled \/ \E j \in Slots \ {k} : Inside(j))
        /\ UNCHANGED <<saved, pinWeak, settings, bodyAsked, stale>>

\* ... and reads the record for its body; handleAdminSaveSettings reads it for its flag.
ReadRecord(k) ==
    LET r == requests[k]
    IN  /\ \/ /\ r.kind = "save" /\ r.stage = "sent"
              /\ requests' = [requests EXCEPT ![k].stage = "read", ![k].weak = saved.weak]
           \/ /\ r.kind = "rotate" /\ r.stage = "pin"
              /\ requests' = [requests EXCEPT ![k].stage = "read", ![k].body = saved.body]
        /\ entangled' = (entangled \/ \E j \in Slots \ {k} : Inside(j))
        /\ UNCHANGED <<saved, pinWeak, settings, bodyAsked, stale>>

Written(k) ==
    [requests EXCEPT ![k].stage = "written",
                     ![k].after = {j \in Slots : Pending(j) /\ requests[j].stage = "written"}]
Released(k) ==
    [j \in Slots |-> IF j = k THEN NoRequest ELSE [requests[j] EXCEPT !.after = @ \ {k}]]

\* Both write the record they have put together.
WriteRecord(k) ==
    /\ Pending(k) /\ requests[k].stage = "read"
    /\ saved' = [body |-> requests[k].body, weak |-> requests[k].weak]
    /\ bodyAsked' = IF requests[k].kind = "save" THEN requests[k].body ELSE bodyAsked
    /\ requests' = Written(k)
    /\ UNCHANGED <<pinWeak, settings, entangled, stale>>

\* The record cannot be read or written.  A rotation answers all the same, the PIN is
\* changed; a save that could not read the flag goes on with the one of the page.
SkipRecord(k) ==
    /\ \/ requests[k].kind = "rotate" /\ Inside(k) /\ requests' = Written(k)
       \/ /\ requests[k].kind = "save" /\ requests[k].stage = "sent"
          /\ requests' = [requests EXCEPT ![k].stage = "read"]
    /\ entangled' = TRUE
    /\ UNCHANGED <<saved, pinWeak, settings, bodyAsked, stale>>

\* The answer: save() takes the whole record, rotatePIN() the flag.
EndSettings(k) ==
    /\ Pending(k) /\ requests[k].stage = "written"
    /\ settings' = [body |-> IF requests[k].kind = "save" THEN requests[k].body ELSE settings.body,
                    weak |-> requests[k].weak]
    /\ stale' = (stale \/ requests[k].after # {})
    /\ requests' = Released(k)
    /\ UNCHANGED <<saved, pinWeak, bodyAsked, entangled>>

\* The request is refused, or its answer is lost.
FailSettings(k) ==
    /\ Pending(k) /\ (Inside(k) => requests[k].kind = "save")
    /\ requests' = Released(k)
    /\ stale' = (stale \/ requests[k].stage = "written")
    /\ UNCHANGED <<saved, pinWeak, settings, bodyAsked, entangled>>

SettingsNext ==
    \/ LoadSettings \/ \E b \in 0..MaxBody : TypeSettings(b)
    \/ \E k \in Slots : \/ SaveSettings(k) \/ \E weak \in BOOLEAN : RotatePIN(k, weak)
                        \/ StorePIN(k) \/ ReadRecord(k) \/ WriteRecord(k) \/ SkipRecord(k)
                        \/ EndSettings(k) \/ FailSettings(k)

SettingsSpec == SettingsInit /\ [][SettingsNext]_settingsVars

----------------------------------------------------------------------------
\* The warning about a weak PIN is the server's own: saves never clear or raise it, a
\* rotation never undoes a save, whatever the page held when it asked, unless a save and a
\* rotation overlap in the server or its store fails.  The page shows the server's flag once nothing is in
\* flight, unless an answer was lost or overtaken.
SettingsKept ==
    /\ SettingsTypeOK
    /\ ~entangled => saved.body = bodyAsked
    /\ ~entangled /\ (\A k \in Slots : ~Inside(k)) => saved.weak = pinWeak
    /\ ~entangled /\ ~stale /\ settings # NoSettings /\ (\A k \in Slots : ~Pending(k)) =>
         settings.weak = saved.weak
=============================================================================
