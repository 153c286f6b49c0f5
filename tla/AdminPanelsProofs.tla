------------------------- MODULE AdminPanelsProofs --------------------------
(***************************************************************************)
(* The panels of the admin console that hold on to something while a       *)
(* request is on its way: the session (ConsoleSession), the node that is   *)
(* edited (NodeEditor), the PIN in plain text (PinPanel) and the busy page *)
(* of a restore (BackupPanel).                                             *)
(***************************************************************************)
EXTENDS ConsoleSession, NodeEditor, PinPanel, BackupPanel, TLAPS

-----------------------------------------------------------------------------
(***************************************************************************)
(* Signing out lasts, for any number of navigations and refreshes.  The    *)
(* property is about the store; what could undo it is on its way: an       *)
(* answer read before the sign-out, or a session the server still has.     *)
(* The strengthening says that after the sign-out neither exists.          *)
(***************************************************************************)
Requests == [by : {"guard", "form", "panel"}, nav : Nat, answer : Answers]

\* An answer on its way does not say "signed in".
Harmless(r) == r.answer.in = FALSE

\* The server has ended the session, and nothing on its way says otherwise.
OutEverywhere ==
    signedOut = TRUE => /\ live = FALSE /\ loggedIn = FALSE /\ \A r \in refreshes : Harmless(r)
                        /\ to = "none" => at # "admin"

\* Between the server's sign-out and its answer nobody signs in in this browser.
LogoutServed == form = "served logout" => live = FALSE

SessionIndInv == SessionTypeOK /\ OutEverywhere /\ LogoutServed

\* The strengthening implies the property.
LEMMA SessionFollows == SessionIndInv => SignedOutStaysOut
  BY DEF SessionIndInv, OutEverywhere, SignedOutStaysOut

\* A request that has not been read is harmless.
LEMMA UnreadIsHarmless ==
    ASSUME NEW by \in {"guard", "form", "panel"}, NEW n \in Nat
    PROVE  /\ [by |-> by, nav |-> n, answer |-> Unread] \in Requests
           /\ Harmless([by |-> by, nav |-> n, answer |-> Unread])
  BY DEF Requests, Answers, Unread, Harmless

\* A tab has just been opened.
LEMMA SessionInitially == SessionInit => SessionIndInv
  <1> SUFFICES ASSUME SessionInit PROVE SessionIndInv  OBVIOUS
  <1>1. refreshes \subseteq Requests  BY UnreadIsHarmless DEF SessionInit
  <1>2. setUp \in BOOLEAN /\ live \in BOOLEAN  BY Zenon DEF SessionInit
  <1>3. SessionTypeOK  BY <1>1, <1>2, Zenon DEF SessionInit, SessionTypeOK, Requests, Views
  <1>4. signedOut = FALSE /\ form = "idle"  BY DEF SessionInit
  <1> QED  BY <1>3, <1>4 DEF SessionIndInv, OutEverywhere, LogoutServed

\* A navigation that begins adds at most a request that has not been read.
LEMMA BeginAdds ==
    ASSUME NEW view \in Views, NEW awaited, NEW known \in BOOLEAN, nav \in Nat,
           awaited \subseteq Requests, Begin(view, awaited, known)
    PROVE  /\ to' = view /\ nav' \in Nat /\ ready' \in BOOLEAN /\ refreshes' \subseteq Requests
           /\ (\A r \in awaited : Harmless(r)) => \A r \in refreshes' : Harmless(r)
  <1>1. to' = view /\ nav' = nav + 1 /\ ready' = known  BY DEF Begin
  <1> DEFINE new == [by |-> "guard", nav |-> nav + 1, answer |-> Unread]
  <1>2. refreshes' = awaited \/ refreshes' = awaited \cup {new}  BY DEF Begin
  <1>3. new \in Requests /\ Harmless(new)  BY UnreadIsHarmless
  <1>4. to' = view /\ nav' \in Nat /\ ready' \in BOOLEAN
    <2>1. nav' \in Nat  BY <1>1
    <2> QED  BY <1>1, <2>1
  <1> HIDE DEF new
  <1> QED  BY <1>2, <1>3, <1>4

----------------------------------------------------------------------------
\* The guard decides: it lets nobody into the admin page whom the store calls signed out.
LEMMA DecidePreserves ==
    ASSUME SessionIndInv, Decide
    PROVE  SessionIndInv'
  <1>1. SessionTypeOK /\ OutEverywhere /\ LogoutServed  BY DEF SessionIndInv
  <1>2. UNCHANGED <<setUp, live, initialized, setupComplete, loggedIn, form, signedOut>> /\ to \in Views
    BY <1>1, Zenon DEF Decide, server, session, SessionTypeOK
  <1>3. Guard(to) \in Views  BY <1>2 DEF Guard, Views
  <1>4. loggedIn = FALSE => Guard("admin") # "admin"  BY DEF Guard
  <1>5. CASE Guard(to) = to
    <2>1. at' = to /\ to' = "none" /\ UNCHANGED <<nav, ready, refreshes>>  BY <1>5 DEF Decide
    <2>2. SessionTypeOK'  BY <1>1, <1>2, <2>1, ZenonT(30) DEF SessionTypeOK
    <2>3. OutEverywhere'  BY <1>1, <1>2, <1>4, <1>5, <2>1 DEF OutEverywhere
    <2>4. LogoutServed'  BY <1>1, <1>2, Zenon DEF LogoutServed
    <2> QED  BY <2>2, <2>3, <2>4 DEF SessionIndInv
  <1>6. CASE Guard(to) # to
    <2>1. Begin(Guard(to), refreshes, initialized) /\ at' = at  BY <1>6 DEF Decide
    <2>2. nav \in Nat /\ refreshes \subseteq Requests /\ initialized \in BOOLEAN
      BY <1>1, Zenon DEF SessionTypeOK, Requests
    <2>3. /\ to' = Guard(to) /\ nav' \in Nat /\ ready' \in BOOLEAN /\ refreshes' \subseteq Requests
          /\ (\A r \in refreshes : Harmless(r)) => \A r \in refreshes' : Harmless(r)
      BY <1>3, <2>1, <2>2, BeginAdds
    <2>4. SessionTypeOK'  BY <1>1, <1>2, <1>3, <2>1, <2>3, ZenonT(30) DEF SessionTypeOK, Requests
    <2>5. to' # "none"  BY <1>3, <2>3 DEF Views
    <2>6. OutEverywhere'  BY <1>1, <1>2, <2>3, <2>5 DEF OutEverywhere
    <2>7. LogoutServed'  BY <1>1, <1>2, Zenon DEF LogoutServed
    <2> QED  BY <2>4, <2>6, <2>7 DEF SessionIndInv
  <1> QED  BY <1>5, <1>6

\* A new navigation takes the place of the one under way.
LEMMA NavigatePreserves ==
    ASSUME SessionIndInv, NEW view \in Views, Navigate(view)
    PROVE  SessionIndInv'
  <1>1. SessionTypeOK /\ OutEverywhere /\ LogoutServed  BY DEF SessionIndInv
  <1>2. /\ UNCHANGED <<setUp, live, initialized, setupComplete, loggedIn, at, form, signedOut>>
        /\ Begin(view, refreshes, initialized)
    BY DEF Navigate, server, session
  <1>3. nav \in Nat /\ refreshes \subseteq Requests /\ initialized \in BOOLEAN
    BY <1>1, Zenon DEF SessionTypeOK, Requests
  <1>4. /\ to' = view /\ nav' \in Nat /\ ready' \in BOOLEAN /\ refreshes' \subseteq Requests
        /\ (\A r \in refreshes : Harmless(r)) => \A r \in refreshes' : Harmless(r)
    BY <1>2, <1>3, BeginAdds
  <1>5. SessionTypeOK'  BY <1>1, <1>2, <1>4, ZenonT(30) DEF SessionTypeOK, Requests
  <1>6. to' # "none"  BY <1>4 DEF Views
  <1>7. OutEverywhere'  BY <1>1, <1>2, <1>4, <1>6 DEF OutEverywhere
  <1>8. LogoutServed'  BY <1>1, <1>2, Zenon DEF LogoutServed
  <1> QED  BY <1>5, <1>7, <1>8 DEF SessionIndInv

\* The server answers a refresh with what it knows at that moment.
LEMMA ReadPreserves ==
    ASSUME SessionIndInv, NEW r \in refreshes, ReadSession(r)
    PROVE  SessionIndInv'
  <1> DEFINE given == [read |-> TRUE, setup |-> setUp, in |-> live]
             answered == [r EXCEPT !.answer = given]
  <1>1. SessionTypeOK /\ OutEverywhere /\ LogoutServed  BY DEF SessionIndInv
  <1>2. /\ UNCHANGED <<setUp, live, initialized, setupComplete, loggedIn, at, to, nav, ready, form>>
        /\ signedOut' = signedOut /\ refreshes' = (refreshes \ {r}) \cup {answered}
    BY DEF ReadSession, server, session
  <1>3. r \in Requests /\ refreshes \subseteq Requests  BY <1>1, Zenon DEF SessionTypeOK, Requests
  <1>4. given \in Answers /\ given.in = live
    <2>1. setUp \in BOOLEAN /\ live \in BOOLEAN  BY <1>1, Zenon DEF SessionTypeOK
    <2> QED  BY <2>1 DEF Answers
  <1> HIDE DEF given
  <1>5. answered \in Requests /\ answered.answer = given  BY <1>3, <1>4 DEF Requests
  <1> HIDE DEF answered
  <1>6. refreshes' \subseteq Requests  BY <1>2, <1>3, <1>5
  <1>7. SessionTypeOK'  BY <1>1, <1>2, <1>6, ZenonT(30) DEF SessionTypeOK, Requests
  <1>8. live = FALSE => Harmless(answered)  BY <1>4, <1>5 DEF Harmless
  <1>9. OutEverywhere'  BY <1>1, <1>2, <1>8 DEF OutEverywhere
  <1>10. LogoutServed'  BY <1>1, <1>2, Zenon DEF LogoutServed
  <1> QED  BY <1>7, <1>9, <1>10 DEF SessionIndInv

\* A refresh ends, and the code that awaited it goes on.
LEMMA AfterRefreshKeeps ==
    ASSUME SessionTypeOK, NEW r \in refreshes, NEW ok \in BOOLEAN, AfterRefresh(r, ok)
    PROVE  /\ refreshes' \subseteq Requests /\ nav' \in Nat /\ ready' \in BOOLEAN
           /\ form' \in {form, "idle"} /\ to' \in {to, "admin"}
           /\ (\A q \in refreshes : Harmless(q)) => \A q \in refreshes' : Harmless(q)
  <1> DEFINE rest == refreshes \ {r}
  <1>1. /\ r \in Requests /\ rest \subseteq Requests /\ nav \in Nat /\ ready \in BOOLEAN
        /\ (\A q \in refreshes : Harmless(q)) => \A q \in rest : Harmless(q)
    BY Zenon DEF SessionTypeOK, Requests
  <1>2. CASE r.by = "form" /\ ok = TRUE
    <2>1. Begin("admin", rest, TRUE) /\ form' = "idle"  BY <1>2, Zenon DEF AfterRefresh
    <2>2. "admin" \in Views /\ TRUE \in BOOLEAN  BY DEF Views
    <2> HIDE DEF rest
    <2>3. /\ to' = "admin" /\ nav' \in Nat /\ ready' \in BOOLEAN /\ refreshes' \subseteq Requests
          /\ (\A q \in rest : Harmless(q)) => \A q \in refreshes' : Harmless(q)
      BY <1>1, <2>1, <2>2, BeginAdds, Zenon
    <2> QED  BY <1>1, <2>1, <2>3
  <1>3. CASE r.by = "form" /\ ok = FALSE
    <2>1. form' = "idle" /\ refreshes' = rest /\ UNCHANGED <<to, nav, ready>>
      BY <1>3 DEF AfterRefresh
    <2> QED  BY <1>1, <2>1
  <1>4. CASE r.by # "form"
    <2>1. /\ ready' = (ready \/ (r.by = "guard" /\ r.nav = nav))
          /\ refreshes' = rest /\ UNCHANGED <<to, nav, form>>
      BY <1>4, Zenon DEF AfterRefresh
    <2>2. ready' \in BOOLEAN  BY <2>1
    <2> QED  BY <1>1, <2>1, <2>2
  <1> QED  BY <1>2, <1>3, <1>4, Zenon

\* What a refresh brings after the sign-out was read after it.
LEMMA EndRefreshPreserves ==
    ASSUME SessionIndInv, NEW r \in refreshes, EndRefresh(r) \/ FailRefresh(r)
    PROVE  SessionIndInv'
  <1>1. SessionTypeOK /\ OutEverywhere /\ LogoutServed  BY DEF SessionIndInv
  <1>2. UNCHANGED <<setUp, live, at, signedOut>>  BY Zenon DEF EndRefresh, FailRefresh, server
  <1>3. /\ refreshes' \subseteq Requests /\ nav' \in Nat /\ ready' \in BOOLEAN
        /\ form' \in {form, "idle"} /\ to' \in {to, "admin"}
        /\ (\A q \in refreshes : Harmless(q)) => \A q \in refreshes' : Harmless(q)
    <2>1. AfterRefresh(r, TRUE) \/ AfterRefresh(r, FALSE)  BY Zenon DEF EndRefresh, FailRefresh
    <2> QED  BY <1>1, <2>1, AfterRefreshKeeps, Zenon
  <1>4. /\ initialized' \in BOOLEAN /\ setupComplete' \in BOOLEAN /\ loggedIn' \in BOOLEAN
        /\ loggedIn' = loggedIn \/ loggedIn' = r.answer.in
    <2>1. CASE EndRefresh(r)
      <3>1. initialized' = TRUE /\ setupComplete' = r.answer.setup /\ loggedIn' = r.answer.in
        BY <2>1 DEF EndRefresh
      <3>2. r.answer.setup \in BOOLEAN /\ r.answer.in \in BOOLEAN
        BY <1>1, Zenon DEF SessionTypeOK, Answers
      <3> QED  BY <3>1, <3>2
    <2>2. CASE FailRefresh(r)
      <3>1. UNCHANGED <<initialized, setupComplete, loggedIn>>  BY <2>2 DEF FailRefresh, session
      <3> QED  BY <1>1, <3>1, Zenon DEF SessionTypeOK
    <2> QED  BY <2>1, <2>2
  <1>5. SessionTypeOK'  BY <1>1, <1>2, <1>3, <1>4, ZenonT(30) DEF SessionTypeOK, Requests, Views
  <1>6. OutEverywhere'
    <2> SUFFICES ASSUME signedOut = TRUE
                 PROVE  /\ live = FALSE /\ loggedIn' = FALSE /\ \A q \in refreshes' : Harmless(q)
                        /\ to' = "none" => at # "admin"
      BY <1>2 DEF OutEverywhere
    <2>1. /\ live = FALSE /\ loggedIn = FALSE /\ \A q \in refreshes : Harmless(q)
          /\ to = "none" => at # "admin"
      BY <1>1 DEF OutEverywhere
    <2>2. r.answer.in = FALSE  BY <2>1 DEF Harmless
    <2>3. to' = "none" => at # "admin"  BY <1>3, <2>1
    <2> QED  BY <1>3, <1>4, <2>1, <2>2, <2>3
  <1>7. LogoutServed'  BY <1>1, <1>2, <1>3, Zenon DEF LogoutServed
  <1> QED  BY <1>5, <1>6, <1>7 DEF SessionIndInv

----------------------------------------------------------------------------
\* A form is submitted, or its request fails: nothing else changes.
LEMMA FormPreserves ==
    ASSUME SessionIndInv,
           FailForm \/ \E what \in {"login", "setup", "logout"} : Submit(what)
    PROVE  SessionIndInv'
  <1>1. SessionTypeOK /\ OutEverywhere /\ LogoutServed  BY DEF SessionIndInv
  <1>2. /\ UNCHANGED <<setUp, live, initialized, setupComplete, loggedIn, at, to, nav, ready>>
        /\ UNCHANGED <<refreshes, signedOut>> /\ form' \in {"idle", "login", "setup", "logout"}
    BY DEF FailForm, Submit, server, session
  <1>3. SessionTypeOK'  BY <1>1, <1>2, ZenonT(30) DEF SessionTypeOK
  <1>4. OutEverywhere'  BY <1>1, <1>2 DEF OutEverywhere
  <1>5. LogoutServed'  BY <1>2, Zenon DEF LogoutServed
  <1> QED  BY <1>3, <1>4, <1>5 DEF SessionIndInv

\* The server acts on a form: a sign-in ends the time the property speaks of.
LEMMA ServePreserves ==
    ASSUME SessionIndInv, Serve
    PROVE  SessionIndInv'
  <1>1. SessionTypeOK /\ OutEverywhere /\ LogoutServed  BY DEF SessionIndInv
  <1>2. UNCHANGED <<initialized, setupComplete, loggedIn, at, to, nav, ready, refreshes>>
    BY Zenon DEF Serve, session
  <1>3. /\ setUp' \in BOOLEAN /\ live' \in BOOLEAN /\ signedOut' \in BOOLEAN
        /\ form' \in {"served login", "served setup", "served logout"}
        /\ form' = "served logout" => live' = FALSE
        /\ signedOut' = FALSE \/ (signedOut' = signedOut /\ live' = FALSE)
    <2>1. setUp \in BOOLEAN /\ signedOut \in BOOLEAN  BY <1>1, Zenon DEF SessionTypeOK
    <2>2. CASE form = "login"
      <3>1. live' = TRUE /\ signedOut' = FALSE /\ setUp' = setUp /\ form' = "served login"
        BY <2>2, Zenon DEF Serve
      <3> QED  BY <2>1, <3>1, Zenon
    <2>3. CASE form = "setup"
      <3>1. live' = TRUE /\ signedOut' = FALSE /\ setUp' = TRUE /\ form' = "served setup"
        BY <2>3, Zenon DEF Serve
      <3> QED  BY <2>1, <3>1, Zenon
    <2>4. CASE form = "logout"
      <3>1. live' = FALSE /\ signedOut' = signedOut /\ setUp' = setUp /\ form' = "served logout"
        BY <2>4, Zenon DEF Serve
      <3> QED  BY <2>1, <3>1, Zenon
    <2>5. form \in {"login", "setup", "logout"}  BY Zenon DEF Serve
    <2> QED  BY <2>2, <2>3, <2>4, <2>5, Zenon
  <1>4. SessionTypeOK'  BY <1>1, <1>2, <1>3, Zenon DEF SessionTypeOK
  <1>5. OutEverywhere'  BY <1>1, <1>2, <1>3, Zenon DEF OutEverywhere
  <1>6. LogoutServed'  BY <1>3, Zenon DEF LogoutServed
  <1> QED  BY <1>4, <1>5, <1>6 DEF SessionIndInv

\* The answer to a sign-in starts a refresh; the answer to a sign-out clears the store and
\* leaves the admin page.
LEMMA AnswerPreserves ==
    ASSUME SessionIndInv, AnswerForm
    PROVE  SessionIndInv'
  <1>1. SessionTypeOK /\ OutEverywhere /\ LogoutServed  BY DEF SessionIndInv
  <1>2. UNCHANGED <<setUp, live, at>>  BY Zenon DEF AnswerForm, server
  <1>3. nav \in Nat /\ refreshes \subseteq Requests /\ initialized \in BOOLEAN
    BY <1>1, Zenon DEF SessionTypeOK, Requests
  <1>4. CASE form \in {"served login", "served setup"}
    <2> DEFINE new == [by |-> "form", nav |-> 0, answer |-> Unread]
    <2>1. /\ form' = "refresh" /\ refreshes' = refreshes \cup {new}
          /\ UNCHANGED <<initialized, setupComplete, loggedIn, to, nav, ready, signedOut>>
      BY <1>4, Zenon DEF AnswerForm, session
    <2>2. new \in Requests /\ Harmless(new)  BY UnreadIsHarmless
    <2> HIDE DEF new
    <2>3. refreshes' \subseteq Requests  BY <1>3, <2>1, <2>2
    <2>4. SessionTypeOK'  BY <1>1, <1>2, <2>1, <2>3, ZenonT(30) DEF SessionTypeOK, Requests
    <2>5. OutEverywhere'  BY <1>1, <1>2, <2>1, <2>2 DEF OutEverywhere
    <2>6. LogoutServed'  BY <2>1, Zenon DEF LogoutServed
    <2> QED  BY <2>4, <2>5, <2>6 DEF SessionIndInv
  <1>5. CASE form = "served logout"
    <2>1. /\ form' = "idle" /\ loggedIn' = FALSE /\ UNCHANGED <<initialized, setupComplete>>
          /\ signedOut' = (refreshes = {}) /\ Begin("public", refreshes, initialized)
      BY <1>5, Zenon DEF AnswerForm
    <2>2. "public" \in Views  BY DEF Views
    <2>3. /\ to' = "public" /\ nav' \in Nat /\ ready' \in BOOLEAN /\ refreshes' \subseteq Requests
          /\ (\A r \in refreshes : Harmless(r)) => \A r \in refreshes' : Harmless(r)
      BY <1>3, <2>1, <2>2, BeginAdds
    <2>4. signedOut' \in BOOLEAN /\ (signedOut' = TRUE => refreshes = {})  BY <2>1, Zenon
    <2>5. SessionTypeOK'  BY <1>1, <1>2, <2>1, <2>2, <2>3, <2>4, Zenon DEF SessionTypeOK, Requests
    <2>6. live = FALSE  BY <1>1, <1>5, Zenon DEF LogoutServed
    <2>7. signedOut' = TRUE => \A r \in refreshes' : Harmless(r)  BY <2>3, <2>4
    <2>8. OutEverywhere'  BY <1>2, <2>1, <2>3, <2>6, <2>7 DEF OutEverywhere
    <2>9. LogoutServed'  BY <2>1, Zenon DEF LogoutServed
    <2> QED  BY <2>5, <2>8, <2>9 DEF SessionIndInv
  <1> QED  BY <1>4, <1>5, Zenon DEF AnswerForm

\* A section asks for a refresh, or the session ends elsewhere.
LEMMA OthersPreserve ==
    ASSUME SessionIndInv, PanelRefresh \/ Expire
    PROVE  SessionIndInv'
  <1> DEFINE new == [by |-> "panel", nav |-> 0, answer |-> Unread]
  <1>1. SessionTypeOK /\ OutEverywhere /\ LogoutServed  BY DEF SessionIndInv
  <1>2. UNCHANGED <<setUp, initialized, setupComplete, loggedIn, at, to, nav, ready, form, signedOut>>
    BY DEF PanelRefresh, Expire, server, session
  <1>3. /\ live' = live \/ live' = FALSE
        /\ refreshes' = refreshes \/ refreshes' = refreshes \cup {new}
    <2>1. CASE PanelRefresh  BY <2>1 DEF PanelRefresh, server
    <2>2. CASE Expire
      <3>1. live' = FALSE  BY <2>2 DEF Expire
      <3>2. refreshes' = refreshes  BY <2>2 DEF Expire
      <3> QED  BY <3>1, <3>2
    <2> QED  BY <2>1, <2>2, Zenon
  <1>4. new \in Requests /\ Harmless(new)  BY UnreadIsHarmless
  <1> HIDE DEF new
  <1>5. refreshes' \subseteq Requests /\ live' \in BOOLEAN
    <2>1. refreshes \subseteq Requests /\ live \in BOOLEAN  BY <1>1, Zenon DEF SessionTypeOK, Requests
    <2>2. live' \in BOOLEAN  BY <1>3, <2>1, Zenon
    <2> QED  BY <1>3, <1>4, <2>1, <2>2
  <1>6. SessionTypeOK'  BY <1>1, <1>2, <1>5, ZenonT(30) DEF SessionTypeOK, Requests
  <1>7. OutEverywhere'  BY <1>1, <1>2, <1>3, <1>4 DEF OutEverywhere
  <1>8. LogoutServed'  BY <1>1, <1>2, <1>3, Zenon DEF LogoutServed
  <1> QED  BY <1>6, <1>7, <1>8 DEF SessionIndInv

----------------------------------------------------------------------------
\* Every step of the browser and of the server keeps the strengthening.
LEMMA SessionStep == SessionIndInv /\ [SessionNext]_sessionVars => SessionIndInv'
  <1> SUFFICES ASSUME SessionIndInv, [SessionNext]_sessionVars PROVE SessionIndInv'  OBVIOUS
  <1>1. CASE UNCHANGED sessionVars
    <2>1. SessionTypeOK'  BY <1>1, ZenonT(30) DEF sessionVars, SessionIndInv, SessionTypeOK
    <2>2. OutEverywhere' /\ LogoutServed'
      BY <1>1, Zenon DEF sessionVars, SessionIndInv, OutEverywhere, LogoutServed
    <2> QED  BY <2>1, <2>2 DEF SessionIndInv
  <1>2. CASE Decide  BY <1>2, DecidePreserves
  <1>3. CASE ReadSessions  BY <1>3, ReadPreserves DEF ReadSessions
  <1>4. CASE EndRefreshes  BY <1>4, EndRefreshPreserves DEF EndRefreshes
  <1>5. CASE Serve  BY <1>5, ServePreserves
  <1>6. CASE AnswerForm  BY <1>6, AnswerPreserves
  <1>7. CASE FailForm \/ \E what \in {"login", "setup", "logout"} : Submit(what)
    BY <1>7, FormPreserves
  <1>8. CASE \E view \in Views : Navigate(view)  BY <1>8, NavigatePreserves
  <1>9. CASE PanelRefresh \/ Expire  BY <1>9, OthersPreserve
  <1> QED  BY <1>1, <1>2, <1>3, <1>4, <1>5, <1>6, <1>7, <1>8, <1>9 DEF SessionNext

\* After a sign-out with no refresh outstanding the store says signed out and the admin page
\* stays closed, until the server has accepted a new sign-in.
THEOREM SignOutLasts == SessionSpec => []SignedOutStaysOut
  <1>1. SessionIndInv /\ [SessionNext]_sessionVars => SessionIndInv'  BY SessionStep
  <1> QED  BY SessionInitially, <1>1, SessionFollows, PTL DEF SessionSpec

-----------------------------------------------------------------------------
(***************************************************************************)
(* Every configuration and every correction a node drawer sends is the one *)
(* read from the node it is sent to, unless a drawer was opened over       *)
(* another node's requests; for any number of nodes, drawers and requests. *)
(* What was sent says nothing of what will be sent: the strengthening ties *)
(* everything the drawer holds or awaits to the node that is edited.       *)
(***************************************************************************)
\* Fetches in flight are all for one node, and nothing is about any other.
FetchesAgree ==
    \A n \in EditNodes : fetches[n] > 0 =>
        /\ \A m \in EditNodes : fetches[m] > 0 => m = n
        /\ editing \in {n, Nobody} /\ saving.node \in {n, Nobody}
        /\ agentConfig \in {n, Nobody} /\ inputs \in {n, Nobody} /\ correcting \in {n, Nobody}

\* The open drawer holds and awaits its own node's data; so does a save whose second
\* request is still to be made.
DrawerAgrees ==
    /\ editing # Nobody => /\ agentConfig \in {editing, Nobody} /\ inputs \in {editing, Nobody}
                           /\ correcting \in {editing, Nobody}
    /\ saving.node # Nobody /\ saving.step = "node" => agentConfig \in {saving.node, Nobody}

EditorIndInv ==
    /\ EditorTypeOK
    /\ \A n \in EditNodes : fetches[n] <= edits
    /\ drawer = "latency" => inputs = Nobody /\ correcting = Nobody
    /\ saving # Idle => saving.node # Nobody
    /\ OwnConfigWritten
    /\ ~crossed => FetchesAgree /\ DrawerAgrees

\* No drawer is open at first and nothing was sent.
LEMMA EditorInitially == EditorInit => EditorIndInv
  <1> SUFFICES ASSUME EditorInit PROVE EditorIndInv  OBVIOUS
  <1>1. Idle \in [node : Owners, step : Steps] /\ Idle.node = Nobody  BY DEF Idle, Owners, Steps
  <1>2. fetches \in [EditNodes -> 0..MaxEdits] /\ 0 \in 0..MaxEdits
        /\ \A n \in EditNodes : fetches[n] = 0
    BY EditorAssumption DEF EditorInit
  <1>3. EditorTypeOK  BY <1>1, <1>2, Zenon DEF EditorInit, EditorTypeOK, Owners
  <1>4. OwnConfigWritten  BY DEF EditorInit, OwnConfigWritten
  <1>5. FetchesAgree  BY <1>2 DEF FetchesAgree
  <1>6. DrawerAgrees  BY <1>1 DEF EditorInit, DrawerAgrees
  <1>7. \A n \in EditNodes : fetches[n] <= edits
    <2>1. edits = 0  BY DEF EditorInit
    <2>2. 0 <= 0  OBVIOUS
    <2> QED  BY <1>2, <2>1, <2>2, Zenon
  <1> QED  BY <1>3, <1>4, <1>5, <1>6, <1>7 DEF EditorInit, EditorIndInv

\* Opening a drawer.  Either another node's requests are about, and the step is marked, or
\* all that is about is the opened node's.
LEMMA OpenPreserves ==
    ASSUME EditorIndInv, NEW n \in EditNodes, Edit(n) \/ EditNode(n)
    PROVE  EditorIndInv'
  <1>1. /\ editing = Nobody /\ edits < MaxEdits /\ editing' = n /\ edits' = edits + 1
        /\ fetches' = [fetches EXCEPT ![n] = @ + 1] /\ crossed' = (crossed \/ Crosses(n))
        /\ UNCHANGED <<drawer, saving, correcting, wrote>>
    BY Zenon DEF Edit, EditNode, Open
  <1>2. \/ drawer = "nodes" /\ agentConfig' = Nobody /\ inputs' = Nobody
        \/ drawer = "latency" /\ UNCHANGED <<agentConfig, inputs>>
    BY DEF Edit, EditNode
  <1>3. EditorTypeOK /\ OwnConfigWritten /\ (\A m \in EditNodes : fetches[m] <= edits)
        /\ (drawer = "latency" => inputs = Nobody /\ correcting = Nobody)
    BY DEF EditorIndInv
  <1>4. \A m \in EditNodes : fetches'[m] = IF m = n THEN fetches[n] + 1 ELSE fetches[m]
    BY <1>1, <1>3, Zenon DEF EditorTypeOK
  <1>5. \A m \in EditNodes : fetches'[m] <= edits'  BY <1>1, <1>3, <1>4, SMTT(30) DEF EditorTypeOK
  <1>6. fetches' \in [EditNodes -> 0..MaxEdits] /\ edits' \in 0..MaxEdits
    BY <1>1, <1>3, EditorAssumption, SMTT(30) DEF EditorTypeOK
  <1>7. crossed' \in BOOLEAN  BY <1>1, <1>3, Zenon DEF EditorTypeOK, Crosses
  <1>8. EditorTypeOK'  BY <1>1, <1>2, <1>3, <1>6, <1>7, Zenon DEF EditorTypeOK, Owners
  <1>9. OwnConfigWritten'  BY <1>1, <1>3, Zenon DEF OwnConfigWritten
  <1>10. ASSUME ~crossed' PROVE FetchesAgree' /\ DrawerAgrees'
    <2>1. ~crossed /\ ~Crosses(n)  BY <1>1, <1>3, <1>10, Zenon DEF EditorTypeOK
    <2>2. /\ \A m \in EditNodes : fetches'[m] > 0 => m = n
          /\ saving.node \in {Nobody, n} /\ correcting \in {Nobody, n}
          /\ drawer = "latency" => agentConfig \in {Nobody, n}
      BY <1>3, <1>4, <2>1, Zenon DEF Crosses, EditorTypeOK
    <2>3. agentConfig' \in {n, Nobody} /\ inputs' \in {n, Nobody}  BY <1>2, <1>3, <2>2, Zenon
    <2>4. FetchesAgree'  BY <1>1, <2>2, <2>3, Zenon DEF FetchesAgree
    <2>5. saving.node # Nobody /\ saving.step = "node" => agentConfig' \in {saving.node, Nobody}
      BY <2>2, <2>3, Zenon
    <2>6. DrawerAgrees'  BY <1>1, <2>2, <2>3, <2>5, Zenon DEF DrawerAgrees
    <2> QED  BY <2>4, <2>6, Zenon
  <1> QED  BY <1>1, <1>2, <1>3, <1>5, <1>8, <1>9, <1>10, Zenon DEF EditorIndInv

\* The answer of a fetch: the node it is for is the only one about.
LEMMA EndFetchPreserves ==
    ASSUME EditorIndInv, NEW n \in EditNodes, NEW ok \in BOOLEAN, EndFetch(n, ok)
    PROVE  EditorIndInv'
  <1>1. /\ fetches[n] > 0 /\ fetches' = [fetches EXCEPT ![n] = @ - 1]
        /\ UNCHANGED <<drawer, editing, saving, correcting, edits, crossed, wrote>>
        /\ agentConfig' \in {agentConfig, n} /\ inputs' \in {inputs, n}
        /\ drawer = "latency" => inputs' = inputs
    BY Zenon DEF EndFetch
  <1>2. EditorTypeOK /\ OwnConfigWritten /\ (\A m \in EditNodes : fetches[m] <= edits)
        /\ (drawer = "latency" => inputs = Nobody /\ correcting = Nobody)
    BY DEF EditorIndInv
  <1>3. \A m \in EditNodes : fetches'[m] = IF m = n THEN fetches[n] - 1 ELSE fetches[m]
    BY <1>1, <1>2, Zenon DEF EditorTypeOK
  <1>4. \A m \in EditNodes : fetches'[m] <= edits' /\ (fetches'[m] > 0 => fetches[m] > 0)
    BY <1>1, <1>2, <1>3, SMTT(30) DEF EditorTypeOK
  <1>5. EditorTypeOK'
    <2>1. fetches' \in [EditNodes -> 0..MaxEdits]
      BY <1>1, <1>2, EditorAssumption, SMTT(30) DEF EditorTypeOK
    <2> QED  BY <1>1, <1>2, <2>1 DEF EditorTypeOK, Owners
  <1>6. OwnConfigWritten'  BY <1>1, <1>2, Zenon DEF OwnConfigWritten
  <1>7. ASSUME ~crossed' PROVE FetchesAgree' /\ DrawerAgrees'
    <2>1. /\ \A m \in EditNodes : fetches[m] > 0 => m = n
          /\ editing \in {n, Nobody} /\ saving.node \in {n, Nobody} /\ correcting \in {n, Nobody}
          /\ agentConfig \in {n, Nobody} /\ inputs \in {n, Nobody}
      BY <1>1, <1>7 DEF EditorIndInv, FetchesAgree
    <2>2. FetchesAgree'  BY <1>1, <1>4, <2>1, Zenon DEF FetchesAgree
    <2>3. DrawerAgrees'  BY <1>1, <2>1, Zenon DEF DrawerAgrees
    <2> QED  BY <2>2, <2>3
  <1> QED  BY <1>1, <1>2, <1>4, <1>5, <1>6, <1>7, Zenon DEF EditorIndInv

\* A step that sends nothing, and by which the drawer, the save, the correction and what is
\* held are as before or let go, preserves the invariant.
LEMMA LettingGoPreserves ==
    ASSUME EditorIndInv,
           \/ saving' \in {saving, Idle}
           \/ saving # Idle /\ saving' = [saving EXCEPT !.step = "latency"],
           editing' \in {editing, Nobody}, agentConfig' \in {agentConfig, Nobody},
           inputs' = inputs, correcting' = correcting,
           UNCHANGED <<drawer, fetches, edits, crossed, wrote>>
    PROVE  EditorIndInv'
  <1>1. EditorTypeOK /\ OwnConfigWritten /\ (~crossed => FetchesAgree /\ DrawerAgrees)
    BY DEF EditorIndInv
  <1>2. /\ saving' \in [node : Owners, step : Steps] /\ saving'.node \in {saving.node, Nobody}
        /\ saving' # Idle => saving # Idle /\ saving'.node = saving.node
        /\ saving'.node # Nobody /\ saving'.step = "node" => saving' = saving
    BY <1>1 DEF EditorTypeOK, Owners, Steps, Idle
  <1>3. EditorTypeOK'  BY <1>1, <1>2 DEF EditorTypeOK, Owners
  <1>4. OwnConfigWritten'  BY <1>1 DEF OwnConfigWritten
  <1>5. ASSUME ~crossed' PROVE FetchesAgree' /\ DrawerAgrees'
    <2>1. FetchesAgree /\ DrawerAgrees  BY <1>1, <1>5
    <2>2. FetchesAgree'  BY <1>2, <2>1 DEF FetchesAgree
    <2>3. DrawerAgrees'  BY <1>2, <2>1 DEF DrawerAgrees
    <2> QED  BY <2>2, <2>3
  <1> QED  BY <1>2, <1>3, <1>4, <1>5 DEF EditorIndInv

\* A save or a correction begins: it is the open drawer's node's.
LEMMA StartPreserves ==
    ASSUME EditorIndInv, Save \/ SaveBoth \/ Correct
    PROVE  EditorIndInv'
  <1>1. EditorTypeOK /\ OwnConfigWritten /\ editing \in EditNodes
        /\ (drawer = "latency" => inputs = Nobody /\ correcting = Nobody)
    BY Zenon DEF EditorIndInv, EditorTypeOK, Owners, Save, SaveBoth, Correct
  <1>2. UNCHANGED <<drawer, editing, agentConfig, inputs, fetches, edits, crossed>>
    BY Zenon DEF Save, SaveBoth, Correct
  <1>3. /\ saving' \in {saving, [node |-> editing, step |-> "node"], [node |-> editing, step |-> "both"]}
        /\ correcting' \in {correcting, editing}
        /\ drawer = "latency" => correcting' = correcting
    BY <1>1, Zenon DEF Save, SaveBoth, Correct
  <1>4. wrote' \subseteq wrote \cup {<<editing, agentConfig>>, <<editing, inputs>>}
    BY Zenon DEF Save, SaveBoth, Correct
  <1>5. \A w \in wrote' \ wrote :
          \/ w = <<editing, agentConfig>> /\ agentConfig # Nobody
          \/ w = <<editing, inputs>> /\ inputs # Nobody
    BY Zenon DEF Save, SaveBoth, Correct
  <1>6. EditorTypeOK'
    <2>1. saving' \in [node : Owners, step : Steps] /\ correcting' \in Owners
      BY <1>1, <1>3, SMTT(30) DEF EditorTypeOK, Owners, Steps
    <2>2. wrote' \subseteq EditNodes \X Owners  BY <1>1, <1>4 DEF EditorTypeOK
    <2> QED  BY <1>1, <1>2, <2>1, <2>2, Zenon DEF EditorTypeOK
  <1>7. ASSUME ~crossed' PROVE OwnConfigWritten' /\ FetchesAgree' /\ DrawerAgrees'
    <2>1. FetchesAgree /\ DrawerAgrees  BY <1>2, <1>7, Zenon DEF EditorIndInv
    <2>2. /\ agentConfig \in {editing, Nobody} /\ inputs \in {editing, Nobody}
          /\ correcting \in {editing, Nobody}
      BY <1>1, <2>1, EditorAssumption, Zenon DEF DrawerAgrees
    <2>3. ASSUME NEW w \in wrote' PROVE w[1] = w[2]
      <3>1. CASE w \in wrote  BY <1>1, <1>2, <1>7, <3>1, Zenon DEF OwnConfigWritten
      <3>2. CASE w \notin wrote  BY <1>5, <2>2, <3>2
      <3> QED  BY <3>1, <3>2, Zenon
    <2>4. OwnConfigWritten'  BY <2>3 DEF OwnConfigWritten
    <2>5. saving'.node \in {saving.node, editing}
      BY <1>3
    <2>6. FetchesAgree'
      <3> SUFFICES ASSUME NEW n \in EditNodes, fetches[n] > 0
                   PROVE  /\ \A m \in EditNodes : fetches[m] > 0 => m = n
                          /\ editing \in {n, Nobody} /\ saving'.node \in {n, Nobody}
                          /\ agentConfig \in {n, Nobody} /\ inputs \in {n, Nobody}
                          /\ correcting' \in {n, Nobody}
        BY <1>2, Zenon DEF FetchesAgree
      <3> QED  BY <1>3, <2>1, <2>5, Zenon DEF FetchesAgree
    <2>7. saving'.node # Nobody /\ saving'.step = "node" => agentConfig \in {saving'.node, Nobody}
      BY <1>3, <2>1, <2>2, SMTT(30) DEF DrawerAgrees
    <2>8. DrawerAgrees'  BY <1>2, <1>3, <2>2, <2>7, Zenon DEF DrawerAgrees
    <2> QED  BY <2>4, <2>6, <2>8, Zenon
  <1>8. OwnConfigWritten'  BY <1>7 DEF OwnConfigWritten
  <1>9. saving'.node # Nobody \/ saving' = saving
    BY <1>1, <1>3, EditorAssumption
  <1> QED  BY <1>1, <1>2, <1>3, <1>6, <1>7, <1>8, <1>9, Zenon DEF EditorIndInv

\* The second request of save(): it carries the configuration of the node being saved.
LEMMA SecondRequestPreserves ==
    ASSUME EditorIndInv, saving # Idle, saving.step = "node", agentConfig # Nobody,
           saving' = [saving EXCEPT !.step = "config"],
           wrote' = wrote \cup {<<saving.node, agentConfig>>},
           UNCHANGED <<drawer, editing, agentConfig, inputs, fetches, correcting, edits, crossed>>
    PROVE  EditorIndInv'
  <1>1. EditorTypeOK /\ OwnConfigWritten /\ saving.node # Nobody  BY DEF EditorIndInv
  <1>2. saving' \in [node : Owners, step : Steps] /\ saving'.node = saving.node /\ saving'.step = "config"
    BY <1>1 DEF EditorTypeOK, Steps
  <1>3. EditorTypeOK'
    <2>1. wrote' \subseteq EditNodes \X Owners  BY <1>1 DEF EditorTypeOK, Owners
    <2> QED  BY <1>1, <1>2, <2>1 DEF EditorTypeOK
  <1>4. ASSUME ~crossed' PROVE OwnConfigWritten' /\ FetchesAgree' /\ DrawerAgrees'
    <2>1. FetchesAgree /\ DrawerAgrees  BY <1>4 DEF EditorIndInv
    <2>2. agentConfig = saving.node  BY <1>1, <2>1 DEF DrawerAgrees
    <2>3. OwnConfigWritten'  BY <1>1, <2>2 DEF OwnConfigWritten
    <2>4. FetchesAgree'  BY <1>2, <2>1 DEF FetchesAgree
    <2>5. DrawerAgrees'  BY <1>2, <2>1 DEF DrawerAgrees
    <2> QED  BY <2>3, <2>4, <2>5
  <1>5. OwnConfigWritten'  BY <1>4 DEF OwnConfigWritten
  <1> QED  BY <1>1, <1>2, <1>3, <1>4, <1>5 DEF EditorIndInv

\* The answer of a correction puts the corrected node's totals into the inputs.
LEMMA EndCorrectPreserves ==
    ASSUME EditorIndInv, NEW ok \in BOOLEAN, EndCorrect(ok)
    PROVE  EditorIndInv'
  <1>1. EditorTypeOK /\ OwnConfigWritten
        /\ (drawer = "latency" => inputs = Nobody /\ correcting = Nobody)
    BY DEF EditorIndInv
  <1>2. /\ correcting # Nobody /\ inputs' \in {inputs, correcting} /\ correcting' = Nobody
        /\ UNCHANGED <<drawer, editing, agentConfig, fetches, saving, edits, crossed, wrote>>
    BY Zenon DEF EndCorrect
  <1>3. EditorTypeOK'  BY <1>1, <1>2, Zenon DEF EditorTypeOK, Owners
  <1>4. OwnConfigWritten'  BY <1>1, <1>2, Zenon DEF OwnConfigWritten
  <1>5. ASSUME ~crossed' PROVE FetchesAgree' /\ DrawerAgrees'
    <2>1. FetchesAgree /\ DrawerAgrees  BY <1>2, <1>5, Zenon DEF EditorIndInv
    <2>2. FetchesAgree'  BY <1>2, <2>1 DEF FetchesAgree
    <2>3. DrawerAgrees'  BY <1>2, <2>1, Zenon DEF DrawerAgrees
    <2> QED  BY <2>2, <2>3
  <1> QED  BY <1>1, <1>2, <1>3, <1>4, <1>5, Zenon DEF EditorIndInv

\* Every step of a drawer preserves the invariant.
LEMMA EditorStepPreserves ==
    ASSUME EditorIndInv, [EditorNext]_editorVars
    PROVE  EditorIndInv'
  <1>1. CASE UNCHANGED editorVars
    BY <1>1, LettingGoPreserves DEF editorVars
  <1>2. ASSUME NEW n \in EditNodes, Edit(n) \/ EditNode(n) PROVE EditorIndInv'
    BY <1>2, OpenPreserves
  <1>3. ASSUME NEW n \in EditNodes, NEW ok \in BOOLEAN, EndFetch(n, ok) PROVE EditorIndInv'
    BY <1>3, EndFetchPreserves
  <1>4. CASE CloseDrawer \/ FailSave
    BY <1>4, LettingGoPreserves DEF CloseDrawer, FailSave
  <1>5. CASE Save \/ SaveBoth \/ Correct
    BY <1>5, StartPreserves
  <1>6. CASE EndSaveStep
    <2>1. CASE saving.step = "node" /\ agentConfig # Nobody
      BY <1>6, <2>1, SecondRequestPreserves DEF EndSaveStep
    <2>2. CASE ~(saving.step = "node" /\ agentConfig # Nobody)
      BY <1>6, <2>2, LettingGoPreserves DEF EndSaveStep
    <2> QED  BY <2>1, <2>2
  <1>7. CASE EndSaveBoth
    BY <1>7, LettingGoPreserves DEF EndSaveBoth
  <1>8. ASSUME NEW ok \in BOOLEAN, EndCorrect(ok) PROVE EditorIndInv'
    BY <1>8, EndCorrectPreserves
  <1> QED
    BY <1>1, <1>2, <1>3, <1>4, <1>5, <1>6, <1>7, <1>8, Zenon DEF EditorNext

\* Whatever the order of drawers, fetches, saves and corrections, a node receives its own
\* configuration and corrections, unless a drawer was opened over another node's requests
\* (edit, save and applyTrafficCorrection of AdminNodes.vue, editNode and saveNode of
\* AdminLatency.vue).
THEOREM NodesKeepTheirOwn == EditorSpec => []OwnConfigWritten
  <1>1. EditorIndInv => OwnConfigWritten  BY DEF EditorIndInv
  <1> QED  BY <1>1, EditorInitially, EditorStepPreserves, PTL DEF EditorSpec

-----------------------------------------------------------------------------
(***************************************************************************)
(* The plaintext of a temporary PIN is shown under its own PIN and is not  *)
(* lost while that PIN is the latest, for any number of PINs and of polls  *)
(* on their way.  What must be added is about the answers still to come:   *)
(* none is of a PIN later than the server's latest, and once the created   *)
(* PIN is the latest, none is of another one.                              *)
(***************************************************************************)
\* The PIN created here is the server's latest, and no older answer was on its way then.
Holds == mine # 0 /\ latestPIN.id = mine /\ ~overtaken

\* Whatever was read or created is no later than the latest PIN.
NoneIsLater ==
    /\ mine <= latestPIN.id /\ temporaryPIN.id <= latestPIN.id /\ change.pin.id <= latestPIN.id
    /\ \A r \in 1..MaxReads : reads[r].id <= latestPIN.id

AnswersAgree ==
    Holds => temporaryPIN.id = mine /\ \A r \in 1..MaxReads : reads[r] # Free => reads[r].id = mine

PinIndInv == PlainOwned /\ NoneIsLater /\ AnswersAgree

\* What the server answers of a PIN has that PIN's number.
LEMMA StatusKeepsNumber ==
    ASSUME NEW pin \in [id : Pins, mark : {"none", "used", "revoked"}]
    PROVE  StatusOf(pin) \in PINViews /\ StatusOf(pin).id = pin.id
  <1>1. CASE pin.id = 0
    BY <1>1 DEF StatusOf, PINViews, NoPIN, Statuses
  <1>2. CASE pin.id # 0
    <2> DEFINE status == CASE pin.mark = "revoked" -> "revoked"
                           [] pin.id \in lapsed -> "expired"
                           [] pin.mark = "used" -> "used"
                           [] OTHER -> "active"
    <2>1. status \in Statuses  BY DEF Statuses
    <2>2. StatusOf(pin) = [id |-> pin.id, status |-> status]  BY <1>2 DEF StatusOf
    <2> HIDE DEF status
    <2> QED  BY <2>1, <2>2, SMTT(30) DEF PINViews
  <1> QED  BY <1>1, <1>2, Zenon

\* The panel has just been mounted.
LEMMA PinInitially == PinInit => PinIndInv
  <1> SUFFICES ASSUME PinInit PROVE PinIndInv  OBVIOUS
  <1> USE PinAssumption DEF PinInit
  <1>1. 0 \in Pins /\ 1 \in Pins  BY SMTT(30) DEF Pins
  <1>2. Free \in PINViews /\ NoPIN \in PINViews /\ Free.id = 0 /\ NoPIN.id = 0
    BY <1>1, Zenon DEF Free, NoPIN, PINViews, Statuses
  <1>3. latestPIN \in [id : Pins, mark : {"none", "used", "revoked"}]  BY <1>1, SMTT(30)
  <1>4. PinTypeOK  BY <1>1, <1>2, <1>3, Zenon DEF PinTypeOK
  <1>5. PlainOwned  BY <1>4, Zenon DEF PlainOwned
  <1>6. NoneIsLater  BY <1>2, <1>3, SMTT(30) DEF NoneIsLater, Pins
  <1>7. AnswersAgree  BY Zenon DEF AnswersAgree, Holds
  <1> QED  BY <1>5, <1>6, <1>7, Zenon DEF PinIndInv

\* A poll is served: it reads the latest PIN.
LEMMA PollPreserves ==
    ASSUME PinIndInv, NEW r \in 1..MaxReads, PollPIN(r)
    PROVE  PinIndInv'
  <1>1. PinTypeOK /\ PlainOwned /\ NoneIsLater /\ AnswersAgree  BY Zenon DEF PinIndInv, PlainOwned
  <1>2. StatusOf(latestPIN) \in PINViews /\ StatusOf(latestPIN).id = latestPIN.id
    BY <1>1, StatusKeepsNumber, Zenon DEF PinTypeOK
  <1>3. /\ reads' = [reads EXCEPT ![r] = StatusOf(latestPIN)]
        /\ UNCHANGED <<latestPIN, lapsed, temporaryPIN, plainOf, change, mine, overtaken>>
    BY Zenon DEF PollPIN
  <1>4. \A q \in 1..MaxReads : reads'[q] = reads[q] \/ reads'[q].id = latestPIN.id
    BY <1>1, <1>2, <1>3, Zenon DEF PinTypeOK
  <1>5. PinTypeOK'  BY <1>1, <1>2, <1>3, Zenon DEF PinTypeOK
  <1>6. PlainOwned'  BY <1>1, <1>3, <1>5, Zenon DEF PlainOwned
  <1>7. NoneIsLater'  BY <1>1, <1>3, <1>4, SMTT(30) DEF NoneIsLater, PinTypeOK, Pins
  <1>8. AnswersAgree'  BY <1>1, <1>3, <1>4, Zenon DEF AnswersAgree, Holds
  <1> QED  BY <1>6, <1>7, <1>8, Zenon DEF PinIndInv

\* A poll is answered or fails: the answer is of the PIN shown, or takes the plaintext away.
LEMMA EndReadPreserves ==
    ASSUME PinIndInv, NEW r \in 1..MaxReads, EndRead(r) \/ FailRead(r)
    PROVE  PinIndInv'
  <1>1. PinTypeOK /\ PlainOwned /\ NoneIsLater /\ AnswersAgree  BY Zenon DEF PinIndInv, PlainOwned
  <1>2. /\ reads[r] # Free /\ reads' = [reads EXCEPT ![r] = Free]
        /\ UNCHANGED <<latestPIN, lapsed, change, mine, overtaken>>
        /\ \/ UNCHANGED <<temporaryPIN, plainOf>>
           \/ /\ temporaryPIN' = reads[r]
              /\ plainOf' = IF reads[r].id # temporaryPIN.id THEN 0 ELSE plainOf
    BY Zenon DEF EndRead, FailRead
  <1>3. Free \in PINViews /\ Free.id = 0 /\ 0 \in Pins
    BY PinAssumption DEF Free, PINViews, Statuses, Pins
  <1>4. \A q \in 1..MaxReads : reads'[q] = reads[q] \/ reads'[q] = Free
    BY <1>1, <1>2, Zenon DEF PinTypeOK
  <1>5. PinTypeOK'  BY <1>1, <1>2, <1>3, SMTT(30) DEF PinTypeOK
  <1>6. NoneIsLater'  BY <1>1, <1>2, <1>3, <1>4, SMTT(30) DEF NoneIsLater, PinTypeOK, Pins
  <1>7. AnswersAgree'  BY <1>1, <1>2, <1>4, Zenon DEF AnswersAgree, Holds
  <1>8. PlainOwned'
    <2>1. plainOf' # 0 => plainOf' = temporaryPIN'.id  BY <1>1, <1>2, Zenon DEF PlainOwned
    <2>2. Holds => plainOf' = mine
      BY <1>1, <1>2, Zenon DEF PlainOwned, AnswersAgree, Holds
    <2> QED  BY <1>2, <1>5, <2>1, <2>2, Zenon DEF PlainOwned, Holds
  <1> QED  BY <1>6, <1>7, <1>8, Zenon DEF PinIndInv

\* The latest PIN is replaced, revoked or used, here or elsewhere, or time passes: the
\* panel has not heard of it yet, whatever answer is on its way or lost.
LEMMA ServerPreserves ==
    ASSUME PinIndInv,
           latestPIN' \in [id : Pins, mark : {"none", "used", "revoked"}],
           latestPIN'.id = latestPIN.id \/ latestPIN'.id = latestPIN.id + 1,
           change' \in [op : {"none", "create", "revoke"}, pin : PINViews],
           change'.pin.id <= latestPIN'.id, lapsed' \subseteq Pins,
           UNCHANGED <<temporaryPIN, plainOf, reads, mine, overtaken>>
    PROVE  PinIndInv'
  <1>1. PinTypeOK /\ PlainOwned /\ NoneIsLater /\ AnswersAgree  BY Zenon DEF PinIndInv, PlainOwned
  <1>2. PinTypeOK'  BY <1>1, Zenon DEF PinTypeOK
  <1>3. latestPIN.id \in Nat /\ mine \in Nat /\ temporaryPIN.id \in Nat
        /\ \A r \in 1..MaxReads : reads[r].id \in Nat
    BY <1>1, PinAssumption, SMTT(30) DEF PinTypeOK, Pins, PINViews
  <1>4. NoneIsLater'  BY <1>1, <1>3, SMTT(30) DEF NoneIsLater
  <1>5. Holds' => Holds  BY <1>1, <1>3, SMTT(30) DEF Holds, NoneIsLater
  <1>6. AnswersAgree'  BY <1>1, <1>5, Zenon DEF AnswersAgree
  <1>7. PlainOwned'  BY <1>1, <1>2, <1>5, Zenon DEF PlainOwned, Holds
  <1> QED  BY <1>4, <1>6, <1>7, Zenon DEF PinIndInv

\* A creation or a revocation is answered: the plaintext comes, or goes, with the PIN.
LEMMA EndChangePreserves ==
    ASSUME PinIndInv, EndChange
    PROVE  PinIndInv'
  <1>1. PinTypeOK /\ PlainOwned /\ NoneIsLater  BY DEF PinIndInv, PlainOwned
  <1>2. /\ temporaryPIN' = change.pin /\ mine' = plainOf' /\ plainOf' \in {0, change.pin.id}
        /\ change' = [op |-> "none", pin |-> Free]
        /\ overtaken' = \E r \in 1..MaxReads : reads[r] # Free /\ reads[r].id # change.pin.id
        /\ UNCHANGED <<latestPIN, lapsed, reads>>
    BY Zenon DEF EndChange
  <1>3. Free \in PINViews /\ Free.id = 0 /\ 0 \in Pins /\ change.pin \in PINViews
    BY <1>1, PinAssumption, SMTT(30) DEF PinTypeOK, Free, PINViews, Statuses, Pins
  <1>4. change.pin.id \in Pins /\ latestPIN.id \in Nat
    BY <1>1, <1>3, SMTT(30) DEF PinTypeOK, PINViews, Pins
  <1>5. PinTypeOK'  BY <1>1, <1>2, <1>3, <1>4, Zenon DEF PinTypeOK
  <1>6. NoneIsLater'  BY <1>1, <1>2, <1>3, <1>4, SMTT(30) DEF NoneIsLater, Pins
  <1>7. AnswersAgree'  BY <1>2 DEF AnswersAgree, Holds
  <1>8. PlainOwned'  BY <1>2, <1>5, Zenon DEF PlainOwned
  <1> QED  BY <1>6, <1>7, <1>8 DEF PinIndInv

\* Every step of the panel and of the server preserves the invariant.
LEMMA PinStepPreserves ==
    ASSUME PinIndInv, [PinNext]_pinVars
    PROVE  PinIndInv'
  <1>1. PinTypeOK /\ NoneIsLater  BY DEF PinIndInv, PlainOwned
  <1>2. /\ change \in [op : {"none", "create", "revoke"}, pin : PINViews]
        /\ change.pin.id \in Nat /\ change.pin.id <= latestPIN.id
        /\ latestPIN \in [id : Pins, mark : {"none", "used", "revoked"}]
        /\ latestPIN.id \in Nat /\ lapsed \subseteq Pins
    BY <1>1, PinAssumption, SMTT(30) DEF PinTypeOK, NoneIsLater, PINViews, Pins
  <1>3. Free \in PINViews /\ Free.id = 0
    BY PinAssumption, SMTT(30) DEF Free, PINViews, Statuses, Pins
  <1>4. CASE UNCHANGED pinVars
    BY <1>2, <1>4, ServerPreserves, Zenon DEF pinVars
  <1>5. ASSUME NEW r \in 1..MaxReads, PollPIN(r) \/ EndRead(r) \/ FailRead(r) PROVE PinIndInv'
    BY <1>5, PollPreserves, EndReadPreserves, Zenon
  <1>6. CASE CreatePIN \/ RevokePIN
    <2>1. latestPIN' \in [id : Pins, mark : {"none", "used", "revoked"}]
          /\ (latestPIN'.id = latestPIN.id \/ latestPIN'.id = latestPIN.id + 1)
      BY <1>2, <1>6, PinAssumption DEF CreatePIN, RevokePIN, Pins
    <2>2. StatusOf(latestPIN') \in PINViews /\ StatusOf(latestPIN').id = latestPIN'.id
      BY <2>1, StatusKeepsNumber
    <2>3. change' \in [op : {"none", "create", "revoke"}, pin : PINViews]
          /\ change'.pin.id = latestPIN'.id
      BY <1>6, <2>2 DEF CreatePIN, RevokePIN
    <2>4. change'.pin.id <= latestPIN'.id  BY <2>1, <2>3, PinAssumption DEF Pins
    <2>5. UNCHANGED <<lapsed, temporaryPIN, plainOf, reads, mine, overtaken>>
      BY <1>6 DEF CreatePIN, RevokePIN
    <2> QED  BY <1>2, <2>1, <2>3, <2>4, <2>5, ServerPreserves, Zenon
  <1>7. CASE EndChange
    BY <1>7, EndChangePreserves
  <1>8. CASE FailChange
    <2>1. change'.op = "none" /\ change'.pin = Free
          /\ change' \in [op : {"none", "create", "revoke"}, pin : PINViews]
          /\ UNCHANGED <<latestPIN, lapsed, temporaryPIN, plainOf, reads, mine, overtaken>>
      BY <1>3, <1>8, Zenon DEF FailChange
    <2> QED  BY <1>2, <1>3, <2>1, ServerPreserves, SMTT(30)
  <1>9. ASSUME UsePIN \/ ReplacePIN \/ (\E i \in Pins : LapsePIN(i)) PROVE PinIndInv'
    <2>1. latestPIN' \in [id : Pins, mark : {"none", "used", "revoked"}]
          /\ (latestPIN'.id = latestPIN.id \/ latestPIN'.id = latestPIN.id + 1)
      BY <1>2, <1>9, PinAssumption DEF UsePIN, ReplacePIN, LapsePIN, Pins
    <2>2. lapsed' \subseteq Pins
      BY <1>2, <1>9 DEF UsePIN, ReplacePIN, LapsePIN
    <2>3. UNCHANGED <<temporaryPIN, plainOf, reads, change, mine, overtaken>>
      BY <1>9 DEF UsePIN, ReplacePIN, LapsePIN
    <2>4. change'.pin.id <= latestPIN'.id  BY <1>2, <2>1, <2>3
    <2> QED  BY <1>2, <2>1, <2>2, <2>3, <2>4, ServerPreserves, Zenon
  <1> QED
    BY <1>4, <1>5, <1>6, <1>7, <1>8, <1>9, Zenon DEF PinNext

\* The plaintext shown belongs to the PIN shown, and stays while the PIN created here is the
\* latest (loadTemporaryPIN and createTemporaryPIN of AdminSettings.vue).
THEOREM PlaintextIsOwned == PinSpec => []PlainOwned
  <1>1. PinIndInv => PlainOwned  BY DEF PinIndInv
  <1> QED  BY <1>1, PinInitially, PinStepPreserves, PTL DEF PinSpec

-----------------------------------------------------------------------------
(***************************************************************************)
(* A restore keeps the page that started it busy until the server is back  *)
(* or the page has lost sight of it: the busy flag is always that of the   *)
(* call or of the reload that the page awaits.                             *)
(***************************************************************************)
\* The busy flag is that of the request awaited or of the reload awaited, and a server that
\* replaces its data is one the page awaits.
BusyIsOwned ==
    /\ restarting = TRUE => backupBusy = "import" /\ call = "none" /\ polls < MaxPolls
    /\ call \in {"import", "accepted", "refused"} => backupBusy = "import"
    /\ call = "export" => backupBusy = "export"

RestoreIsAwaited == hostpin # "serving" /\ unseen = FALSE => call = "accepted" \/ restarting = TRUE

BackupIndInv == BackupTypeOK /\ BusyIsOwned /\ RestoreIsAwaited

\* The section has just been mounted.
LEMMA BackupInitially == BackupInit => BackupIndInv
  <1> SUFFICES ASSUME BackupInit PROVE BackupIndInv  OBVIOUS
  <1>1. BackupTypeOK
    <2>1. 0 \in 0..MaxPolls /\ 0 \in 0..MaxImports  BY BackupAssumption
    <2> QED  BY <2>1, Zenon DEF BackupInit, BackupTypeOK
  <1>2. BusyIsOwned  BY Zenon DEF BackupInit, BusyIsOwned
  <1>3. RestoreIsAwaited  BY Zenon DEF BackupInit, RestoreIsAwaited
  <1> QED  BY <1>1, <1>2, <1>3 DEF BackupIndInv

\* A server that replaces its data leaves the page with busy set.
LEMMA BackupFollows == BackupIndInv => RestartKeepsBusy
  <1> SUFFICES ASSUME BackupIndInv PROVE RestartKeepsBusy  OBVIOUS
  <1>1. BackupTypeOK /\ BusyIsOwned /\ RestoreIsAwaited  BY DEF BackupIndInv
  <1>2. hostpin # "serving" /\ unseen = FALSE => backupBusy = "import"
    BY <1>1, Zenon DEF BusyIsOwned, RestoreIsAwaited
  <1>3. unseen \in BOOLEAN  BY <1>1, Zenon DEF BackupTypeOK
  <1> QED  BY <1>1, <1>2, <1>3, Zenon DEF RestartKeepsBusy, CanExport, CanImport

\* The forms: a request is sent only while nothing is awaited.
LEMMA FormsKeepBusy ==
    ASSUME BackupIndInv,
           ExportBackup \/ ImportBackup \/ \E which \in {"export", "import"} : Fill(which)
    PROVE  BackupIndInv'
  <1>1. BackupTypeOK /\ BusyIsOwned /\ RestoreIsAwaited  BY DEF BackupIndInv
  <1>2. UNCHANGED <<restarting, polls, place, hostpin, unseen>>
    BY Zenon DEF ExportBackup, ImportBackup, Fill
  <1>3. imports' \in 0..MaxImports
    <2>1. imports \in 0..MaxImports  BY <1>1, Zenon DEF BackupTypeOK
    <2>2. imports' = imports \/ (imports < MaxImports /\ imports' = imports + 1)
      BY Zenon DEF ExportBackup, ImportBackup, Fill
    <2> QED  BY <2>1, <2>2, BackupAssumption
  <1>4. /\ filled' \subseteq {"export", "import"}
        /\ \/ UNCHANGED <<backupBusy, call>>
           \/ backupBusy = "" /\ backupBusy' = call' /\ call' \in {"export", "import"}
    BY <1>1, Zenon DEF ExportBackup, ImportBackup, Fill, BackupTypeOK, CanExport, CanImport
  <1>5. BackupTypeOK'  BY <1>1, <1>2, <1>3, <1>4, Zenon DEF BackupTypeOK
  <1>6. BusyIsOwned'  BY <1>1, <1>2, <1>4, Zenon DEF BusyIsOwned
  <1>7. RestoreIsAwaited'
    <2>1. CASE UNCHANGED <<backupBusy, call>>
      BY <1>1, <1>2, <2>1, Zenon DEF RestoreIsAwaited
    <2>2. CASE backupBusy = ""
      <3>1. restarting # TRUE /\ call # "accepted"  BY <1>1, <2>2, Zenon DEF BusyIsOwned
      <3> QED  BY <1>1, <1>2, <3>1, Zenon DEF RestoreIsAwaited
    <2> QED  BY <1>4, <2>1, <2>2, Zenon
  <1> QED  BY <1>5, <1>6, <1>7 DEF BackupIndInv

\* The download has ended: no restore was awaited.
LEMMA EndExportKeepsBusy ==
    ASSUME BackupIndInv, NEW ok \in BOOLEAN, EndExport(ok)
    PROVE  BackupIndInv'
  <1>1. BackupTypeOK /\ BusyIsOwned /\ RestoreIsAwaited  BY DEF BackupIndInv
  <1>2. /\ call = "export" /\ call' = "none" /\ backupBusy' = "" /\ filled' \subseteq filled
        /\ UNCHANGED <<restarting, polls, place, hostpin, imports, unseen>>
    BY Zenon DEF EndExport
  <1>3. BackupTypeOK'  BY <1>1, <1>2, Zenon DEF BackupTypeOK
  <1>4. BusyIsOwned'  BY <1>1, <1>2, Zenon DEF BusyIsOwned
  <1>5. RestoreIsAwaited'  BY <1>1, <1>2, Zenon DEF RestoreIsAwaited, BusyIsOwned
  <1> QED  BY <1>3, <1>4, <1>5 DEF BackupIndInv

\* The server stages the file or refuses it, goes down and comes back.
LEMMA ServerKeepsBusy ==
    ASSUME BackupIndInv, ImportServed \/ GoDown \/ ComeBack
    PROVE  BackupIndInv'
  <1>1. BackupTypeOK /\ BusyIsOwned /\ RestoreIsAwaited  BY DEF BackupIndInv
  <1>2. UNCHANGED <<backupBusy, filled, restarting, polls, place, imports, unseen>>
    BY Zenon DEF ImportServed, ServeImport, GoDown, ComeBack
  <1>3. \/ call' = call /\ hostpin # "serving" /\ hostpin' \in {"serving", "down"}
        \/ call = "import" /\ call' = "accepted" /\ hostpin' = "accepted"
        \/ call = "import" /\ call' = "refused" /\ hostpin' = hostpin
    BY Zenon DEF ImportServed, ServeImport, GoDown, ComeBack
  <1>4. BackupTypeOK'  BY <1>1, <1>2, <1>3, ZenonT(30) DEF BackupTypeOK
  <1>5. BusyIsOwned'  BY <1>1, <1>2, <1>3, Zenon DEF BusyIsOwned
  <1>6. RestoreIsAwaited'  BY <1>1, <1>2, <1>3, Zenon DEF RestoreIsAwaited, BusyIsOwned
  <1> QED  BY <1>4, <1>5, <1>6 DEF BackupIndInv

\* An accepted import hands busy over to the wait for the reload; one that is refused, or
\* whose answer is lost, ends it, and a loss is marked.
LEMMA AnswerImportKeepsBusy ==
    ASSUME BackupIndInv, AnswerImport \/ FailImport
    PROVE  BackupIndInv'
  <1>1. BackupTypeOK /\ BusyIsOwned /\ RestoreIsAwaited  BY DEF BackupIndInv
  <1>2. /\ call \in {"accepted", "refused"} /\ call' = "none" /\ filled' \subseteq filled
        /\ UNCHANGED <<place, hostpin, imports>>
    BY Zenon DEF AnswerImport, FailImport
  <1>3. \/ restarting' = TRUE /\ polls' = 0 /\ UNCHANGED <<backupBusy, unseen>>
        \/ /\ restarting' = FALSE /\ UNCHANGED polls /\ backupBusy' = ""
           /\ unseen' = (unseen \/ call = "accepted")
    BY Zenon DEF AnswerImport, FailImport
  <1>4. /\ unseen' \in BOOLEAN /\ polls' \in 0..MaxPolls
        /\ call = "refused" \/ unseen' = unseen \/ unseen' = TRUE
    <2>1. unseen \in BOOLEAN /\ polls \in 0..MaxPolls  BY <1>1, Zenon DEF BackupTypeOK
    <2>2. 0 \in 0..MaxPolls  BY BackupAssumption
    <2>3. polls' \in 0..MaxPolls  BY <1>3, <2>1, <2>2, Zenon
    <2> QED  BY <1>2, <1>3, <2>1, <2>3, Zenon
  <1>5. BackupTypeOK'  BY <1>1, <1>2, <1>3, <1>4, Zenon DEF BackupTypeOK
  <1>6. BusyIsOwned'
    <2>1. backupBusy = "import" /\ 0 < MaxPolls  BY <1>1, <1>2, BackupAssumption DEF BusyIsOwned
    <2> QED  BY <1>2, <1>3, <2>1, Zenon DEF BusyIsOwned
  <1>7. RestoreIsAwaited'
    <2>1. CASE restarting' = TRUE  BY <2>1, Zenon DEF RestoreIsAwaited
    <2>2. CASE restarting' = FALSE /\ unseen' = (unseen \/ call = "accepted")
      <3>1. unseen' = FALSE => unseen = FALSE /\ call = "refused" /\ restarting # TRUE
        BY <1>1, <1>2, <2>2, Zenon DEF BackupTypeOK, BusyIsOwned
      <3> QED  BY <1>1, <1>2, <3>1, Zenon DEF RestoreIsAwaited
    <2> QED  BY <1>3, <2>1, <2>2, Zenon
  <1> QED  BY <1>5, <1>6, <1>7 DEF BackupIndInv

\* A poll: the page goes to the login, polls again, or gives up, which is marked.
LEMMA PollKeepsBusy ==
    ASSUME BackupIndInv, PollReady
    PROVE  BackupIndInv'
  <1>1. BackupTypeOK /\ BusyIsOwned /\ RestoreIsAwaited  BY DEF BackupIndInv
  <1>2. restarting = TRUE /\ backupBusy = "import" /\ call = "none" /\ polls < MaxPolls
    BY <1>1, Zenon DEF PollReady, BusyIsOwned, BackupTypeOK
  <1>3. UNCHANGED <<filled, call, hostpin, imports>>  BY Zenon DEF PollReady
  <1>4. \/ place' = "login" /\ UNCHANGED <<backupBusy, restarting, polls, unseen>>
        \/ /\ polls' = polls + 1 /\ polls + 1 < MaxPolls /\ restarting' = TRUE
           /\ UNCHANGED <<backupBusy, place, unseen>>
        \/ /\ polls' = polls + 1 /\ restarting' = FALSE /\ backupBusy' = "" /\ unseen' = TRUE
           /\ UNCHANGED place
    <2>1. unseen \in BOOLEAN  BY <1>1, Zenon DEF BackupTypeOK
    <2>2. CASE hostpin # "down"  BY <2>2, Zenon DEF PollReady
    <2>3. ASSUME hostpin = "down"
          PROVE  /\ polls' = polls + 1 /\ restarting' = (polls + 1 < MaxPolls)
                 /\ backupBusy' = IF restarting' THEN backupBusy ELSE ""
                 /\ unseen' = (unseen \/ ~restarting') /\ UNCHANGED place
      BY <2>3, Zenon DEF PollReady
    <2>4. CASE hostpin = "down" /\ polls + 1 < MaxPolls
      <3>1. restarting' = TRUE  BY <2>3, <2>4, Zenon
      <3> QED  BY <2>1, <2>3, <2>4, <3>1, Zenon
    <2>5. CASE hostpin = "down" /\ ~(polls + 1 < MaxPolls)
      <3>1. restarting' = FALSE
        <4>1. (polls + 1 < MaxPolls) = FALSE  BY <2>5
        <4> QED  BY <2>3, <2>5, <4>1, Zenon
      <3>2. unseen' = TRUE  BY <2>1, <2>3, <2>5, <3>1, Zenon
      <3> QED  BY <2>3, <2>5, <3>1, <3>2, Zenon
    <2> QED  BY <2>2, <2>4, <2>5, Zenon
  <1>5. polls' \in 0..MaxPolls
    <2>1. polls \in 0..MaxPolls  BY <1>1, Zenon DEF BackupTypeOK
    <2>2. polls' = polls \/ polls' = polls + 1  BY <1>4, Zenon
    <2> QED  BY <1>2, <2>1, <2>2, BackupAssumption
  <1>6. BackupTypeOK'  BY <1>1, <1>3, <1>4, <1>5, Zenon DEF BackupTypeOK
  <1>7. BusyIsOwned'  BY <1>2, <1>3, <1>4, Zenon DEF BusyIsOwned
  <1>8. RestoreIsAwaited'  BY <1>2, <1>3, <1>4, Zenon DEF RestoreIsAwaited
  <1> QED  BY <1>6, <1>7, <1>8 DEF BackupIndInv

\* Every step of the section and of the server preserves the invariant.
LEMMA BackupStep ==
    ASSUME BackupIndInv, [BackupNext]_backupVars
    PROVE  BackupIndInv'
  <1>1. CASE UNCHANGED backupVars
    BY <1>1, Zenon DEF backupVars, BackupIndInv, BackupTypeOK, BusyIsOwned, RestoreIsAwaited
  <1>2. CASE ExportBackup \/ ImportBackup \/ \E which \in {"export", "import"} : Fill(which)
    BY <1>2, FormsKeepBusy
  <1>3. CASE \E ok \in BOOLEAN : EndExport(ok)  BY <1>3, EndExportKeepsBusy
  <1>4. CASE ImportServed \/ GoDown \/ ComeBack  BY <1>4, ServerKeepsBusy
  <1>5. CASE AnswerImport \/ FailImport  BY <1>5, AnswerImportKeepsBusy
  <1>6. CASE PollReady  BY <1>6, PollKeepsBusy
  <1> QED  BY <1>1, <1>2, <1>3, <1>4, <1>5, <1>6, Zenon DEF BackupNext

\* While the server replaces its data the page that started it offers neither an export nor
\* an import, unless it lost the answer or gave up waiting (importBackup and waitForReload
\* of AdminBackups.vue).
THEOREM RestoreKeepsPageBusy == BackupSpec => []RestartKeepsBusy
  BY BackupInitially, BackupStep, BackupFollows, PTL DEF BackupSpec
=============================================================================
