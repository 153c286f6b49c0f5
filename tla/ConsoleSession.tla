--------------------------- MODULE ConsoleSession ---------------------------
(***************************************************************************)
(* Signing in and out: the session store of the web console, the guard the *)
(* router runs before every navigation, and the login, setup and sign-out  *)
(* requests.  The server's answer to a refresh is read at one moment and   *)
(* applied at a later one; a navigation may be superseded while its guard  *)
(* awaits a refresh, and what that refresh brings is applied all the same. *)
(***************************************************************************)
EXTENDS Naturals, FiniteSets

CONSTANTS
    MaxNavs,       \* the user does nothing more once this many navigations were begun
    MaxRefreshes   \* refreshes outstanding

ASSUME SessionAssumption == MaxNavs \in Nat /\ MaxRefreshes \in Nat

VARIABLES
    setUp, live,                          \* server: configured; this browser has a session
    initialized, setupComplete, loggedIn, \* session store
    at,           \* the view shown: "start", "public", "login", "setup" or "admin"
    to,           \* the target of the navigation under way, or "none"
    nav,          \* its number
    ready,        \* its guard is past the await
    refreshes,    \* refreshes outstanding: [by, nav, answer]
    form,         \* the request the view awaits, or "idle"
    signedOut     \* history variable: signed out with no refresh outstanding, not in since

sessionVars == <<setUp, live, initialized, setupComplete, loggedIn, at, to, nav, ready, refreshes,
                 form, signedOut>>
server == <<setUp, live>>
session == <<initialized, setupComplete, loggedIn>>

Views == {"public", "login", "setup", "admin"}
Answers == [read : BOOLEAN, setup : BOOLEAN, in : BOOLEAN]
Unread == [read |-> FALSE, setup |-> FALSE, in |-> FALSE]

SessionTypeOK ==
    /\ setUp \in BOOLEAN /\ live \in BOOLEAN /\ ready \in BOOLEAN /\ signedOut \in BOOLEAN
    /\ initialized \in BOOLEAN /\ setupComplete \in BOOLEAN /\ loggedIn \in BOOLEAN
    /\ at \in Views \cup {"start"} /\ to \in Views \cup {"none"} /\ nav \in Nat
    /\ refreshes \subseteq [by : {"guard", "form", "panel"}, nav : Nat, answer : Answers]
    /\ form \in {"idle", "login", "setup", "logout", "served login", "served setup",
                 "served logout", "refresh"}

\* A tab opens at some address, on a site that is set up or not, with a session or not.
SessionInit ==
    /\ setUp \in BOOLEAN /\ live \in {FALSE, setUp}
    /\ initialized = FALSE /\ setupComplete = FALSE /\ loggedIn = FALSE
    /\ at = "start" /\ to \in Views /\ nav = 1 /\ ready = FALSE
    /\ refreshes = {[by |-> "guard", nav |-> 1, answer |-> Unread]}
    /\ form = "idle" /\ signedOut = FALSE

----------------------------------------------------------------------------
\* A navigation starts: the guard refreshes a store that is not initialized and awaits it.
Begin(view, awaited, known) ==
    /\ to' = view /\ nav' = nav + 1 /\ ready' = known
    /\ refreshes' = IF known THEN awaited
                    ELSE awaited \cup {[by |-> "guard", nav |-> nav + 1, answer |-> Unread]}

\* The guard's decision for a target.
Guard(view) ==
    IF initialized /\ ~setupComplete /\ view # "setup" THEN "setup"
    ELSE IF initialized /\ setupComplete /\ view = "setup" THEN "public"
    ELSE IF view = "admin" /\ ~loggedIn THEN "login"
    ELSE IF view = "login" /\ loggedIn THEN "admin"
    ELSE view

Decide ==
    /\ to # "none" /\ ready
    /\ IF Guard(to) = to THEN at' = to /\ to' = "none" /\ UNCHANGED <<nav, ready, refreshes>>
                         ELSE Begin(Guard(to), refreshes, initialized) /\ UNCHANGED at
    /\ UNCHANGED <<server, session, form, signedOut>>

\* A link, the address bar or the browser's history; a navigation under way is superseded.
Navigate(view) ==
    /\ at # "start" /\ nav < MaxNavs /\ Cardinality(refreshes) < MaxRefreshes
    /\ Begin(view, refreshes, initialized)
    /\ UNCHANGED <<server, session, at, form, signedOut>>

\* The server reads the session for GET /auth/me.
ReadSession(r) ==
    /\ ~r.answer.read
    /\ refreshes' = (refreshes \ {r}) \cup {[r EXCEPT !.answer = [read |-> TRUE, setup |-> setUp, in |-> live]]}
    /\ UNCHANGED <<server, session, at, to, nav, ready, form, signedOut>>

\* Fault: a refresh that failed holds the navigation that awaits it.
AfterRefreshHolding(r, ok) ==
    LET rest == refreshes \ {r}
    IN  CASE r.by = "form" /\ ok -> Begin("admin", rest, TRUE) /\ form' = "idle"
          [] r.by = "form" /\ ~ok -> form' = "idle" /\ refreshes' = rest /\ UNCHANGED <<to, nav, ready>>
          [] r.by # "form" -> /\ ready' = (ready \/ (r.by = "guard" /\ r.nav = nav /\ ok))
                              /\ refreshes' = rest /\ UNCHANGED <<to, nav, form>>

\* What the code that awaited a refresh does next: the guard goes on if its navigation is
\* still the current one, a form that succeeded goes to the admin page.
AfterRefresh(r, ok) ==
    LET rest == refreshes \ {r}
    IN  CASE r.by = "form" /\ ok -> Begin("admin", rest, TRUE) /\ form' = "idle"
          [] r.by = "form" /\ ~ok -> form' = "idle" /\ refreshes' = rest /\ UNCHANGED <<to, nav, ready>>
          [] r.by # "form" -> /\ ready' = (ready \/ (r.by = "guard" /\ r.nav = nav))
                              /\ refreshes' = rest /\ UNCHANGED <<to, nav, form>>

EndRefresh(r) ==
    /\ r.answer.read
    /\ initialized' = TRUE /\ setupComplete' = r.answer.setup /\ loggedIn' = r.answer.in
    /\ AfterRefresh(r, TRUE)
    /\ UNCHANGED <<server, at, signedOut>>

FailRefresh(r) ==
    /\ UNCHANGED session /\ AfterRefresh(r, FALSE)
    /\ UNCHANGED <<server, at, signedOut>>

\* The submit buttons of the login and the setup view, and the sign-out of the console.
Submit(what) ==
    /\ form = "idle" /\ nav < MaxNavs /\ at = IF what = "logout" THEN "admin" ELSE what
    /\ form' = what
    /\ UNCHANGED <<server, session, at, to, nav, ready, refreshes, signedOut>>

\* The server acts on the request: it refuses a login before the setup and a second setup.
Serve ==
    /\ \/ form = "login" /\ setUp /\ live' = TRUE /\ signedOut' = FALSE /\ UNCHANGED setUp
       \/ form = "setup" /\ ~setUp /\ setUp' = TRUE /\ live' = TRUE /\ signedOut' = FALSE
       \/ form = "logout" /\ live' = FALSE /\ UNCHANGED <<setUp, signedOut>>
    /\ form' = CASE form = "login" -> "served login" [] form = "setup" -> "served setup"
                 [] form = "logout" -> "served logout"
    /\ UNCHANGED <<session, at, to, nav, ready, refreshes>>

\* Fault: the store is left signed in.
AnswerFormStayingIn ==
    /\ \/ /\ form \in {"served login", "served setup"}
          /\ form' = "refresh"
          /\ refreshes' = refreshes \cup {[by |-> "form", nav |-> 0, answer |-> Unread]}
          /\ UNCHANGED <<session, to, nav, ready, signedOut>>
       \/ /\ form = "served logout"
          /\ form' = "idle" /\ UNCHANGED session /\ signedOut' = (refreshes = {})
          /\ Begin("public", refreshes, initialized)
    /\ UNCHANGED <<server, at>>

\* The answer arrives: login() and the setup view refresh the store and await it, logout()
\* clears it and goes to the overview.
AnswerForm ==
    /\ \/ /\ form \in {"served login", "served setup"}
          /\ form' = "refresh"
          /\ refreshes' = refreshes \cup {[by |-> "form", nav |-> 0, answer |-> Unread]}
          /\ UNCHANGED <<session, to, nav, ready, signedOut>>
       \/ /\ form = "served logout"
          /\ form' = "idle" /\ loggedIn' = FALSE /\ UNCHANGED <<initialized, setupComplete>>
          /\ signedOut' = (refreshes = {})
          /\ Begin("public", refreshes, initialized)
    /\ UNCHANGED <<server, at>>

\* The request is refused, or its answer is lost; the view shows an error.
FailForm ==
    /\ form \notin {"idle", "refresh"} /\ form' = "idle"
    /\ UNCHANGED <<server, session, at, to, nav, ready, refreshes, signedOut>>

\* Saving the settings or loading the themes refreshes the store too.
PanelRefresh ==
    /\ at = "admin" /\ Cardinality(refreshes) < MaxRefreshes /\ nav < MaxNavs
    /\ refreshes' = refreshes \cup {[by |-> "panel", nav |-> 0, answer |-> Unread]}
    /\ UNCHANGED <<server, session, at, to, nav, ready, form, signedOut>>

\* The session expires, or is revoked from elsewhere.
Expire ==
    /\ live /\ live' = FALSE
    /\ UNCHANGED <<setUp, session, at, to, nav, ready, refreshes, form, signedOut>>

EndRefreshes == \E r \in refreshes : EndRefresh(r) \/ FailRefresh(r)
GuardRefreshEnds ==
    \E r \in refreshes : r.by = "guard" /\ r.nav = nav /\ (EndRefresh(r) \/ FailRefresh(r))
ReadSessions == \E r \in refreshes : ReadSession(r)

SessionNext ==
    \/ Decide \/ ReadSessions \/ EndRefreshes \/ Serve \/ AnswerForm \/ FailForm
    \/ \E view \in Views : Navigate(view)
    \/ \E what \in {"login", "setup", "logout"} : Submit(what)
    \/ PanelRefresh \/ Expire

SessionSpec == SessionInit /\ [][SessionNext]_sessionVars

----------------------------------------------------------------------------
\* After signing out with no refresh outstanding, the store says signed out, and no
\* navigation reaches the admin page, until the server has accepted a new sign-in.
SignedOutStaysOut ==
    SessionTypeOK /\ (signedOut => ~loggedIn /\ (to = "none" => at # "admin"))
=============================================================================
