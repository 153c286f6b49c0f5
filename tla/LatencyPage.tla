---------------------------- MODULE LatencyPage ----------------------------
(***************************************************************************)
(* The public latency page: a matrix of probe -> target paths refreshed    *)
(* every 15 s, one selected path, and the history of that path over a      *)
(* window of hours.  Requests are answered in any order, or fail; an       *)
(* answer finds the page as later clicks and refreshes have left it.       *)
(* The history and its summary are always assigned together, so they are   *)
(* one variable: the path and the window they were asked for.              *)
(***************************************************************************)
EXTENDS Naturals, Sequences

CONSTANTS
    Probes, Targets,   \* measurement nodes and target servers
    Overviews,         \* what GET /public/latency may answer
    Windows,           \* the hours the window switch offers
    DefaultWindow,
    MaxRequests,       \* no click or refresh once this many history requests were made
    MaxLoads,          \* overview requests outstanding beside the first
    None

Paths == Probes \X Targets

\* The server lists a result only for a path whose two ends it lists.
ASSUME OverviewsAssumption ==
    \A o \in Overviews :
        /\ o \in [probes : SUBSET Probes, targets : SUBSET Targets, latest : Seq(Paths)]
        /\ o.latest \in Seq(o.probes \X o.targets)
ASSUME LatencyAssumption ==
    DefaultWindow \in Windows /\ MaxRequests \in Nat /\ MaxLoads \in Nat /\ None \notin Paths

VARIABLES
    overview,          \* the matrix shown
    selected,          \* the selected path, or None
    hours,             \* the selected window
    history,           \* [path, hours] of the points shown, or None
    historyRequestID,
    historyLoading,
    asked,             \* history requests outstanding
    first,             \* the load onMounted awaits: "overview", "history" or "done"
    loads,             \* other overview requests outstanding
    loading,           \* the matrix has not been shown yet
    failed,            \* the error notice, with its Retry button, is shown
    latencyView,       \* "shown", "left", or "abandoned": left before its first load ended
    refreshTimer       \* the 15 s interval runs

latencyVars == <<overview, selected, hours, history, historyRequestID, historyLoading, asked,
                 first, loads, loading, failed, latencyView, refreshTimer>>

Callers == {"mount", "load", "click"}
Asked == [id : Nat, path : Paths, hours : Windows, by : Callers]

LatencyTypeOK ==
    /\ overview \in [probes : SUBSET Probes, targets : SUBSET Targets, latest : Seq(Paths)]
    /\ selected \in Paths \cup {None} /\ hours \in Windows
    /\ history \in [path : Paths, hours : Windows] \cup {None}
    /\ historyRequestID \in Nat /\ historyLoading \in BOOLEAN
    /\ asked \subseteq Asked
    /\ first \in {"overview", "history", "done"} /\ loads \in Nat
    /\ loading \in BOOLEAN /\ failed \in BOOLEAN
    /\ latencyView \in {"shown", "left", "abandoned"} /\ refreshTimer \in BOOLEAN

LatencyInit ==
    /\ overview = [probes |-> {}, targets |-> {}, latest |-> <<>>]
    /\ selected = None /\ hours = DefaultWindow /\ history = None
    /\ historyRequestID = 0 /\ historyLoading = FALSE /\ asked = {}
    /\ first = "overview" /\ loads = 0
    /\ loading = TRUE /\ failed = FALSE /\ latencyView = "shown" /\ refreshTimer = FALSE

----------------------------------------------------------------------------
\* loadHistory up to its await: a request of the path and the window selected now.
LoadHistory(path, window, id, by) ==
    /\ historyRequestID' = id
    /\ asked' = asked \cup {[id |-> id, path |-> path, hours |-> window, by |-> by]}
    /\ historyLoading' = TRUE

\* The end of load(): the matrix is shown, and the mount's load starts the interval
\* (whether or not the page is still there).
EndLoad(by) ==
    /\ loading' = FALSE
    /\ first' = IF by = "mount" THEN "done" ELSE first
    /\ refreshTimer' = (refreshTimer \/ by = "mount")

ListedIn(path, o) == path[1] \in o.probes /\ path[2] \in o.targets

\* load() resumed with an overview: a selection that is no longer listed is dropped with
\* its history and the requests made for it, the first result is selected when nothing is.
Resume(o, by) ==
    LET dropped == selected # None /\ ~ListedIn(selected, o)
        kept == IF dropped THEN None ELSE selected
        path == IF kept = None /\ o.latest # <<>> THEN o.latest[1] ELSE kept
        id == IF dropped THEN historyRequestID + 1 ELSE historyRequestID
    IN  /\ overview' = o /\ failed' = FALSE /\ selected' = path
        /\ history' = IF dropped THEN None ELSE history
        /\ IF path # None
           THEN /\ LoadHistory(path, hours, id + 1, by)
                /\ first' = IF by = "mount" THEN "history" ELSE first
                /\ UNCHANGED <<loading, refreshTimer>>
           ELSE /\ historyRequestID' = id /\ EndLoad(by)
                /\ UNCHANGED <<asked, historyLoading>>

TakeLoad(by) ==
    IF by = "mount" THEN first = "overview" /\ UNCHANGED loads
                    ELSE loads > 0 /\ loads' = loads - 1

AnswerOverview(o, by) ==
    /\ TakeLoad(by) /\ Resume(o, by)
    /\ UNCHANGED <<hours, latencyView>>

FailOverview(by) ==
    /\ TakeLoad(by) /\ EndLoad(by) /\ failed' = TRUE
    /\ UNCHANGED <<overview, selected, hours, history, historyRequestID, historyLoading, asked, latencyView>>

\* Fault: an answer is shown whether or not a later request was made.
SettleHistoryUnguarded(r, ok) ==
    /\ asked' = asked \ {r}
    /\ history' = IF ok THEN [path |-> r.path, hours |-> r.hours] ELSE history
    /\ failed' = ~ok /\ historyLoading' = FALSE
    /\ IF r.by = "click" THEN UNCHANGED <<loading, first, refreshTimer>> ELSE EndLoad(r.by)
    /\ UNCHANGED <<overview, selected, hours, historyRequestID, loads, latencyView>>

\* loadHistory resumed: only the latest request may touch the page.  A load that awaited
\* the request ends with it.
SettleHistory(r, ok) ==
    /\ asked' = asked \ {r}
    /\ IF r.id = historyRequestID
       THEN /\ history' = IF ok THEN [path |-> r.path, hours |-> r.hours] ELSE history
            /\ failed' = ~ok
            /\ historyLoading' = FALSE
       ELSE UNCHANGED <<history, failed, historyLoading>>
    /\ IF r.by = "click" THEN UNCHANGED <<loading, first, refreshTimer>> ELSE EndLoad(r.by)
    /\ UNCHANGED <<overview, selected, hours, historyRequestID, loads, latencyView>>

\* The interval's tick, or the Retry button of the error notice.
StartLoad ==
    /\ refreshTimer \/ (latencyView = "shown" /\ failed)
    /\ loads < MaxLoads /\ historyRequestID < MaxRequests
    /\ loads' = loads + 1
    /\ UNCHANGED <<overview, selected, hours, history, historyRequestID, historyLoading, asked,
                   first, loading, failed, latencyView, refreshTimer>>

\* A click on a cell of the matrix that has a result.
SelectPath(path) ==
    /\ latencyView = "shown" /\ ~loading /\ historyRequestID < MaxRequests
    /\ \E i \in DOMAIN overview.latest : overview.latest[i] = path
    /\ selected' = path /\ history' = None
    /\ LoadHistory(path, hours, historyRequestID + 1, "click")
    /\ UNCHANGED <<overview, hours, first, loads, loading, failed, latencyView, refreshTimer>>

\* A click on the window switch, shown beside the history of a selected path.
ChangeWindow(window) ==
    /\ latencyView = "shown" /\ selected # None /\ historyRequestID < MaxRequests
    /\ hours' = window /\ history' = None
    /\ LoadHistory(selected, window, historyRequestID + 1, "click")
    /\ UNCHANGED <<overview, selected, first, loads, loading, failed, latencyView, refreshTimer>>

\* onBeforeUnmount: the interval is cleared, outstanding requests are not.
LeaveLatency ==
    /\ latencyView = "shown" /\ refreshTimer' = FALSE
    /\ latencyView' = IF first = "done" THEN "left" ELSE "abandoned"
    /\ UNCHANGED <<overview, selected, hours, history, historyRequestID, historyLoading, asked,
                   first, loads, loading, failed>>

LatencyAnswers ==
    \/ \E by \in {"mount", "load"} : FailOverview(by) \/ \E o \in Overviews : AnswerOverview(o, by)
    \/ \E r \in asked, ok \in BOOLEAN : SettleHistory(r, ok)

LatencyNext ==
    \/ LatencyAnswers
    \/ StartLoad
    \/ \E path \in Paths : SelectPath(path)
    \/ \E window \in Windows : ChangeWindow(window)
    \/ LeaveLatency

LatencySpec == LatencyInit /\ [][LatencyNext]_latencyVars

----------------------------------------------------------------------------
\* The history and the summary shown are those of the path and of the window that are
\* selected now, whatever requests were outstanding when the visitor clicked, when the
\* matrix was refreshed or when the selection was dropped (the request number that
\* loadHistory compares after its await).
HistoryMatchesSelection ==
    history # None => selected # None /\ history.path = selected /\ history.hours = hours

\* While a path is selected, the busy marker of its history is backed by an outstanding
\* request that is the latest one: it can always be cleared by an answer, although load()
\* retires the request number without touching the marker when it drops a selection.
BusyMeansAsked ==
    selected # None /\ historyLoading => \E r \in asked : r.id = historyRequestID

\* The path whose history is shown is one the matrix lists: the name of either end is
\* never looked up in vain (selectedProbe, selectedTarget), across refreshes that hide a
\* node and answers that arrive out of order.
SelectionIsListed == selected # None => ListedIn(selected, overview)

\* The matrix, the selected path, its history and its busy marker agree, in any order of
\* clicks, refreshes and answers.
LatencyCoherent ==
    LatencyTypeOK /\ HistoryMatchesSelection /\ BusyMeansAsked /\ SelectionIsListed
=============================================================================
