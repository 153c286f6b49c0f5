-------------------------- MODULE PublicPagesProofs --------------------------
(***************************************************************************)
(* The public pages, for any nodes, paths, windows, tabs, language lists   *)
(* and numbers of requests: the latency page shows what is selected, the   *)
(* live store keeps one connection, a tab shows its language, and a page   *)
(* that was left keeps nothing running.  Each part has its own inductive   *)
(* invariant, stated where its proof begins; the last part puts the pages  *)
(* together.                                                               *)
(***************************************************************************)
EXTENDS PublicPages, TLAPS

(***************************************************************************)
(* The latency page.  LatencyCoherent is not inductive by itself: the      *)
(* answer that will be shown is the one whose number is the latest, so the *)
(* strengthening says what an outstanding request with that number asked.  *)
(***************************************************************************)

\* No request has a number above the latest, and one with the latest number is for the
\* path and the window selected now.
RequestsNumbered ==
    \A r \in asked : /\ r.id <= historyRequestID
                     /\ r.id = historyRequestID =>
                          selected # None /\ r.path = selected /\ r.hours = hours

\* The matrix lists results of its own nodes and targets only.
ResultsListed == overview.latest \in Seq(overview.probes \X overview.targets)

LatencyIndInv ==
    /\ LatencyTypeOK /\ ResultsListed /\ RequestsNumbered
    /\ HistoryMatchesSelection /\ BusyMeansAsked /\ SelectionIsListed

\* A result that an overview lists is a path between two nodes it lists.
LEMMA ResultIsListed ==
    ASSUME NEW P, NEW T, NEW s \in Seq(P \X T), NEW i \in DOMAIN s
    PROVE  s[i] \in P \X T /\ s[i][1] \in P /\ s[i][2] \in T
  <1>1. s[i] \in P \X T  OBVIOUS
  <1> QED  BY <1>1

\* A list that is not empty has a first element.
LEMMA FirstExists ==
    ASSUME NEW S, NEW s \in Seq(S), s # <<>>
    PROVE  1 \in DOMAIN s
  OBVIOUS

----------------------------------------------------------------------------
\* The page starts empty, with nothing asked.
LEMMA LatencyInitially == LatencyInit => LatencyIndInv
  <1> SUFFICES ASSUME LatencyInit PROVE LatencyIndInv  OBVIOUS
  <1>1. <<>> \in Seq(Paths) /\ <<>> \in Seq({} \X {})  OBVIOUS
  <1>2. ResultsListed
    <2>1. overview.latest = <<>> /\ overview.probes = {} /\ overview.targets = {}
      BY DEF LatencyInit
    <2> QED  BY <1>1, <2>1 DEF ResultsListed
  <1>3. LatencyTypeOK  BY <1>1, LatencyAssumption, Zenon DEF LatencyInit, LatencyTypeOK
  <1>4. RequestsNumbered /\ HistoryMatchesSelection /\ BusyMeansAsked /\ SelectionIsListed
    BY DEF LatencyInit, RequestsNumbered, HistoryMatchesSelection, BusyMeansAsked, SelectionIsListed
  <1> QED  BY <1>2, <1>3, <1>4 DEF LatencyIndInv

\* A new request, numbered above all others, for the path and the window that are selected
\* from now on.
LEMMA NewRequest ==
    ASSUME LatencyIndInv, NEW path \in Paths, NEW w \in Windows, NEW by \in Callers,
           NEW id \in Nat, id > historyRequestID,
           LoadHistory(path, w, id, by), selected' = path, hours' = w
    PROVE  /\ asked' \subseteq Asked /\ historyRequestID' \in Nat /\ historyLoading' \in BOOLEAN
           /\ RequestsNumbered' /\ BusyMeansAsked'
  <1> DEFINE new == [id |-> id, path |-> path, hours |-> w, by |-> by]
  <1>1. asked' = asked \cup {new} /\ historyRequestID' = id /\ historyLoading' = TRUE
    BY DEF LoadHistory
  <1>2. new \in Asked  BY DEF Asked
  <1>3. asked \subseteq Asked /\ historyRequestID \in Nat  BY DEF LatencyIndInv, LatencyTypeOK
  <1>4. path # None  BY LatencyAssumption
  <1>5. ASSUME NEW r \in asked PROVE r.id < id
    BY <1>3 DEF LatencyIndInv, RequestsNumbered, Asked
  <1>6. RequestsNumbered'
    <2> SUFFICES ASSUME NEW r \in asked'
                 PROVE  /\ r.id <= id
                        /\ r.id = id => path # None /\ r.path = path /\ r.hours = w
      BY <1>1 DEF RequestsNumbered
    <2>1. CASE r \in asked  BY <2>1, <1>3, <1>5 DEF Asked
    <2>2. CASE r = new  BY <2>2, <1>4
    <2> QED  BY <1>1, <2>1, <2>2
  <1>7. BusyMeansAsked'
    <2>1. new \in asked' /\ new.id = historyRequestID'  BY <1>1
    <2> QED  BY <2>1 DEF BusyMeansAsked
  <1> QED  BY <1>1, <1>2, <1>3, <1>6, <1>7

----------------------------------------------------------------------------
\* load() resumed with an overview preserves the invariant: a selection that is dropped
\* takes its history and the number of its requests with it.
LEMMA AnswerOverviewPreserves ==
    ASSUME LatencyIndInv, NEW o \in Overviews, NEW by \in {"mount", "load"}, AnswerOverview(o, by)
    PROVE  LatencyIndInv'
  <1> DEFINE dropped == selected # None /\ ~ListedIn(selected, o)
             kept == IF dropped THEN None ELSE selected
             path == IF kept = None /\ o.latest # <<>> THEN o.latest[1] ELSE kept
             id == IF dropped THEN historyRequestID + 1 ELSE historyRequestID
  <1>1. /\ overview' = o /\ failed' = FALSE /\ selected' = path /\ hours' = hours
        /\ history' = IF dropped THEN None ELSE history
        /\ latencyView' = latencyView
        /\ IF path # None
           THEN /\ LoadHistory(path, hours, id + 1, by)
                /\ first' = IF by = "mount" THEN "history" ELSE first
                /\ UNCHANGED <<loading, refreshTimer>>
           ELSE /\ historyRequestID' = id /\ EndLoad(by)
                /\ UNCHANGED <<asked, historyLoading>>
    BY Zenon DEF AnswerOverview, Resume
  <1>2. LatencyTypeOK /\ RequestsNumbered /\ HistoryMatchesSelection /\ BusyMeansAsked
        /\ SelectionIsListed
    BY DEF LatencyIndInv
  <1>3. /\ o \in [probes : SUBSET Probes, targets : SUBSET Targets, latest : Seq(Paths)]
        /\ o.latest \in Seq(o.probes \X o.targets)
    BY OverviewsAssumption, Zenon
  <1>4. ResultsListed'  BY <1>1, <1>3, Zenon DEF ResultsListed
  <1>5. o.latest # <<>> => o.latest[1] \in Paths /\ ListedIn(o.latest[1], o)
    <2> SUFFICES ASSUME o.latest # <<>> PROVE o.latest[1] \in Paths /\ ListedIn(o.latest[1], o)
      OBVIOUS
    <2>1. 1 \in DOMAIN o.latest  BY <1>3, FirstExists
    <2>2. /\ o.latest[1] \in o.probes \X o.targets
          /\ o.latest[1][1] \in o.probes /\ o.latest[1][2] \in o.targets
      BY <1>3, <2>1, ResultIsListed
    <2>3. o.probes \X o.targets \subseteq Paths  BY <1>3 DEF Paths
    <2> QED  BY <2>2, <2>3 DEF ListedIn
  <1>6. path # None => path \in Paths /\ ListedIn(path, o)
    BY <1>2, <1>5, Zenon DEF LatencyTypeOK
  <1>7. SelectionIsListed'  BY <1>1, <1>6, Zenon DEF SelectionIsListed
  <1>8. HistoryMatchesSelection'
    <2>1. CASE dropped  BY <1>1, <2>1, Zenon DEF HistoryMatchesSelection
    <2>2. CASE ~dropped
      <3>1. selected # None => path = selected  BY <2>2
      <3> QED  BY <1>1, <1>2, <2>2, <3>1, Zenon DEF HistoryMatchesSelection
    <2> QED  BY <2>1, <2>2
  <1>9. loads' \in Nat
    BY <1>2 DEF AnswerOverview, TakeLoad, LatencyTypeOK
  <1>10. id \in Nat /\ id >= historyRequestID  BY <1>2 DEF LatencyTypeOK
  <1>11. /\ asked' \subseteq Asked /\ historyRequestID' \in Nat /\ historyLoading' \in BOOLEAN
         /\ RequestsNumbered' /\ BusyMeansAsked'
    <2>1. CASE path # None
      <3>1. LoadHistory(path, hours, id + 1, by)  BY <1>1, <2>1, Zenon
      <3>2. id + 1 \in Nat /\ id + 1 > historyRequestID  BY <1>2, <1>10, SMTT(30) DEF LatencyTypeOK
      <3>3. hours \in Windows /\ by \in Callers  BY <1>2, Zenon DEF LatencyTypeOK, Callers
      <3>4. selected' = path /\ hours' = hours /\ path \in Paths  BY <1>1, <1>6, <2>1
      <3> HIDE DEF path, id
      <3> QED  BY <3>1, <3>2, <3>3, <3>4, NewRequest
    <2>2. CASE path = None
      <3>1. historyRequestID' = id /\ asked' = asked /\ historyLoading' = historyLoading
        BY <1>1, <2>2, Zenon
      <3>2. BusyMeansAsked'  BY <1>1, <2>2, Zenon DEF BusyMeansAsked
      <3>3. ASSUME NEW r \in asked PROVE r.id < id
        <4>1. r.id \in Nat /\ historyRequestID \in Nat  BY <1>2 DEF LatencyTypeOK, Asked
        <4>2. CASE dropped  BY <1>2, <4>1, <4>2 DEF RequestsNumbered
        <4>3. CASE ~dropped
          <5>1. selected = None  BY <2>2, <4>3, Zenon
          <5>2. r.id # historyRequestID /\ r.id <= historyRequestID
            BY <1>2, <5>1 DEF RequestsNumbered
          <5> QED  BY <4>1, <4>3, <5>2
        <4> QED  BY <4>2, <4>3
      <3>4. RequestsNumbered'
        <4> HIDE DEF id
        <4> SUFFICES ASSUME NEW r \in asked PROVE r.id <= id /\ r.id # id
          BY <3>1 DEF RequestsNumbered
        <4> QED  BY <1>2, <1>10, <3>3 DEF LatencyTypeOK, Asked
      <3>5. historyRequestID' \in Nat  BY <1>10, <3>1, Zenon
      <3>6. asked' \subseteq Asked /\ historyLoading' \in BOOLEAN  BY <1>2, <3>1, Zenon DEF LatencyTypeOK
      <3> QED  BY <3>2, <3>4, <3>5, <3>6
    <2> QED  BY <2>1, <2>2, Zenon
  <1>12. /\ overview' \in [probes : SUBSET Probes, targets : SUBSET Targets, latest : Seq(Paths)]
         /\ selected' \in Paths \cup {None} /\ hours' \in Windows
         /\ history' \in [path : Paths, hours : Windows] \cup {None}
    BY <1>1, <1>2, <1>3, <1>6 DEF LatencyTypeOK
  <1>13. /\ first' \in {"overview", "history", "done"} /\ loading' \in BOOLEAN
         /\ failed' \in BOOLEAN /\ refreshTimer' \in BOOLEAN
         /\ latencyView' \in {"shown", "left", "abandoned"}
    BY <1>1, <1>2, Zenon DEF LatencyTypeOK, EndLoad
  <1>14. LatencyTypeOK'  BY <1>9, <1>11, <1>12, <1>13, Zenon DEF LatencyTypeOK
  <1> QED  BY <1>4, <1>7, <1>8, <1>11, <1>14 DEF LatencyIndInv

\* An answer or a failure of a history request preserves the invariant: the request that is
\* shown is the latest one, made for what is selected, and the busy marker is cleared with it.
LEMMA SettleHistoryPreserves ==
    ASSUME LatencyIndInv, NEW r \in asked, NEW ok \in BOOLEAN, SettleHistory(r, ok)
    PROVE  LatencyIndInv'
  <1>1. LatencyTypeOK /\ RequestsNumbered /\ HistoryMatchesSelection /\ BusyMeansAsked
        /\ SelectionIsListed /\ ResultsListed /\ r \in Asked
    BY Zenon DEF LatencyIndInv, LatencyTypeOK
  <1>2. /\ asked' = asked \ {r} /\ overview' = overview /\ selected' = selected /\ hours' = hours
        /\ historyRequestID' = historyRequestID /\ loads' = loads /\ latencyView' = latencyView
    BY Zenon DEF SettleHistory
  <1>3. ResultsListed' /\ SelectionIsListed' /\ RequestsNumbered'
    BY <1>1, <1>2 DEF ResultsListed, SelectionIsListed, RequestsNumbered
  <1>4. /\ history' \in [path : Paths, hours : Windows] \cup {None}
        /\ failed' \in BOOLEAN /\ historyLoading' \in BOOLEAN
        /\ HistoryMatchesSelection' /\ BusyMeansAsked'
    <2>1. CASE r.id = historyRequestID
      <3>1. /\ history' = IF ok THEN [path |-> r.path, hours |-> r.hours] ELSE history
            /\ failed' = ~ok /\ historyLoading' = FALSE
        BY <2>1, Zenon DEF SettleHistory
      <3>2. selected # None /\ r.path = selected /\ r.hours = hours
        BY <1>1, <2>1 DEF RequestsNumbered
      <3>3. HistoryMatchesSelection' /\ BusyMeansAsked'
        BY <1>1, <1>2, <3>1, <3>2, Zenon DEF HistoryMatchesSelection, BusyMeansAsked
      <3>4. history' \in [path : Paths, hours : Windows] \cup {None}
        BY <1>1, <3>1, Zenon DEF LatencyTypeOK, Asked
      <3>5. failed' \in BOOLEAN /\ historyLoading' \in BOOLEAN  BY <3>1, Zenon
      <3> QED  BY <3>3, <3>4, <3>5
    <2>2. CASE r.id # historyRequestID
      <3>1. history' = history /\ failed' = failed /\ historyLoading' = historyLoading
        BY <2>2, Zenon DEF SettleHistory
      <3>2. HistoryMatchesSelection'  BY <1>1, <1>2, <3>1, Zenon DEF HistoryMatchesSelection
      <3>3. BusyMeansAsked'  BY <1>1, <1>2, <2>2, <3>1 DEF BusyMeansAsked
      <3>4. /\ history' \in [path : Paths, hours : Windows] \cup {None}
            /\ failed' \in BOOLEAN /\ historyLoading' \in BOOLEAN
        BY <1>1, <3>1, Zenon DEF LatencyTypeOK
      <3> QED  BY <3>2, <3>3, <3>4
    <2> QED  BY <2>1, <2>2
  <1>5. /\ loading' \in BOOLEAN /\ first' \in {"overview", "history", "done"}
        /\ refreshTimer' \in BOOLEAN
    BY <1>1, Zenon DEF SettleHistory, EndLoad, LatencyTypeOK
  <1>6. LatencyTypeOK'  BY <1>1, <1>2, <1>4, <1>5, Zenon DEF LatencyTypeOK
  <1> QED  BY <1>3, <1>4, <1>6 DEF LatencyIndInv

\* A click on a cell or on the window switch preserves the invariant: the history of what
\* was selected before is dropped, and the request made is the latest.
LEMMA ClickPreserves ==
    ASSUME LatencyIndInv, NEW path \in Paths, NEW w \in Windows,
           history' = None, selected' = path, hours' = w, ListedIn(path, overview),
           LoadHistory(path, w, historyRequestID + 1, "click"),
           UNCHANGED <<overview, first, loads, loading, failed, latencyView, refreshTimer>>
    PROVE  LatencyIndInv'
  <1>1. LatencyTypeOK /\ ResultsListed  BY Zenon DEF LatencyIndInv
  <1>2. historyRequestID + 1 \in Nat /\ historyRequestID + 1 > historyRequestID /\ "click" \in Callers
    BY <1>1, SMTT(30) DEF LatencyTypeOK, Callers
  <1>3. /\ asked' \subseteq Asked /\ historyRequestID' \in Nat /\ historyLoading' \in BOOLEAN
        /\ RequestsNumbered' /\ BusyMeansAsked'
    BY <1>2, NewRequest, Zenon
  <1>4. ResultsListed' /\ SelectionIsListed' /\ HistoryMatchesSelection'
    BY <1>1, Zenon DEF ResultsListed, SelectionIsListed, HistoryMatchesSelection
  <1>5. LatencyTypeOK'  BY <1>1, <1>3, Zenon DEF LatencyTypeOK
  <1> QED  BY <1>3, <1>4, <1>5, Zenon DEF LatencyIndInv

\* A step that leaves the matrix, the selection, the history and the requests alone
\* preserves the invariant.
LEMMA QuietPreserves ==
    ASSUME LatencyIndInv, LatencyTypeOK',
           UNCHANGED <<overview, selected, hours, history, historyRequestID, historyLoading, asked>>
    PROVE  LatencyIndInv'
  BY Zenon DEF LatencyIndInv, ResultsListed, RequestsNumbered, HistoryMatchesSelection, BusyMeansAsked,
         SelectionIsListed

\* Every step of the page preserves the invariant.
LEMMA LatencyStepPreserves ==
    ASSUME LatencyIndInv, [LatencyNext]_latencyVars
    PROVE  LatencyIndInv'
  <1> USE DEF LatencyIndInv
  <1>1. CASE UNCHANGED latencyVars
    BY <1>1, QuietPreserves, SMTT(30) DEF latencyVars, LatencyTypeOK
  <1>2. ASSUME NEW by \in {"mount", "load"}, FailOverview(by) PROVE LatencyIndInv'
    <2>1. loads' \in Nat  BY <1>2 DEF FailOverview, TakeLoad, LatencyTypeOK
    <2>2. /\ loading' \in BOOLEAN /\ failed' \in BOOLEAN /\ refreshTimer' \in BOOLEAN
          /\ first' \in {"overview", "history", "done"}
      BY <1>2, Zenon DEF FailOverview, EndLoad, LatencyTypeOK
    <2>3. UNCHANGED <<overview, selected, hours, history, historyRequestID, historyLoading, asked,
                      latencyView>>
      BY <1>2 DEF FailOverview
    <2>4. LatencyTypeOK'  BY <2>1, <2>2, <2>3, Zenon DEF LatencyTypeOK
    <2> QED  BY <2>3, <2>4, QuietPreserves, Zenon
  <1>3. ASSUME NEW by \in {"mount", "load"}, NEW o \in Overviews, AnswerOverview(o, by)
        PROVE  LatencyIndInv'
    BY <1>3, AnswerOverviewPreserves, Zenon
  <1>4. ASSUME NEW r \in asked, NEW ok \in BOOLEAN, SettleHistory(r, ok) PROVE LatencyIndInv'
    BY <1>4, SettleHistoryPreserves, Zenon
  <1>5. CASE StartLoad
    <2>1. LatencyTypeOK'  BY <1>5, SMTT(30) DEF StartLoad, LatencyTypeOK
    <2> QED  BY <1>5, <2>1, QuietPreserves, Zenon DEF StartLoad
  <1>6. ASSUME NEW path \in Paths, SelectPath(path) PROVE LatencyIndInv'
    <2>1. PICK i \in DOMAIN overview.latest : overview.latest[i] = path  BY <1>6, Zenon DEF SelectPath
    <2>2. ListedIn(path, overview)  BY <2>1, ResultIsListed, Zenon DEF ResultsListed, ListedIn
    <2>3. hours' = hours /\ hours \in Windows  BY <1>6, Zenon DEF SelectPath, LatencyTypeOK
    <2> QED  BY <1>6, <2>2, <2>3, ClickPreserves, Zenon DEF SelectPath
  <1>7. ASSUME NEW w \in Windows, ChangeWindow(w) PROVE LatencyIndInv'
    <2>1. selected \in Paths /\ ListedIn(selected, overview)
      BY <1>7, Zenon DEF ChangeWindow, LatencyTypeOK, SelectionIsListed
    <2> QED  BY <1>7, <2>1, ClickPreserves, Zenon DEF ChangeWindow
  <1>8. CASE LeaveLatency
    <2>1. LatencyTypeOK'  BY <1>8, Zenon DEF LeaveLatency, LatencyTypeOK
    <2> QED  BY <1>8, <2>1, QuietPreserves, Zenon DEF LeaveLatency
  <1> QED
    BY <1>1, <1>2, <1>3, <1>4, <1>5, <1>6, <1>7, <1>8, Zenon DEF LatencyNext, LatencyAnswers

\* The history, the selection, the matrix and the busy marker of the latency page agree in
\* every reachable state (loadHistory's request number and load's drop of a selection).
THEOREM LatencyAgrees == LatencySpec => []LatencyCoherent
  <1>1. LatencyIndInv => LatencyCoherent  BY DEF LatencyIndInv, LatencyCoherent
  <1> QED  BY <1>1, LatencyInitially, LatencyStepPreserves, PTL DEF LatencySpec

----------------------------------------------------------------------------
(***************************************************************************)
(* The live store of the overview.  A list that is not empty is said by    *)
(* its domain here, since every message maps over the list and keeps its   *)
(* domain.                                                                 *)
(***************************************************************************)

ListKept == socket # 0 /\ ~listFailed => DOMAIN nodes # {}

MonitorIndInv == MonitorTypeOK /\ OneConnection /\ ListKept

\* The store is new and the first load is awaited.
LEMMA MonitorInitially == MonitorInit => MonitorIndInv
  <1> SUFFICES ASSUME MonitorInit PROVE MonitorIndInv  OBVIOUS
  <1> USE DEF MonitorInit
  <1>1. loadsDue \in [Awaiters -> Nat]  OBVIOUS
  <1>2. DOMAIN nodes = {}  BY Zenon DEF NoNodes
  <1>3. MonitorTypeOK
    <2>1. DOMAIN nodes \subseteq Nodes /\ \A n \in DOMAIN nodes : nodes[n] \in Shown  BY <1>2, Zenon
    <2>2. opened \in Nat /\ socket \in 0..opened /\ reconnectTimers \in Nat /\ presenceTimers \in Nat
      OBVIOUS
    <2>3. open \subseteq 1..opened /\ closing \subseteq 1..opened  OBVIOUS
    <2>4. offlineAfterMS \in Thresholds /\ listFailed \in BOOLEAN /\ error \in BOOLEAN
          /\ overviewView \in {"shown", "left", "abandoned"}
      BY MonitorAssumption, Zenon
    <2> QED  BY <1>1, <2>1, <2>2, <2>3, <2>4, Zenon DEF MonitorTypeOK
  <1>4. OneConnection  BY DEF OneConnection
  <1>5. ListKept  BY DEF ListKept
  <1> QED  BY <1>3, <1>4, <1>5 DEF MonitorIndInv

SocketsOK ==
    /\ opened \in Nat /\ socket \in 0..opened
    /\ open \subseteq 1..opened /\ closing \subseteq 1..opened
    /\ reconnectTimers \in Nat /\ presenceTimers \in Nat
    /\ OneConnection

\* connect() releases what the store holds before it opens anything.
LEMMA ConnectKeepsOne ==
    ASSUME SocketsOK, Connect
    PROVE  SocketsOK'
  <1>1. /\ opened' = opened + 1 /\ socket' = opened + 1
        /\ open' = (open \ {socket}) \cup {opened + 1}
        /\ closing' = closing \cup (open \cap {socket})
        /\ reconnectTimers' = Less(reconnectTimers)
        /\ presenceTimers' = Less(presenceTimers) + 1
    BY Zenon DEF Connect
  <1>2. /\ opened \in Nat /\ open \subseteq 1..opened /\ closing \subseteq 1..opened
        /\ reconnectTimers \in 0..1 /\ presenceTimers \in 0..1 /\ open \subseteq {socket}
    BY DEF SocketsOK, OneConnection
  <1>3. Less(reconnectTimers) = 0 /\ Less(presenceTimers) = 0  BY <1>2 DEF Less
  <1>4. open' = {socket'}  BY <1>1, <1>2, Zenon
  <1>5. 1..opened \subseteq 1..(opened + 1) /\ opened + 1 \in 1..(opened + 1)  BY <1>2
  <1>6. open' \subseteq 1..opened' /\ closing' \subseteq 1..opened'  BY <1>1, <1>2, <1>5, Zenon
  <1>7. OneConnection'  BY <1>1, <1>3, <1>4 DEF OneConnection
  <1> QED  BY <1>1, <1>2, <1>3, <1>6, <1>7, SMTT(30) DEF SocketsOK

\* disconnect() releases all there is.
LEMMA DisconnectKeepsOne ==
    ASSUME SocketsOK, Disconnect
    PROVE  SocketsOK' /\ socket' = 0
  <1>1. /\ socket' = 0 /\ opened' = opened
        /\ open' = open \ {socket} /\ closing' = closing \cup (open \cap {socket})
        /\ reconnectTimers' = Less(reconnectTimers) /\ presenceTimers' = Less(presenceTimers)
    BY Zenon DEF Disconnect
  <1>2. /\ opened \in Nat /\ open \subseteq 1..opened /\ closing \subseteq 1..opened
        /\ reconnectTimers \in 0..1 /\ presenceTimers \in 0..1 /\ open \subseteq {socket}
    BY DEF SocketsOK, OneConnection
  <1>3. Less(reconnectTimers) = 0 /\ Less(presenceTimers) = 0  BY <1>2 DEF Less
  <1>4. open' = {} /\ closing' \subseteq 1..opened  BY <1>1, <1>2, Zenon
  <1>5. OneConnection'  BY <1>1, <1>3, <1>4 DEF OneConnection
  <1> QED  BY <1>1, <1>2, <1>3, <1>4, <1>5 DEF SocketsOK

\* A close event schedules a reconnect only for the socket the store holds, when none is
\* scheduled.
LEMMA OnCloseKeepsOne ==
    ASSUME SocketsOK, NEW s, OnClose(s)
    PROVE  SocketsOK' /\ (socket' # 0 => nodes' = nodes)
  <1>1. /\ open' = open \ {s} /\ closing' = closing \ {s} /\ opened' = opened
        /\ presenceTimers' = presenceTimers
        /\ \/ socket = s /\ socket' = 0 /\ reconnectTimers' = reconnectTimers + 1
           \/ socket # s /\ UNCHANGED <<socket, nodes, reconnectTimers>>
    BY Zenon DEF OnClose
  <1>2. /\ opened \in Nat /\ open \subseteq 1..opened /\ closing \subseteq 1..opened
        /\ reconnectTimers \in 0..1 /\ presenceTimers \in 0..1 /\ open \subseteq {socket}
        /\ socket \in 0..opened /\ (socket # 0 => reconnectTimers = 0)
    BY DEF SocketsOK, OneConnection
  <1>3. s \in 1..opened  BY <1>2, Zenon DEF OnClose
  <1>4. CASE socket = s
    <2>1. reconnectTimers = 0  BY <1>2, <1>3, <1>4
    <2>2. /\ open' = {} /\ socket' = 0 /\ 0 \in 0..opened
          /\ reconnectTimers' \in 0..1 /\ presenceTimers' \in 0..1
      BY <1>1, <1>2, <1>4, <2>1
    <2>3. OneConnection'  BY <2>2 DEF OneConnection
    <2>4. open' \subseteq 1..opened' /\ closing' \subseteq 1..opened' /\ opened' \in Nat
          /\ socket' \in 0..opened'
      BY <1>1, <1>2, <2>2, Zenon
    <2> QED  BY <2>2, <2>3, <2>4 DEF SocketsOK
  <1>5. CASE socket # s
    <2>1. UNCHANGED <<socket, nodes, reconnectTimers>>  BY <1>1, <1>5, Zenon
    <2>2. /\ open' \subseteq {socket'} /\ (socket' # 0 => reconnectTimers' = 0)
          /\ reconnectTimers' \in 0..1 /\ presenceTimers' \in 0..1
      BY <1>1, <1>2, <2>1, Zenon
    <2>3. OneConnection'  BY <2>2 DEF OneConnection
    <2>4. open' \subseteq 1..opened' /\ closing' \subseteq 1..opened' /\ opened' \in Nat
          /\ socket' \in 0..opened'
      BY <1>1, <1>2, <2>1, Zenon
    <2> QED  BY <2>1, <2>2, <2>3, <2>4 DEF SocketsOK
  <1> QED  BY <1>4, <1>5

ListOK == DOMAIN nodes \subseteq Nodes /\ \A n \in DOMAIN nodes : nodes[n] \in Shown

\* An answer of GET /public/nodes lists nodes of the site, at least one.
LEMMA AnswersAreLists ==
    ASSUME NEW list \in NodeLists
    PROVE  /\ DOMAIN list # {} /\ DOMAIN list \subseteq Nodes
           /\ \A n \in DOMAIN list : list[n] \in Shown
  <1>1. list \in UNION {[S -> Shown] : S \in (SUBSET Nodes) \ {{}}}  BY Zenon DEF NodeLists
  <1>2. PICK S \in (SUBSET Nodes) \ {{}} : list \in [S -> Shown]  BY <1>1, Zenon
  <1> QED  BY <1>2

\* A load ends: what it leaves is a list, or an empty one when it failed.
LEMMA EndLoadPreserves ==
    ASSUME MonitorIndInv, NEW a \in Awaiters, NEW list, NEW ok \in BOOLEAN,
           ok => /\ DOMAIN list # {} /\ DOMAIN list \subseteq Nodes
                 /\ \A n \in DOMAIN list : list[n] \in Shown,
           EndMonitorLoad(a, list, ok)
    PROVE  MonitorIndInv'
  <1>1. MonitorTypeOK /\ OneConnection /\ SocketsOK
    BY Zenon DEF MonitorIndInv, MonitorTypeOK, SocketsOK
  <1>2. /\ listFailed' = ~ok /\ offlineAfterMS' = offlineAfterMS /\ overviewView' = overviewView
        /\ loadsDue[a] > 0 /\ loadsDue' = [loadsDue EXCEPT ![a] = @ - 1]
        /\ nodes' = IF ok THEN list ELSE IF a = "reconnect" THEN NoNodes ELSE nodes
        /\ error' = (error \/ (a = "mount" /\ ~ok))
        /\ Connect \/ UNCHANGED sockets
    BY Zenon DEF EndMonitorLoad, Continue
  <1>3. SocketsOK'
    <2>1. CASE Connect  BY <1>1, <2>1, ConnectKeepsOne
    <2>2. CASE UNCHANGED sockets  BY <1>1, <2>2, Zenon DEF sockets, SocketsOK, OneConnection
    <2> QED  BY <1>2, <2>1, <2>2, Zenon
  <1>4. loadsDue' \in [Awaiters -> Nat]
    BY <1>1, <1>2, SMTT(30) DEF MonitorTypeOK
  <1>5. ListOK'
    <2>1. DOMAIN NoNodes = {}  BY DEF NoNodes
    <2> QED  BY <1>1, <1>2, <2>1, Zenon DEF ListOK, MonitorTypeOK
  <1>6. ListKept'  BY <1>2, Zenon DEF ListKept
  <1>7. MonitorTypeOK'  BY <1>1, <1>2, <1>3, <1>4, <1>5, Zenon DEF MonitorTypeOK, SocketsOK, ListOK
  <1> QED  BY <1>3, <1>6, <1>7, Zenon DEF MonitorIndInv, SocketsOK

\* A message, a presence refresh or time itself maps over the list.
LEMMA MapPreserves ==
    ASSUME MonitorIndInv, offlineAfterMS' \in Thresholds, ListOK', DOMAIN nodes' = DOMAIN nodes,
           UNCHANGED <<sockets, loadsDue, listFailed, error, overviewView>>
    PROVE  MonitorIndInv'
  <1>1. MonitorTypeOK'  BY Zenon DEF MonitorIndInv, MonitorTypeOK, ListOK, sockets
  <1>2. OneConnection'  BY Zenon DEF MonitorIndInv, OneConnection, sockets
  <1>3. ListKept'  BY Zenon DEF MonitorIndInv, ListKept, sockets
  <1> QED  BY <1>1, <1>2, <1>3, Zenon DEF MonitorIndInv

\* Every step of the store and of the overview preserves the invariant.
LEMMA MonitorStepPreserves ==
    ASSUME MonitorIndInv, [MonitorNext]_monitorVars
    PROVE  MonitorIndInv'
  <1>1. MonitorTypeOK /\ OneConnection /\ SocketsOK /\ ListOK /\ ListKept
    BY Zenon DEF MonitorIndInv, MonitorTypeOK, SocketsOK, ListOK
  <1>2. CASE UNCHANGED monitorVars
    BY <1>1, <1>2, MapPreserves, Zenon DEF monitorVars, sockets, ListOK, MonitorTypeOK
  <1>3. CASE MonitorAnswers
    <2>1. PICK a \in Awaiters : \/ EndMonitorLoad(a, NoNodes, FALSE)
                                \/ \E list \in NodeLists : EndMonitorLoad(a, list, TRUE)
      BY <1>3, Zenon DEF MonitorAnswers
    <2>2. CASE EndMonitorLoad(a, NoNodes, FALSE)  BY <2>2, EndLoadPreserves, Zenon
    <2>3. ASSUME NEW list \in NodeLists, EndMonitorLoad(a, list, TRUE) PROVE MonitorIndInv'
      BY <2>3, AnswersAreLists, EndLoadPreserves, Zenon
    <2> QED  BY <2>1, <2>2, <2>3, Zenon
  <1>4. ASSUME NEW batch, NEW threshold \in Thresholds, \A m \in DOMAIN batch : batch[m] \in Ages,
               ApplySamples(batch, threshold), offlineAfterMS' = threshold,
               UNCHANGED <<sockets, loadsDue, listFailed, error, overviewView>>
        PROVE  MonitorIndInv'
    <2>1. DOMAIN nodes' = DOMAIN nodes  BY <1>4 DEF ApplySamples
    <2>2. ASSUME NEW m \in DOMAIN nodes PROVE nodes'[m] \in Shown
      <3>1. nodes'[m] = IF m \in DOMAIN batch
                        THEN [metric |-> batch[m], online |-> batch[m] < threshold] ELSE nodes[m]
        BY <1>4 DEF ApplySamples
      <3>2. CASE m \in DOMAIN batch
        <4>1. batch[m] \in Ages /\ (batch[m] < threshold) \in BOOLEAN  BY <1>4, <3>2, SMTT(30)
        <4>2. PICK on \in BOOLEAN : on = (batch[m] < threshold)  BY <4>1, Zenon
        <4>3. nodes'[m] = [metric |-> batch[m], online |-> on]  BY <3>1, <3>2, <4>2, Zenon
        <4> QED  BY <4>1, <4>3, SMTT(30) DEF Shown
      <3> QED  BY <1>1, <3>1, <3>2, Zenon DEF ListOK
    <2>3. ListOK'  BY <1>1, <2>1, <2>2, Zenon DEF ListOK
    <2> QED  BY <1>4, <2>1, <2>3, MapPreserves
  <1>5. ASSUME NEW n \in Nodes, NEW age \in Ages, OnSample(n, age) PROVE MonitorIndInv'
    <2> DEFINE one == [m \in {n} |-> age]
    <2>1. \A m \in DOMAIN one : one[m] \in Ages  OBVIOUS
    <2>2. ApplySamples(one, offlineAfterMS) /\ offlineAfterMS \in Thresholds
          /\ UNCHANGED <<offlineAfterMS, sockets, loadsDue, listFailed, error, overviewView>>
      BY <1>1, <1>5, Zenon DEF OnSample, MonitorTypeOK
    <2> HIDE DEF one
    <2> QED  BY <1>4, <2>1, <2>2, Zenon
  <1>6. ASSUME NEW t \in Thresholds, NEW S \in SUBSET Nodes, NEW f \in [S -> Ages], OnSnapshot(t, f)
        PROVE  MonitorIndInv'
    BY <1>4, <1>6 DEF OnSnapshot
  <1>7. ASSUME NEW s, OnClose(s) PROVE MonitorIndInv'
    <2>1. SocketsOK' /\ (socket' # 0 => nodes' = nodes)  BY <1>1, <1>7, OnCloseKeepsOne, Zenon
    <2>2. nodes' = nodes \/ DOMAIN nodes' = {}  BY <1>7, Zenon DEF OnClose, NoNodes
    <2>3. socket' # 0 => socket' = socket  BY <1>7, Zenon DEF OnClose
    <2>4. UNCHANGED <<offlineAfterMS, loadsDue, listFailed, error, overviewView>>  BY <1>7, Zenon DEF OnClose
    <2>5. ListOK' /\ ListKept'  BY <1>1, <2>1, <2>2, <2>3, <2>4, Zenon DEF ListOK, ListKept
    <2>6. MonitorTypeOK'  BY <1>1, <2>1, <2>4, <2>5, Zenon DEF MonitorTypeOK, SocketsOK, ListOK
    <2> QED  BY <2>1, <2>5, <2>6, Zenon DEF MonitorIndInv, SocketsOK
  <1>8. CASE ReconnectFires
    <2>1. loadsDue' \in [Awaiters -> Nat]
      BY <1>1, <1>8, SMTT(30) DEF ReconnectFires, MonitorTypeOK, Awaiters
    <2>2. /\ reconnectTimers' \in 0..1 /\ (socket' # 0 => reconnectTimers' = 0)
          /\ UNCHANGED <<nodes, offlineAfterMS, socket, opened, open, closing, presenceTimers,
                         listFailed, error, overviewView>>
      BY <1>1, <1>8, SMTT(30) DEF ReconnectFires, OneConnection, MonitorTypeOK
    <2>3. MonitorTypeOK'  BY <1>1, <2>1, <2>2, SMTT(30) DEF MonitorTypeOK
    <2>4. OneConnection' /\ ListKept'  BY <1>1, <2>2 DEF OneConnection, ListKept
    <2> QED  BY <2>3, <2>4, Zenon DEF MonitorIndInv
  <1>9. CASE RefreshPresence \/ Tick
    <2>1. /\ DOMAIN nodes' = DOMAIN nodes
          /\ UNCHANGED <<offlineAfterMS, sockets, loadsDue, listFailed, error, overviewView>>
      BY <1>9, Zenon DEF RefreshPresence, Tick
    <2>2. ASSUME NEW n \in DOMAIN nodes PROVE nodes'[n] \in Shown
      <3>1. nodes[n] \in Shown  BY <1>1 DEF ListOK
      <3>2. CASE RefreshPresence
        <4>1. nodes'[n] = [nodes[n] EXCEPT !.online = Online(nodes[n].metric)]
          BY <3>2 DEF RefreshPresence
        <4>2. Online(nodes[n].metric) \in BOOLEAN  BY Zenon DEF Online
        <4> QED  BY <3>1, <4>1, <4>2 DEF Shown
      <3>3. CASE Tick
        <4> DEFINE older == IF nodes[n].metric # NoSample /\ nodes[n].metric < MaxAge
                            THEN nodes[n].metric + 1 ELSE nodes[n].metric
        <4>1. nodes'[n] = [nodes[n] EXCEPT !.metric = older]  BY <3>1, <3>3 DEF Tick, Shown
        <4>2. older \in Ages \cup {NoSample}  BY <3>1, MonitorAssumption, SMTT(30) DEF Shown, Ages
        <4> HIDE DEF older
        <4> QED  BY <3>1, <4>1, <4>2 DEF Shown
      <3> QED  BY <1>9, <3>2, <3>3, Zenon
    <2>3. ListOK'  BY <1>1, <2>1, <2>2, Zenon DEF ListOK
    <2> QED  BY <1>1, <2>1, <2>3, MapPreserves, Zenon DEF MonitorTypeOK
  <1>10. CASE Retry \/ MountOverview
    <2>1. loadsDue' \in [Awaiters -> Nat]
      BY <1>1, <1>10, SMTT(30) DEF Retry, MountOverview, MonitorTypeOK, Awaiters
    <2>2. /\ UNCHANGED <<nodes, offlineAfterMS, sockets, listFailed>> /\ error' \in BOOLEAN
          /\ overviewView' \in {"shown", "left", "abandoned"}
      BY <1>1, <1>10, Zenon DEF Retry, MountOverview, MonitorTypeOK
    <2>3. MonitorTypeOK'  BY <1>1, <2>1, <2>2, Zenon DEF MonitorTypeOK, sockets
    <2>4. OneConnection' /\ ListKept'  BY <1>1, <2>2, Zenon DEF OneConnection, ListKept, sockets
    <2> QED  BY <2>3, <2>4 DEF MonitorIndInv
  <1>11. CASE UnmountOverview
    <2>1. SocketsOK' /\ socket' = 0  BY <1>1, <1>11, DisconnectKeepsOne, Zenon DEF UnmountOverview
    <2>2. /\ UNCHANGED <<nodes, offlineAfterMS, loadsDue, listFailed, error>>
          /\ overviewView' \in {"shown", "left", "abandoned"}
      BY <1>11, Zenon DEF UnmountOverview
    <2>3. MonitorTypeOK'  BY <1>1, <2>1, <2>2, Zenon DEF MonitorTypeOK, SocketsOK
    <2> QED  BY <2>1, <2>3, Zenon DEF MonitorIndInv, ListKept, SocketsOK
  <1> QED
    BY <1>2, <1>3, <1>5, <1>6, <1>7, <1>8, <1>9, <1>10, <1>11, Zenon DEF MonitorNext

\* The overview's store never holds two connections or two timers of a kind, and shows
\* nodes while it is connected unless its last list request failed (connect, disconnect,
\* onclose and the reconnect timeout of monitor.ts).
THEOREM StoreKeepsOneConnection == MonitorSpec => []ConnectionSound
  <1>1. MonitorIndInv => ConnectionSound
    <2>1. DOMAIN NoNodes = {}  BY DEF NoNodes
    <2> QED  BY <2>1 DEF MonitorIndInv, ConnectionSound, ListKept, ConnectedShowsNodes
  <1> QED  BY <1>1, MonitorInitially, MonitorStepPreserves, PTL DEF MonitorSpec

----------------------------------------------------------------------------
(***************************************************************************)
(* The language of the tabs.  What must be added is that a tab is marked   *)
(* explicit exactly when a choice is in force in it, and that the first    *)
(* supported language of any list is a language of the interface.          *)
(***************************************************************************)

LookNames == {"system", "dark", "light"}
TabState == [locale : Locales, explicit : BOOLEAN, look : LookNames, attribute : LookNames]

\* A tab is marked explicit exactly when a choice is in force in it.
ChoiceIsMarked ==
    /\ tab \in [Tabs -> TabState]
    /\ \A t \in Tabs : tab[t].explicit = (chosen[t] # "none")

PreferencesIndInv == LocaleIsRight /\ ChoiceIsMarked

\* Whatever languages a browser lists, the one detected is a language of the interface: the
\* first supported one is supported.
LEMMA DetectedIsOffered ==
    ASSUME NEW list \in LanguageLists
    PROVE  DetectBrowserLocale(list) \in Locales
  <1> DEFINE found == {k \in DOMAIN list : /\ SupportedLocale(list[k]) # "none"
                                         /\ \A j \in 1..(k - 1) : SupportedLocale(list[j]) = "none"}
             at == CHOOSE k \in found : TRUE
  <1>1. CASE found = {}
    BY <1>1, Zenon DEF DetectBrowserLocale, Locales
  <1>2. CASE found # {}
    <2>1. at \in found
      <3> HIDE DEF found
      <3> QED  BY <1>2
    <2>2. SupportedLocale(list[at]) # "none"  BY <2>1
    <2>3. DetectBrowserLocale(list) = SupportedLocale(list[at])
      BY <1>2, Zenon DEF DetectBrowserLocale
    <2> HIDE DEF at
    <2>4. SupportedLocale(list[at]) \in Locales \cup {"none"}  BY DEF SupportedLocale, Locales
    <2> QED  BY <2>2, <2>3, <2>4, Zenon
  <1> QED  BY <1>1, <1>2, Zenon

\* A tab that loads shows the stored choice, or what the browser asks for.
LEMMA LoadedIsRight ==
    ASSUME NEW stored \in Locales \cup {"none"}, NEW look \in LookNames, languages \in LanguageLists
    PROVE  /\ Loaded(stored, look) \in TabState
           /\ Loaded(stored, look).explicit = (stored # "none")
           /\ Loaded(stored, look).locale =
                IF stored # "none" THEN stored ELSE DetectBrowserLocale(languages)
  <1> DEFINE shown == IF stored # "none" THEN stored ELSE DetectBrowserLocale(languages)
  <1>1. shown \in Locales  BY DetectedIsOffered
  <1>2. Loaded(stored, look) =
          [locale |-> shown, explicit |-> stored # "none", look |-> look, attribute |-> look]
    BY DEF Loaded
  <1> HIDE DEF shown
  <1>3. PICK e \in BOOLEAN : e = (stored # "none")  BY Zenon
  <1>4. Loaded(stored, look) \in TabState
    <2>1. Loaded(stored, look) = [locale |-> shown, explicit |-> e, look |-> look, attribute |-> look]
      BY <1>2, <1>3, Zenon
    <2> QED  BY <1>1, <2>1, SMTT(30) DEF TabState
  <1>5. Loaded(stored, look).explicit = (stored # "none") /\ Loaded(stored, look).locale = shown
    BY <1>2, SMTT(30)
  <1> QED  BY <1>4, <1>5, Zenon DEF shown

\* What the invariant says of a tab with this choice in force under these languages.
TabIsRight(state, choice, list) ==
    /\ state \in TabState /\ state.explicit = (choice # "none")
    /\ state.locale = IF choice # "none" THEN choice ELSE DetectBrowserLocale(list)

\* The invariant, tab by tab, before a step ...
LEMMA EveryTabIsRight ==
    ASSUME PreferencesIndInv
    PROVE  /\ languages \in LanguageLists /\ storedLocale \in Locales \cup {"none"}
           /\ storedLook \in LookNames /\ chosen \in [Tabs -> Locales \cup {"none"}]
           /\ tab \in [Tabs -> TabState]
           /\ \A t \in Tabs : TabIsRight(tab[t], chosen[t], languages)
  BY Zenon DEF PreferencesIndInv, LocaleIsRight, PreferencesTypeOK, ChoiceIsMarked, TabIsRight, LookNames

\* ... and after it.
LEMMA TabsStayRight ==
    ASSUME languages' \in LanguageLists, storedLocale' \in Locales \cup {"none"},
           storedLook' \in LookNames, chosen' \in [Tabs -> Locales \cup {"none"}],
           tab' \in [Tabs -> TabState],
           \A t \in Tabs : TabIsRight(tab'[t], chosen'[t], languages')
    PROVE  PreferencesIndInv'
  BY Zenon DEF PreferencesIndInv, LocaleIsRight, PreferencesTypeOK, ChoiceIsMarked, TabIsRight, LookNames,
         TabState

\* All tabs are loaded with what localStorage holds.
LEMMA PreferencesInitially == PreferencesInit => PreferencesIndInv
  <1> SUFFICES ASSUME PreferencesInit PROVE PreferencesIndInv  OBVIOUS
  <1>1. /\ languages \in LanguageLists /\ storedLocale \in Locales \cup {"none"}
        /\ storedLook \in LookNames /\ storedLook = "system"
    BY Zenon DEF PreferencesInit, LookNames
  <1> DEFINE loaded == Loaded(storedLocale, storedLook)
  <1>2. TabIsRight(loaded, storedLocale, languages)  BY <1>1, LoadedIsRight, Zenon DEF TabIsRight
  <1>3. tab = [t \in Tabs |-> loaded] /\ chosen = [t \in Tabs |-> storedLocale]
    BY Zenon DEF PreferencesInit
  <1> HIDE DEF loaded
  <1>4. tab \in [Tabs -> TabState] /\ chosen \in [Tabs -> Locales \cup {"none"}]
    BY <1>1, <1>2, <1>3, Zenon DEF TabIsRight
  <1>5. \A t \in Tabs : TabIsRight(tab[t], chosen[t], languages)  BY <1>2, <1>3, Zenon
  <1> QED
    BY <1>1, <1>4, <1>5, Zenon
    DEF PreferencesIndInv, LocaleIsRight, PreferencesTypeOK, ChoiceIsMarked, TabIsRight, TabState,
        LookNames

\* One tab changes, and what is stored with it.
LEMMA OneTabStaysRight ==
    ASSUME PreferencesIndInv, NEW t \in Tabs, NEW state, NEW choice \in Locales \cup {"none"},
           TabIsRight(state, choice, languages),
           tab' = [tab EXCEPT ![t] = state], chosen' = [chosen EXCEPT ![t] = choice],
           storedLocale' \in {storedLocale, choice}, storedLook' \in LookNames, languages' = languages
    PROVE  PreferencesIndInv'
  <1>1. /\ languages \in LanguageLists /\ storedLocale \in Locales \cup {"none"}
        /\ chosen \in [Tabs -> Locales \cup {"none"}] /\ tab \in [Tabs -> TabState]
        /\ \A u \in Tabs : TabIsRight(tab[u], chosen[u], languages)
    BY EveryTabIsRight, Zenon
  <1>2. state \in TabState  BY Zenon DEF TabIsRight
  <1>3. tab' \in [Tabs -> TabState] /\ chosen' \in [Tabs -> Locales \cup {"none"}]
    BY <1>1, <1>2, Zenon
  <1>4. ASSUME NEW u \in Tabs PROVE TabIsRight(tab'[u], chosen'[u], languages')
    <2>1. CASE u = t  BY <1>1, <2>1, Zenon
    <2>2. CASE u # t  BY <1>1, <2>2, Zenon
    <2> QED  BY <2>1, <2>2, Zenon
  <1> QED  BY <1>1, <1>3, <1>4, TabsStayRight, Zenon

\* A choice marks the tab it is made in, stored or not.
LEMMA SetLocaleKeepsRight ==
    ASSUME PreferencesIndInv, NEW t \in Tabs, NEW v \in Locales, NEW ok \in BOOLEAN, SetLocale(t, v, ok)
    PROVE  PreferencesIndInv'
  <1> DEFINE old == tab[t]
             new == [old EXCEPT !.locale = v, !.explicit = TRUE]
  <1>1. tab \in [Tabs -> TabState] /\ storedLook \in LookNames  BY EveryTabIsRight, Zenon
  <1>2. old \in TabState /\ v # "none"  BY <1>1, Zenon DEF Locales
  <1>3. tab' = [tab EXCEPT ![t] = new]  BY <1>1, Zenon DEF SetLocale
  <1>4. TabIsRight(new, v, languages)
    <2>1. new \in TabState /\ new.locale = v /\ new.explicit = TRUE  BY <1>2, Zenon DEF TabState
    <2>2. new.explicit = (v # "none")  BY <1>2, <2>1, Zenon
    <2> QED  BY <1>2, <2>1, <2>2, Zenon DEF TabIsRight
  <1>5. /\ chosen' = [chosen EXCEPT ![t] = v] /\ storedLocale' \in {storedLocale, v}
        /\ UNCHANGED <<languages, storedLook>>
    BY DEF SetLocale
  <1> HIDE DEF new
  <1> QED  BY <1>1, <1>3, <1>4, <1>5, OneTabStaysRight, Zenon

\* Another appearance leaves the language and its mark alone.
LEMMA CycleKeepsRight ==
    ASSUME PreferencesIndInv, NEW t \in Tabs, NEW ok \in BOOLEAN, CycleAppearance(t, ok)
    PROVE  PreferencesIndInv'
  <1> DEFINE old == tab[t]
             at == CHOOSE k \in 1..3 : Looks[k] = old.look
             next == Looks[(at % 3) + 1]
             kept == IF ok THEN next ELSE old.attribute
             new == [old EXCEPT !.look = next, !.attribute = kept]
  <1>1. /\ tab \in [Tabs -> TabState] /\ chosen \in [Tabs -> Locales \cup {"none"}]
        /\ storedLook \in LookNames /\ TabIsRight(old, chosen[t], languages)
    BY EveryTabIsRight, Zenon
  <1>2. old \in TabState  BY <1>1, Zenon
  <1>3. next \in LookNames
    <2>1. old.look \in {"system", "dark", "light"}  BY <1>2, Zenon DEF TabState, LookNames
    <2>2. \E k \in 1..3 : Looks[k] = old.look
      <3>1. Looks[1] = "system" /\ Looks[2] = "dark" /\ Looks[3] = "light"  BY DEF Looks
      <3>2. 1 \in 1..3 /\ 2 \in 1..3 /\ 3 \in 1..3  OBVIOUS
      <3> QED  BY <2>1, <3>1, <3>2, Zenon
    <2>3. at \in 1..3  BY <2>2, Zenon
    <2> HIDE DEF at
    <2>4. at = 1 \/ at = 2 \/ at = 3  BY <2>3
    <2>5. (1 % 3) + 1 = 2 /\ (2 % 3) + 1 = 3 /\ (3 % 3) + 1 = 1  BY SMTT(30)
    <2> QED  BY <2>4, <2>5 DEF Looks, LookNames
  <1> HIDE DEF next
  <1>4. kept \in LookNames  BY <1>2, <1>3, Zenon DEF TabState
  <1>5. tab' = [tab EXCEPT ![t] = new]
    <2>1. tab' = [tab EXCEPT ![t].look = next, ![t].attribute = IF ok THEN next ELSE @]
      BY Zenon DEF CycleAppearance, next
    <2>2. tab' = [tab EXCEPT ![t] = [[old EXCEPT !.look = next] EXCEPT !.attribute =
                                       IF ok THEN next ELSE [old EXCEPT !.look = next].attribute]]
      BY <1>1, <2>1, Zenon
    <2>3. [old EXCEPT !.look = next].attribute = old.attribute  BY <1>2 DEF TabState
    <2> QED  BY <2>2, <2>3
  <1>6. storedLook' \in LookNames /\ UNCHANGED <<languages, storedLocale, chosen>>
    BY <1>1, <1>3 DEF CycleAppearance, next
  <1> HIDE DEF kept
  <1>7. new \in TabState /\ new.locale = old.locale /\ new.explicit = old.explicit
    BY <1>2, <1>3, <1>4, Zenon DEF TabState
  <1> HIDE DEF new
  <1>8. TabIsRight(new, chosen[t], languages)  BY <1>1, <1>7, Zenon DEF TabIsRight
  <1>9. chosen' = [chosen EXCEPT ![t] = chosen[t]] /\ chosen[t] \in Locales \cup {"none"}
    BY <1>1, <1>6, Zenon
  <1> QED  BY <1>5, <1>6, <1>8, <1>9, OneTabStaysRight, Zenon

\* A tab is loaded again.
LEMMA ReloadKeepsRight ==
    ASSUME PreferencesIndInv, NEW t \in Tabs, Reload(t)
    PROVE  PreferencesIndInv'
  <1> DEFINE new == Loaded(storedLocale, storedLook)
  <1>1. /\ languages \in LanguageLists /\ storedLocale \in Locales \cup {"none"}
        /\ storedLook \in LookNames
    BY EveryTabIsRight, Zenon
  <1>2. TabIsRight(new, storedLocale, languages)  BY <1>1, LoadedIsRight, Zenon DEF TabIsRight
  <1>3. /\ tab' = [tab EXCEPT ![t] = new] /\ chosen' = [chosen EXCEPT ![t] = storedLocale]
        /\ UNCHANGED <<languages, storedLocale, storedLook>>
    BY Zenon DEF Reload
  <1> HIDE DEF new
  <1> QED  BY <1>1, <1>2, <1>3, OneTabStaysRight, Zenon

\* The languages of the browser change: the tabs without a choice follow.
LEMMA LanguageChangeKeepsRight ==
    ASSUME PreferencesIndInv, NEW list \in LanguageLists, LanguageChange(list)
    PROVE  PreferencesIndInv'
  <1>1. /\ storedLocale \in Locales \cup {"none"} /\ storedLook \in LookNames
        /\ chosen \in [Tabs -> Locales \cup {"none"}] /\ tab \in [Tabs -> TabState]
        /\ \A t \in Tabs : TabIsRight(tab[t], chosen[t], languages)
    BY EveryTabIsRight, Zenon
  <1> DEFINE detected == DetectBrowserLocale(list)
             Synced(s) == IF s.explicit THEN s ELSE [s EXCEPT !.locale = detected]
  <1>2. detected \in Locales  BY DetectedIsOffered
  <1>3. languages' = list /\ UNCHANGED <<storedLocale, storedLook, chosen>>  BY DEF LanguageChange
  <1>4. tab' = [t \in Tabs |-> Synced(tab[t])]  BY DEF LanguageChange
  <1>5. ASSUME NEW t \in Tabs PROVE TabIsRight(Synced(tab[t]), chosen[t], list)
    <2> DEFINE s == tab[t]
    <2>1. s \in TabState /\ s.explicit = (chosen[t] # "none") /\ TabIsRight(s, chosen[t], languages)
      BY <1>1, Zenon
      DEF TabIsRight
    <2>2. CASE chosen[t] # "none"
      <3>1. s.explicit = TRUE  BY <2>1, <2>2, Zenon
      <3>2. Synced(s) = s  BY <3>1
      <3> QED  BY <2>1, <2>2, <3>2, Zenon DEF TabIsRight
    <2>3. CASE chosen[t] = "none"
      <3> HIDE DEF detected
      <3>1. s.explicit = FALSE  BY <2>1, <2>3, Zenon
      <3>2. Synced(s) = [locale |-> detected, explicit |-> s.explicit, look |-> s.look,
                         attribute |-> s.attribute]
        BY <2>1, <3>1 DEF TabState
      <3>3. Synced(s) \in TabState /\ Synced(s).explicit = s.explicit /\ Synced(s).locale = detected
        BY <1>2, <2>1, <3>2 DEF TabState
      <3> QED  BY <2>1, <2>3, <3>3 DEF TabIsRight, detected
    <2> QED  BY <2>2, <2>3
  <1>6. tab' \in [Tabs -> TabState]  BY <1>4, <1>5 DEF TabIsRight
  <1>7. \A t \in Tabs : TabIsRight(tab'[t], chosen'[t], languages')  BY <1>3, <1>4, <1>5
  <1> QED  BY <1>1, <1>3, <1>6, <1>7, TabsStayRight, Zenon

\* Every step of a tab or of the browser preserves the invariant.
LEMMA PreferencesStep ==
    ASSUME PreferencesIndInv, [PreferencesNext]_prefVars
    PROVE  PreferencesIndInv'
  <1>1. CASE UNCHANGED prefVars
    BY <1>1, Zenon DEF prefVars, PreferencesIndInv, LocaleIsRight, PreferencesTypeOK, ChoiceIsMarked
  <1>2. ASSUME NEW t \in Tabs, NEW ok \in BOOLEAN, CycleAppearance(t, ok) PROVE PreferencesIndInv'
    BY <1>2, CycleKeepsRight, Zenon
  <1>3. ASSUME NEW t \in Tabs, NEW ok \in BOOLEAN, NEW v \in Locales, SetLocale(t, v, ok)
        PROVE  PreferencesIndInv'
    BY <1>3, SetLocaleKeepsRight, Zenon
  <1>4. ASSUME NEW t \in Tabs, Reload(t) PROVE PreferencesIndInv'
    BY <1>4, ReloadKeepsRight
  <1>5. ASSUME NEW list \in LanguageLists, LanguageChange(list) PROVE PreferencesIndInv'
    BY <1>5, LanguageChangeKeepsRight
  <1> QED  BY <1>1, <1>2, <1>3, <1>4, <1>5, Zenon DEF PreferencesNext

\* A tab shows the language chosen in it, or without a choice the one the browser asks for
\* (setLocale, syncLocaleWithBrowser and detectBrowserLocale of i18n.ts).
THEOREM TabsShowTheirLanguage == PreferencesSpec => []LocaleIsRight
  <1>1. PreferencesIndInv => LocaleIsRight  BY DEF PreferencesIndInv
  <1> QED  BY <1>1, PreferencesInitially, PreferencesStep, PTL DEF PreferencesSpec

----------------------------------------------------------------------------
(***************************************************************************)
(* Leaving a page.  A page that was left has no load outstanding whose     *)
(* continuation would open something: the strengthening counts them.       *)
(***************************************************************************)

\* The overview that was left awaits neither its first load nor a reconnect's.
OverviewReleased ==
    overviewView = "left" =>
      /\ open = {} /\ socket = 0 /\ reconnectTimers = 0 /\ presenceTimers = 0
      /\ loadsDue["mount"] = 0 /\ loadsDue["reconnect"] = 0

\* At most one history request is the mount's, and only while the mount awaits it.
MountAwaitsOne ==
    /\ \A r \in asked : r.by = "mount" => first = "history"
    /\ \A q, r \in asked : q.by = "mount" /\ r.by = "mount" => q = r

LatencyReleased == latencyView = "left" => first = "done" /\ refreshTimer = FALSE

NodeReleased == nodeView = "left" => firstDue = FALSE /\ nodeSocket # "open" /\ nodeTimers = FALSE

LeftIndInv ==
    /\ MonitorIndInv /\ OverviewReleased
    /\ MountAwaitsOne /\ LatencyReleased
    /\ NodeTypeOK /\ NodeReleased

\* Every page is new.
LEMMA LeftInitially == PagesInit => LeftIndInv
  <1> SUFFICES ASSUME PagesInit PROVE LeftIndInv  OBVIOUS
  <1>1. MonitorInit /\ LatencyInit /\ NodeInit  BY DEF PagesInit
  <1>2. MonitorIndInv  BY <1>1, MonitorInitially
  <1>3. OverviewReleased  BY <1>1, Zenon DEF MonitorInit, OverviewReleased
  <1>4. MountAwaitsOne /\ LatencyReleased  BY <1>1, Zenon DEF LatencyInit, MountAwaitsOne, LatencyReleased
  <1>5. NodeReleased  BY <1>1 DEF NodeInit, NodeReleased
  <1>6. NodeTypeOK
    <2>1. 0 \in 0..MaxDue /\ 0 \in 0..MaxFailures  BY NodePageAssumption
    <2>2. due \in [Hours -> 0..MaxDue]  BY <1>1, <2>1, Zenon DEF NodeInit
    <2> QED  BY <1>1, <2>1, <2>2, NodePageAssumption, Zenon DEF NodeInit, NodeTypeOK
  <1> QED  BY <1>2, <1>3, <1>4, <1>5, <1>6 DEF LeftIndInv

\* A step of the store: once the overview is left only a close event and the answer to a
\* Retry are to come, and neither opens anything.
LEMMA OverviewStaysReleased ==
    ASSUME MonitorIndInv, OverviewReleased, [MonitorNext]_monitorVars
    PROVE  OverviewReleased'
  <1>1. MonitorTypeOK /\ OneConnection  BY DEF MonitorIndInv
  <1>2. loadsDue \in [Awaiters -> Nat]  BY <1>1, Zenon DEF MonitorTypeOK
  <1>3. CASE UNCHANGED monitorVars  BY <1>3, Zenon DEF monitorVars, OverviewReleased
  <1>4. ASSUME NEW a \in Awaiters, NEW list, NEW ok \in BOOLEAN, EndMonitorLoad(a, list, ok)
        PROVE  OverviewReleased'
    <2> SUFFICES ASSUME overviewView = "left"
                 PROVE  /\ UNCHANGED sockets
                        /\ loadsDue'["mount"] = 0 /\ loadsDue'["reconnect"] = 0
      BY <1>4, Zenon DEF OverviewReleased, EndMonitorLoad, sockets
    <2>1. loadsDue["mount"] = 0 /\ loadsDue["reconnect"] = 0  BY Zenon DEF OverviewReleased
    <2>2. a = "retry"
      <3>1. loadsDue[a] > 0  BY <1>4, Zenon DEF EndMonitorLoad
      <3> QED  BY <2>1, <3>1 DEF Awaiters
    <2>3. UNCHANGED sockets  BY <1>4, <2>2, Zenon DEF EndMonitorLoad, Continue
    <2>4. loadsDue' = [loadsDue EXCEPT !["retry"] = @ - 1]  BY <1>4, <2>2, Zenon DEF EndMonitorLoad
    <2> QED  BY <1>2, <2>1, <2>3, <2>4, Zenon DEF Awaiters
  <1>5. CASE MonitorAnswers  BY <1>4, <1>5, Zenon DEF MonitorAnswers
  <1>6. ASSUME NEW s \in open \cup closing, OnClose(s) PROVE OverviewReleased'
    <2>1. s # 0  BY <1>1, SMTT(30) DEF MonitorTypeOK
    <2> SUFFICES ASSUME overviewView = "left"
                 PROVE  /\ open' = {} /\ socket' = 0 /\ reconnectTimers' = 0 /\ presenceTimers' = 0
                        /\ loadsDue'["mount"] = 0 /\ loadsDue'["reconnect"] = 0
      BY <1>6, Zenon DEF OverviewReleased, OnClose
    <2>2. /\ open = {} /\ socket = 0 /\ reconnectTimers = 0 /\ presenceTimers = 0
          /\ loadsDue["mount"] = 0 /\ loadsDue["reconnect"] = 0
      BY Zenon DEF OverviewReleased
    <2> QED  BY <1>6, <2>1, <2>2, Zenon DEF OnClose
  <1>7. CASE ReconnectFires  BY <1>1, <1>7, SMTT(30) DEF ReconnectFires, OverviewReleased
  <1>8. CASE RefreshPresence \/ Tick  BY <1>8 DEF RefreshPresence, Tick, sockets, OverviewReleased
  <1>9. ASSUME NEW n \in Nodes, NEW age \in Ages, OnSample(n, age) PROVE OverviewReleased'
    BY <1>9, Zenon DEF OnSample, sockets, OverviewReleased
  <1>10. ASSUME NEW t \in Thresholds, NEW f, OnSnapshot(t, f) PROVE OverviewReleased'
    BY <1>10, Zenon DEF OnSnapshot, sockets, OverviewReleased
  <1>11. CASE Retry \/ MountOverview
    BY <1>11, Zenon DEF Retry, MountOverview, OverviewReleased
  <1>12. CASE UnmountOverview
    <2> SUFFICES ASSUME overviewView' = "left"
                 PROVE  /\ open' = {} /\ socket' = 0 /\ reconnectTimers' = 0 /\ presenceTimers' = 0
                        /\ loadsDue'["mount"] = 0 /\ loadsDue'["reconnect"] = 0
      BY Zenon DEF OverviewReleased
    <2>1. ~(loadsDue["mount"] + loadsDue["reconnect"] > 0) /\ Disconnect /\ loadsDue' = loadsDue
      BY <1>12, Zenon DEF UnmountOverview
    <2>2. loadsDue["mount"] = 0 /\ loadsDue["reconnect"] = 0
      <3>1. loadsDue["mount"] \in Nat /\ loadsDue["reconnect"] \in Nat  BY <1>2 DEF Awaiters
      <3> QED  BY <2>1, <3>1
    <2>3. open \subseteq {socket} /\ reconnectTimers \in 0..1 /\ presenceTimers \in 0..1
      BY <1>1, SMTT(30) DEF MonitorTypeOK, OneConnection
    <2>4. open' = {} /\ socket' = 0  BY <2>1, <2>3, Zenon DEF Disconnect
    <2>5. reconnectTimers' = 0 /\ presenceTimers' = 0  BY <2>1, <2>3 DEF Disconnect, Less
    <2> QED  BY <2>1, <2>2, <2>4, <2>5, Zenon
  <1> QED  BY <1>3, <1>5, <1>6, <1>7, <1>8, <1>9, <1>10, <1>11, <1>12, Zenon DEF MonitorNext

\* A step of the latency page: its interval is started by the load of the mount only.
LEMMA LatencyStaysReleased ==
    ASSUME MountAwaitsOne, LatencyReleased, [LatencyNext]_latencyVars
    PROVE  MountAwaitsOne' /\ LatencyReleased'
  <1>1. CASE UNCHANGED latencyVars  BY <1>1, Zenon DEF latencyVars, MountAwaitsOne, LatencyReleased
  <1>2. ASSUME NEW by \in {"mount", "load"}, FailOverview(by)
        PROVE  MountAwaitsOne' /\ LatencyReleased'
    <2>1. asked' = asked /\ latencyView' = latencyView /\ (by = "mount" => first = "overview")
          /\ first' = (IF by = "mount" THEN "done" ELSE first)
          /\ (by = "load" => refreshTimer' = (refreshTimer \/ FALSE))
      BY <1>2, Zenon DEF FailOverview, TakeLoad, EndLoad
    <2>2. MountAwaitsOne'  BY <2>1, Zenon DEF MountAwaitsOne
    <2>3. LatencyReleased'  BY <2>1, Zenon DEF LatencyReleased
    <2> QED  BY <2>2, <2>3
  <1>3. ASSUME NEW by \in {"mount", "load"}, NEW o \in Overviews, AnswerOverview(o, by)
        PROVE  MountAwaitsOne' /\ LatencyReleased'
    <2>1. latencyView' = latencyView /\ (by = "mount" => first = "overview")
      BY <1>3, Zenon DEF AnswerOverview, TakeLoad
    <2>2. \/ /\ asked' = asked /\ first' = (IF by = "mount" THEN "done" ELSE first)
             /\ refreshTimer' = (refreshTimer \/ by = "mount")
          \/ /\ \E r : asked' = asked \cup {r} /\ r.by = by
             /\ first' = (IF by = "mount" THEN "history" ELSE first) /\ refreshTimer' = refreshTimer
      <3> DEFINE dropped == selected # None /\ ~ListedIn(selected, o)
                 kept == IF dropped THEN None ELSE selected
                 path == IF kept = None /\ o.latest # <<>> THEN o.latest[1] ELSE kept
                 number == (IF dropped THEN historyRequestID + 1 ELSE historyRequestID) + 1
                 request == [id |-> number, path |-> path, hours |-> hours, by |-> by]
      <3>1. CASE path # None
        <4>1. /\ asked' = asked \cup {request}
              /\ first' = (IF by = "mount" THEN "history" ELSE first) /\ refreshTimer' = refreshTimer
          BY <1>3, <3>1, Zenon DEF AnswerOverview, Resume, LoadHistory
        <4>2. request.by = by  BY Zenon
        <4> HIDE DEF request
        <4> QED  BY <4>1, <4>2, Zenon
      <3>2. CASE path = None
        BY <1>3, <3>2, Zenon DEF AnswerOverview, Resume, EndLoad
      <3> HIDE DEF path
      <3> QED  BY <3>1, <3>2, Zenon
    <2>3. MountAwaitsOne'  BY <2>1, <2>2, Zenon DEF MountAwaitsOne
    <2>4. LatencyReleased'  BY <2>1, <2>2, Zenon DEF LatencyReleased
    <2> QED  BY <2>3, <2>4
  <1>4. ASSUME NEW r \in asked, NEW ok \in BOOLEAN, SettleHistory(r, ok)
        PROVE  MountAwaitsOne' /\ LatencyReleased'
    <2>1. asked' = asked \ {r} /\ latencyView' = latencyView  BY <1>4, Zenon DEF SettleHistory
    <2>2. \/ UNCHANGED <<first, refreshTimer>> /\ r.by # "mount"
          \/ r.by # "mount" /\ first' = first /\ refreshTimer' = (refreshTimer \/ FALSE)
          \/ r.by = "mount" /\ first' = "done"
      BY <1>4, Zenon DEF SettleHistory, EndLoad
    <2>3. MountAwaitsOne'  BY <2>1, <2>2, Zenon DEF MountAwaitsOne
    <2>4. LatencyReleased'  BY <2>1, <2>2, Zenon DEF LatencyReleased, MountAwaitsOne
    <2> QED  BY <2>3, <2>4
  <1>5. CASE StartLoad  BY <1>5, Zenon DEF StartLoad, MountAwaitsOne, LatencyReleased
  <1>6. ASSUME asked' = asked \/ \E r : asked' = asked \cup {r} /\ r.by = "click",
               UNCHANGED <<first, latencyView, refreshTimer>>
        PROVE  MountAwaitsOne' /\ LatencyReleased'
    BY <1>6, Zenon DEF MountAwaitsOne, LatencyReleased
  <1>7. ASSUME NEW path \in Paths, SelectPath(path) PROVE MountAwaitsOne' /\ LatencyReleased'
    BY <1>6, <1>7, SMTT(30) DEF SelectPath, LoadHistory
  <1>8. ASSUME NEW w \in Windows, ChangeWindow(w) PROVE MountAwaitsOne' /\ LatencyReleased'
    BY <1>6, <1>8, SMTT(30) DEF ChangeWindow, LoadHistory
  <1>9. CASE LeaveLatency  BY <1>9, Zenon DEF LeaveLatency, MountAwaitsOne, LatencyReleased
  <1> QED
    BY <1>1, <1>2, <1>3, <1>4, <1>5, <1>7, <1>8, <1>9, Zenon DEF LatencyNext, LatencyAnswers

\* A load of a node page ends.
LEMMA ShownNodeIsTyped ==
    ASSUME NodeTypeOK, NEW h \in Hours, NEW a \in NodeAnswers, NEW ok \in BOOLEAN,
           ShowNode(h, a[1], a[2], ok)
    PROVE  /\ shownWindow' \in Hours \cup {0} /\ metric' \in {"none", "fresh", "old"}
           /\ online' \in BOOLEAN /\ nodeFailed' \in BOOLEAN /\ failures' \in 0..MaxFailures
  <1>1. a[1] \in {"none", "fresh", "old"} /\ a[2] \in BOOLEAN
    <2>1. a = <<"none", FALSE>> \/ a = <<"fresh", TRUE>> \/ a = <<"old", TRUE>> \/ a = <<"old", FALSE>>
      BY Zenon DEF NodeAnswers
    <2>2. CASE a = <<"none", FALSE>>  BY <2>2, Zenon
    <2>3. CASE a = <<"fresh", TRUE>>  BY <2>3, Zenon
    <2>4. CASE a = <<"old", TRUE>>  BY <2>4, Zenon
    <2>5. CASE a = <<"old", FALSE>>  BY <2>5, Zenon
    <2> QED  BY <2>1, <2>2, <2>3, <2>4, <2>5, Zenon
  <1>2. shownWindow \in Hours \cup {0} /\ metric \in {"none", "fresh", "old"} /\ online \in BOOLEAN
    BY Zenon DEF NodeTypeOK
  <1>3. failures \in 0..MaxFailures  BY Zenon DEF NodeTypeOK
  <1>4. CASE ok = TRUE
    <2>1. nodeFailed' = FALSE /\ failures' = failures /\ shownWindow' = h /\ metric' = a[1]
          /\ online' = a[2]
      BY <1>4, Zenon DEF ShowNode
    <2> QED  BY <1>1, <1>3, <2>1, Zenon
  <1>5. CASE ok = FALSE
    <2>1. nodeFailed' = TRUE /\ UNCHANGED <<shownWindow, metric, online>>  BY <1>5, Zenon DEF ShowNode
    <2>2. failures' = failures + 1 /\ failures < MaxFailures  BY <1>5 DEF ShowNode
    <2>3. failures' \in 0..MaxFailures  BY <1>3, <2>2, NodePageAssumption
    <2> QED  BY <1>2, <2>1, <2>3, Zenon
  <1> QED  BY <1>4, <1>5, Zenon

\* One more load of a window, or one less.
LEMMA DueIsTyped ==
    ASSUME NodeTypeOK, NEW h \in Hours,
           \/ due[h] < MaxDue /\ due' = [due EXCEPT ![h] = @ + 1]
           \/ due[h] > 0 /\ due' = [due EXCEPT ![h] = @ - 1]
    PROVE  due' \in [Hours -> 0..MaxDue]
  <1>1. due \in [Hours -> 0..MaxDue] /\ due[h] \in 0..MaxDue  BY Zenon DEF NodeTypeOK
  <1>2. due[h] < MaxDue => due[h] + 1 \in 0..MaxDue  BY <1>1, NodePageAssumption
  <1>3. due[h] > 0 => due[h] - 1 \in 0..MaxDue  BY <1>1, NodePageAssumption
  <1> QED  BY <1>1, <1>2, <1>3, Zenon

\* A step of a node page: the socket and the intervals are opened by its first load only.
LEMMA NodeStaysReleased ==
    ASSUME NodeTypeOK, NodeReleased, [NodeNext]_nodeVars
    PROVE  NodeTypeOK' /\ NodeReleased'
  <1>1. CASE UNCHANGED nodeVars  BY <1>1, SMTT(30) DEF nodeVars, NodeTypeOK, NodeReleased
  <1>2. ASSUME NEW a \in NodeAnswers, NEW ok \in BOOLEAN,
               NodeMounted(a[1], a[2], ok) \/ ShareMounted(a[1], a[2], ok)
        PROVE  NodeTypeOK' /\ NodeReleased'
    <2>1. /\ firstDue = TRUE /\ firstDue' = FALSE /\ ShowNode(FirstHours, a[1], a[2], ok)
          /\ UNCHANGED <<route, window, due, nodeView>>
          /\ nodeSocket' \in {"none", "open"} /\ nodeTimers' \in {nodeTimers, TRUE}
      BY <1>2, Zenon DEF NodeMounted, ShareMounted, NodeTypeOK
    <2>2. /\ shownWindow' \in Hours \cup {0} /\ metric' \in {"none", "fresh", "old"}
          /\ online' \in BOOLEAN /\ nodeFailed' \in BOOLEAN /\ failures' \in 0..MaxFailures
      BY <2>1, ShownNodeIsTyped, NodePageAssumption, Zenon
    <2>3. NodeTypeOK'  BY <2>1, <2>2, Zenon DEF NodeTypeOK
    <2>4. NodeReleased'  BY <2>1, Zenon DEF NodeReleased
    <2> QED  BY <2>3, <2>4
  <1>3. ASSUME NEW h \in Hours, NEW a \in NodeAnswers, NEW ok \in BOOLEAN,
               Reloaded(h, a[1], a[2], ok)
        PROVE  NodeTypeOK' /\ NodeReleased'
    <2>1. /\ ShowNode(h, a[1], a[2], ok) /\ due[h] > 0 /\ due' = [due EXCEPT ![h] = @ - 1]
          /\ UNCHANGED <<route, window, firstDue, nodeSocket, nodeTimers, nodeView>>
      BY <1>3, Zenon DEF Reloaded
    <2>2. /\ shownWindow' \in Hours \cup {0} /\ metric' \in {"none", "fresh", "old"}
          /\ online' \in BOOLEAN /\ nodeFailed' \in BOOLEAN /\ failures' \in 0..MaxFailures
      BY <2>1, ShownNodeIsTyped, Zenon
    <2>3. due' \in [Hours -> 0..MaxDue]  BY <2>1, DueIsTyped, Zenon
    <2>4. NodeTypeOK'  BY <2>1, <2>2, <2>3, Zenon DEF NodeTypeOK
    <2>5. NodeReleased'  BY <2>1, Zenon DEF NodeReleased
    <2> QED  BY <2>4, <2>5
  <1>4. ASSUME NEW h \in Hours, window' \in {window, h}, due[h] < MaxDue, StartNodeLoad(h),
               UNCHANGED <<route, shownWindow, firstDue, failures, metric, online, nodeSocket,
                           nodeTimers, nodeView>>
        PROVE  NodeTypeOK' /\ NodeReleased'
    <2>1. due' = [due EXCEPT ![h] = @ + 1] /\ nodeFailed' = FALSE  BY <1>4, Zenon DEF StartNodeLoad
    <2>2. due' \in [Hours -> 0..MaxDue]  BY <1>4, <2>1, DueIsTyped, Zenon
    <2>3. window' \in Hours  BY <1>4, Zenon DEF NodeTypeOK
    <2>4. NodeTypeOK'  BY <1>4, <2>1, <2>2, <2>3, Zenon DEF NodeTypeOK
    <2>5. NodeReleased'  BY <1>4, Zenon DEF NodeReleased
    <2> QED  BY <2>4, <2>5
  <1>5. ASSUME NEW h \in Hours, ChangeNodeWindow(h) PROVE NodeTypeOK' /\ NodeReleased'
    BY <1>4, <1>5, Zenon DEF ChangeNodeWindow
  <1>6. CASE RefreshNode
    <2>1. window \in Hours  BY Zenon DEF NodeTypeOK
    <2> QED  BY <1>4, <1>6, <2>1, Zenon DEF RefreshNode
  <1>7. CASE NodePresence \/ AgeSample \/ \E m \in {"fresh", "old"} : OnNodeSample(m)
    <2>1. /\ UNCHANGED <<route, window, shownWindow, due, firstDue, failures, nodeFailed,
                         nodeSocket, nodeTimers, nodeView>>
          /\ metric' \in {metric, "fresh", "old"}
      BY <1>7, Zenon DEF NodePresence, AgeSample, OnNodeSample
    <2>2. online' \in BOOLEAN  BY <1>7, Zenon DEF NodePresence, AgeSample, OnNodeSample, NodeTypeOK
    <2>3. NodeTypeOK'  BY <2>1, <2>2, SMTT(30) DEF NodeTypeOK
    <2>4. NodeReleased'  BY <2>1, Zenon DEF NodeReleased
    <2> QED  BY <2>3, <2>4
  <1>8. CASE NodeSocketDrops  BY <1>8, SMTT(30) DEF NodeSocketDrops, NodeTypeOK, NodeReleased
  <1>9. CASE LeaveNode
    <2>1. /\ UNCHANGED <<route, window, shownWindow, due, firstDue, failures, nodeFailed, metric, online>>
          /\ nodeTimers' = FALSE /\ nodeSocket' \in {"none", "closed"}
          /\ nodeView' \in {"left", "abandoned"} /\ (nodeView' = "left" => firstDue = FALSE)
      BY <1>9, Zenon DEF LeaveNode, NodeTypeOK
    <2>2. NodeTypeOK'  BY <2>1, ZenonT(30) DEF NodeTypeOK
    <2>3. NodeReleased'  BY <2>1, Zenon DEF NodeReleased
    <2> QED  BY <2>2, <2>3
  <1> QED
    BY <1>1, <1>2, <1>3, <1>5, <1>6, <1>7, <1>8, <1>9, Zenon
    DEF NodeNext, FirstNodeAnswer, NodeAnswer

\* A step of the pages is a step of one of them, or of none.
LEMMA PagesTakeTurns ==
    ASSUME [PagesNext]_pageVars
    PROVE  /\ [MonitorNext]_monitorVars /\ [LatencyNext]_latencyVars /\ [NodeNext]_nodeVars
           /\ [PreferencesNext]_prefVars
  BY Zenon DEF PagesNext, pageVars

LEMMA LeftStep ==
    ASSUME LeftIndInv, [PagesNext]_pageVars
    PROVE  LeftIndInv'
  <1>1. [MonitorNext]_monitorVars /\ [LatencyNext]_latencyVars /\ [NodeNext]_nodeVars
    BY PagesTakeTurns
  <1>2. MonitorIndInv' /\ OverviewReleased'
    BY <1>1, MonitorStepPreserves, OverviewStaysReleased, Zenon DEF LeftIndInv
  <1>3. MountAwaitsOne' /\ LatencyReleased'  BY <1>1, LatencyStaysReleased, Zenon DEF LeftIndInv
  <1>4. NodeTypeOK' /\ NodeReleased'  BY <1>1, NodeStaysReleased, Zenon DEF LeftIndInv
  <1> QED  BY <1>2, <1>3, <1>4, Zenon DEF LeftIndInv

\* Whichever page it is, one that was left once its first load had ended keeps no connection
\* and no timer (onBeforeUnmount of OverviewView.vue, LatencyView.vue, NodeView.vue and ShareView.vue,
\* and disconnect of monitor.ts).
THEOREM PagesLeaveNothing == PagesSpec => []QuietAfterLeave
  <1>1. LeftIndInv => QuietAfterLeave
    BY Zenon DEF LeftIndInv, QuietAfterLeave, OverviewReleased, LatencyReleased, NodeReleased
  <1> QED  BY <1>1, LeftInitially, LeftStep, PTL DEF PagesSpec

\* The pages together: the theorems on the parts hold of the browser as a whole.
THEOREM PagesAreSound ==
    PagesSpec => [](LatencyCoherent /\ ConnectionSound /\ LocaleIsRight /\ QuietAfterLeave)
  <1>1. PagesInit => LatencyInit /\ MonitorInit /\ PreferencesInit  BY DEF PagesInit
  <1>2. [PagesNext]_pageVars =>
          [LatencyNext]_latencyVars /\ [MonitorNext]_monitorVars /\ [PreferencesNext]_prefVars
    BY PagesTakeTurns, Zenon
  <1>3. PagesSpec => LatencySpec /\ MonitorSpec /\ PreferencesSpec
    BY <1>1, <1>2, PTL DEF PagesSpec, LatencySpec, MonitorSpec, PreferencesSpec
  <1> QED
    BY <1>3, LatencyAgrees, StoreKeepsOneConnection, TabsShowTheirLanguage, PagesLeaveNothing, PTL
=============================================================================
