---------------------------- MODULE MonitorStore ----------------------------
(***************************************************************************)
(* The live store of the public overview and the view that drives it: the  *)
(* node list is loaded over HTTP, then kept current over a WebSocket that  *)
(* is reopened 3 s after it closes.  The store outlives the view: timers,  *)
(* close events and load() continuations run whatever the visitor did      *)
(* meanwhile.  A metric is the age of its sample; loading and lastUpdate   *)
(* only decorate the page and are left out.                                *)
(***************************************************************************)
EXTENDS Naturals, FiniteSets

CONSTANTS
    Nodes,         \* nodes of the site
    Thresholds,    \* values of offline_after_ms a server may announce
    DefaultThreshold,
    MaxAge,        \* ages are told apart up to here
    MaxSockets,    \* no close or mount once this many sockets were opened
    NoSample

ASSUME MonitorAssumption ==
    /\ Thresholds \subseteq 1..MaxAge /\ DefaultThreshold \in Thresholds
    /\ MaxAge \in Nat /\ MaxSockets \in Nat /\ NoSample \notin 0..MaxAge

VARIABLES
    nodes,             \* shown node |-> [metric, online]
    offlineAfterMS,
    socket,            \* number of the store's socket, 0 for null
    opened,            \* sockets opened so far
    open, closing,     \* sockets connected; sockets closed whose event is still due
    reconnectTimers,   \* timeouts pending
    presenceTimers,    \* intervals running
    loadsDue,          \* loads outstanding, by who awaits them
    listFailed,        \* history variable: the last load to end failed
    error,             \* the overview shows its notice, with Retry, instead of the nodes
    overviewView       \* "shown", "left", or "abandoned": left with a load still to act on

monitorVars == <<nodes, offlineAfterMS, socket, opened, open, closing, reconnectTimers,
                 presenceTimers, loadsDue, listFailed, error, overviewView>>
sockets == <<socket, opened, open, closing, reconnectTimers, presenceTimers>>

Ages == 0..MaxAge
Shown == [metric : Ages \cup {NoSample}, online : BOOLEAN]
Awaiters == {"mount", "retry", "reconnect"}
NoNodes == [n \in {} |-> NoSample]

MonitorTypeOK ==
    /\ DOMAIN nodes \subseteq Nodes /\ \A n \in DOMAIN nodes : nodes[n] \in Shown
    /\ offlineAfterMS \in Thresholds
    /\ opened \in Nat /\ socket \in 0..opened
    /\ open \subseteq 1..opened /\ closing \subseteq 1..opened
    /\ reconnectTimers \in Nat /\ presenceTimers \in Nat
    /\ loadsDue \in [Awaiters -> Nat]
    /\ listFailed \in BOOLEAN /\ error \in BOOLEAN
    /\ overviewView \in {"shown", "left", "abandoned"}

\* The overview has just been mounted: onMounted awaits the first load.
MonitorInit ==
    /\ nodes = NoNodes /\ offlineAfterMS = DefaultThreshold
    /\ socket = 0 /\ opened = 0 /\ open = {} /\ closing = {}
    /\ reconnectTimers = 0 /\ presenceTimers = 0
    /\ loadsDue = [a \in Awaiters |-> IF a = "mount" THEN 1 ELSE 0]
    /\ listFailed = FALSE /\ error = FALSE /\ overviewView = "shown"

\* What GET /public/nodes may answer: any of the nodes, with an online flag that was
\* right when the server read it and may have aged on the way.
NodeLists ==
    {f \in UNION {[S -> Shown] : S \in (SUBSET Nodes) \ {{}}} :
        \A n \in DOMAIN f : f[n].metric = NoSample => ~f[n].online}

Less(n) == IF n > 0 THEN n - 1 ELSE 0

----------------------------------------------------------------------------
\* disconnect(): the timers the store has handles of are cleared, its socket is closed.
Disconnect ==
    /\ reconnectTimers' = Less(reconnectTimers) /\ presenceTimers' = Less(presenceTimers)
    /\ socket' = 0 /\ open' = open \ {socket}
    /\ closing' = closing \cup (open \cap {socket})
    /\ UNCHANGED opened

\* Fault: the socket and the interval at hand are not released first.
ConnectWithoutDisconnect ==
    /\ opened' = opened + 1 /\ socket' = opened + 1
    /\ open' = open \cup {opened + 1}
    /\ presenceTimers' = presenceTimers + 1
    /\ UNCHANGED <<closing, reconnectTimers>>

\* connect(): disconnect(), then a new socket and a new presence interval.
Connect ==
    /\ opened' = opened + 1 /\ socket' = opened + 1
    /\ open' = (open \ {socket}) \cup {opened + 1}
    /\ closing' = closing \cup (open \cap {socket})
    /\ reconnectTimers' = Less(reconnectTimers)
    /\ presenceTimers' = Less(presenceTimers) + 1

\* What follows load() in the code that awaits it: onMounted connects or shows its
\* notice, Retry does nothing more, the reconnect timeout empties the list if the load
\* failed and connects unless a socket is there already.
Continue(a, list, ok) ==
    /\ nodes' = IF ok THEN list ELSE IF a = "reconnect" THEN NoNodes ELSE nodes
    /\ error' = (error \/ (a = "mount" /\ ~ok))
    /\ IF (a = "mount" /\ ok) \/ (a = "reconnect" /\ socket = 0)
       THEN Connect ELSE UNCHANGED sockets

EndMonitorLoad(a, list, ok) ==
    /\ loadsDue[a] > 0 /\ loadsDue' = [loadsDue EXCEPT ![a] = @ - 1]
    /\ listFailed' = ~ok
    /\ Continue(a, list, ok)
    /\ UNCHANGED <<offlineAfterMS, overviewView>>

\* Online(age): the comparison with the threshold in applySample and refreshPresence.
Online(metric) == metric # NoSample /\ metric < offlineAfterMS

\* A live message: "sample" for one node, or "snapshot" with the threshold and the last
\* samples.  Samples of nodes that are not listed are ignored.
ApplySamples(samples, threshold) ==
    nodes' = [n \in DOMAIN nodes |->
                IF n \in DOMAIN samples
                THEN [metric |-> samples[n], online |-> samples[n] < threshold] ELSE nodes[n]]

OnSample(n, age) ==
    /\ open # {} /\ ApplySamples([m \in {n} |-> age], offlineAfterMS)
    /\ UNCHANGED <<offlineAfterMS, sockets, loadsDue, listFailed, error, overviewView>>

OnSnapshot(threshold, samples) ==
    /\ open # {} /\ offlineAfterMS' = threshold /\ ApplySamples(samples, threshold)
    /\ UNCHANGED <<sockets, loadsDue, listFailed, error, overviewView>>

\* Fault: a closed connection is not reopened.
OnCloseForGood(s) ==
    /\ s \in closing \/ (s \in open /\ opened < MaxSockets)
    /\ open' = open \ {s} /\ closing' = closing \ {s}
    /\ IF socket = s THEN socket' = 0 /\ nodes' = NoNodes ELSE UNCHANGED <<socket, nodes>>
    /\ UNCHANGED <<offlineAfterMS, opened, reconnectTimers, presenceTimers, loadsDue, listFailed,
                   error, overviewView>>

\* onclose of socket s: only the store's own socket empties the list and schedules the
\* reconnect.  The presence interval keeps running.
OnClose(s) ==
    /\ s \in closing \/ (s \in open /\ opened < MaxSockets)
    /\ open' = open \ {s} /\ closing' = closing \ {s}
    /\ IF socket = s
       THEN socket' = 0 /\ nodes' = NoNodes /\ reconnectTimers' = reconnectTimers + 1
       ELSE UNCHANGED <<socket, nodes, reconnectTimers>>
    /\ UNCHANGED <<offlineAfterMS, opened, presenceTimers, loadsDue, listFailed, error,
                   overviewView>>

\* The reconnect timeout fires: load() is started and awaited.
ReconnectFires ==
    /\ reconnectTimers > 0 /\ reconnectTimers' = reconnectTimers - 1
    /\ loadsDue' = [loadsDue EXCEPT !["reconnect"] = @ + 1]
    /\ UNCHANGED <<nodes, offlineAfterMS, socket, opened, open, closing, presenceTimers,
                   listFailed, error, overviewView>>

\* Fault: only nodes that never reported are marked offline.
RefreshPresenceUnseenOnly ==
    /\ presenceTimers > 0
    /\ nodes' = [n \in DOMAIN nodes |-> [nodes[n] EXCEPT !.online = @ /\ nodes[n].metric # NoSample]]
    /\ UNCHANGED <<offlineAfterMS, sockets, loadsDue, listFailed, error, overviewView>>

RefreshPresence ==
    /\ presenceTimers > 0
    /\ nodes' = [n \in DOMAIN nodes |-> [nodes[n] EXCEPT !.online = Online(nodes[n].metric)]]
    /\ UNCHANGED <<offlineAfterMS, sockets, loadsDue, listFailed, error, overviewView>>

\* Time passes: every sample shown grows older.
Tick ==
    /\ nodes' = [n \in DOMAIN nodes |->
                    [nodes[n] EXCEPT !.metric = IF @ # NoSample /\ @ < MaxAge THEN @ + 1 ELSE @]]
    /\ UNCHANGED <<offlineAfterMS, sockets, loadsDue, listFailed, error, overviewView>>

\* The Retry button of the overview's notice.
Retry ==
    /\ overviewView = "shown" /\ error /\ loadsDue["retry"] = 0
    /\ loadsDue' = [loadsDue EXCEPT !["retry"] = 1]
    /\ UNCHANGED <<nodes, offlineAfterMS, sockets, listFailed, error, overviewView>>

MountOverview ==
    /\ overviewView # "shown" /\ opened < MaxSockets /\ loadsDue["mount"] < 2
    /\ overviewView' = "shown" /\ error' = FALSE
    /\ loadsDue' = [loadsDue EXCEPT !["mount"] = @ + 1]
    /\ UNCHANGED <<nodes, offlineAfterMS, sockets, listFailed>>

UnmountOverview ==
    /\ overviewView = "shown" /\ Disconnect
    /\ overviewView' = IF loadsDue["mount"] + loadsDue["reconnect"] > 0 THEN "abandoned" ELSE "left"
    /\ UNCHANGED <<nodes, offlineAfterMS, loadsDue, listFailed, error>>

MonitorAnswers ==
    \E a \in Awaiters : \/ EndMonitorLoad(a, NoNodes, FALSE)
                       \/ \E list \in NodeLists : EndMonitorLoad(a, list, TRUE)
CloseEvents == \E s \in closing : OnClose(s)

MonitorNext ==
    \/ MonitorAnswers
    \/ \E n \in Nodes, age \in Ages : OnSample(n, age)
    \/ \E t \in Thresholds, S \in SUBSET Nodes : \E f \in [S -> Ages] : OnSnapshot(t, f)
    \/ \E s \in open \cup closing : OnClose(s)
    \/ ReconnectFires \/ RefreshPresence \/ Tick
    \/ Retry \/ MountOverview \/ UnmountOverview

MonitorSpec == MonitorInit /\ [][MonitorNext]_monitorVars

----------------------------------------------------------------------------
\* Every live connection is the one the store holds, and at most one reconnect and one
\* presence timer run: no order of mounts, close events and load() continuations leaks a
\* socket or a timer whose handle was overwritten, so that disconnect() releases all.
OneConnection ==
    /\ open \subseteq {socket}
    /\ reconnectTimers <= 1 /\ presenceTimers <= 1
    /\ socket # 0 => reconnectTimers = 0

\* An overview that is connected shows nodes, unless the last list request failed: the
\* list that onclose empties is reloaded before the socket is reopened.
ConnectedShowsNodes == socket # 0 /\ ~listFailed => nodes # NoNodes

\* The store holds its one connection, its timers and a list, in any order of mounts, close
\* events and answers.
ConnectionSound == MonitorTypeOK /\ OneConnection /\ ConnectedShowsNodes

Outdated(n) == n \in DOMAIN nodes /\ nodes[n].online /\ ~Online(nodes[n].metric)
=============================================================================
