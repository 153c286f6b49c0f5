------------------------------ MODULE NodePage ------------------------------
(***************************************************************************)
(* The page of one node, public or below a share link, and the page of a   *)
(* share link.  The node page loads the node, its history over a window of *)
(* hours and its probes in one go; it reloads every minute and at every    *)
(* change of the window, without numbering its requests.  Live samples     *)
(* come over a socket that is not reopened.  The history and the probes    *)
(* are assigned together: one variable, the window they were asked for.    *)
(***************************************************************************)
EXTENDS Naturals

CONSTANTS
    Hours,         \* the windows the switch offers
    FirstHours,    \* the window a page starts with
    MaxDue,        \* outstanding loads of one window beside the first
    MaxFailures    \* loads that fail in a behaviour

ASSUME NodePageAssumption == FirstHours \in Hours /\ 0 \notin Hours /\ MaxDue \in Nat /\ MaxFailures \in Nat

VARIABLES
    route,         \* "node", "shared-node" or "share"
    window,        \* hours
    shownWindow,   \* the window of the history shown, 0 for none
    due,           \* loads outstanding, by the window they ask for
    firstDue,      \* the load onMounted awaits is outstanding
    failures,
    nodeFailed,    \* error
    metric,        \* age of the sample shown: "none", "fresh" or "old"
    online,        \* the status pill
    nodeSocket,    \* "none", "open" or "closed"
    nodeTimers,    \* the refresh and the presence interval run
    nodeView       \* "shown", "left", or "abandoned": left before its first load ended

nodeVars == <<route, window, shownWindow, due, firstDue, failures, nodeFailed, metric, online,
              nodeSocket, nodeTimers, nodeView>>

NodeTypeOK ==
    /\ route \in {"node", "shared-node", "share"}
    /\ window \in Hours /\ shownWindow \in Hours \cup {0} /\ due \in [Hours -> 0..MaxDue]
    /\ firstDue \in BOOLEAN /\ failures \in 0..MaxFailures /\ nodeFailed \in BOOLEAN
    /\ metric \in {"none", "fresh", "old"} /\ online \in BOOLEAN
    /\ nodeSocket \in {"none", "open", "closed"} /\ nodeTimers \in BOOLEAN
    /\ nodeView \in {"shown", "left", "abandoned"}

NodeInit ==
    /\ route \in {"node", "shared-node", "share"}
    /\ window = FirstHours /\ shownWindow = 0 /\ due = [h \in Hours |-> 0] /\ firstDue = TRUE
    /\ failures = 0 /\ nodeFailed = FALSE /\ metric = "none" /\ online = FALSE
    /\ nodeSocket = "none" /\ nodeTimers = FALSE /\ nodeView = "shown"

----------------------------------------------------------------------------
\* load() resumed: the answer is shown whatever window is selected by now.  A request that
\* failed, or a share link that does not list the node, leaves the page as it is.
ShowNode(h, m, on, ok) ==
    /\ nodeFailed' = ~ok
    /\ failures' = IF ok THEN failures ELSE failures + 1
    /\ IF ok THEN shownWindow' = h /\ metric' = m /\ online' = on
             ELSE failures < MaxFailures /\ UNCHANGED <<shownWindow, metric, online>>

\* The server's online flag was right when it was read; the sample may have aged since.
NodeAnswers == {<<"none", FALSE>>, <<"fresh", TRUE>>, <<"old", TRUE>>, <<"old", FALSE>>}

\* After its first load, failed or not, the node page opens its socket and starts both
\* intervals, whether or not it is still there.
NodeMounted(m, on, ok) ==
    /\ route # "share" /\ firstDue /\ firstDue' = FALSE
    /\ ShowNode(FirstHours, m, on, ok)
    /\ nodeSocket' = "open" /\ nodeTimers' = TRUE
    /\ UNCHANGED <<route, window, due, nodeView>>

\* The page of a share link opens its socket only if its one request succeeded.
ShareMounted(m, on, ok) ==
    /\ route = "share" /\ firstDue /\ firstDue' = FALSE
    /\ ShowNode(FirstHours, m, on, ok)
    /\ nodeSocket' = IF ok THEN "open" ELSE "none"
    /\ UNCHANGED <<route, window, due, nodeTimers, nodeView>>

Reloaded(h, m, on, ok) ==
    /\ due[h] > 0 /\ due' = [due EXCEPT ![h] = @ - 1]
    /\ ShowNode(h, m, on, ok)
    /\ UNCHANGED <<route, window, firstDue, nodeSocket, nodeTimers, nodeView>>

StartNodeLoad(h) == due' = [due EXCEPT ![h] = @ + 1] /\ nodeFailed' = FALSE

\* Fault: the interval asks for the window the page started with.
RefreshFirstWindow ==
    /\ nodeTimers /\ due[FirstHours] < MaxDue /\ StartNodeLoad(FirstHours)
    /\ UNCHANGED <<route, window, shownWindow, firstDue, failures, metric, online, nodeSocket,
                   nodeTimers, nodeView>>

RefreshNode ==
    /\ nodeTimers /\ due[window] < MaxDue /\ StartNodeLoad(window)
    /\ UNCHANGED <<route, window, shownWindow, firstDue, failures, metric, online, nodeSocket,
                   nodeTimers, nodeView>>

\* The window switch belongs to a page that shows a node.
ChangeNodeWindow(h) ==
    /\ route # "share" /\ nodeView = "shown" /\ shownWindow # 0 /\ due[h] < MaxDue
    /\ window' = h /\ StartNodeLoad(h)
    /\ UNCHANGED <<route, shownWindow, firstDue, failures, metric, online, nodeSocket, nodeTimers, nodeView>>

\* A live sample: the pill turns online, whatever the age of the sample.
OnNodeSample(m) ==
    /\ nodeSocket = "open" /\ shownWindow # 0
    /\ metric' = m /\ online' = TRUE
    /\ UNCHANGED <<route, window, shownWindow, due, firstDue, failures, nodeFailed, nodeSocket,
                   nodeTimers, nodeView>>

NodePresence ==
    /\ nodeTimers /\ metric # "none" /\ online' = (metric = "fresh")
    /\ UNCHANGED <<route, window, shownWindow, due, firstDue, failures, nodeFailed, metric,
                   nodeSocket, nodeTimers, nodeView>>

AgeSample ==
    /\ metric = "fresh" /\ metric' = "old"
    /\ UNCHANGED <<route, window, shownWindow, due, firstDue, failures, nodeFailed, online,
                   nodeSocket, nodeTimers, nodeView>>

\* The server closes the socket, or withdraws the share link: the page has no onclose.
NodeSocketDrops ==
    /\ nodeSocket = "open" /\ nodeSocket' = "closed"
    /\ UNCHANGED <<route, window, shownWindow, due, firstDue, failures, nodeFailed, metric, online,
                   nodeTimers, nodeView>>

\* Fault: only the socket is released.
LeaveNodeTimers ==
    /\ nodeView = "shown" /\ nodeView' = IF firstDue THEN "abandoned" ELSE "left"
    /\ nodeSocket' = IF nodeSocket = "open" THEN "closed" ELSE nodeSocket
    /\ UNCHANGED <<route, window, shownWindow, due, firstDue, failures, nodeFailed, metric, online, nodeTimers>>

LeaveNode ==
    /\ nodeView = "shown" /\ nodeView' = IF firstDue THEN "abandoned" ELSE "left"
    /\ nodeSocket' = IF nodeSocket = "open" THEN "closed" ELSE nodeSocket
    /\ nodeTimers' = FALSE
    /\ UNCHANGED <<route, window, shownWindow, due, firstDue, failures, nodeFailed, metric, online>>

FirstNodeAnswer ==
    \E a \in NodeAnswers, ok \in BOOLEAN : NodeMounted(a[1], a[2], ok) \/ ShareMounted(a[1], a[2], ok)
NodeAnswer(h) == \E a \in NodeAnswers, ok \in BOOLEAN : Reloaded(h, a[1], a[2], ok)

NodeNext ==
    \/ FirstNodeAnswer \/ \E h \in Hours : NodeAnswer(h) \/ ChangeNodeWindow(h)
    \/ RefreshNode \/ NodePresence \/ AgeSample
    \/ \E m \in {"fresh", "old"} : OnNodeSample(m)
    \/ NodeSocketDrops \/ LeaveNode
=============================================================================
