---------------------------- MODULE PublicPages ----------------------------
(***************************************************************************)
(* The public pages in one browser.  A route shows one of them; they share *)
(* no state but the language and the appearance, so a behaviour is one of  *)
(* the page it is about and the others rest in their initial state.  The   *)
(* figures of the charts are added by PublicSite.                          *)
(***************************************************************************)
EXTENDS MonitorStore, LatencyPage, NodePage, Preferences

VARIABLE page       \* the page the behaviour is about

pageVars == <<page, monitorVars, latencyVars, nodeVars, prefVars>>

Pages == {"overview", "latency", "node", "header", "charts"}

PagesInit ==
    /\ page \in Pages
    /\ MonitorInit /\ LatencyInit /\ NodeInit /\ PreferencesInit
    /\ page # "node" => route = "node"
    /\ page # "header" => storedLocale = "none" /\ languages = CHOOSE l \in LanguageLists : TRUE

PagesNext ==
    \/ /\ page = "overview" /\ MonitorNext
       /\ UNCHANGED <<page, latencyVars, nodeVars, prefVars>>
    \/ /\ page = "latency" /\ LatencyNext
       /\ UNCHANGED <<page, monitorVars, nodeVars, prefVars>>
    \/ /\ page = "node" /\ NodeNext
       /\ UNCHANGED <<page, monitorVars, latencyVars, prefVars>>
    \/ /\ page = "header" /\ PreferencesNext
       /\ UNCHANGED <<page, monitorVars, latencyVars, nodeVars>>

\* The browser runs the timers that are due and delivers what the server answers (MaxFailures
\* bounds the requests of a node page that fail); nothing makes a visitor click or a
\* connection fail.
PagesFairness ==
    /\ WF_monitorVars(page = "overview" /\ MonitorAnswers) /\ WF_monitorVars(page = "overview" /\ CloseEvents)
    /\ WF_monitorVars(page = "overview" /\ ReconnectFires)
    /\ WF_monitorVars(page = "overview" /\ RefreshPresence)
    /\ WF_nodeVars(page = "node" /\ FirstNodeAnswer) /\ WF_nodeVars(page = "node" /\ RefreshNode)
    /\ WF_nodeVars(page = "node" /\ NodePresence)
    /\ \A h \in Hours : WF_nodeVars(page = "node" /\ NodeAnswer(h))

PagesSpec == PagesInit /\ [][PagesNext]_pageVars /\ PagesFairness

----------------------------------------------------------------------------
\* A page that was left once its first load had ended keeps no connection and no timer: its
\* onBeforeUnmount releases whatever the page, its intervals and its reconnects had opened.
QuietAfterLeave ==
    /\ overviewView = "left" => open = {} /\ socket = 0 /\ reconnectTimers = 0 /\ presenceTimers = 0
    /\ latencyView = "left" => ~refreshTimer
    /\ NodeTypeOK /\ (nodeView = "left" => nodeSocket # "open" /\ ~nodeTimers)

\* A connection lost while the overview is shown is always reopened, also when the
\* reload before it fails (unless the overview never loaded and shows its notice).
Reconnects == []<>(page = "overview" => overviewView # "shown" \/ error \/ socket # 0)

\* Neither the overview nor a node page leaves a node online whose last sample is older than
\* the threshold, as long as it is connected: the presence interval of the page marks it.
StaleTurnsOffline ==
    /\ \A n \in Nodes : Outdated(n) /\ socket # 0 ~> ~Outdated(n) \/ socket = 0
    /\ online /\ metric = "old" /\ nodeTimers ~> ~online \/ metric # "old" \/ ~nodeTimers

\* The charts of a node page come to show the window that is selected, and that their
\* labels name, although answers of an earlier window may arrive last: the refresh asks
\* for the window selected by then.
WindowCatchesUp ==
    \A h \in Hours : page = "node" /\ route # "share" /\ nodeView = "shown" /\ window = h
                        ~> shownWindow = h \/ window # h \/ nodeView # "shown"
=============================================================================
