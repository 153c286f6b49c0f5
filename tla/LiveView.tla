------------------------------ MODULE LiveView ------------------------------
(***************************************************************************)
(* The live view of the nodes: the hub that keeps the latest sample of     *)
(* every node and passes samples on to its subscribers                     *)
(* (internal/core/hub.go), and the handler of a browser's live connection  *)
(* (handlePublicLive in internal/httpapi/public.go).                       *)
(*                                                                         *)
(* A publisher updates the latest sample and copies the set of subscribers *)
(* under the hub's lock, and then offers the message to one subscriber     *)
(* after the other without it; a subscriber is a channel of Cap messages   *)
(* shared by all nodes.  A node is published by the handler of its agent,  *)
(* and by an administrator who corrects its traffic.  A sample is its      *)
(* place in the sequence of samples of its node; 0 is no sample.           *)
(***************************************************************************)
EXTENDS Naturals, Sequences, FiniteSets

CONSTANTS
  Nodes,
  Conns,          \* connections of browsers
  Cap,            \* messages a subscriber's channel holds; 32 in the code
  MaxSamples,     \* bound: samples of each node
  MaxChanges,     \* bound: corrections and changes of visibility and sessions
  MaxOpens,       \* bound: connections opened
  None

ASSUME LiveViewAssumption ==
  /\ Cap \in Nat \ {0} /\ MaxSamples \in [Nodes -> Nat] /\ MaxChanges \in Nat /\ MaxOpens \in Nat
  /\ None \notin Nat \cup Conns

VARIABLES
  latest,     \* Hub.latest
  subs,       \* Hub.subscriptions
  pub,        \* the publishers: what they send, to whom, and how far they are
  chan,       \* the channel of each connection
  conn,       \* each connection: step, authenticated, allowed nodes
  view,       \* the samples each connection has sent to its browser
  hidden,     \* nodes that only an administrator may see
  private,    \* SiteSettings.Private
  signedIn,   \* connections whose browser has a valid session
  count,      \* samples of each node so far
  changes, opens,
  corrected,  \* history: nodes whose latest sample was replaced
  owed,       \* history: newest sample published to each open subscription
  crowded     \* history: open subscriptions whose channel was full

site == <<hidden, private, signedIn, changes>>
vars == <<latest, subs, pub, chan, conn, view, site, count, opens, corrected, owed, crowded>>

\* Every node has two publishers; "read" holds a sample not yet published.
Publishers == Nodes \X {"agent", "admin"}
Quiet == [step |-> "idle", sample |-> 0, todo |-> {}, at |-> None]
Offering(sample, todo) ==
  IF todo = {} THEN Quiet ELSE [step |-> "offer", sample |-> sample, todo |-> todo, at |-> None]
Closed == [step |-> "closed", auth |-> FALSE, allowed |-> {}]
Nothing == [n \in Nodes |-> 0]

Init ==
  /\ latest = Nothing
  /\ subs = {}
  /\ pub = [p \in Publishers |-> Quiet]
  /\ chan = [c \in Conns |-> <<>>]
  /\ conn = [c \in Conns |-> Closed]
  /\ view = [c \in Conns |-> Nothing]
  /\ hidden \in SUBSET Nodes
  /\ private = FALSE
  /\ signedIn \in SUBSET Conns
  /\ count = Nothing
  /\ changes = 0 /\ opens = 0
  /\ corrected = {}
  /\ owed = [c \in Conns |-> Nothing]
  /\ crowded = {}

-----------------------------------------------------------------------------
(* The hub.                                                                *)

\* The critical section of Publish and of ReplaceLatest.
Announce(p, sample) ==
  /\ latest' = [latest EXCEPT ![p[1]] = sample]
  /\ pub' = [pub EXCEPT ![p] = Offering(sample, subs)]
  /\ owed' = [c \in Conns |->
       IF c \in subs /\ p[1] \in conn[c].allowed
       THEN [owed[c] EXCEPT ![p[1]] = sample] ELSE owed[c]]

\* Publish, from acceptSample: the next sample of the node.
Publish(n) ==
  LET p == <<n, "agent">>
  IN  /\ pub[p].step = "idle"
      /\ count[n] < MaxSamples[n]
      /\ count' = [count EXCEPT ![n] = @ + 1]
      /\ Announce(p, count'[n])
      /\ UNCHANGED <<subs, chan, conn, view, site, opens, corrected, crowded>>

\* A traffic correction reads the latest sample ...
ReadLatest(n) ==
  LET p == <<n, "admin">>
  IN  /\ pub[p].step = "idle"
      /\ latest[n] # 0
      /\ changes < MaxChanges
      /\ changes' = changes + 1
      /\ pub' = [pub EXCEPT ![p] = [Quiet EXCEPT !.step = "read", !.sample = latest[n]]]
      /\ UNCHANGED <<latest, subs, chan, conn, view, hidden, private, signedIn,
                     count, opens, corrected, owed, crowded>>

\* ... and publishes it again, corrected.
ReplaceLatest(n) ==
  LET p == <<n, "admin">>
  IN  /\ pub[p].step = "read"
      /\ Announce(p, pub[p].sample)
      /\ corrected' = corrected \cup {n}
      /\ UNCHANGED <<subs, chan, conn, view, site, count, opens, crowded>>

\* Publisher p is through with connection c.
Passed(p, c) == [pub EXCEPT ![p] = Offering(@.sample, @.todo \ {c})]

Message(p) == [node |-> p[1], sample |-> pub[p].sample]

\* Fault: a full channel loses the new message.
Offer_Drops(p, c) ==
  /\ pub[p].step = "offer"
  /\ c \in pub[p].todo
  /\ pub' = Passed(p, c)
  /\ chan' = IF p[1] \in conn[c].allowed /\ Len(chan[c]) < Cap
             THEN [chan EXCEPT ![c] = Append(@, Message(p))] ELSE chan
  /\ UNCHANGED <<latest, subs, conn, view, site, count, opens, corrected, owed, crowded>>

\* The loop over the subscribers: the filter, and the first select.
Offer(p, c) ==
  /\ pub[p].step = "offer"
  /\ c \in pub[p].todo
  /\ \/ /\ p[1] \notin conn[c].allowed
        /\ pub' = Passed(p, c)
        /\ UNCHANGED <<chan, crowded>>
     \/ /\ p[1] \in conn[c].allowed
        /\ Len(chan[c]) < Cap
        /\ chan' = [chan EXCEPT ![c] = Append(@, Message(p))]
        /\ pub' = Passed(p, c)
        /\ UNCHANGED crowded
     \/ /\ p[1] \in conn[c].allowed
        /\ Len(chan[c]) = Cap
        /\ pub' = [pub EXCEPT ![p].step = "evict", ![p].at = c]
        /\ crowded' = crowded \cup {c}
        /\ UNCHANGED chan
  /\ UNCHANGED <<latest, subs, conn, view, site, count, opens, corrected, owed>>

\* The second select: the oldest message makes room, if there is still one.
Evict(p) ==
  /\ pub[p].step = "evict"
  /\ chan' = [chan EXCEPT ![pub[p].at] = IF @ = <<>> THEN @ ELSE Tail(@)]
  /\ pub' = [pub EXCEPT ![p].step = "resend"]
  /\ UNCHANGED <<latest, subs, conn, view, site, count, opens, corrected, owed, crowded>>

\* The third select: the message is lost if another one took the room.
Resend(p) ==
  LET c == pub[p].at
  IN  /\ pub[p].step = "resend"
      /\ chan' = IF Len(chan[c]) < Cap THEN [chan EXCEPT ![c] = Append(@, Message(p))] ELSE chan
      /\ pub' = Passed(p, c)
      /\ UNCHANGED <<latest, subs, conn, view, site, count, opens, corrected, owed, crowded>>

-----------------------------------------------------------------------------
(* The connection of a browser.                                            *)

\* publicLiveNodeIDs.
Visible(auth) == IF auth THEN Nodes ELSE Nodes \ hidden

\* publicAccess.
Access(c) ==
  /\ conn[c].step = "closed"
  /\ opens < MaxOpens
  /\ private => c \in signedIn
  /\ opens' = opens + 1
  /\ conn' = [conn EXCEPT ![c] = [Closed EXCEPT !.step = "access", !.auth = c \in signedIn]]
  /\ UNCHANGED <<latest, subs, pub, chan, view, site, count, corrected, owed, crowded>>

\* The nodes this connection may see, fixed for its lifetime.
List(c) ==
  /\ conn[c].step = "access"
  /\ conn' = [conn EXCEPT ![c].step = "listed", ![c].allowed = Visible(conn[c].auth)]
  /\ UNCHANGED <<latest, subs, pub, chan, view, site, count, opens, corrected, owed, crowded>>

\* Fault: the connection subscribes before it takes its snapshot.
SendSnapshot_Late(c) ==
  /\ conn[c].step = "listed"
  /\ subs' = subs \cup {c}
  /\ \/ /\ c \notin subs
        /\ UNCHANGED <<view, conn>>
     \/ /\ c \in subs
        /\ view' = [view EXCEPT ![c] = [n \in Nodes |-> IF n \in conn[c].allowed THEN latest[n] ELSE 0]]
        /\ conn' = [conn EXCEPT ![c].step = "snapshot"]
  /\ UNCHANGED <<latest, pub, chan, site, count, opens, corrected, owed, crowded>>

\* Hub.Snapshot, sent as the first message.
SendSnapshot(c) ==
  /\ conn[c].step = "listed"
  /\ view' = [view EXCEPT ![c] = [n \in Nodes |-> IF n \in conn[c].allowed THEN latest[n] ELSE 0]]
  /\ conn' = [conn EXCEPT ![c].step = "snapshot"]
  /\ UNCHANGED <<latest, subs, pub, chan, site, count, opens, corrected, owed, crowded>>

\* Hub.Subscribe.
Subscribe(c) ==
  /\ conn[c].step = "snapshot"
  /\ subs' = subs \cup {c}
  /\ conn' = [conn EXCEPT ![c].step = "live"]
  /\ UNCHANGED <<latest, pub, chan, view, site, count, opens, corrected, owed, crowded>>

\* One message goes out.
Deliver(c) ==
  LET m == Head(chan[c])
  IN  /\ conn[c].step = "live"
      /\ chan[c] # <<>>
      /\ chan' = [chan EXCEPT ![c] = Tail(@)]
      /\ view' = [view EXCEPT ![c][m.node] = m.sample]
      /\ UNCHANGED <<latest, subs, pub, conn, site, count, opens, corrected, owed, crowded>>

\* The handler returns and unsubscribes.  A publisher may still send to the
\* channel, which nobody reads any more.
Close(c) ==
  /\ conn' = [conn EXCEPT ![c] = Closed]
  /\ subs' = subs \ {c}
  /\ chan' = [chan EXCEPT ![c] = <<>>]
  /\ view' = [view EXCEPT ![c] = Nothing]
  /\ owed' = [owed EXCEPT ![c] = Nothing]
  /\ crowded' = crowded \ {c}
  /\ pub' = [p \in Publishers |->
       IF c \in pub[p].todo
       THEN IF pub[p].at = c THEN Offering(pub[p].sample, pub[p].todo \ {c})
            ELSE IF pub[p].todo = {c} THEN Quiet ELSE [pub[p] EXCEPT !.todo = @ \ {c}]
       ELSE pub[p]]
  /\ UNCHANGED <<latest, site, count, opens, corrected>>

\* Fault: only the number of visible nodes is compared.
Outdated_Count(c) ==
  \/ private /\ c \notin signedIn
  \/ (c \in signedIn) # conn[c].auth
  \/ Cardinality(Visible(conn[c].auth)) # Cardinality(conn[c].allowed)

\* What the check every 15 seconds finds changed.
Outdated(c) ==
  \/ private /\ c \notin signedIn
  \/ (c \in signedIn) # conn[c].auth
  \/ Visible(conn[c].auth) # conn[c].allowed

Revalidate(c) ==
  /\ conn[c].step = "live"
  /\ Outdated(c)
  /\ Close(c)

\* The browser leaves, a write fails or times out, the server stops, or the
\* check cannot read the store or finds the nodes in another order.
Disconnect(c) ==
  /\ conn[c].step # "closed"
  /\ Close(c)

-----------------------------------------------------------------------------
(* The administrator.                                                      *)

Change ==
  /\ changes < MaxChanges
  /\ changes' = changes + 1
  /\ UNCHANGED <<latest, subs, pub, chan, conn, view, count, opens, corrected, owed, crowded>>

\* handleAdminUpdateNode hides a node or shows it again.
SetHidden(n) ==
  /\ Change
  /\ hidden' = IF n \in hidden THEN hidden \ {n} ELSE hidden \cup {n}
  /\ UNCHANGED <<private, signedIn>>

\* handleAdminSaveSettings makes the site private or public.
SetPrivate ==
  /\ Change
  /\ private' = ~private
  /\ UNCHANGED <<hidden, signedIn>>

\* A session ends, or a browser signs in.
SetSession(c) ==
  /\ Change
  /\ signedIn' = IF c \in signedIn THEN signedIn \ {c} ELSE signedIn \cup {c}
  /\ UNCHANGED <<hidden, private>>

-----------------------------------------------------------------------------
Broadcast(p) == (\E c \in Conns : Offer(p, c)) \/ Evict(p) \/ Resend(p)

Serve(c) == Access(c) \/ List(c) \/ SendSnapshot(c) \/ Subscribe(c) \/ Deliver(c)
            \/ Revalidate(c) \/ Disconnect(c)

Next ==
  \/ \E n \in Nodes : Publish(n) \/ ReadLatest(n) \/ ReplaceLatest(n) \/ SetHidden(n)
  \/ \E p \in Publishers : Broadcast(p)
  \/ \E c \in Conns : Serve(c) \/ SetSession(c)
  \/ SetPrivate

Spec == Init /\ [][Next]_vars

\* A publisher that has started goes on, a connection that was accepted is
\* served, and the ticker of an open connection keeps firing.  Nobody has to
\* publish, to connect or to disconnect.
Fairness ==
  /\ \A p \in Publishers : WF_vars(Broadcast(p))
  /\ \A c \in Conns :
       /\ WF_vars(List(c) \/ SendSnapshot(c) \/ Subscribe(c))
       /\ WF_vars(Deliver(c))
       /\ WF_vars(Revalidate(c))

FairSpec == Spec /\ Fairness

-----------------------------------------------------------------------------
(* Properties.                                                             *)

\* The types of the hub, of the publishers and of the connections; a channel
\* never holds more than Cap messages, however many publishers fill it.
TypeOK ==
  /\ latest \in [Nodes -> Nat] /\ count \in [Nodes -> Nat]
  /\ {c \in Conns : conn[c].step = "live"} \subseteq subs
  /\ subs \subseteq {c \in Conns : conn[c].step # "closed"}
  /\ \A p \in Publishers :
       /\ pub[p].step \in {"idle", "read", "offer", "evict", "resend"}
       /\ pub[p].sample \in 0..count[p[1]]
       /\ pub[p].todo \subseteq subs
       /\ pub[p].at \in pub[p].todo \cup {None}
  /\ \A c \in Conns :
       /\ chan[c] \in Seq([node: conn[c].allowed, sample: Nat \ {0}])
       /\ Len(chan[c]) <= Cap
  /\ conn \in [Conns -> [step: {"closed", "access", "listed", "snapshot", "live"},
                         auth: BOOLEAN, allowed: SUBSET Nodes]]
  /\ view \in [Conns -> [Nodes -> Nat]]
  /\ owed \in [Conns -> [Nodes -> Nat]]
  /\ hidden \subseteq Nodes /\ private \in BOOLEAN /\ signedIn \subseteq Conns
  /\ changes \in 0..MaxChanges /\ opens \in 0..MaxOpens
  /\ corrected \subseteq Nodes /\ crowded \subseteq subs

\* What was published last to an open subscription has been sent to the
\* browser, waits in the channel, or is still in the hands of the publisher.
OnItsWay(c, n) ==
  \/ view[c][n] >= owed[c][n]
  \/ \E i \in 1..Len(chan[c]) : chan[c][i] = [node |-> n, sample |-> owed[c][n]]
  \/ \E p \in Publishers : p[1] = n /\ c \in pub[p].todo

\* As long as the channel of a connection was never full, or the node is the
\* only one that ever published, and unless a correction of the node raced
\* with its samples, the newest sample published since the
\* subscription reaches the browser: the fan-out of Publish outside the lock
\* and the eviction of the oldest message lose nothing that matters.
NewestArrives ==
  \A c \in Conns, n \in Nodes :
    /\ n \notin corrected
    /\ c \notin crowded \/ \A m \in Nodes \ {n} : count[m] = 0
    => OnItsWay(c, n)

\* No channel holds more than its capacity, and what matters still arrives.
HubDelivers == TypeOK /\ NewestArrives

\* What a browser sees of a node never goes back to an older sample while
\* its connection lasts, unless a traffic correction put an older sample
\* back: handlePublicLive takes the snapshot before it subscribes, a node has
\* one agent handler, and its channel is a queue.
NeverBackwards ==
  [][\A c \in Conns, n \in Nodes :
       (conn[c].step # "closed" /\ conn'[c].step # "closed" /\ n \notin corrected)
       => view'[c][n] >= view[c][n]]_vars

\* A connection without a session that shows a hidden node, or a private site.
Overreaching(c) ==
  /\ conn[c].step = "live"
  /\ c \notin signedIn
  /\ private \/ conn[c].allowed \cap hidden # {}

\* Such a connection does not last: the check every 15 seconds ends it,
\* unless the access is granted again before.
AccessIsWithdrawn == \A c \in Conns : Overreaching(c) ~> ~Overreaching(c)
=============================================================================
