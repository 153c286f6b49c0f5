--------------------------- MODULE Notifications ---------------------------
(***************************************************************************)
(* Notification delivery: emit of internal/alerting/engine.go, which saves *)
(* an event and its deliveries, the dispatcher of                          *)
(* internal/notification/dispatcher.go, and the delivery table of          *)
(* internal/store/sqlstore/alerts.go.                                      *)
(*                                                                         *)
(* A delivery is a pair of an event and a channel.  Retry delays count     *)
(* down.  The query orders what is due by its time and takes at most Limit *)
(* rows; the model takes any of the due rows, which includes that order.   *)
(***************************************************************************)
EXTENDS Naturals, FiniteSets

CONSTANTS
  Events,
  Channels,
  Limit,        \* rows of one batch: 25 in the code
  Delays,       \* the waits before the second, third and fourth attempt
  MaxOutages,   \* bound: outages of the store
  MaxRestarts,  \* bound: restarts of the server
  MaxToggles,   \* bound: channels switched on or off
  None

ASSUME NotificationsAssumption ==
  /\ Limit \in Nat \ {0}
  /\ Delays \in [1..3 -> Nat \ {0}]
  /\ MaxOutages \in Nat /\ MaxRestarts \in Nat /\ MaxToggles \in Nat
  /\ None \notin Events \X Channels

Delivery == Events \X Channels
Channel(d) == d[2]

VARIABLES
  enabled,   \* notification_channels.enabled
  deleted,   \* channels whose row is gone, and their deliveries with it
  events,    \* alert_events
  row,       \* notification_deliveries: status, attempts, time to next_attempt_at
  batch,     \* the deliveries process has still to send
  sending,   \* the delivery being sent, or None
  outcome,   \* what Send returned for it
  up,        \* the store answers
  outages, restarts, toggles,
  accepted,  \* history: how often the channel accepted a delivery
  tried,     \* history: how often a delivery was sent
  unrecorded \* history: sends whose outcome did not reach the store

table == <<enabled, deleted, events, row>>
dispatcher == <<batch, sending, outcome>>
world == <<up, outages, restarts, toggles>>
history == <<accepted, tried, unrecorded>>
vars == <<table, dispatcher, world, history>>

Absent == [status |-> "none", attempts |-> 0, wait |-> 0]
Waiting == {"pending", "retry"}
Statuses == Waiting \cup {"none", "sent", "failed"}
MaxAttempts == 4

Init ==
  /\ enabled \in SUBSET Channels
  /\ deleted = {}
  /\ events = {}
  /\ row = [d \in Delivery |-> Absent]
  /\ batch = {} /\ sending = None /\ outcome = None
  /\ up = TRUE /\ outages = 0 /\ restarts = 0 /\ toggles = 0
  /\ accepted = [d \in Delivery |-> 0]
  /\ tried = [d \in Delivery |-> 0]
  /\ unrecorded = [d \in Delivery |-> 0]

-----------------------------------------------------------------------------
(* emit: SaveAlertEvent, then EnqueueNotificationDeliveries in one         *)
(* transaction; an error of the second is logged and the event stands.     *)

Emit(e) ==
  /\ up
  /\ e \notin events
  /\ events' = events \cup {e}
  /\ \/ row' = [d \in Delivery |-> IF d[1] = e /\ Channel(d) \in enabled
                                   THEN [status |-> "pending", attempts |-> 0, wait |-> 0]
                                   ELSE row[d]]
     \/ outages < MaxOutages /\ row' = row
  /\ UNCHANGED <<enabled, deleted, dispatcher, world, history>>

-----------------------------------------------------------------------------
(* The dispatcher.                                                         *)

\* Fault: deliveries that failed once are not looked for.
Due_PendingOnly == {d \in Delivery : row[d].status = "pending" /\ Channel(d) \in enabled}

\* What DueNotificationDeliveries selects from.
Due == {d \in Delivery : row[d].status \in Waiting /\ row[d].wait = 0 /\ Channel(d) \in enabled}

\* DueNotificationDeliveries.
Load ==
  /\ up
  /\ batch = {} /\ sending = None
  /\ Due # {}
  /\ batch' \in {b \in SUBSET Due : Cardinality(b) = IF Cardinality(Due) < Limit THEN Cardinality(Due) ELSE Limit}
  /\ UNCHANGED <<table, sending, outcome, world, history>>

\* Send, to the channel as it was when the batch was loaded.
Send(d, ok) ==
  /\ sending = None
  /\ d \in batch
  /\ batch' = batch \ {d}
  /\ sending' = d
  /\ outcome' = ok
  /\ tried' = [tried EXCEPT ![d] = @ + 1]
  /\ accepted' = IF ok THEN [accepted EXCEPT ![d] = @ + 1] ELSE accepted
  /\ UNCHANGED <<table, world, unrecorded>>

\* Fault: the last failed attempt is recorded as sent.
After_Wrong(r, ok) ==
  LET n == r.attempts + 1
  IN  IF ok \/ n = MaxAttempts THEN [status |-> "sent", attempts |-> n, wait |-> 0]
      ELSE [status |-> "retry", attempts |-> n, wait |-> Delays[n]]

\* The row after an attempt.
After(r, ok) ==
  LET n == r.attempts + 1
  IN  CASE ok -> [status |-> "sent", attempts |-> n, wait |-> 0]
        [] ~ok /\ n <= 3 -> [status |-> "retry", attempts |-> n, wait |-> Delays[n]]
        [] ~ok /\ n > 3 -> [status |-> "failed", attempts |-> n, wait |-> 0]

\* UpdateNotificationDelivery, whose error is ignored; it changes nothing when
\* the row is gone.
Record ==
  /\ sending # None
  /\ row' = IF up /\ row[sending] # Absent THEN [row EXCEPT ![sending] = After(@, outcome)] ELSE row
  /\ unrecorded' = IF up THEN unrecorded ELSE [unrecorded EXCEPT ![sending] = @ + 1]
  /\ sending' = None
  /\ outcome' = None
  /\ UNCHANGED <<enabled, deleted, events, batch, world, accepted, tried>>

-----------------------------------------------------------------------------
Tick ==
  /\ \E d \in Delivery : row[d].wait > 0
  /\ row' = [d \in Delivery |-> IF row[d].wait > 0 THEN [row[d] EXCEPT !.wait = @ - 1] ELSE row[d]]
  /\ UNCHANGED <<enabled, deleted, events, dispatcher, world, history>>

\* SaveNotificationChannel with another value of enabled.
ToggleChannel(c) ==
  /\ up
  /\ c \notin deleted
  /\ toggles < MaxToggles
  /\ toggles' = toggles + 1
  /\ enabled' = IF c \in enabled THEN enabled \ {c} ELSE enabled \cup {c}
  /\ UNCHANGED <<deleted, events, row, dispatcher, up, outages, restarts, history>>

\* DeleteNotificationChannel: the deliveries of the channel go with it
\* (ON DELETE CASCADE), though process may hold some of them.
DeleteChannel(c) ==
  /\ up
  /\ c \notin deleted
  /\ toggles < MaxToggles
  /\ toggles' = toggles + 1
  /\ deleted' = deleted \cup {c}
  /\ enabled' = enabled \ {c}
  /\ row' = [d \in Delivery |-> IF Channel(d) = c THEN Absent ELSE row[d]]
  /\ UNCHANGED <<events, dispatcher, up, outages, restarts, history>>

StoreFails ==
  /\ up
  /\ outages < MaxOutages
  /\ outages' = outages + 1
  /\ up' = FALSE
  /\ UNCHANGED <<table, dispatcher, restarts, toggles, history>>

StoreRecovers ==
  /\ ~up
  /\ up' = TRUE
  /\ UNCHANGED <<table, dispatcher, outages, restarts, toggles, history>>

\* The process ends, perhaps between Send and its record, and starts again.
Restart ==
  /\ restarts < MaxRestarts
  /\ restarts' = restarts + 1
  /\ batch' = {} /\ sending' = None /\ outcome' = None
  /\ unrecorded' = IF sending = None THEN unrecorded ELSE [unrecorded EXCEPT ![sending] = @ + 1]
  /\ UNCHANGED <<table, up, outages, toggles, accepted, tried>>

SendNext == \E d \in batch, ok \in BOOLEAN : Send(d, ok)

Next ==
  \/ \E e \in Events : Emit(e)
  \/ Load \/ SendNext \/ Record \/ Tick
  \/ \E c \in Channels : ToggleChannel(c) \/ DeleteChannel(c)
  \/ StoreFails \/ StoreRecovers \/ Restart

Spec == Init /\ [][Next]_vars

\* The dispatcher's loop runs on a ticker, time passes, an outage ends.
Fairness ==
  /\ SF_vars(Load) /\ WF_vars(SendNext) /\ WF_vars(Record)
  /\ WF_vars(Tick) /\ WF_vars(StoreRecovers)

FairSpec == Spec /\ Fairness

-----------------------------------------------------------------------------
\* The types of the variables; a delivery is attempted at most four times on
\* record, and only the fourth failure is final (delays in process).
TypeOK ==
  /\ enabled \subseteq Channels \ deleted /\ deleted \subseteq Channels /\ events \subseteq Events
  /\ row \in [Delivery -> [status : Statuses, attempts : 0..MaxAttempts, wait : Nat]]
  /\ batch \subseteq Delivery /\ sending \in Delivery \cup {None}
  /\ outcome \in BOOLEAN \cup {None}
  /\ up \in BOOLEAN
  /\ outages \in 0..MaxOutages /\ restarts \in 0..MaxRestarts /\ toggles \in 0..MaxToggles
  /\ accepted \in [Delivery -> Nat] /\ tried \in [Delivery -> Nat] /\ unrecorded \in [Delivery -> Nat]

\* What the table says is what happened: a row marked sent was accepted by
\* its channel, a row marked failed was refused four times on record.
RowIsTrue ==
  \A d \in Delivery :
    /\ row[d].status = "sent" => accepted[d] > 0
    /\ row[d].status = "failed" => row[d].attempts = MaxAttempts /\ tried[d] >= MaxAttempts
    /\ row[d].status \in Waiting /\ unrecorded[d] = 0 /\ sending # d => accepted[d] = 0

\* Every send is on record, but for those a failed update or a crash lost:
\* a channel is sent to again only because of one of these or a failure.
NoIdleRepeat ==
  \A d \in Delivery : Channel(d) \notin deleted =>
    /\ tried[d] = row[d].attempts + unrecorded[d] + (IF sending = d THEN 1 ELSE 0)
    /\ accepted[d] <= 1 + unrecorded[d]

\* The table is well-formed and true, through lost updates, outages and
\* restarts, and no channel is sent to again without a reason.
RecordsTrue == TypeOK /\ RowIsTrue /\ NoIdleRepeat

\* A delivery to a channel that stays enabled is settled in the end, whatever
\* the channel answers and whatever becomes of the other channels.
Settles ==
  \A d \in Delivery :
    <>[](Channel(d) \in enabled) => (row[d].status \in Waiting ~> row[d].status \in {"sent", "failed"})
=============================================================================
