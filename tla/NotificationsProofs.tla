------------------------ MODULE NotificationsProofs ------------------------
(***************************************************************************)
(* The delivery table is true and no channel is sent to again without a    *)
(* reason, for any events and channels, any batch limit and delays, and    *)
(* any number of outages, restarts and channel edits.  The property does   *)
(* not say what a delivery in the dispatcher's hands was before: the       *)
(* strengthening follows one delivery through batch, send and record.      *)
(***************************************************************************)
EXTENDS Notifications, TLAPS

\* A delivery that process holds is waiting in the table, unless its channel was deleted
\* meanwhile; it is held once.
HeldIsWaiting(d) ==
    /\ d \in batch => sending # d
    /\ d \in batch \/ sending = d => Channel(d) \in deleted \/ row[d].status \in Waiting

\* What the row says of the attempts it records.
RowOfAttempts(d) ==
    /\ row[d].status \in Waiting => row[d].attempts <= 3
    /\ row[d].status = "none" => row[d] = Absent
    /\ row[d].status = "failed" => row[d].attempts = MaxAttempts
    /\ row[d].status = "sent" => accepted[d] > 0
    /\ Channel(d) \in deleted \/ d[1] \notin events => row[d] = Absent

\* A channel that accepted a waiting delivery did so in a send that is not on record.
AcceptedIsExplained(d) ==
    Channel(d) \notin deleted =>
        /\ tried[d] = row[d].attempts + unrecorded[d] + (IF sending = d THEN 1 ELSE 0)
        /\ row[d].status = "none" => accepted[d] = 0 /\ unrecorded[d] = 0
        /\ accepted[d] <= 1 + unrecorded[d]
        /\ row[d].status \in Waiting /\ sending # d => accepted[d] <= unrecorded[d]
        /\ sending = d /\ outcome = FALSE => accepted[d] <= unrecorded[d]

OutcomeKnown == sending # None => outcome \in BOOLEAN /\ (outcome = TRUE => accepted[sending] > 0)

DeliveryInv(d) == HeldIsWaiting(d) /\ RowOfAttempts(d) /\ AcceptedIsExplained(d)

RecordsIndInv == TypeOK /\ OutcomeKnown /\ \A d \in Delivery : DeliveryInv(d)

----------------------------------------------------------------------------
\* The strengthening implies the property.
LEMMA RecordsFollow == RecordsIndInv => RecordsTrue
  <1> SUFFICES ASSUME RecordsIndInv PROVE RecordsTrue  OBVIOUS
  <1>1. TypeOK  BY DEF RecordsIndInv
  <1>2. ASSUME NEW d \in Delivery
        PROVE  /\ row[d].status = "sent" => accepted[d] > 0
               /\ row[d].status = "failed" => row[d].attempts = MaxAttempts /\ tried[d] >= MaxAttempts
               /\ row[d].status \in Waiting /\ unrecorded[d] = 0 /\ sending # d => accepted[d] = 0
               /\ Channel(d) \notin deleted =>
                    /\ tried[d] = row[d].attempts + unrecorded[d] + (IF sending = d THEN 1 ELSE 0)
                    /\ accepted[d] <= 1 + unrecorded[d]
    <2>1. RowOfAttempts(d) /\ AcceptedIsExplained(d)  BY <1>2 DEF RecordsIndInv, DeliveryInv
    <2>2. /\ row[d].attempts \in 0..MaxAttempts
          /\ tried[d] \in Nat /\ unrecorded[d] \in Nat /\ accepted[d] \in Nat
      BY <1>1, <1>2 DEF TypeOK
    <2>3. row[d].status # "none" => Channel(d) \notin deleted
      BY <2>1 DEF RowOfAttempts, Absent
    <2> QED  BY <2>1, <2>2, <2>3 DEF RowOfAttempts, AcceptedIsExplained, MaxAttempts, Waiting
  <1>3. RowIsTrue  BY <1>2 DEF RowIsTrue
  <1>4. NoIdleRepeat  BY <1>2 DEF NoIdleRepeat
  <1> QED  BY <1>1, <1>3, <1>4 DEF RecordsTrue

\* At first the table is empty and nothing is held.
LEMMA RecordsInitially == Init => RecordsIndInv
  <1> SUFFICES ASSUME Init PROVE RecordsIndInv  OBVIOUS
  <1>1. TypeOK
    BY NotificationsAssumption DEF Init, TypeOK, Absent, Statuses, Waiting, MaxAttempts
  <1>2. OutcomeKnown  BY DEF Init, OutcomeKnown
  <1>3. ASSUME NEW d \in Delivery PROVE DeliveryInv(d)
    <2>1. row[d] = Absent /\ accepted[d] = 0 /\ tried[d] = 0 /\ unrecorded[d] = 0
      BY <1>3 DEF Init
    <2>2. d \notin batch /\ sending # d /\ Channel(d) \notin deleted
      BY <1>3, NotificationsAssumption DEF Init, Delivery
    <2> QED
      BY <2>1, <2>2 DEF DeliveryInv, HeldIsWaiting, RowOfAttempts, AcceptedIsExplained, Absent, Waiting
  <1> QED  BY <1>1, <1>2, <1>3 DEF RecordsIndInv

\* A delivery about which nothing changes keeps its part of the invariant.
LEMMA Untouched ==
    ASSUME NEW d \in Delivery, DeliveryInv(d),
           row'[d] = row[d], accepted'[d] = accepted[d], tried'[d] = tried[d],
           unrecorded'[d] = unrecorded[d], outcome' = outcome \/ sending' # d,
           d \in batch' <=> d \in batch, sending' = d <=> sending = d,
           Channel(d) \in deleted' <=> Channel(d) \in deleted, events \subseteq events'
    PROVE  DeliveryInv(d)'
  BY DEF DeliveryInv, HeldIsWaiting, RowOfAttempts, AcceptedIsExplained, Channel

----------------------------------------------------------------------------
\* An event is saved: deliveries to the enabled channels appear, and none of them was there.
LEMMA EmitPreserves ==
    ASSUME RecordsIndInv, NEW e \in Events, Emit(e)
    PROVE  RecordsIndInv'
  <1> DEFINE fresh == [status |-> "pending", attempts |-> 0, wait |-> 0]
  <1>1. TypeOK /\ OutcomeKnown  BY DEF RecordsIndInv
  <1>2. /\ UNCHANGED <<enabled, deleted, batch, sending, outcome, up, outages, restarts, toggles>>
        /\ UNCHANGED <<accepted, tried, unrecorded>> /\ events' = events \cup {e}
    BY DEF Emit, dispatcher, world, history
  <1>3. row' \in [Delivery -> [status : Statuses, attempts : 0..MaxAttempts, wait : Nat]]
        /\ \A d \in Delivery : row'[d] = row[d] \/ (row'[d] = fresh /\ d[1] = e /\ Channel(d) \in enabled)
    BY <1>1 DEF Emit, TypeOK, Statuses, Waiting, MaxAttempts
  <1>4. TypeOK'  BY <1>1, <1>2, <1>3 DEF TypeOK
  <1>5. OutcomeKnown'  BY <1>1, <1>2 DEF OutcomeKnown
  <1>6. ASSUME NEW d \in Delivery PROVE DeliveryInv(d)'
    <2>1. DeliveryInv(d)  BY <1>6 DEF RecordsIndInv
    <2>2. CASE row'[d] = row[d]  BY <1>2, <1>6, <2>1, <2>2, Untouched
    <2>3. CASE row'[d] = fresh /\ d[1] = e /\ Channel(d) \in enabled
      <3>1. Channel(d) \notin deleted  BY <1>1, <2>3 DEF TypeOK
      <3>2. row[d] = Absent  BY <2>1, <2>3 DEF Emit, DeliveryInv, RowOfAttempts
      <3> QED
        BY <1>2, <2>1, <2>3, <3>1, <3>2
        DEF DeliveryInv, HeldIsWaiting, RowOfAttempts, AcceptedIsExplained, Channel, Absent, Waiting
    <2> QED  BY <1>3, <1>6, <2>2, <2>3
  <1> QED  BY <1>4, <1>5, <1>6 DEF RecordsIndInv

\* A batch is loaded: its deliveries are waiting.
LEMMA LoadPreserves ==
    ASSUME RecordsIndInv, Load
    PROVE  RecordsIndInv'
  <1>1. TypeOK /\ OutcomeKnown  BY DEF RecordsIndInv
  <1>2. /\ UNCHANGED <<enabled, deleted, events, row, sending, outcome, up, outages, restarts, toggles>>
        /\ UNCHANGED <<accepted, tried, unrecorded>>
        /\ batch = {} /\ sending = None /\ batch' \subseteq Due
    BY DEF Load, table, world, history
  <1>3. TypeOK'  BY <1>1, <1>2 DEF TypeOK, Due
  <1>4. OutcomeKnown'  BY <1>1, <1>2 DEF OutcomeKnown
  <1>5. ASSUME NEW d \in Delivery PROVE DeliveryInv(d)'
    <2>1. DeliveryInv(d)  BY <1>5 DEF RecordsIndInv
    <2>2. sending # d  BY <1>2, <1>5, NotificationsAssumption DEF Delivery
    <2>3. d \in batch' => row[d].status \in Waiting  BY <1>2 DEF Due
    <2> QED  BY <1>2, <2>1, <2>2, <2>3 DEF DeliveryInv, HeldIsWaiting, RowOfAttempts, AcceptedIsExplained, Channel
  <1> QED  BY <1>3, <1>4, <1>5 DEF RecordsIndInv

\* A delivery is sent: it leaves the batch, and the channel accepts it or does not.
LEMMA SendPreserves ==
    ASSUME RecordsIndInv, NEW s \in batch, NEW ok \in BOOLEAN, Send(s, ok)
    PROVE  RecordsIndInv'
  <1>1. TypeOK  BY DEF RecordsIndInv
  <1>2. /\ UNCHANGED <<enabled, deleted, events, row, up, outages, restarts, toggles, unrecorded>>
        /\ sending = None /\ batch' = batch \ {s} /\ sending' = s /\ outcome' = ok
        /\ tried' = [tried EXCEPT ![s] = @ + 1]
        /\ accepted' = IF ok THEN [accepted EXCEPT ![s] = @ + 1] ELSE accepted
    BY DEF Send, table, world
  <1>3. s \in Delivery /\ s # None  BY <1>1, NotificationsAssumption DEF TypeOK, Delivery
  <1>4. /\ tried' \in [Delivery -> Nat] /\ accepted' \in [Delivery -> Nat]
        /\ \A d \in Delivery : /\ tried'[d] = IF d = s THEN tried[d] + 1 ELSE tried[d]
                               /\ accepted'[d] = IF d = s /\ ok THEN accepted[d] + 1 ELSE accepted[d]
    <2>1. tried' \in [Delivery -> Nat]
          /\ \A d \in Delivery : tried'[d] = IF d = s THEN tried[d] + 1 ELSE tried[d]
      BY <1>1, <1>2, <1>3 DEF TypeOK
    <2>2. CASE ok = TRUE  BY <1>1, <1>2, <1>3, <2>1, <2>2 DEF TypeOK
    <2>3. CASE ok = FALSE  BY <1>1, <1>2, <2>1, <2>3 DEF TypeOK
    <2> QED  BY <2>2, <2>3, Zenon
  <1>5. TypeOK'  BY <1>1, <1>2, <1>3, <1>4 DEF TypeOK
  <1>6. OutcomeKnown'
    <2>1. accepted[s] \in Nat  BY <1>1, <1>3 DEF TypeOK
    <2>2. ok = TRUE => accepted'[s] > 0  BY <1>3, <1>4, <2>1
    <2> QED  BY <1>2, <1>3, <2>2 DEF OutcomeKnown
  <1>7. ASSUME NEW d \in Delivery PROVE DeliveryInv(d)'
    <2>1. DeliveryInv(d)  BY <1>7 DEF RecordsIndInv
    <2>2. sending # d  BY <1>2, <1>7, NotificationsAssumption DEF Delivery
    <2>3. CASE d # s  BY <1>2, <1>4, <1>7, <2>1, <2>2, <2>3, Untouched
    <2>4. CASE d = s
      <3>1. /\ tried[d] \in Nat /\ accepted[d] \in Nat /\ unrecorded[d] \in Nat
            /\ row[d].attempts \in Nat
        BY <1>1, <1>7 DEF TypeOK, MaxAttempts
      <3>2. Channel(d) \in deleted \/ row[d].status \in Waiting
        BY <2>1, <2>4 DEF DeliveryInv, HeldIsWaiting
      <3>3. HeldIsWaiting(d)'  BY <1>2, <2>4, <3>2 DEF HeldIsWaiting, Channel
      <3>4. RowOfAttempts(d)'
        BY <1>2, <1>4, <1>7, <2>1, <3>1 DEF DeliveryInv, RowOfAttempts, Channel
      <3>5. AcceptedIsExplained(d)'
        <4> SUFFICES ASSUME Channel(d) \notin deleted
                     PROVE  /\ tried'[d] = row[d].attempts + unrecorded[d] + 1
                            /\ row[d].status # "none"
                            /\ accepted'[d] <= 1 + unrecorded[d]
                            /\ ok = FALSE => accepted'[d] <= unrecorded[d]
          BY <1>2, <2>4, Zenon DEF AcceptedIsExplained, Channel
        <4>1. /\ tried[d] = row[d].attempts + unrecorded[d] /\ accepted[d] <= unrecorded[d]
          BY <2>1, <2>2, <3>1, <3>2 DEF DeliveryInv, AcceptedIsExplained
        <4> QED  BY <1>4, <1>7, <2>4, <3>1, <3>2, <4>1 DEF Waiting
      <3> QED  BY <3>3, <3>4, <3>5 DEF DeliveryInv
    <2> QED  BY <2>3, <2>4
  <1> QED  BY <1>5, <1>6, <1>7 DEF RecordsIndInv

\* The outcome is recorded, or is lost with the store, or its row is gone.
LEMMA RecordPreserves ==
    ASSUME RecordsIndInv, Record
    PROVE  RecordsIndInv'
  <1> DEFINE s == sending
             noted == up /\ row[s] # Absent
  <1>1. TypeOK /\ OutcomeKnown  BY DEF RecordsIndInv
  <1>2. /\ UNCHANGED <<enabled, deleted, events, batch, up, outages, restarts, toggles, accepted, tried>>
        /\ sending # None /\ sending' = None /\ outcome' = None
        /\ row' = IF noted THEN [row EXCEPT ![s] = After(row[s], outcome)] ELSE row
        /\ unrecorded' = IF up THEN unrecorded ELSE [unrecorded EXCEPT ![s] = @ + 1]
    BY DEF Record, world
  <1>3. s \in Delivery /\ outcome \in BOOLEAN /\ (outcome = TRUE => accepted[s] > 0)
    BY <1>1, <1>2 DEF TypeOK, OutcomeKnown
  <1>4. /\ row[s] \in [status : Statuses, attempts : 0..MaxAttempts, wait : Nat]
        /\ accepted[s] \in Nat /\ tried[s] \in Nat /\ unrecorded[s] \in Nat /\ up \in BOOLEAN
    BY <1>1, <1>3 DEF TypeOK
  <1>5. DeliveryInv(s)  BY <1>3 DEF RecordsIndInv
  <1>6. noted => Channel(s) \notin deleted /\ row[s].status \in Waiting /\ row[s].attempts \in 0..3
    BY <1>4, <1>5 DEF DeliveryInv, HeldIsWaiting, RowOfAttempts
  <1>7. ASSUME noted
        PROVE  LET r == After(row[s], outcome)
               IN  /\ r \in [status : Statuses, attempts : 0..MaxAttempts, wait : Nat]
                   /\ r.attempts = row[s].attempts + 1
                   /\ \/ r.status = "sent" /\ outcome = TRUE
                      \/ r.status = "retry" /\ outcome = FALSE /\ r.attempts <= 3
                      \/ r.status = "failed" /\ outcome = FALSE /\ r.attempts = MaxAttempts
    <2> DEFINE n == row[s].attempts + 1
    <2>1. n \in 1..4  BY <1>6, <1>7
    <2>2. CASE outcome = TRUE
      <3>1. After(row[s], outcome) = [status |-> "sent", attempts |-> n, wait |-> 0]
        BY <2>2 DEF After
      <3> QED  BY <2>1, <2>2, <3>1 DEF Statuses, MaxAttempts
    <2>3. CASE outcome = FALSE /\ n <= 3
      <3>1. After(row[s], outcome) = [status |-> "retry", attempts |-> n, wait |-> Delays[n]]
        BY <2>1, <2>3 DEF After
      <3>2. Delays[n] \in Nat  BY <2>1, <2>3, NotificationsAssumption
      <3> QED  BY <2>1, <2>3, <3>1, <3>2 DEF Statuses, Waiting, MaxAttempts
    <2>4. CASE outcome = FALSE /\ n > 3
      <3>1. After(row[s], outcome) = [status |-> "failed", attempts |-> n, wait |-> 0]
        BY <2>1, <2>4 DEF After
      <3> QED  BY <2>1, <2>4, <3>1 DEF Statuses, MaxAttempts
    <2>5. n <= 3 \/ n > 3  BY <2>1
    <2>6. outcome = TRUE \/ outcome = FALSE  BY <1>3
    <2> HIDE DEF n
    <2> QED  BY <2>2, <2>3, <2>4, <2>5, <2>6, Zenon
  <1>8. /\ row' \in [Delivery -> [status : Statuses, attempts : 0..MaxAttempts, wait : Nat]]
        /\ \A d \in Delivery : row'[d] = IF d = s /\ noted THEN After(row[s], outcome) ELSE row[d]
    BY <1>1, <1>2, <1>3, <1>7, Zenon DEF TypeOK
  <1>9. /\ unrecorded' \in [Delivery -> Nat]
        /\ \A d \in Delivery : unrecorded'[d] = IF d = s /\ ~up THEN unrecorded[d] + 1 ELSE unrecorded[d]
    BY <1>1, <1>2, <1>3 DEF TypeOK
  <1>10. TypeOK'  BY <1>1, <1>2, <1>8, <1>9 DEF TypeOK
  <1>11. OutcomeKnown'  BY <1>2 DEF OutcomeKnown
  <1>12. ASSUME NEW d \in Delivery PROVE DeliveryInv(d)'
    <2>1. DeliveryInv(d) /\ d # None  BY <1>12, NotificationsAssumption DEF RecordsIndInv, Delivery
    <2>2. CASE d # s  BY <1>2, <1>8, <1>9, <1>12, <2>1, <2>2, Untouched
    <2>3. CASE d = s
      <3>1. HeldIsWaiting(d)'
        BY <1>2, <1>5, <2>1, <2>3 DEF DeliveryInv, HeldIsWaiting
      <3>2. CASE noted
        <4>1. /\ row'[d].attempts = row[d].attempts + 1 /\ row'[d] # Absent
              /\ unrecorded'[d] = unrecorded[d]
              /\ \/ row'[d].status = "sent" /\ outcome = TRUE
                 \/ row'[d].status = "retry" /\ outcome = FALSE /\ row'[d].attempts <= 3
                 \/ row'[d].status = "failed" /\ outcome = FALSE /\ row'[d].attempts = MaxAttempts
          <5>1. row'[d] = After(row[s], outcome)  BY <1>8, <1>12, <2>3, <3>2
          <5>2. unrecorded'[d] = unrecorded[d]  BY <1>9, <1>12, <3>2
          <5>3. row'[d].status # "none"  BY <1>7, <3>2, <5>1, Zenon
          <5>4. row'[d] # Absent  BY <5>3 DEF Absent
          <5> QED  BY <1>7, <2>3, <3>2, <5>1, <5>2, <5>4, Zenon
        <4>2. RowOfAttempts(d)'
          BY <1>2, <1>3, <1>5, <1>6, <2>3, <3>2, <4>1, Zenon DEF DeliveryInv, RowOfAttempts, Waiting, Channel, Absent
        <4>3. AcceptedIsExplained(d)'
          BY <1>2, <1>4, <1>5, <1>6, <2>1, <2>3, <3>2, <4>1, SMTT(30)
          DEF DeliveryInv, AcceptedIsExplained, Waiting, Channel, MaxAttempts
        <4> QED  BY <3>1, <4>2, <4>3 DEF DeliveryInv
      <3>3. CASE ~noted
        <4>1. row'[d] = row[d]  BY <1>8, <1>12, <3>3
        <4>2. RowOfAttempts(d)'
          BY <1>2, <1>5, <2>3, <4>1, Zenon DEF DeliveryInv, RowOfAttempts, Channel
        <4>3. AcceptedIsExplained(d)'
          <5>1. CASE ~up
            BY <1>2, <1>4, <1>5, <1>9, <1>12, <2>1, <2>3, <4>1, <5>1, SMTT(30)
            DEF DeliveryInv, HeldIsWaiting, AcceptedIsExplained, Waiting, Channel, MaxAttempts
          <5>2. CASE up
            <6>1. row[d] = Absent  BY <2>3, <3>3, <5>2
            <6>2. Channel(d) \in deleted
              BY <1>5, <2>3, <6>1 DEF DeliveryInv, HeldIsWaiting, Waiting, Absent
            <6> QED  BY <1>2, <6>2, Zenon DEF AcceptedIsExplained, Channel
          <5> QED  BY <5>1, <5>2
        <4> QED  BY <3>1, <4>2, <4>3 DEF DeliveryInv
      <3> QED  BY <3>2, <3>3
    <2> QED  BY <2>2, <2>3
  <1> QED  BY <1>10, <1>11, <1>12 DEF RecordsIndInv

\* Time passes: a wait shortens, nothing else of a row changes.
LEMMA TickPreserves ==
    ASSUME RecordsIndInv, Tick
    PROVE  RecordsIndInv'
  <1>1. TypeOK /\ OutcomeKnown  BY DEF RecordsIndInv
  <1>2. /\ UNCHANGED <<enabled, deleted, events, batch, sending, outcome, up, outages, restarts, toggles>>
        /\ UNCHANGED <<accepted, tried, unrecorded>>
    BY DEF Tick, dispatcher, world, history
  <1>3. ASSUME NEW d \in Delivery
        PROVE  /\ row'[d] \in [status : Statuses, attempts : 0..MaxAttempts, wait : Nat]
               /\ row'[d].status = row[d].status /\ row'[d].attempts = row[d].attempts
               /\ row[d].wait = 0 => row'[d] = row[d]
    <2>1. row[d] \in [status : Statuses, attempts : 0..MaxAttempts, wait : Nat]  BY <1>1, <1>3 DEF TypeOK
    <2>2. row'[d] = IF row[d].wait > 0 THEN [row[d] EXCEPT !.wait = @ - 1] ELSE row[d]
      BY <1>3 DEF Tick
    <2>3. CASE row[d].wait > 0
      <3>1. row'[d] = [row[d] EXCEPT !.wait = row[d].wait - 1] /\ row[d].wait - 1 \in Nat
        BY <2>1, <2>2, <2>3
      <3> QED  BY <2>1, <2>3, <3>1
    <2>4. CASE ~(row[d].wait > 0)  BY <2>1, <2>2, <2>4
    <2> QED  BY <2>3, <2>4
  <1>4. row' \in [Delivery -> [status : Statuses, attempts : 0..MaxAttempts, wait : Nat]]
    <2>1. row' = [d \in Delivery |-> row'[d]]  BY DEF Tick
    <2> QED  BY <1>3, <2>1
  <1>5. TypeOK'  BY <1>1, <1>2, <1>4 DEF TypeOK
  <1>6. OutcomeKnown'  BY <1>1, <1>2 DEF OutcomeKnown
  <1>7. ASSUME NEW d \in Delivery PROVE DeliveryInv(d)'
    <2>1. DeliveryInv(d)  BY <1>7 DEF RecordsIndInv
    <2>2. row[d] = Absent => row'[d] = Absent  BY <1>3, <1>7 DEF Absent
    <2> QED
      BY <1>2, <1>3, <1>7, <2>1, <2>2, Zenon DEF DeliveryInv, HeldIsWaiting, RowOfAttempts, AcceptedIsExplained, Channel
  <1> QED  BY <1>5, <1>6, <1>7 DEF RecordsIndInv

\* A channel is switched on or off: a batch already loaded is not concerned.
LEMMA TogglePreserves ==
    ASSUME RecordsIndInv, NEW c \in Channels, ToggleChannel(c)
    PROVE  RecordsIndInv'
  <1>1. TypeOK /\ OutcomeKnown  BY DEF RecordsIndInv
  <1>2. /\ UNCHANGED <<deleted, events, row, batch, sending, outcome, up, outages, restarts>>
        /\ UNCHANGED <<accepted, tried, unrecorded>>
    BY DEF ToggleChannel, dispatcher, history
  <1>3. toggles' \in 0..MaxToggles /\ enabled' \subseteq Channels \ deleted'
    BY <1>1, <1>2, NotificationsAssumption DEF ToggleChannel, TypeOK
  <1>4. TypeOK'  BY <1>1, <1>2, <1>3 DEF TypeOK
  <1>5. OutcomeKnown'  BY <1>1, <1>2 DEF OutcomeKnown
  <1>6. ASSUME NEW d \in Delivery PROVE DeliveryInv(d)'
    <2>1. DeliveryInv(d)  BY <1>6 DEF RecordsIndInv
    <2> QED  BY <1>2, <1>6, <2>1, Untouched
  <1> QED  BY <1>4, <1>5, <1>6 DEF RecordsIndInv

\* A channel is deleted: its rows are gone, though a delivery may still be in hand.
LEMMA DeletePreserves ==
    ASSUME RecordsIndInv, NEW c \in Channels, DeleteChannel(c)
    PROVE  RecordsIndInv'
  <1>1. TypeOK /\ OutcomeKnown  BY DEF RecordsIndInv
  <1>2. /\ UNCHANGED <<events, batch, sending, outcome, up, outages, restarts, accepted, tried, unrecorded>>
        /\ deleted' = deleted \cup {c} /\ enabled' = enabled \ {c}
    BY DEF DeleteChannel, dispatcher, history
  <1>3. toggles' \in 0..MaxToggles /\ enabled' \subseteq Channels \ deleted' /\ deleted' \subseteq Channels
    BY <1>1, <1>2, NotificationsAssumption DEF DeleteChannel, TypeOK
  <1>4. /\ row' \in [Delivery -> [status : Statuses, attempts : 0..MaxAttempts, wait : Nat]]
        /\ \A d \in Delivery : row'[d] = IF Channel(d) = c THEN Absent ELSE row[d]
    BY <1>1 DEF DeleteChannel, TypeOK, Absent, Statuses, MaxAttempts
  <1>5. TypeOK'  BY <1>1, <1>2, <1>3, <1>4 DEF TypeOK
  <1>6. OutcomeKnown'  BY <1>1, <1>2 DEF OutcomeKnown
  <1>7. ASSUME NEW d \in Delivery PROVE DeliveryInv(d)'
    <2>1. DeliveryInv(d)  BY <1>7 DEF RecordsIndInv
    <2>2. CASE Channel(d) # c  BY <1>2, <1>4, <1>7, <2>1, <2>2, Untouched, Zenon
    <2>3. CASE Channel(d) = c
      <3>1. row'[d] = Absent /\ Channel(d) \in deleted'  BY <1>2, <1>4, <1>7, <2>3
      <3> QED
        BY <1>2, <2>1, <3>1
        DEF DeliveryInv, HeldIsWaiting, RowOfAttempts, AcceptedIsExplained, Absent, Waiting, Channel
    <2> QED  BY <2>2, <2>3
  <1> QED  BY <1>5, <1>6, <1>7 DEF RecordsIndInv

\* The store goes away and returns; what is in hand stays there.
LEMMA OutagePreserves ==
    ASSUME RecordsIndInv, StoreFails \/ StoreRecovers
    PROVE  RecordsIndInv'
  <1>1. TypeOK /\ OutcomeKnown  BY DEF RecordsIndInv
  <1>2. /\ UNCHANGED <<enabled, deleted, events, row, batch, sending, outcome, restarts, toggles>>
        /\ UNCHANGED <<accepted, tried, unrecorded>>
    BY DEF StoreFails, StoreRecovers, table, dispatcher, history
  <1>3. up' \in BOOLEAN /\ outages' \in 0..MaxOutages
    <2>1. CASE StoreFails
      <3>1. up' = FALSE /\ outages < MaxOutages /\ outages' = outages + 1  BY <2>1 DEF StoreFails
      <3>2. outages' \in 0..MaxOutages  BY <1>1, <3>1, NotificationsAssumption DEF TypeOK
      <3> QED  BY <3>1, <3>2, Zenon
    <2>2. CASE StoreRecovers
      <3>1. up' = TRUE /\ outages' = outages  BY <2>2 DEF StoreRecovers
      <3> QED  BY <1>1, <3>1 DEF TypeOK
    <2> QED  BY <2>1, <2>2
  <1>4. TypeOK'  BY <1>1, <1>2, <1>3 DEF TypeOK
  <1>5. OutcomeKnown'  BY <1>1, <1>2 DEF OutcomeKnown
  <1>6. ASSUME NEW d \in Delivery PROVE DeliveryInv(d)'
    <2>1. DeliveryInv(d)  BY <1>6 DEF RecordsIndInv
    <2> QED  BY <1>2, <1>6, <2>1, Untouched, Zenon
  <1> QED  BY <1>4, <1>5, <1>6 DEF RecordsIndInv

\* The process is restarted: a send whose outcome was not recorded stays unrecorded.
LEMMA RestartPreserves ==
    ASSUME RecordsIndInv, Restart
    PROVE  RecordsIndInv'
  <1>1. TypeOK /\ OutcomeKnown  BY DEF RecordsIndInv
  <1>2. /\ UNCHANGED <<enabled, deleted, events, row, up, outages, toggles, accepted, tried>>
        /\ batch' = {} /\ sending' = None /\ outcome' = None
    BY DEF Restart, table
  <1>3. restarts' \in 0..MaxRestarts  BY <1>1, NotificationsAssumption DEF Restart, TypeOK
  <1>4. /\ unrecorded' \in [Delivery -> Nat]
        /\ \A d \in Delivery : unrecorded'[d] = IF d = sending THEN unrecorded[d] + 1 ELSE unrecorded[d]
    <2>1. CASE sending = None
      BY <1>1, <2>1, NotificationsAssumption DEF Restart, TypeOK, Delivery
    <2>2. CASE sending # None  BY <1>1, <2>2 DEF Restart, TypeOK
    <2> QED  BY <2>1, <2>2
  <1>5. TypeOK'  BY <1>1, <1>2, <1>3, <1>4 DEF TypeOK
  <1>6. OutcomeKnown'  BY <1>2 DEF OutcomeKnown
  <1>7. ASSUME NEW d \in Delivery PROVE DeliveryInv(d)'
    <2>1. DeliveryInv(d) /\ d # None  BY <1>7, NotificationsAssumption DEF RecordsIndInv, Delivery
    <2>2. /\ row[d].attempts \in Nat /\ accepted[d] \in Nat /\ tried[d] \in Nat /\ unrecorded[d] \in Nat
      BY <1>1, <1>7 DEF TypeOK, MaxAttempts
    <2> QED
      BY <1>2, <1>4, <1>7, <2>1, <2>2
      DEF DeliveryInv, HeldIsWaiting, RowOfAttempts, AcceptedIsExplained, Channel, Waiting
  <1> QED  BY <1>5, <1>6, <1>7 DEF RecordsIndInv

----------------------------------------------------------------------------
\* Every step of process, of the store and of the administrators keeps the strengthening.
LEMMA RecordsStep == RecordsIndInv /\ [Next]_vars => RecordsIndInv'
  <1> SUFFICES ASSUME RecordsIndInv, [Next]_vars PROVE RecordsIndInv'  OBVIOUS
  <1>1. CASE UNCHANGED vars
    <2>1. /\ UNCHANGED <<enabled, deleted, events, row, batch, sending, outcome, up, outages, restarts>>
          /\ UNCHANGED <<toggles, accepted, tried, unrecorded>>
      BY <1>1 DEF vars, table, dispatcher, world, history
    <2>2. TypeOK' /\ OutcomeKnown'  BY <2>1 DEF RecordsIndInv, TypeOK, OutcomeKnown
    <2>3. ASSUME NEW d \in Delivery PROVE DeliveryInv(d)'
      BY <2>1, <2>3, Untouched DEF RecordsIndInv
    <2> QED  BY <2>2, <2>3 DEF RecordsIndInv
  <1>2. CASE \E e \in Events : Emit(e)  BY <1>2, EmitPreserves
  <1>3. CASE Load  BY <1>3, LoadPreserves
  <1>4. CASE SendNext  BY <1>4, SendPreserves DEF SendNext
  <1>5. CASE Record  BY <1>5, RecordPreserves
  <1>6. CASE Tick  BY <1>6, TickPreserves
  <1>7. CASE \E c \in Channels : ToggleChannel(c) \/ DeleteChannel(c)
    BY <1>7, TogglePreserves, DeletePreserves
  <1>8. CASE StoreFails \/ StoreRecovers  BY <1>8, OutagePreserves
  <1>9. CASE Restart  BY <1>9, RestartPreserves
  <1> QED  BY <1>1, <1>2, <1>3, <1>4, <1>5, <1>6, <1>7, <1>8, <1>9 DEF Next

\* The delivery table tells the truth, and a channel is sent to again only after a failure or
\* a record that was lost, through outages, restarts, switched and deleted channels.
THEOREM RecordsStayTrue == Spec => []RecordsTrue
  <1>1. RecordsIndInv /\ [Next]_vars => RecordsIndInv'  BY RecordsStep
  <1> QED  BY RecordsInitially, <1>1, RecordsFollow, PTL DEF Spec
=============================================================================
