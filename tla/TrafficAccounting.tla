------------------------- MODULE TrafficAccounting -------------------------
(***************************************************************************)
(* Billing-period traffic of one monitored node: the tracker of            *)
(* internal/core/traffic.go, the latest-state map of internal/core/hub.go, *)
(* acceptSample of internal/httpapi/agent.go, the correction handlers of   *)
(* internal/httpapi/admin_traffic.go, the reset day edited through         *)
(* handleAdminUpdateNode, and the start of the server (hydrateHub, New).   *)
(*                                                                         *)
(* One traffic direction is modelled: the code treats the two alike and    *)
(* independently.  Time counts days; a month has Month days.  A step is    *)
(* one critical section of the tracker or the hub, or one SQL statement.   *)
(* Fields named raw, gen, base, since and clean are history: the raw total *)
(* a sample was published with, the bytes the host had really moved when   *)
(* it was read, the same at the baseline of the period, the time of that   *)
(* baseline, and whether the host has kept running since.                  *)
(***************************************************************************)
EXTENDS Integers, Sequences

CONSTANTS
  Handlers,    \* goroutines that process reports of the node
  Admins,      \* goroutines that process administrator requests
  Targets,     \* totals an administrator may enter
  ResetDays,   \* traffic_reset_day values a node may start with
  NewDays,     \* traffic_reset_day values an administrator may choose
  Corrections, \* corrections a node may start with
  Month,       \* days between two reset boundaries
  MaxSigned,   \* 2^63 - 1 in the code
  MaxUnsigned, \* 2^64 - 1 in the code
  MaxBytes,    \* bound: bytes the host moves in all
  MaxTime,     \* bound: days
  MaxRequests, \* bound: administrator requests
  MaxEvents,   \* bound: reboots, restarts of the server and administrator requests
  MaxPending,  \* bound: rows waiting for the persister
  None

ASSUME TrafficAssumption ==
  /\ Month \in Nat \ {0}
  /\ ResetDays \subseteq 0..(Month - 1) /\ ResetDays # {}
  /\ NewDays \subseteq 0..(Month - 1)
  /\ Corrections \subseteq (-MaxSigned)..MaxSigned
  /\ MaxSigned \in Nat /\ MaxUnsigned = 2 * MaxSigned + 1
  /\ MaxBytes \in 0..MaxSigned /\ Targets \subseteq 0..MaxSigned
  /\ MaxTime \in Nat /\ MaxRequests \in Nat /\ MaxEvents \in Nat /\ MaxPending \in Nat

VARIABLES
  now,       \* the clock, in days
  host,      \* the monitored host: its boot id, its counter, all bytes moved
  row,       \* the node's row: reset day, correction, period of the correction
  durable,   \* the newest metrics_raw row, or None
  tracker,   \* TrafficTracker.states[node], or None
  policy,    \* TrafficTracker.policies[node], or None
  latest,    \* Hub.latest[node], or None
  pending,   \* rows handed to the persister and not yet written
  rep,       \* each report handler: step, node it authenticated, sample, view
  adm,       \* each admin handler: step, what it read, what it will write
  crashes,   \* restarts so far
  requests,  \* administrator requests so far
  fresh,     \* history: progress of a report begun after the last admin request
  missed     \* history: a failed read left the tracker without the row's policy:
             \* "never", "now" or "before"

vars == <<now, host, row, durable, tracker, policy, latest, pending, rep, adm, crashes, requests, fresh, missed>>

\* The tracker has learnt the row's policy.
Caught == IF missed = "never" THEN "never" ELSE "before"

\* Reboots, restarts and requests share one bound.
EventsLeft == host.boot + crashes + requests < MaxEvents

-----------------------------------------------------------------------------
(* The arithmetic of traffic.go and metrics.go.                            *)

PeriodStart(t, day) == t - ((t + Month - day) % Month)

saturatingAdd(left, right) == IF right > MaxUnsigned - left THEN MaxUnsigned ELSE left + right

addSigned(value, adjustment) ==
  IF adjustment >= 0 THEN saturatingAdd(value, adjustment)
  ELSE IF -adjustment >= value THEN 0 ELSE value + adjustment

subtractSigned(value, adjustment) ==
  IF adjustment < 0 THEN saturatingAdd(value, -adjustment)
  ELSE IF adjustment >= value THEN 0 ELSE value - adjustment

metricCounter(value) == IF value > MaxSigned THEN MaxSigned ELSE value

correctionApplies(pol, at) == pol.period # None /\ pol.period = PeriodStart(at, pol.day)

Correct(pol, s) ==
  IF pol = None \/ ~correctionApplies(pol, s.at) THEN s
  ELSE [s EXCEPT !.total = addSigned(@, pol.corr)]

Uncorrect(pol, s) ==
  IF pol = None \/ ~correctionApplies(pol, s.at) THEN s
  ELSE [s EXCEPT !.total = subtractSigned(@, pol.corr)]

\* Fault: a reboot starts the total of the period again.
Accounted_Restarts(st, day, s, t) ==
  IF st = None \/ (st # None /\ (st.period # PeriodStart(t, day) \/ st.boot # s.boot))
  THEN [boot |-> s.boot, last |-> s.rx, total |-> 0, period |-> PeriodStart(t, day),
        gen |-> s.gen, base |-> s.gen, since |-> t, clean |-> TRUE]
  ELSE [st EXCEPT !.last = s.rx, !.gen = s.gen,
                  !.total = IF s.rx >= st.last THEN @ + (s.rx - st.last) ELSE @]

\* Apply on the state st of the tracker: the new state for sample s read at
\* time t.  A first sample, and the first of a period, is a baseline.
Accounted(st, day, s, t) ==
  LET period == PeriodStart(t, day)
      same   == st.boot = s.boot /\ s.rx >= st.last
  IN  IF st = None \/ (st # None /\ st.period # period)
      THEN [boot |-> s.boot, last |-> s.rx, total |-> 0, period |-> period,
            gen |-> s.gen, base |-> s.gen, since |-> t, clean |-> TRUE]
      ELSE [boot |-> s.boot, last |-> s.rx,
            total |-> IF same THEN saturatingAdd(st.total, s.rx - st.last) ELSE st.total,
            period |-> period, gen |-> s.gen, base |-> st.base, since |-> st.since,
            clean |-> st.clean /\ st.boot = s.boot]

-----------------------------------------------------------------------------
IdleRep == [step |-> "off", node |-> None, sample |-> None, view |-> None]
IdleAdm == [step |-> "idle", op |-> None, node |-> None, seen |-> None, raw |-> 0,
            period |-> None, at |-> 0]

Init ==
  /\ now = Month
  /\ host = [boot |-> 0, rx |-> 0, gen |-> 0]
  /\ row \in {[day |-> d, corr |-> 0, period |-> None] : d \in ResetDays}
             \cup {[day |-> d, corr |-> c, period |-> PeriodStart(Month, d)] : d \in ResetDays, c \in Corrections}
  /\ durable = None
  /\ tracker = None
  /\ policy = None
  /\ latest = None
  /\ pending = <<>>
  /\ rep = [h \in Handlers |-> IdleRep]
  /\ adm = [a \in Admins |-> IdleAdm]
  /\ crashes = 0
  /\ requests = 0
  /\ fresh = "no"
  /\ missed = "never"

(* The host and the clock.                                                 *)

Tick ==
  /\ now < MaxTime
  /\ now' = now + 1
  /\ UNCHANGED <<host, row, durable, tracker, policy, latest, pending, rep, adm, crashes, requests, fresh, missed>>

Traffic ==
  /\ host.gen < MaxBytes
  /\ host' = [host EXCEPT !.rx = @ + 1, !.gen = @ + 1]
  /\ UNCHANGED <<now, row, durable, tracker, policy, latest, pending, rep, adm, crashes, requests, fresh, missed>>

Reboot ==
  /\ EventsLeft
  /\ host' = [host EXCEPT !.boot = @ + 1, !.rx = 0]
  /\ UNCHANGED <<now, row, durable, tracker, policy, latest, pending, rep, adm, crashes, requests, fresh, missed>>

-----------------------------------------------------------------------------
(* acceptSample.                                                           *)

\* authenticateAgent of a report or a stream, and the refresh of a stream.
Authenticate(h) ==
  /\ rep[h].step \in {"off", "idle"}
  /\ rep' = [rep EXCEPT ![h].step = "idle", ![h].node = row]
  /\ UNCHANGED <<now, host, row, durable, tracker, policy, latest, pending, adm, crashes, requests, fresh, missed>>

\* A sample arrives on a connection whose node was read some time ago.
Report(h) ==
  /\ rep[h].step = "idle"
  /\ rep' = [rep EXCEPT ![h].step = "apply",
       ![h].sample = [boot |-> host.boot, rx |-> host.rx, at |-> now, gen |-> host.gen, total |-> 0,
                      raw |-> 0, base |-> 0, since |-> 0, clean |-> TRUE]]
  /\ fresh' = IF \A a \in Admins : adm[a].step = "idle" THEN "begun" ELSE "no"
  /\ UNCHANGED <<now, host, row, durable, tracker, policy, latest, pending, adm, crashes, requests, missed>>

\* Fault: a decreasing counter is subtracted as if it had wrapped.
Apply_Wraps(h) ==
  /\ rep[h].step = "apply"
  /\ LET s   == rep[h].sample
         pol == IF policy = None THEN rep[h].node ELSE policy
         st  == Accounted(tracker, pol.day, s, s.at)
         new == IF tracker # None /\ tracker.period = st.period /\ s.rx < tracker.last
                THEN [st EXCEPT !.total = saturatingAdd(@, s.rx + MaxUnsigned + 1 - tracker.last)]
                ELSE st
     IN  /\ policy' = pol
         /\ tracker' = new
         /\ rep' = [rep EXCEPT ![h].step = "correct",
              ![h].sample = [s EXCEPT !.total = new.total, !.raw = new.total, !.base = new.base,
                                      !.since = new.since, !.clean = new.clean]]
  /\ UNCHANGED <<now, host, row, durable, latest, pending, adm, crashes, requests, fresh, missed>>

\* TrafficTracker.Apply, which also installs the policy of an unknown node.
Apply(h) ==
  /\ rep[h].step = "apply"
  /\ LET s   == rep[h].sample
         pol == IF policy = None THEN rep[h].node ELSE policy
         new == Accounted(tracker, pol.day, s, s.at)
     IN  /\ policy' = pol
         /\ tracker' = new
         /\ rep' = [rep EXCEPT ![h].step = "correct",
              ![h].sample = [s EXCEPT !.total = new.total, !.raw = new.total, !.base = new.base,
                                      !.since = new.since, !.clean = new.clean]]
  /\ UNCHANGED <<now, host, row, durable, latest, pending, adm, crashes, requests, fresh, missed>>

\* The handler of a stream goes on with the node it knows.
Waiting(h) == [IdleRep EXCEPT !.step = "idle", !.node = rep[h].node]

\* TrafficTracker.Correct on the raw sample.
CorrectView(h) ==
  /\ rep[h].step = "correct"
  /\ rep' = [rep EXCEPT ![h].step = "publish", ![h].view = Correct(policy, rep[h].sample)]
  /\ UNCHANGED <<now, host, row, durable, tracker, policy, latest, pending, adm, crashes, requests, fresh, missed>>

\* Hub.Publish; the sample is a persistence checkpoint or it is not.
Publish(h) ==
  /\ rep[h].step = "publish"
  /\ latest' = rep[h].view
  /\ fresh' = IF fresh = "begun" THEN "yes" ELSE fresh
  /\ \/ rep' = [rep EXCEPT ![h].step = "enqueue"]
     \/ rep' = [rep EXCEPT ![h] = Waiting(h)]
  /\ UNCHANGED <<now, host, row, durable, tracker, policy, pending, adm, crashes, requests, missed>>

\* Persister.EnqueueMetric with the raw sample.
Enqueue(h) ==
  /\ rep[h].step = "enqueue"
  /\ Len(pending) < MaxPending
  /\ pending' = Append(pending, rep[h].sample)
  /\ rep' = [rep EXCEPT ![h] = Waiting(h)]
  /\ UNCHANGED <<now, host, row, durable, tracker, policy, latest, adm, crashes, requests, fresh, missed>>

\* SaveMetric: counters saturate at the signed maximum, rows are keyed by
\* time and the newest one is what a start of the server reads.
SaveMetric ==
  /\ pending # <<>>
  /\ LET s == Head(pending)
         r == [s EXCEPT !.rx = metricCounter(@), !.total = metricCounter(@)]
     IN  durable' = IF durable = None \/ (durable # None /\ r.at >= durable.at) THEN r ELSE durable
  /\ pending' = Tail(pending)
  /\ UNCHANGED <<now, host, row, tracker, policy, latest, rep, adm, crashes, requests, fresh, missed>>

\* The persister gives a row up.
LoseMetric ==
  /\ pending # <<>>
  /\ pending' = Tail(pending)
  /\ UNCHANGED <<now, host, row, durable, tracker, policy, latest, rep, adm, crashes, requests, fresh, missed>>

-----------------------------------------------------------------------------
(* The correction and node handlers.                                       *)

\* The requests: a total to show, no correction, another reset day.
Request == [kind : {"save"}, value : Targets] \cup [kind : {"clear"}, value : {0}]
           \cup [kind : {"day"}, value : NewDays]

\* GetNode of any of the three handlers.
ReadNode(a, op) ==
  /\ adm[a].step = "idle"
  /\ EventsLeft /\ requests < MaxRequests
  /\ requests' = requests + 1
  /\ adm' = [adm EXCEPT ![a] = [IdleAdm EXCEPT !.step = IF op.kind = "day" THEN "update" ELSE "clock",
                                               !.op = op, !.node = row]]
  /\ fresh' = "no"
  /\ UNCHANGED <<now, host, row, durable, tracker, policy, latest, pending, rep, crashes, missed>>

\* time.Now of the correction handlers.
ReadClock(a) ==
  /\ adm[a].step = "clock"
  /\ adm' = [adm EXCEPT ![a].step = "latest", ![a].at = now]
  /\ UNCHANGED <<now, host, row, durable, tracker, policy, latest, pending, rep, crashes, requests, fresh, missed>>

\* trafficCorrectionSnapshot: Hub.Latest; saving needs a sample of the
\* current period, clearing does not.
ReadLatest(a) ==
  /\ adm[a].step = "latest"
  /\ LET start == PeriodStart(adm[a].at, adm[a].node.day)
         avail == latest # None /\ PeriodStart(latest.at, adm[a].node.day) = start
     IN  adm' = [adm EXCEPT ![a] =
           IF adm[a].op.kind = "save" /\ ~avail THEN IdleAdm
           ELSE [@ EXCEPT !.step = IF latest = None THEN "store" ELSE "uncorrect",
                          !.seen = latest, !.period = start]]
  /\ UNCHANGED <<now, host, row, durable, tracker, policy, latest, pending, rep, crashes, requests, fresh, missed>>

\* trafficCorrectionSnapshot: TrafficTracker.Uncorrect; saving refuses totals
\* beyond the signed maximum.
UncorrectLatest(a) ==
  /\ adm[a].step = "uncorrect"
  /\ LET raw == Uncorrect(policy, adm[a].seen).total
     IN  adm' = [adm EXCEPT ![a] =
           IF adm[a].op.kind = "save" /\ raw > MaxSigned THEN IdleAdm
           ELSE [@ EXCEPT !.step = "store", !.raw = raw]]
  /\ UNCHANGED <<now, host, row, durable, tracker, policy, latest, pending, rep, crashes, requests, fresh, missed>>

\* The node as the save and clear handlers know it after their update.
Edited(a) ==
  IF adm[a].op.kind = "save"
  THEN [adm[a].node EXCEPT !.corr = adm[a].op.value - adm[a].raw, !.period = adm[a].period]
  ELSE [adm[a].node EXCEPT !.corr = 0, !.period = None]

\* UpdateTrafficCorrection: the reset day of the row is not written.
StoreCorrection(a) ==
  /\ adm[a].step = "store"
  /\ row' = [row EXCEPT !.corr = Edited(a).corr, !.period = Edited(a).period]
  /\ adm' = [adm EXCEPT ![a].step = "configure", ![a].node = Edited(a)]
  /\ UNCHANGED <<now, host, durable, tracker, policy, latest, pending, rep, crashes, requests, fresh, missed>>

\* UpdateNode writes the reset day, not the correction.
StoreDay(a) ==
  /\ adm[a].step = "update"
  /\ row' = [row EXCEPT !.day = adm[a].op.value]
  /\ adm' = [adm EXCEPT ![a].step = "reload"]
  /\ UNCHANGED <<now, host, durable, tracker, policy, latest, pending, rep, crashes, requests, fresh, missed>>

\* Fault: the node read before the update is used instead of reading it again.
Reload_Stale(a) ==
  /\ adm[a].step = "reload"
  /\ adm' = [adm EXCEPT ![a].step = "configure"]
  /\ UNCHANGED <<now, host, row, durable, tracker, policy, latest, pending, rep, crashes, requests, fresh, missed>>

\* GetNode again, after UpdateNode.
Reload(a) ==
  /\ adm[a].step = "reload"
  /\ adm' = [adm EXCEPT ![a].step = "configure", ![a].node = row]
  /\ UNCHANGED <<now, host, row, durable, tracker, policy, latest, pending, rep, crashes, requests, fresh, missed>>

\* A statement of a handler fails: the handler answers with an error.  When
\* the row was already updated, the tracker keeps the policy it had.
StatementFails(a) ==
  /\ adm[a].step \in {"store", "update", "reload"}
  /\ adm' = [adm EXCEPT ![a] = IdleAdm]
  /\ missed' = IF adm[a].step = "reload" THEN "now" ELSE missed
  /\ UNCHANGED <<now, host, row, durable, tracker, policy, latest, pending, rep, crashes, requests, fresh>>

\* TrafficTracker.ConfigureNode; the node handler is done, the others go on.
Configure(a) ==
  /\ adm[a].step = "configure"
  /\ policy' = adm[a].node
  /\ missed' = Caught
  /\ adm' = [adm EXCEPT ![a] = IF adm[a].op.kind = "day" THEN IdleAdm
                               ELSE [@ EXCEPT !.step = "reread"]]
  /\ UNCHANGED <<now, host, row, durable, tracker, latest, pending, rep, crashes, requests, fresh>>

\* Hub.Latest again; its total is replaced by the raw total of the snapshot,
\* which the save handler then corrects.
Reread(a) ==
  /\ adm[a].step = "reread"
  /\ adm' = [adm EXCEPT ![a] =
       IF latest = None THEN IdleAdm
       ELSE [@ EXCEPT !.step = IF adm[a].op.kind = "save" THEN "recorrect" ELSE "replace",
                      !.seen = [latest EXCEPT !.total = adm[a].raw]]]
  /\ UNCHANGED <<now, host, row, durable, tracker, policy, latest, pending, rep, crashes, requests, fresh, missed>>

\* TrafficTracker.Correct on that sample.
Recorrect(a) ==
  /\ adm[a].step = "recorrect"
  /\ adm' = [adm EXCEPT ![a].step = "replace", ![a].seen = Correct(policy, adm[a].seen)]
  /\ UNCHANGED <<now, host, row, durable, tracker, policy, latest, pending, rep, crashes, requests, fresh, missed>>

\* Hub.ReplaceLatest.
ReplaceLatest(a) ==
  /\ adm[a].step = "replace"
  /\ latest' = adm[a].seen
  /\ adm' = [adm EXCEPT ![a] = IdleAdm]
  /\ UNCHANGED <<now, host, row, durable, tracker, policy, pending, rep, crashes, requests, fresh, missed>>

-----------------------------------------------------------------------------
(* The server stops, or is killed, and starts again.                       *)

\* Load: the tracker resumes from a durable row, in the period of that row
\* under the reset day of the policy.
Loaded(r, pol) ==
  [boot |-> r.boot, last |-> r.rx, total |-> r.total, period |-> PeriodStart(r.at, pol.day),
   gen |-> r.gen, base |-> r.base, since |-> r.since, clean |-> r.clean]

\* The policy of a node that New could not list.
ZeroPolicy == [day |-> 0, corr |-> 0, period |-> None]

\* Everything in memory is lost; hydrateHub and New rebuild it from the row
\* and the newest durable sample.  A failed hydration leaves the maps empty,
\* a failed ListNodes in New gives hydrated nodes the zero policy.
RestartWith(r, pol, miss) ==
  /\ EventsLeft
  /\ crashes' = crashes + 1
  /\ pending' = <<>>
  /\ rep' = [h \in Handlers |-> IdleRep]
  /\ adm' = [a \in Admins |-> IdleAdm]
  /\ policy' = pol
  /\ tracker' = IF r = None THEN None ELSE Loaded(r, pol)
  /\ latest' = IF r = None THEN None ELSE Correct(pol, r)
  /\ fresh' = "no"
  /\ missed' = IF miss THEN "now" ELSE Caught
  /\ UNCHANGED <<now, host, row, durable, requests>>

Restart ==
  \/ durable # None /\ RestartWith(durable, row, FALSE)
  \/ durable # None /\ RestartWith(durable, ZeroPolicy, TRUE)
  \/ RestartWith(None, None, FALSE)

-----------------------------------------------------------------------------
HandleReport(h) ==
  \/ Authenticate(h) \/ Report(h) \/ Apply(h) \/ CorrectView(h) \/ Publish(h) \/ Enqueue(h)

HandleRequest(a) ==
  \/ \E op \in Request : ReadNode(a, op)
  \/ ReadClock(a) \/ ReadLatest(a) \/ UncorrectLatest(a) \/ StoreCorrection(a)
  \/ StoreDay(a) \/ Reload(a) \/ StatementFails(a) \/ Configure(a)
  \/ Reread(a) \/ Recorrect(a) \/ ReplaceLatest(a)

Next ==
  \/ Tick \/ Traffic \/ Reboot
  \/ \E h \in Handlers : HandleReport(h)
  \/ SaveMetric \/ LoseMetric
  \/ \E a \in Admins : HandleRequest(a)
  \/ Restart

Spec == Init /\ [][Next]_vars

-----------------------------------------------------------------------------
Policies == [day : 0..(Month - 1), corr : -MaxSigned..MaxSigned, period : Int \cup {None}]
Samples  == [boot : 0..MaxEvents, rx : Nat, at : Nat, gen : Nat, total : 0..MaxUnsigned,
             raw : 0..MaxUnsigned, base : Nat, since : Nat, clean : BOOLEAN]
States   == [boot : 0..MaxEvents, last : Nat, total : 0..MaxUnsigned, period : Int,
             gen : Nat, base : Nat, since : Nat, clean : BOOLEAN]

\* The types.  A correction always fits the signed column it is stored in,
\* whatever totals it was derived from (trafficAdjustment).
TypeOK ==
  /\ now \in Nat
  /\ host \in [boot : 0..MaxEvents, rx : 0..MaxBytes, gen : 0..MaxBytes]
  /\ row \in Policies
  /\ policy \in Policies \cup {None}
  /\ durable \in Samples \cup {None}
  /\ latest \in Samples \cup {None}
  /\ tracker \in States \cup {None}
  /\ pending \in Seq(Samples)
  /\ \A h \in Handlers : /\ rep[h].step \in {"off", "idle", "apply", "correct", "publish", "enqueue"}
                         /\ rep[h].node \in Policies \cup {None}
                         /\ rep[h].sample \in Samples \cup {None}
                         /\ rep[h].view \in Samples \cup {None}
  /\ \A a \in Admins : /\ adm[a].step \in {"idle", "clock", "latest", "uncorrect", "store", "update",
                                           "reload", "configure", "reread", "recorrect", "replace"}
                       /\ adm[a].op \in Request \cup {None}
                       /\ adm[a].node \in Policies \cup {None}
                       /\ adm[a].seen \in Samples \cup {None}
                       /\ adm[a].raw \in 0..MaxUnsigned
                       /\ adm[a].period \in Int \cup {None}
                       /\ adm[a].at \in Nat
  /\ crashes \in Nat
  /\ requests \in Nat
  /\ fresh \in {"no", "begun", "yes"}
  /\ missed \in {"never", "now", "before"}

\* A total never exceeds the bytes moved since its baseline, and equals them
\* while the host has not rebooted.
Exact(s) ==
  /\ s.total <= s.gen - s.base
  /\ s.clean => s.total = s.gen - s.base

\* Whatever the order of reports, corrections, lost rows, reboots and
\* restarts from durable rows, the tracker's raw period total and the total
\* of the newest durable row count the traffic since the baseline exactly,
\* less what a reboot hides (Apply, Load, metricCounter).
AccountingExact ==
  /\ tracker # None => Exact(tracker)
  /\ durable # None => Exact(durable)

\* Rows on their way to the store, and the newest one in it, carry the raw
\* total of their sample, never a corrected one (acceptSample enqueues
\* rawSample; ReplaceLatest leaves the persistence path alone).
DurableIsRaw ==
  /\ durable # None => durable.total = durable.raw
  /\ \A i \in DOMAIN pending : pending[i].total = pending[i].raw

\* The tracker's total covers the active period only: its baseline lies in
\* the period the tracker is in (Apply, Load), as long as the reset day is
\* not edited and no start of the server failed to read it.
BaselineInPeriod ==
  tracker # None /\ requests = 0 /\ missed = "never" => tracker.since >= tracker.period

AtRest ==
  /\ \A a \in Admins : adm[a].step = "idle"
  /\ \A h \in Handlers : rep[h].step \in {"off", "idle"}

\* When no request is being handled, the tracker applies the reset day and
\* the correction of the node's row, unless a failed read kept it from
\* learning them: an edit, a correction and a report that installs the
\* policy of an unknown node never leave a superseded policy behind.
PolicyMatchesStore ==
  AtRest /\ policy # None /\ missed # "now" => policy = row

\* After a report that began after the last request, the published total is
\* the tracker's raw total under the correction of the node's row, although
\* the correction handlers rewrite the same map entry without a lock held
\* across their steps.
ViewMatchesStore ==
  AtRest /\ fresh = "yes" /\ missed # "now" => latest.total = Correct(row, [latest EXCEPT !.total = tracker.total]).total

\* Within a period the raw total never decreases (Apply), except when the
\* server restarts from an older durable row.
PeriodTotalGrows ==
  [][ tracker # None /\ tracker' # None /\ tracker'.period = tracker.period /\ crashes' = crashes
      => tracker'.total >= tracker.total ]_vars

\* The totals count each byte once, whatever was corrected, lost or restarted: in the tracker,
\* in the rows on their way and in the store, and only since the period began.
TotalsSound == TypeOK /\ AccountingExact /\ DurableIsRaw /\ BaselineInPeriod

\* At rest, the tracker's policy and the published total are those of the node's row, in
\* whatever order edits, corrections and reports ran their steps.
RowPrevails == PolicyMatchesStore /\ ViewMatchesStore
=============================================================================
