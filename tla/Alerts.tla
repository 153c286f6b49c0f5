------------------------------- MODULE Alerts -------------------------------
(***************************************************************************)
(* The alert engine (internal/alerting/engine.go) watching one node.       *)
(*                                                                         *)
(* The engine's goroutine evaluates queued samples, sweeps the nodes on a  *)
(* ticker, and loads the rules on a signal or on a ticker.  A sample is    *)
(* abstracted to what a rule reads in it: a "bad" value meets the rule's   *)
(* condition, a "good" one meets its recovery threshold, a value "between" *)
(* meets neither.  Times are ages, counted up to the bound that decides    *)
(* something, so that the engine can run for ever in a finite model.       *)
(***************************************************************************)
EXTENDS Naturals, Sequences, FiniteSets

CONSTANTS
  Rules,        \* the alert rules; Metric, Duration and Cooldown are theirs
  Metric,       \* [Rules -> {"cpu", "online"}]
  Duration,     \* [Rules -> Nat]
  Cooldown,     \* [Rules -> Nat]
  Levels,       \* what the agent's samples may read
  SweepEvery,   \* ticks between two sweeps: 15 s in the code
  RefreshEvery, \* ticks between two loads of the rules: 60 s in the code
  OfflineAfter, \* age at which a node counts as offline
  QueueSize,    \* 2048 in the code
  MaxEnabled,   \* bound: rules enabled at a time
  MaxEdits,     \* bound: edits of the rules
  MaxOutages,   \* bound: outages of the store
  MaxRestarts,  \* bound: restarts of the server
  None

ASSUME AlertsAssumption ==
  /\ Metric \in [Rules -> {"cpu", "online"}]
  /\ Duration \in [Rules -> Nat] /\ Cooldown \in [Rules -> Nat]
  /\ Levels \subseteq {"bad", "between", "good"}
  /\ SweepEvery \in Nat \ {0} /\ RefreshEvery \in Nat \ {0}
  /\ OfflineAfter \in Nat /\ QueueSize \in Nat \ {0}
  /\ MaxEnabled \in Nat /\ MaxEdits \in Nat /\ MaxOutages \in Nat /\ MaxRestarts \in Nat
  /\ None \notin Nat

VARIABLES
  stored,    \* the rules enabled in the store
  rules,     \* Engine.rules: the enabled rules the engine knows
  signal,    \* Engine.reload holds a signal
  queue,     \* Engine.queue: what the waiting samples read
  state,     \* Engine.states: [since, firing, quiet] of each rule
  sweep,     \* age of the last sweep
  refresh,   \* age of the last load by the ticker
  seen,      \* age of the newest sample in the hub, None before the first
  alive,     \* the agent is running
  up,        \* the store answers
  edits, outages, restarts,
  open,      \* history: the last event saved for a rule was a firing one
  gap,       \* history: age of the last event saved for a rule
  calm       \* history: age of the last evaluation that was not bad

engine == <<rules, signal, queue, state, sweep, refresh>>
world == <<stored, seen, alive, up, edits, outages, restarts>>
history == <<open, gap, calm>>
vars == <<engine, world, history>>

Fresh(r) == [since |-> None, firing |-> FALSE, quiet |-> Cooldown[r]]

Init ==
  /\ stored \in {S \in SUBSET Rules : Cardinality(S) <= MaxEnabled}
  /\ rules = stored
  /\ signal = FALSE
  /\ queue = <<>>
  /\ state = [r \in Rules |-> Fresh(r)]
  /\ sweep = 0
  /\ refresh = 0
  /\ seen = None
  /\ alive = TRUE
  /\ up = TRUE
  /\ edits = 0 /\ outages = 0 /\ restarts = 0
  /\ open = [r \in Rules |-> FALSE]
  /\ gap = [r \in Rules |-> Cooldown[r]]
  /\ calm = [r \in Rules |-> 0]

Older(age, bound) == IF age < bound THEN age + 1 ELSE bound

-----------------------------------------------------------------------------
(* evaluateRule.                                                           *)

\* Fault: the state changes although the event could not be saved.
Evaluated_Unsaved(r, s, level) ==
  LET since == IF s.since = None THEN 0 ELSE s.since
      due   == since >= Duration[r] /\ s.quiet >= Cooldown[r]
  IN  CASE level = "bad" /\ s.firing -> s
        [] level = "bad" /\ ~s.firing /\ due -> [since |-> since, firing |-> TRUE, quiet |-> 0]
        [] level = "bad" /\ ~s.firing /\ ~due -> [s EXCEPT !.since = since]
        [] level = "good" /\ s.firing -> [since |-> None, firing |-> FALSE, quiet |-> 0]
        [] level = "between" \/ (level = "good" /\ ~s.firing) -> [s EXCEPT !.since = None]

\* Fault: a recovery does not start the cooldown.
Evaluated_NoCooldown(r, s, level) ==
  LET since == IF s.since = None THEN 0 ELSE s.since
      due   == since >= Duration[r] /\ s.quiet >= Cooldown[r]
  IN  CASE level = "bad" /\ s.firing -> s
        [] level = "bad" /\ ~s.firing /\ due /\ up -> [s EXCEPT !.since = since, !.firing = TRUE]
        [] level = "bad" /\ ~s.firing /\ ~(due /\ up) -> [s EXCEPT !.since = since]
        [] level = "good" /\ s.firing /\ up -> [s EXCEPT !.since = None, !.firing = FALSE]
        [] level = "between" \/ (level = "good" /\ ~(s.firing /\ up)) -> [s EXCEPT !.since = None]

\* The state of rule r after a value of the given level; an event is saved
\* when the rule starts or stops firing, and only then does the state change.
Evaluated(r, s, level) ==
  LET since == IF s.since = None THEN 0 ELSE s.since
      due   == since >= Duration[r] /\ s.quiet >= Cooldown[r]
  IN  CASE level = "bad" /\ s.firing -> s
        [] level = "bad" /\ ~s.firing /\ due /\ up -> [since |-> since, firing |-> TRUE, quiet |-> 0]
        [] level = "bad" /\ ~s.firing /\ ~(due /\ up) -> [s EXCEPT !.since = since]
        [] level = "good" /\ s.firing /\ up -> [since |-> None, firing |-> FALSE, quiet |-> 0]
        [] level = "between" \/ (level = "good" /\ ~(s.firing /\ up)) -> [s EXCEPT !.since = None]

\* metricValue of a sample of the agent: it says nothing about "online".
SampleReads(level) == [r \in Rules |-> IF Metric[r] = "online" THEN None ELSE level]

\* metricValue of the sample that sweepNodes makes up: its CPU field holds the
\* online bit and every other field is zero, far below the threshold of a rule
\* that fires on a high value.
SweepReads(online) ==
  [r \in Rules |-> IF Metric[r] = "online" /\ ~online THEN "bad" ELSE "good"]

\* evaluate: every enabled rule that finds its metric in the sample.
Evaluate(reads) ==
  LET touched == {r \in rules : reads[r] # None}
      event   == {r \in touched : up /\ state'[r].firing # state[r].firing}
  IN  /\ state' = [r \in Rules |-> IF r \in touched THEN Evaluated(r, state[r], reads[r]) ELSE state[r]]
      /\ open' = [r \in Rules |-> IF r \in event THEN state'[r].firing ELSE open[r]]
      /\ gap' = [r \in Rules |-> IF r \in event THEN 0 ELSE gap[r]]
      /\ calm' = [r \in Rules |-> IF r \in touched /\ reads[r] # "bad" THEN 0 ELSE calm[r]]

-----------------------------------------------------------------------------
(* The engine's goroutine.                                                 *)

EvaluateNext ==
  /\ queue # <<>>
  /\ Evaluate(SampleReads(Head(queue)))
  /\ queue' = Tail(queue)
  /\ UNCHANGED <<rules, signal, sweep, refresh, world>>

\* Fault: a node that never reported is not looked at.
SweepNodes_Known ==
  /\ sweep = SweepEvery
  /\ sweep' = 0
  /\ IF up /\ seen # None
     THEN Evaluate(SweepReads(seen <= OfflineAfter))
     ELSE UNCHANGED <<state, open, gap, calm>>
  /\ UNCHANGED <<rules, signal, queue, refresh, world>>

\* sweepNodes, which returns when the nodes cannot be listed.
SweepNodes ==
  /\ sweep = SweepEvery
  /\ sweep' = 0
  /\ IF up
     THEN Evaluate(SweepReads(seen # None /\ seen <= OfflineAfter))
     ELSE UNCHANGED <<state, open, gap, calm>>
  /\ UNCHANGED <<rules, signal, queue, refresh, world>>

\* loadRules: an error leaves the rules as they are.
LoadRules == rules' = IF up THEN stored ELSE rules

LoadOnSignal ==
  /\ signal
  /\ signal' = FALSE
  /\ LoadRules
  /\ UNCHANGED <<queue, state, sweep, refresh, world, history>>

\* Fault: the ticker does not load the rules.
LoadOnTicker_Idle ==
  /\ refresh = RefreshEvery
  /\ refresh' = 0
  /\ UNCHANGED <<rules, signal, queue, state, sweep, world, history>>

LoadOnTicker ==
  /\ refresh = RefreshEvery
  /\ refresh' = 0
  /\ LoadRules
  /\ UNCHANGED <<signal, queue, state, sweep, world, history>>

-----------------------------------------------------------------------------
(* What happens around it.                                                 *)

\* acceptSample: the sample is published and offered to the engine, which
\* drops it when its queue is full.
Report(level) ==
  /\ alive
  /\ seen' = 0
  /\ queue' = IF Len(queue) < QueueSize THEN Append(queue, level) ELSE queue
  /\ UNCHANGED <<rules, signal, state, sweep, refresh, stored, alive, up, edits, outages, restarts, history>>

\* An administrator saves or deletes rules; Reload leaves a signal unless
\* there is one.
EditRules(r) ==
  /\ up
  /\ edits < MaxEdits
  /\ edits' = edits + 1
  /\ r \in stored \/ Cardinality(stored) < MaxEnabled
  /\ stored' = IF r \in stored THEN stored \ {r} ELSE stored \cup {r}
  /\ signal' = TRUE
  /\ UNCHANGED <<rules, queue, state, sweep, refresh, seen, alive, up, outages, restarts, history>>

AgentStops ==
  /\ alive
  /\ alive' = FALSE
  /\ UNCHANGED <<engine, stored, seen, up, edits, outages, restarts, history>>

StoreFails ==
  /\ up
  /\ outages < MaxOutages
  /\ outages' = outages + 1
  /\ up' = FALSE
  /\ UNCHANGED <<engine, stored, seen, alive, edits, restarts, history>>

StoreRecovers ==
  /\ ~up
  /\ up' = TRUE
  /\ UNCHANGED <<engine, stored, seen, alive, edits, outages, restarts, history>>

\* A new process: the rule states are gone, the rules are loaded if possible.
Restart ==
  /\ restarts < MaxRestarts
  /\ restarts' = restarts + 1
  /\ rules' = IF up THEN stored ELSE {}
  /\ signal' = FALSE
  /\ queue' = <<>>
  /\ state' = [r \in Rules |-> Fresh(r)]
  /\ sweep' = 0
  /\ refresh' = 0
  /\ calm' = [r \in Rules |-> 0]
  /\ UNCHANGED <<stored, seen, alive, up, edits, outages, open, gap>>

\* Time passes.
Tick ==
  /\ state' = [r \in Rules |-> [state[r] EXCEPT
                 !.since = IF @ = None THEN None ELSE Older(@, Duration[r]),
                 !.quiet = Older(@, Cooldown[r])]]
  /\ sweep' = Older(sweep, SweepEvery)
  /\ refresh' = Older(refresh, RefreshEvery)
  /\ seen' = IF seen = None THEN None ELSE Older(seen, OfflineAfter + 1)
  /\ gap' = [r \in Rules |-> Older(gap[r], Cooldown[r])]
  /\ calm' = [r \in Rules |-> Older(calm[r], Duration[r])]
  /\ UNCHANGED <<rules, signal, queue, stored, alive, up, edits, outages, restarts, open>>

Engine == EvaluateNext \/ SweepNodes \/ LoadOnSignal \/ LoadOnTicker

Next ==
  \/ Engine
  \/ \E level \in Levels : Report(level)
  \/ \E r \in Rules : EditRules(r)
  \/ AgentStops \/ StoreFails \/ StoreRecovers \/ Restart \/ Tick

Spec == Init /\ [][Next]_vars

\* The goroutine's select takes each ready case sooner or later, time passes,
\* a running agent reports again and again, and an outage ends.
Fairness ==
  /\ WF_vars(Tick)
  /\ SF_vars(EvaluateNext) /\ SF_vars(SweepNodes) /\ SF_vars(LoadOnSignal) /\ SF_vars(LoadOnTicker)
  /\ WF_vars(StoreRecovers)
  /\ WF_vars(\E level \in Levels : Report(level))

FairSpec == Spec /\ Fairness

-----------------------------------------------------------------------------
\* The types of the variables.
TypeOK ==
  /\ stored \subseteq Rules /\ rules \subseteq Rules
  /\ signal \in BOOLEAN /\ alive \in BOOLEAN /\ up \in BOOLEAN
  /\ queue \in Seq(Levels) /\ Len(queue) <= QueueSize
  /\ DOMAIN state = Rules
  /\ \A r \in Rules : state[r] \in [since : 0..Duration[r] \cup {None}, firing : BOOLEAN, quiet : 0..Cooldown[r]]
  /\ sweep \in 0..SweepEvery /\ refresh \in 0..RefreshEvery
  /\ seen \in 0..(OfflineAfter + 1) \cup {None}
  /\ edits \in 0..MaxEdits /\ outages \in 0..MaxOutages /\ restarts \in 0..MaxRestarts
  /\ open \in [Rules -> BOOLEAN]
  /\ DOMAIN gap = Rules /\ DOMAIN calm = Rules
  /\ \A r \in Rules : gap[r] \in 0..Cooldown[r] /\ calm[r] \in 0..Duration[r]

\* A rule is firing exactly when the last event in the store says so: events
\* alternate, and none is lost to a failed write (evaluateRule, emit).  A
\* restart forgets that a rule is firing, and nothing else.
FiringIsRecorded ==
  \A r \in Rules : /\ state[r].firing => open[r]
                   /\ restarts = 0 => (open[r] => state[r].firing)

\* The engine's states are well-formed and agree with the events in the store.
EventsAgree == TypeOK /\ FiringIsRecorded

\* A rule starts to fire only after every value evaluated for at least its
\* duration met the condition (pendingSince).
SustainedOnly ==
  \A r \in Rules : state'[r].firing /\ ~state[r].firing => calm[r] >= Duration[r]

\* Two firing events of a rule, and a recovery and the next firing event, are
\* at least the rule's cooldown apart while the process runs (lastEvent).
CooldownKept ==
  \A r \in Rules : restarts = 0 /\ state'[r].firing /\ ~state[r].firing => gap[r] >= Cooldown[r]

\* A rule fires only on a sustained condition and outside its cooldown.
FiresRightly == [][SustainedOnly /\ CooldownKept]_vars

\* The engine ends up with the rules of the store, although Reload drops a
\* signal when one is waiting and a load may fail (Reload, loadRules, refresh).
RulesConverge == rules # stored ~> rules = stored

\* A node that has stopped, or never reported, is announced by every enabled
\* "online" rule, through outages and restarts (sweepNodes).
OfflineDetected ==
  \A r \in Rules : Metric[r] = "online" =>
    (<>[](~alive /\ r \in stored) => <>[](state[r].firing /\ open[r]))

\* engine_test.go: a rule with a duration fires once every sample for that
\* long met its condition ("firing transition was incorrect").
SustainedFires ==
  \A r \in Rules : Metric[r] = "cpu" => (<>[](alive /\ r \in stored) => <>state[r].firing)
=============================================================================
