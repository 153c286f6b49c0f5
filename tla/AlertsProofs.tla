---------------------------- MODULE AlertsProofs ----------------------------
(***************************************************************************)
(* A rule is firing exactly when the last stored event says so, fires only *)
(* on a condition that lasted and outside its cooldown: for any rules,     *)
(* durations, cooldowns and intervals, and any number of edits, outages    *)
(* and restarts.  The strengthening compares the engine's own clocks with  *)
(* what happened: a pending time is never longer than the time since the   *)
(* last value that was not bad, and lastEvent never older than the event.  *)
(***************************************************************************)
EXTENDS Alerts, SequenceTheorems, TLAPS

StateOf(r) == [since : 0..Duration[r] \cup {None}, firing : BOOLEAN, quiet : 0..Cooldown[r]]
Read == {"bad", "between", "good"}

\* The part of the type invariant that an evaluation changes.
RuleTyped(r) ==
    /\ state[r] \in StateOf(r) /\ open[r] \in BOOLEAN
    /\ gap[r] \in 0..Cooldown[r] /\ calm[r] \in 0..Duration[r]

\* The rule's event is on record, its pending time and its last event are not overstated.
RuleAgrees(r) ==
    /\ state[r].firing = TRUE => open[r] = TRUE
    /\ restarts = 0 /\ open[r] = TRUE => state[r].firing = TRUE
    /\ state[r].since # None => state[r].since <= calm[r]
    /\ restarts = 0 => state[r].quiet <= gap[r]

AlertsIndInv == TypeOK /\ \A r \in Rules : RuleAgrees(r)

\* What a step that makes rule r fire must find.
FiresInTime(r) ==
    state'[r].firing = TRUE /\ state[r].firing = FALSE =>
        calm[r] >= Duration[r] /\ (restarts = 0 => gap[r] >= Cooldown[r])

\* A step keeps every rule typed and in agreement, and makes none fire early.
RulesKept ==
    /\ DOMAIN state' = Rules /\ DOMAIN gap' = Rules /\ DOMAIN calm' = Rules
    /\ open' \in [Rules -> BOOLEAN]
    /\ \A r \in Rules : RuleTyped(r)' /\ RuleAgrees(r)' /\ FiresInTime(r)

\* The rest of the type invariant: the engine's queue, signal and tickers, and the world.
EngineTyped ==
    /\ stored \subseteq Rules /\ rules \subseteq Rules
    /\ signal \in BOOLEAN /\ alive \in BOOLEAN /\ up \in BOOLEAN
    /\ queue \in Seq(Levels) /\ Len(queue) <= QueueSize
    /\ sweep \in 0..SweepEvery /\ refresh \in 0..RefreshEvery
    /\ seen \in 0..(OfflineAfter + 1) \cup {None}
    /\ edits \in 0..MaxEdits /\ outages \in 0..MaxOutages /\ restarts \in 0..MaxRestarts

----------------------------------------------------------------------------
\* evaluateRule: the state stays well-formed; it starts or stops to fire only with an event
\* saved, and starts only when the condition lasted and the cooldown is over.
LEMMA EvaluatedRight ==
    ASSUME NEW r \in Rules, NEW s \in StateOf(r), NEW level \in Read, up \in BOOLEAN
    PROVE  LET e == Evaluated(r, s, level)
           IN  /\ e \in StateOf(r)
               /\ e.firing # s.firing => up = TRUE /\ e.quiet = 0
               /\ e.firing = s.firing => e.quiet = s.quiet
               /\ e.firing = TRUE /\ s.firing = FALSE =>
                    /\ s.quiet >= Cooldown[r] /\ level = "bad"
                    /\ Duration[r] = 0 \/ (s.since # None /\ s.since >= Duration[r])
               /\ level # "bad" => e.since = None
               /\ e.since \in {None, 0, s.since}
  <1> DEFINE since == IF s.since = None THEN 0 ELSE s.since
             due == since >= Duration[r] /\ s.quiet >= Cooldown[r]
             e == Evaluated(r, s, level)
  <1>1. /\ Duration[r] \in Nat /\ Cooldown[r] \in Nat /\ None \notin Nat
        /\ s.since \in 0..Duration[r] \cup {None} /\ s.quiet \in 0..Cooldown[r]
    BY AlertsAssumption DEF StateOf
  <1>2. s.firing = TRUE \/ s.firing = FALSE  BY DEF StateOf
  <1>3. up = TRUE \/ up = FALSE  OBVIOUS
  <1>4. since \in 0..Duration[r] /\ since \in {0, s.since}  BY <1>1
  <1>5. due => /\ s.quiet >= Cooldown[r]
               /\ Duration[r] = 0 \/ (s.since # None /\ s.since >= Duration[r])
    BY <1>1
  <1> HIDE DEF since
  <1>6. s = [since |-> s.since, firing |-> s.firing, quiet |-> s.quiet]  BY DEF StateOf
  <1>7. \/ level = "bad" /\ s.firing = TRUE /\ e = s
        \/ /\ level = "bad" /\ s.firing = FALSE /\ due /\ up = TRUE
           /\ e = [since |-> since, firing |-> TRUE, quiet |-> 0]
        \/ level = "bad" /\ s.firing = FALSE /\ e = [s EXCEPT !.since = since]
        \/ /\ level = "good" /\ s.firing = TRUE /\ up = TRUE
           /\ e = [since |-> None, firing |-> FALSE, quiet |-> 0]
        \/ level # "bad" /\ e = [s EXCEPT !.since = None]
    <2>1. CASE level = "bad" /\ s.firing = TRUE  BY <2>1 DEF Evaluated
    <2>2. CASE level = "bad" /\ s.firing = FALSE /\ due /\ up = TRUE  BY <2>2 DEF Evaluated, since
    <2>3. CASE level = "bad" /\ s.firing = FALSE /\ ~(due /\ up = TRUE)  BY <1>3, <2>3 DEF Evaluated, since
    <2>4. CASE level = "good" /\ s.firing = TRUE /\ up = TRUE  BY <2>4 DEF Evaluated
    <2>5. CASE level = "good" /\ ~(s.firing = TRUE /\ up = TRUE)  BY <1>2, <1>3, <2>5 DEF Evaluated
    <2>6. CASE level = "between"  BY <2>6 DEF Evaluated
    <2> QED  BY <1>2, <1>3, <2>1, <2>2, <2>3, <2>4, <2>5, <2>6, Zenon DEF Read
  <1> HIDE DEF due, e
  <1>8. /\ e \in StateOf(r)
        /\ level # "bad" => e.since = None
        /\ e.since \in {None, 0, s.since}
    <2>1. \E a \in {None, since, s.since}, f \in BOOLEAN, q \in {0, s.quiet} :
             /\ e = [since |-> a, firing |-> f, quiet |-> q]
             /\ level # "bad" => a = None
      <3> s.firing \in BOOLEAN  BY <1>2, Zenon
      <3>1. CASE level = "bad" /\ e = s  BY <1>6, <3>1
      <3>2. CASE level = "bad" /\ e = [since |-> since, firing |-> TRUE, quiet |-> 0]  BY <3>2, Zenon
      <3>3. CASE level = "bad" /\ e = [s EXCEPT !.since = since]
        <4>1. e = [since |-> since, firing |-> s.firing, quiet |-> s.quiet]  BY <1>6, <3>3
        <4> QED  BY <3>3, <4>1, Zenon
      <3>4. CASE e = [since |-> None, firing |-> FALSE, quiet |-> 0]  BY <3>4, Zenon
      <3>5. CASE e = [s EXCEPT !.since = None]
        <4>1. e = [since |-> None, firing |-> s.firing, quiet |-> s.quiet]  BY <1>6, <3>5
        <4> QED  BY <4>1
      <3> QED  BY <1>7, <3>1, <3>2, <3>3, <3>4, <3>5
    <2>2. \A a \in {None, since, s.since} :
             a \in 0..Duration[r] \cup {None} /\ a \in {None, 0, s.since}
      BY <1>1, <1>4
    <2>3. \A q \in {0, s.quiet} : q \in 0..Cooldown[r]
      BY <1>1
    <2> QED  BY <2>1, <2>2, <2>3 DEF StateOf
  <1>9. \/ e.firing = s.firing /\ e.quiet = s.quiet
        \/ /\ s.firing = FALSE /\ e.firing = TRUE /\ up = TRUE /\ e.quiet = 0
           /\ due /\ level = "bad"
        \/ s.firing = TRUE /\ e.firing = FALSE /\ up = TRUE /\ e.quiet = 0
    BY <1>7 DEF StateOf
  <1> QED  BY <1>5, <1>8, <1>9 DEF e

\* The rules that evaluate does not touch keep their states; a touched one changes with its
\* event.  All of it stays typed and in agreement, and a rule fires only in time.
LEMMA EvaluateAgrees ==
    ASSUME AlertsIndInv, restarts' = restarts,
           NEW reads, \A r \in Rules : reads[r] # None => reads[r] \in Read,
           Evaluate(reads)
    PROVE  RulesKept
  <1> DEFINE touched == {r \in rules : reads[r] # None}
             event == {r \in touched : up /\ state'[r].firing # state[r].firing}
  <1>1. /\ state' = [r \in Rules |-> IF r \in touched THEN Evaluated(r, state[r], reads[r]) ELSE state[r]]
        /\ open' = [r \in Rules |-> IF r \in event THEN state'[r].firing ELSE open[r]]
        /\ gap' = [r \in Rules |-> IF r \in event THEN 0 ELSE gap[r]]
        /\ calm' = [r \in Rules |-> IF r \in touched /\ reads[r] # "bad" THEN 0 ELSE calm[r]]
    BY DEF Evaluate
  <1>2. up \in BOOLEAN /\ restarts \in Nat
    BY AlertsAssumption DEF AlertsIndInv, TypeOK
  <1>3. touched \subseteq Rules  BY DEF AlertsIndInv, TypeOK
  <1>4. ASSUME NEW r \in Rules
        PROVE  RuleTyped(r)' /\ RuleAgrees(r)' /\ FiresInTime(r)
    <2>1. /\ state[r] \in StateOf(r) /\ open[r] \in BOOLEAN
          /\ gap[r] \in 0..Cooldown[r] /\ calm[r] \in 0..Duration[r]
          /\ Cooldown[r] \in Nat /\ Duration[r] \in Nat /\ None \notin Nat
      BY AlertsAssumption DEF AlertsIndInv, TypeOK, StateOf
    <2>2. RuleAgrees(r)  BY DEF AlertsIndInv
    <2>3. /\ state[r].since \in 0..Duration[r] \cup {None}
          /\ state[r].firing \in BOOLEAN /\ state[r].quiet \in 0..Cooldown[r]
      BY <2>1 DEF StateOf
    <2>4. CASE r \notin touched
      <3>1. state'[r] = state[r] /\ open'[r] = open[r] /\ gap'[r] = gap[r] /\ calm'[r] = calm[r]
        BY <1>1, <2>4
      <3>2. RuleTyped(r)'  BY <2>1, <3>1 DEF RuleTyped, StateOf
      <3>3. RuleAgrees(r)'  BY <2>2, <3>1 DEF RuleAgrees
      <3>4. FiresInTime(r)  BY <3>1 DEF FiresInTime
      <3> QED  BY <3>2, <3>3, <3>4
    <2>5. CASE r \in touched
      <3> DEFINE e == Evaluated(r, state[r], reads[r])
      <3>1. reads[r] \in Read /\ state'[r] = e  BY <1>1, <2>5
      <3>2. /\ e \in StateOf(r)
            /\ e.firing # state[r].firing => up = TRUE /\ e.quiet = 0
            /\ e.firing = state[r].firing => e.quiet = state[r].quiet
            /\ e.firing = TRUE /\ state[r].firing = FALSE =>
                 /\ state[r].quiet >= Cooldown[r] /\ reads[r] = "bad"
                 /\ Duration[r] = 0 \/ (state[r].since # None /\ state[r].since >= Duration[r])
            /\ reads[r] # "bad" => e.since = None
            /\ e.since \in {None, 0, state[r].since}
        BY <1>2, <2>1, <3>1, EvaluatedRight, Zenon
      <3> HIDE DEF e
      <3>3. /\ e.since \in 0..Duration[r] \cup {None}
            /\ e.firing \in BOOLEAN /\ e.quiet \in 0..Cooldown[r]
        BY <3>2 DEF StateOf
      <3>4. calm'[r] = IF reads[r] # "bad" THEN 0 ELSE calm[r]
        BY <1>1, <2>5
      <3>5. \/ e.firing # state[r].firing /\ open'[r] = e.firing /\ gap'[r] = 0
            \/ e.firing = state[r].firing /\ open'[r] = open[r] /\ gap'[r] = gap[r]
        <4>1. CASE e.firing # state[r].firing
          <5>1. r \in event  BY <2>5, <3>1, <3>2, <4>1
          <5> HIDE DEF event
          <5> QED  BY <1>1, <3>1, <4>1, <5>1
        <4>2. CASE e.firing = state[r].firing
          <5>1. r \notin event  BY <3>1, <4>2
          <5> HIDE DEF event
          <5> QED  BY <1>1, <4>2, <5>1
        <4> QED  BY <4>1, <4>2
      <3> HIDE DEF event, touched
      <3>6. open'[r] \in BOOLEAN  BY <2>1, <3>3, <3>5
      <3>7. gap'[r] \in 0..Cooldown[r] /\ calm'[r] \in 0..Duration[r]
        BY <2>1, <3>4, <3>5
      <3>8. RuleTyped(r)'
        BY <3>1, <3>2, <3>6, <3>7 DEF RuleTyped, StateOf
      <3>9. /\ e.firing = TRUE => open'[r] = TRUE
            /\ restarts = 0 /\ open'[r] = TRUE => e.firing = TRUE
        BY <2>2, <3>5, Zenon DEF RuleAgrees
      <3>10. e.since # None => e.since <= calm'[r]
        BY <2>1, <2>2, <2>3, <3>2, <3>4 DEF RuleAgrees
      <3>11. restarts = 0 => e.quiet <= gap'[r]
        BY <2>1, <2>2, <2>3, <3>2, <3>5 DEF RuleAgrees
      <3>12. RuleAgrees(r)'
        BY <3>1, <3>9, <3>10, <3>11 DEF RuleAgrees
      <3>13. FiresInTime(r)
        <4>1. SUFFICES ASSUME e.firing = TRUE, state[r].firing = FALSE
                       PROVE  calm[r] >= Duration[r] /\ (restarts = 0 => gap[r] >= Cooldown[r])
          BY <3>1, Zenon DEF FiresInTime
        <4>2. /\ state[r].quiet >= Cooldown[r]
              /\ Duration[r] = 0 \/ (state[r].since # None /\ state[r].since >= Duration[r])
          BY <3>2, <4>1
        <4> QED  BY <2>1, <2>2, <2>3, <4>2 DEF RuleAgrees
      <3> QED  BY <3>8, <3>12, <3>13
    <2> QED  BY <2>4, <2>5
  <1>5. open' \in [Rules -> BOOLEAN]
    <2>1. \A r \in Rules : open'[r] \in BOOLEAN  BY <1>4 DEF RuleTyped
    <2>2. DOMAIN open' = Rules /\ open' = [r \in Rules |-> open'[r]]  BY <1>1
    <2> QED  BY <2>1, <2>2
  <1> QED  BY <1>1, <1>4, <1>5 DEF RulesKept

\* Nothing fires where the rules' states stay as they are.
LEMMA UntouchedAgrees ==
    ASSUME AlertsIndInv, UNCHANGED <<state, open, gap, calm>>, restarts' = restarts
    PROVE  RulesKept
  <1>1. \A r \in Rules : RuleTyped(r)
    BY Zenon DEF AlertsIndInv, TypeOK, RuleTyped, StateOf
  <1>2. \A r \in Rules : RuleTyped(r)'
    BY <1>1 DEF RuleTyped
  <1>3. \A r \in Rules : RuleAgrees(r)'
    BY DEF AlertsIndInv, RuleAgrees
  <1>4. \A r \in Rules : FiresInTime(r)
    BY DEF FiresInTime
  <1> QED  BY <1>2, <1>3, <1>4 DEF RulesKept, AlertsIndInv, TypeOK

\* An age counted up to its bound stays within it, and keeps the order of two ages.
LEMMA OlderRight ==
    ASSUME NEW bound \in Nat, NEW a \in 0..bound, NEW b \in 0..bound
    PROVE  /\ Older(a, bound) \in 0..bound
           /\ a <= b => Older(a, bound) <= Older(b, bound)
  BY DEF Older

\* Time makes every age older, the engine's and the history's alike.
LEMMA TickAgrees ==
    ASSUME AlertsIndInv, Tick
    PROVE  RulesKept
  <1>1. ASSUME NEW r \in Rules
        PROVE  RuleTyped(r)' /\ RuleAgrees(r)' /\ FiresInTime(r)
    <2>1. /\ state[r] \in StateOf(r) /\ open[r] \in BOOLEAN
          /\ gap[r] \in 0..Cooldown[r] /\ calm[r] \in 0..Duration[r]
          /\ Cooldown[r] \in Nat /\ Duration[r] \in Nat /\ None \notin Nat
      BY AlertsAssumption DEF AlertsIndInv, TypeOK, StateOf
    <2>2. RuleAgrees(r)  BY DEF AlertsIndInv
    <2>3. /\ state[r].since \in 0..Duration[r] \cup {None}
          /\ state[r].firing \in BOOLEAN /\ state[r].quiet \in 0..Cooldown[r]
          /\ state[r] = [since |-> state[r].since, firing |-> state[r].firing, quiet |-> state[r].quiet]
      BY <2>1 DEF StateOf
    <2> DEFINE since == IF state[r].since = None THEN None ELSE Older(state[r].since, Duration[r])
               quiet == Older(state[r].quiet, Cooldown[r])
    <2>4. state'[r] = [state[r] EXCEPT !.since = since, !.quiet = quiet]
      BY Zenon DEF Tick
    <2>5. /\ gap'[r] = Older(gap[r], Cooldown[r]) /\ calm'[r] = Older(calm[r], Duration[r])
          /\ open'[r] = open[r] /\ restarts' = restarts
      BY Zenon DEF Tick
    <2>6. since \in 0..Duration[r] \cup {None} /\ quiet \in 0..Cooldown[r]
      BY <2>1, <2>3, OlderRight, Zenon
    <2>7. /\ since # None => state[r].since # None /\ since = Older(state[r].since, Duration[r])
          /\ since # None /\ state[r].since <= calm[r] => since <= calm'[r]
          /\ state[r].quiet <= gap[r] => quiet <= gap'[r]
      BY <2>1, <2>3, <2>5, OlderRight, Zenon
    <2> HIDE DEF since, quiet
    <2>8. state'[r] = [since |-> since, firing |-> state[r].firing, quiet |-> quiet]
      BY <2>3, <2>4, Zenon
    <2>9. RuleTyped(r)'
      <3>1. gap'[r] \in 0..Cooldown[r] /\ calm'[r] \in 0..Duration[r]
        BY <2>1, <2>5, OlderRight, Zenon
      <3>2. state'[r] \in StateOf(r)  BY <2>3, <2>6, <2>8 DEF StateOf
      <3> QED  BY <2>1, <2>5, <3>1, <3>2, Zenon DEF RuleTyped, StateOf
    <2>10. state'[r].since = since /\ state'[r].firing = state[r].firing /\ state'[r].quiet = quiet
      BY <2>8
    <2>11. RuleAgrees(r)'
      BY <2>2, <2>5, <2>7, <2>10, Zenon DEF RuleAgrees
    <2>12. FiresInTime(r)  BY <2>10 DEF FiresInTime
    <2> QED  BY <2>9, <2>11, <2>12
  <1> QED  BY <1>1, Zenon DEF RulesKept, Tick, AlertsIndInv, TypeOK

\* A new process starts with no rule firing; the events stay in the store.
LEMMA RestartAgrees ==
    ASSUME AlertsIndInv, Restart
    PROVE  RulesKept
  <1>1. ASSUME NEW r \in Rules
        PROVE  RuleTyped(r)' /\ RuleAgrees(r)' /\ FiresInTime(r)
    <2>1. state'[r] = [since |-> None, firing |-> FALSE, quiet |-> Cooldown[r]]
      BY DEF Restart, Fresh
    <2>2. open'[r] = open[r] /\ gap'[r] = gap[r] /\ calm'[r] = 0
      BY DEF Restart
    <2>3. restarts' # 0  BY AlertsAssumption DEF Restart, AlertsIndInv, TypeOK
    <2>4. /\ open[r] \in BOOLEAN /\ gap[r] \in 0..Cooldown[r]
          /\ Cooldown[r] \in Nat /\ Duration[r] \in Nat
      BY AlertsAssumption DEF AlertsIndInv, TypeOK
    <2>5. RuleTyped(r)'
      <3>1. 0 \in 0..Duration[r] /\ Cooldown[r] \in 0..Cooldown[r]  BY <2>4
      <3>2. state'[r] \in StateOf(r)  BY <2>1, <3>1 DEF StateOf
      <3> QED  BY <2>2, <2>4, <3>1, <3>2 DEF RuleTyped, StateOf
    <2>6. state'[r].since = None /\ state'[r].firing = FALSE  BY <2>1
    <2>7. RuleAgrees(r)'  BY <2>3, <2>6 DEF RuleAgrees
    <2>8. FiresInTime(r)  BY <2>6 DEF FiresInTime
    <2> QED  BY <2>5, <2>7, <2>8
  <1> QED  BY <1>1 DEF RulesKept, Restart, AlertsIndInv, TypeOK

----------------------------------------------------------------------------
\* Every action keeps the rules, whatever it reads.
LEMMA StepKeepsRules ==
    ASSUME AlertsIndInv, [Next]_vars
    PROVE  RulesKept
  <1>1. CASE EvaluateNext
    <2>1. Head(queue) \in Levels
      BY <1>1, HeadTailProperties DEF EvaluateNext, AlertsIndInv, TypeOK
    <2>2. \A r \in Rules : SampleReads(Head(queue))[r] # None => SampleReads(Head(queue))[r] \in Read
      BY <2>1, AlertsAssumption, Zenon DEF SampleReads, Read
    <2>3. Evaluate(SampleReads(Head(queue))) /\ restarts' = restarts
      BY <1>1 DEF EvaluateNext, world
    <2> QED  BY <2>2, <2>3, EvaluateAgrees
  <1>2. CASE SweepNodes
    <2> DEFINE reads == SweepReads(seen # None /\ seen <= OfflineAfter)
    <2>1. \A r \in Rules : reads[r] # None => reads[r] \in Read
      BY DEF SweepReads, Read
    <2>2. Evaluate(reads) \/ UNCHANGED <<state, open, gap, calm>>
      BY <1>2 DEF SweepNodes
    <2>3. restarts' = restarts  BY <1>2 DEF SweepNodes, world
    <2> HIDE DEF reads
    <2> QED  BY <2>1, <2>2, <2>3, EvaluateAgrees, UntouchedAgrees
  <1>3. CASE LoadOnSignal \/ LoadOnTicker
    BY <1>3, UntouchedAgrees DEF LoadOnSignal, LoadOnTicker, world, history
  <1>4. ASSUME NEW level \in Levels, Report(level)  PROVE RulesKept
    BY <1>4, UntouchedAgrees DEF Report, history
  <1>5. ASSUME NEW r \in Rules, EditRules(r)  PROVE RulesKept
    BY <1>5, UntouchedAgrees DEF EditRules, history
  <1>6. CASE AgentStops \/ StoreFails \/ StoreRecovers
    BY <1>6, UntouchedAgrees DEF AgentStops, StoreFails, StoreRecovers, engine, history
  <1>7. CASE Restart  BY <1>7, RestartAgrees
  <1>8. CASE Tick  BY <1>8, TickAgrees
  <1>9. CASE UNCHANGED vars
    BY <1>9, UntouchedAgrees DEF vars, engine, world, history
  <1> QED  BY <1>1, <1>2, <1>3, <1>4, <1>5, <1>6, <1>7, <1>8, <1>9 DEF Next, Engine

\* Every action keeps the engine's queue, signal and tickers, and the world, typed.
LEMMA StepKeepsEngine ==
    ASSUME EngineTyped, [Next]_vars
    PROVE  EngineTyped'
  <1> USE AlertsAssumption DEF EngineTyped
  <1>1. CASE EvaluateNext
    <2>1. Tail(queue) \in Seq(Levels) /\ Len(Tail(queue)) <= QueueSize
      <3>1. queue \in Seq(Levels) /\ queue # <<>>  BY <1>1 DEF EvaluateNext
      <3>2. Tail(queue) \in Seq(Levels) /\ Len(Tail(queue)) = Len(queue) - 1 /\ Len(queue) \in Nat
        BY <3>1, HeadTailProperties, LenProperties
      <3> QED  BY <3>2
    <2> QED  BY <1>1, <2>1 DEF EvaluateNext, world
  <1>2. CASE SweepNodes  BY <1>2 DEF SweepNodes, world
  <1>3. CASE LoadOnSignal \/ LoadOnTicker
    <2>1. rules' \subseteq Rules  BY <1>3 DEF LoadOnSignal, LoadOnTicker, LoadRules
    <2>2. signal' = FALSE \/ signal' = signal  BY <1>3 DEF LoadOnSignal, LoadOnTicker
    <2>3. refresh' = 0 \/ refresh' = refresh  BY <1>3 DEF LoadOnSignal, LoadOnTicker
    <2>4. signal' \in BOOLEAN  BY <2>2, Zenon
    <2>5. refresh' \in 0..RefreshEvery  BY <2>3
    <2>6. UNCHANGED <<queue, sweep, world>>  BY <1>3 DEF LoadOnSignal, LoadOnTicker
    <2> QED  BY <2>1, <2>4, <2>5, <2>6 DEF world
  <1>4. ASSUME NEW level \in Levels, Report(level)  PROVE EngineTyped'
    <2>1. queue' \in Seq(Levels) /\ Len(queue') <= QueueSize
      BY <1>4, AppendProperties, LenProperties DEF Report
    <2> QED  BY <1>4, <2>1 DEF Report
  <1>5. ASSUME NEW r \in Rules, EditRules(r)  PROVE EngineTyped'
    <2>1. stored' \subseteq Rules  BY <1>5 DEF EditRules
    <2>2. edits' \in 0..MaxEdits  BY <1>5 DEF EditRules
    <2>3. signal' = TRUE /\ UNCHANGED <<rules, queue, sweep, refresh, seen, alive, up, outages, restarts>>
      BY <1>5 DEF EditRules
    <2> QED  BY <2>1, <2>2, <2>3, Zenon
  <1>6. CASE AgentStops \/ StoreFails \/ StoreRecovers
    <2>1. alive' \in BOOLEAN /\ up' \in BOOLEAN
      BY <1>6, Zenon DEF AgentStops, StoreFails, StoreRecovers
    <2>2. outages' \in 0..MaxOutages
      BY <1>6 DEF AgentStops, StoreFails, StoreRecovers
    <2>3. UNCHANGED <<engine, stored, seen, edits, restarts>>
      BY <1>6 DEF AgentStops, StoreFails, StoreRecovers
    <2> QED  BY <2>1, <2>2, <2>3 DEF engine
  <1>7. CASE Restart
    <2>1. queue' \in Seq(Levels) /\ Len(queue') <= QueueSize
      BY <1>7, EmptySeq, LenProperties DEF Restart
    <2>2. rules' \subseteq Rules /\ signal' \in BOOLEAN  BY <1>7, Zenon DEF Restart
    <2>3. sweep' \in 0..SweepEvery /\ refresh' \in 0..RefreshEvery /\ restarts' \in 0..MaxRestarts
      BY <1>7 DEF Restart
    <2>4. UNCHANGED <<stored, seen, alive, up, edits, outages>>  BY <1>7 DEF Restart
    <2> QED  BY <2>1, <2>2, <2>3, <2>4, Zenon
  <1>8. CASE Tick
    <2>1. Older(sweep, SweepEvery) \in 0..SweepEvery /\ Older(refresh, RefreshEvery) \in 0..RefreshEvery
      BY OlderRight, Zenon
    <2>2. seen' \in 0..(OfflineAfter + 1) \cup {None}
      <3>1. CASE seen = None  BY <1>8, <3>1, Zenon DEF Tick
      <3>2. CASE seen # None
        <4>1. seen \in 0..(OfflineAfter + 1) /\ OfflineAfter + 1 \in Nat  BY <3>2
        <4>2. Older(seen, OfflineAfter + 1) \in 0..(OfflineAfter + 1)  BY <4>1, OlderRight, Zenon
        <4> QED  BY <1>8, <3>2, <4>2, Zenon DEF Tick
      <3> QED  BY <3>1, <3>2
    <2> QED  BY <1>8, <2>1, <2>2, Zenon DEF Tick
  <1>9. CASE UNCHANGED vars  BY <1>9 DEF vars, engine, world
  <1> QED  BY <1>1, <1>2, <1>3, <1>4, <1>5, <1>6, <1>7, <1>8, <1>9, Zenon DEF Next, Engine

\* The type invariant is the typing of the rules and of the engine.
LEMMA TypedByParts ==
    TypeOK <=> /\ EngineTyped
               /\ DOMAIN state = Rules /\ DOMAIN gap = Rules /\ DOMAIN calm = Rules
               /\ open \in [Rules -> BOOLEAN]
               /\ \A r \in Rules : RuleTyped(r)
  BY Zenon DEF TypeOK, EngineTyped, RuleTyped, StateOf

\* An engine that has evaluated nothing agrees with a store that holds no event.
LEMMA AlertsInit == Init => AlertsIndInv
  <1> SUFFICES ASSUME Init PROVE AlertsIndInv
    OBVIOUS
  <1> USE AlertsAssumption
  <1>1. EngineTyped
    <2>1. queue \in Seq(Levels) /\ Len(queue) <= QueueSize
      BY EmptySeq, LenProperties DEF Init
    <2>2. stored \subseteq Rules /\ rules \subseteq Rules  BY DEF Init
    <2>3. signal \in BOOLEAN /\ alive \in BOOLEAN /\ up \in BOOLEAN  BY Zenon DEF Init
    <2>4. /\ sweep \in 0..SweepEvery /\ refresh \in 0..RefreshEvery
          /\ edits \in 0..MaxEdits /\ outages \in 0..MaxOutages /\ restarts \in 0..MaxRestarts
      BY DEF Init
    <2> QED  BY <2>1, <2>2, <2>3, <2>4 DEF Init, EngineTyped
  <1>2. ASSUME NEW r \in Rules
        PROVE  RuleTyped(r) /\ RuleAgrees(r)
    <2>1. /\ state[r] = [since |-> None, firing |-> FALSE, quiet |-> Cooldown[r]]
          /\ open[r] = FALSE /\ gap[r] = Cooldown[r] /\ calm[r] = 0
      BY DEF Init, Fresh
    <2>2. 0 \in 0..Duration[r] /\ Cooldown[r] \in 0..Cooldown[r] /\ Cooldown[r] <= Cooldown[r]
      OBVIOUS
    <2>3. state[r] \in StateOf(r)  BY <2>1, <2>2, SMTT(30) DEF StateOf
    <2>4. state[r].since = None /\ state[r].firing = FALSE /\ state[r].quiet = Cooldown[r]
      BY <2>1, SMTT(30)
    <2>5. RuleTyped(r)  BY <2>1, <2>2, <2>3, Zenon DEF RuleTyped
    <2>6. RuleAgrees(r)  BY <2>1, <2>2, <2>4, Zenon DEF RuleAgrees
    <2> QED  BY <2>5, <2>6
  <1>3. /\ DOMAIN state = Rules /\ DOMAIN gap = Rules /\ DOMAIN calm = Rules
        /\ open \in [Rules -> BOOLEAN]
    BY DEF Init
  <1> QED  BY <1>1, <1>2, <1>3, TypedByParts, Zenon DEF AlertsIndInv

\* The inductive invariant is kept by every step.
LEMMA AlertsStep == AlertsIndInv /\ [Next]_vars => AlertsIndInv'
  <1> SUFFICES ASSUME AlertsIndInv, [Next]_vars PROVE AlertsIndInv'
    OBVIOUS
  <1>1. RulesKept  BY StepKeepsRules
  <1>2. EngineTyped'  BY StepKeepsEngine, TypedByParts DEF AlertsIndInv
  <1>3. TypeOK'
    <2>1. /\ (DOMAIN state = Rules)' /\ (DOMAIN gap = Rules)' /\ (DOMAIN calm = Rules)'
          /\ (open \in [Rules -> BOOLEAN])' /\ \A r \in Rules : RuleTyped(r)'
      BY <1>1 DEF RulesKept
    <2> QED  BY <1>2, <2>1, Zenon DEF TypeOK, EngineTyped, RuleTyped, StateOf
  <1> QED  BY <1>1, <1>3 DEF AlertsIndInv, RulesKept

\* The engine's states are well-formed and agree with the events in the store: a rule fires
\* exactly when its last saved event is a firing one, up to what a restart forgets
\* (evaluateRule, emit).
THEOREM EventsStayTrue == Spec => []EventsAgree
  <1>1. AlertsIndInv => EventsAgree
    <2> SUFFICES ASSUME AlertsIndInv PROVE EventsAgree
      OBVIOUS
    <2>1. \A r \in Rules : state[r].firing \in BOOLEAN /\ open[r] \in BOOLEAN
      BY Zenon DEF AlertsIndInv, TypeOK
    <2>2. FiringIsRecorded
      BY <2>1, Zenon DEF AlertsIndInv, RuleAgrees, FiringIsRecorded
    <2> QED  BY <2>2 DEF AlertsIndInv, EventsAgree
  <1> QED  BY <1>1, AlertsInit, AlertsStep, PTL DEF Spec

\* A rule starts to fire only when every value evaluated for its whole duration met the
\* condition, and only when its cooldown since the last saved event is over (pendingSince,
\* lastEvent).
THEOREM AlertsFireRightly == Spec => FiresRightly
  <1>1. AlertsIndInv /\ [Next]_vars => [SustainedOnly /\ CooldownKept]_vars
    <2> SUFFICES ASSUME AlertsIndInv, [Next]_vars PROVE SustainedOnly /\ CooldownKept
      OBVIOUS
    <2>1. RulesKept /\ AlertsIndInv'  BY StepKeepsRules, AlertsStep
    <2>2. \A r \in Rules : state[r].firing \in BOOLEAN
      BY Zenon DEF AlertsIndInv, TypeOK
    <2>3. \A r \in Rules : state'[r].firing \in BOOLEAN
      BY <2>1, Zenon DEF RulesKept, RuleTyped, StateOf
    <2>4. \A r \in Rules : FiresInTime(r)  BY <2>1 DEF RulesKept
    <2> QED  BY <2>2, <2>3, <2>4 DEF FiresInTime, SustainedOnly, CooldownKept
  <1> QED  BY <1>1, AlertsInit, AlertsStep, PTL DEF Spec, FiresRightly
=============================================================================
