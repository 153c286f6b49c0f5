------------------------------ MODULE Figures ------------------------------
(***************************************************************************)
(* The figures the pages compute from measurements: the summary of a       *)
(* latency window, which the server computes too, the cells of the latency *)
(* matrix, the chart of the carrier probes, which lines up the results of  *)
(* several probes minute by minute, the gauges of a traffic quota and the  *)
(* age of a report.  Measurements arrive one by one.  Averages and         *)
(* percentages are kept as <<numerator, denominator>>.                     *)
(***************************************************************************)
EXTENDS Integers, Sequences, SequencesExt, FiniteSetsExt

CONSTANTS Latencies, Losses, Carriers, Times, Minute, MaxSamples, MaxResults, ReportAges,
          Bytes         \* byte counts and quotas a page may be given; a negative one is invalid

ASSUME FiguresAssumption ==
    /\ Latencies \subseteq Int /\ Losses \subseteq 0..100 /\ Times \subseteq Nat
    /\ Minute \in Nat \ {0} /\ ReportAges \subseteq Nat /\ Bytes \subseteq Int

VARIABLES
    figure,         \* the figure looked at: "window" or "chart"
    samples,        \* the samples of a latency window
    results         \* results[c]: carrier c's results, [at, success, ms], in the order received

figureVars == <<figure, samples, results>>

FAILED_LATENCY_MS == 999
Null == -1

LatencySample == [success : BOOLEAN, latency_ms : Latencies, loss_percent : Losses]
ProbeResult == [at : Times, success : BOOLEAN, ms : Latencies]

SumOf(seq, Val(_)) == FoldLeft(LAMBDA total, s : total + Val(s), 0, seq)

FiguresInit == figure \in {"window", "chart"} /\ samples = <<>> /\ results = [c \in Carriers |-> <<>>]

AddSample(s) ==
    /\ figure = "window" /\ Len(samples) < MaxSamples
    /\ samples' = Append(samples, s) /\ UNCHANGED <<figure, results>>

AddResult(c, r) ==
    /\ figure = "chart" /\ SumOf(SetToSeq(Carriers), LAMBDA d : Len(results[d])) < MaxResults
    /\ results' = [results EXCEPT ![c] = Append(@, r)]
    /\ UNCHANGED <<figure, samples>>

FiguresNext ==
    \/ \E s \in LatencySample : AddSample(s)
    \/ \E c \in Carriers, r \in ProbeResult : AddResult(c, r)

FiguresSpec == FiguresInit /\ [][FiguresNext]_figureVars

----------------------------------------------------------------------------
Answered(s) == s.success /\ s.latency_ms >= 0

\* summarizeLatencyWindow.
SummarizeLatencyWindow(seq) ==
    LET successCount == SumOf(seq, LAMBDA s : IF Answered(s) THEN 1 ELSE 0)
        latencyTotal == SumOf(seq, LAMBDA s : IF Answered(s) THEN s.latency_ms ELSE 0)
        lossTotal == SumOf(seq, LAMBDA s : Min({100, Max({0, s.loss_percent})}))
    IN  [average_latency |-> IF successCount > 0 THEN <<latencyTotal, successCount>>
                             ELSE <<IF Len(seq) > 0 THEN FAILED_LATENCY_MS ELSE 0, 1>>,
         average_loss |-> IF Len(seq) > 0 THEN <<lossTotal, Len(seq)>> ELSE <<0, 1>>,
         sample_count |-> Len(seq), success_count |-> successCount]

\* LatencyWindowSummary: COUNT, SUM and AVG over the rows of the window.
ServerSummary(seq) ==
    LET rows == SelectSeq(seq, Answered)
        avg(r, Val(_)) == IF r = <<>> THEN <<0, 1>> ELSE <<SumOf(r, Val), Len(r)>>
    IN  [average_latency |-> IF seq # <<>> /\ rows = <<>> THEN <<999, 1>>
                             ELSE avg(rows, LAMBDA s : s.latency_ms),
         average_loss |-> avg(seq, LAMBDA s : s.loss_percent),
         sample_count |-> Len(seq), success_count |-> Len(rows)]

\* latencyChartValue: a failed sample is drawn at the ceiling.
LatencyChartValue(s) == IF Answered(s) THEN s.latency_ms ELSE FAILED_LATENCY_MS

\* The latency matrix over the latest samples: the mean of the paths that answered, the
\* paths counted as healthy, and the class of a cell, which knows whether the probe is
\* online and the sample recent.
CurrentAverageLatency(seq) ==
    LET rows == SelectSeq(seq, Answered) IN <<SumOf(rows, LAMBDA s : s.latency_ms), Len(rows)>>

Healthy(s) == s.success /\ s.loss_percent < 50

CellClass(s, current) ==
    CASE ~current -> "stale"
      [] current /\ ~s.success -> "failed"
      [] current /\ s.success /\ (s.loss_percent > 0 \/ s.latency_ms >= 180) -> "critical"
      [] current /\ s.success /\ s.loss_percent <= 0 /\ s.latency_ms \in 80..179 -> "warning"
      [] OTHER -> "healthy"

\* trafficUsage, trafficUtilization and the tone of a gauge; percent of the same counts.
Counted(bytes) == Max({0, bytes})
TrafficUsage(rx, tx, mode) ==
    CASE mode = "max" -> Max({Counted(rx), Counted(tx)})
      [] mode = "up" -> Counted(tx)
      [] mode = "down" -> Counted(rx)
      [] OTHER -> Counted(rx) + Counted(tx)

TrafficUtilization(used, limit) ==
    IF Counted(limit) = 0 THEN <<0, 1>>
    ELSE <<Min({Max({Counted(used) * 100, 0}), 100 * limit}), limit>>

Tone(percentage) ==
    CASE percentage[1] >= 100 * percentage[2] -> "critical"
      [] percentage[1] >= 85 * percentage[2] /\ percentage[1] < 100 * percentage[2] -> "warning"
      [] OTHER -> "normal"

\* TrafficUsageBar: a node whose counters are missing has no gauge, one without quota no scale.
BarState(known, limit) ==
    IF ~known THEN "unavailable" ELSE IF Counted(limit) <= 0 THEN "unlimited" ELSE "metered"

Percent(used, total) ==
    IF total > 0 THEN <<Min({100 * total, Max({0, used * 100})}), total>> ELSE <<0, 1>>

\* carrierChart: the minutes of all results, and for each carrier a value per minute, the
\* last result of that minute winning.
Bucket(r) == (r.at \div Minute) * Minute
Timeline ==
    SetToSortSeq({Bucket(r) : r \in UNION {ToSet(results[c]) : c \in Carriers}}, LAMBDA a, b : a < b)

\* Fault: every series only knows its own minutes.
SeriesOwn(c) ==
    LET own == SetToSortSeq({Bucket(r) : r \in ToSet(results[c])}, LAMBDA a, b : a < b)
    IN  [k \in 1..Len(own) |-> Null]

Series(c) ==
    LET values == FoldLeft(LAMBDA map, r :
                             [map EXCEPT ![Bucket(r)] = IF r.success /\ r.ms >= 0 THEN r.ms ELSE Null],
                           [b \in ToSet(Timeline) |-> Null], results[c])
    IN  [k \in 1..Len(Timeline) |-> values[Timeline[k]]]

\* relativeTime, in seconds: the unit and the count shown.
RelativeTime(seconds) ==
    CASE seconds < 10 -> <<0, 0>>
      [] seconds >= 10 /\ seconds < 60 -> <<1, seconds>>
      [] seconds >= 60 /\ seconds < 3600 -> <<2, seconds \div 60>>
      [] seconds >= 3600 /\ seconds < 86400 -> <<3, seconds \div 3600>>
      [] OTHER -> <<4, seconds \div 86400>>

----------------------------------------------------------------------------
\* The latency page and the server summarise every window alike, and a chart whose samples
\* all failed lies on the average that is shown with it.
SummariesAgree ==
    /\ SummarizeLatencyWindow(samples) = ServerSummary(samples)
    /\ (\A k \in 1..Len(samples) : ~Answered(samples[k])) /\ samples # <<>> =>
         \A k \in 1..Len(samples) :
            <<LatencyChartValue(samples[k]), 1>> = SummarizeLatencyWindow(samples).average_latency

\* The series of the carriers line up with the labels: one value per minute with a result of
\* any carrier, taken from the carrier's last result in that minute, nothing without one.
ChartAligned ==
    \A c \in Carriers :
        /\ Len(Series(c)) = Len(Timeline)
        /\ \A k \in 1..Len(Timeline) :
             LET there == {j \in 1..Len(results[c]) : Bucket(results[c][j]) = Timeline[k]}
                 last == results[c][Max(there)]
             IN  Series(c)[k] = IF there # {} /\ last.success /\ last.ms >= 0 THEN last.ms ELSE Null

\* A report never looks younger than one that is newer.
AgesInOrder ==
    \A a, b \in ReportAges : a <= b =>
        LET x == RelativeTime(a) y == RelativeTime(b)
        IN  x[1] < y[1] \/ (x[1] = y[1] /\ x[2] <= y[2])

\* What the matrix paints and what it counts agree: a cell in good colour is a healthy path,
\* a failed one is not, and the mean over the matrix is the one a window of the same
\* samples has.
MatrixAgrees ==
    /\ \A k \in 1..Len(samples), current \in BOOLEAN :
         LET class == CellClass(samples[k], current)
         IN  /\ class \in {"healthy", "warning"} => Healthy(samples[k])
             /\ class = "failed" => ~Healthy(samples[k])
    /\ CurrentAverageLatency(samples)[2] > 0 =>
         CurrentAverageLatency(samples) = SummarizeLatencyWindow(samples).average_latency

\* A gauge is red exactly when a quota is used up, in every way of counting; it never leaves
\* its scale, and more traffic never makes it look better.
QuotaRight ==
    \A rx, tx, limit \in Bytes, mode \in {"sum", "max", "up", "down"} :
        LET used == TrafficUsage(rx, tx, mode)
            gauge == TrafficUtilization(used, limit)
        IN  /\ Tone(gauge) = "critical" <=> BarState(TRUE, limit) = "metered" /\ used >= limit
            /\ gauge[1] \in 0..(100 * gauge[2]) /\ gauge = Percent(used, limit)
            /\ \A more \in Bytes : more >= rx =>
                 TrafficUtilization(TrafficUsage(more, tx, mode), limit)[1] >= gauge[1]

\* The figures are right whatever has arrived.
FiguresRight == SummariesAgree /\ ChartAligned /\ AgesInOrder /\ MatrixAgrees /\ QuotaRight
=============================================================================
