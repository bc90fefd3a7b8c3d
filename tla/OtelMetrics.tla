------------------------------ MODULE OtelMetrics ------------------------------
(***************************************************************************)
(* OtelMetricsAccumulator: the function's OTel metrics between the moment  *)
(* they are received and the report that carries them.  Points of          *)
(* cumulative metrics that repeat the last one are discarded; on export a  *)
(* zero is put before the first point of a series, and a copy of the last  *)
(* known point before one that comes after a long gap, so that a rate over *)
(* the exported points is right although they do not come at an interval.  *)
(*                                                                         *)
(* There is one metric, for the accumulators of different names and kinds  *)
(* share nothing, and a message has one data point, for the points of a    *)
(* message are taken one after another.  What is_equivalent compares of    *)
(* two points is a value.                                                  *)
(***************************************************************************)
EXTENDS Integers, SequencesExt

CONSTANTS
  Series,              \* attribute sets of data points: TimeSeriesId
  MaxTimeBetweenData,  \* MAX_TIME_BETWEEN_DATA_NANOS
  ReportLastTime,      \* REPORT_LAST_TIME_NANOS
  MaxValue, MaxTime, MaxPoints  \* bounds: of values, of the clock, of points received

ASSUME OtelMetricsAssumption ==
  /\ MaxTimeBetweenData \in Nat /\ ReportLastTime \in Nat
  /\ ReportLastTime < MaxTimeBetweenData
  /\ MaxValue \in Nat /\ MaxTime \in Nat /\ MaxPoints \in Nat

VARIABLES
  kind,                \* what the metric is; it does not change
  temporality,         \* aggregation_temporality of the accumulator, "new" before it is made
  time_series,         \* of each attribute set: [previous_point, new_points]
  dropped_datapoints,
  now,                 \* the clock of the function, which dates its points
  received,            \* history: how many points were received
  observed, exported,  \* history: the points received and those reported, of each series
  mixed                \* history: whether the metric came with both temporalities

state == <<kind, temporality, time_series, dropped_datapoints>>
vars == <<state, now, received, observed, exported, mixed>>

Kinds == {"gauge", "sum", "histogram", "summary", "exponential_histogram"}
Temporalities == {"cumulative", "delta"}

Point == [value : 0..MaxValue, time : 0..MaxTime]
TimeSeries == [previous_point : Seq(Point), new_points : Seq(Point)]  \* Option: no point or one
EmptySeries == [previous_point |-> <<>>, new_points |-> <<>>]

TypeOK ==
  /\ kind \in Kinds
  /\ temporality \in Temporalities \cup {"new"}
  /\ time_series \in [Series -> TimeSeries]
  /\ dropped_datapoints \in 0..received
  /\ received \in 0..MaxPoints
  /\ now \in 0..MaxTime
  /\ observed \in [Series -> Seq(Point)]
  /\ exported \in [Series -> Seq(Point)]
  /\ mixed \in BOOLEAN

NoPoints == [s \in Series |-> <<>>]

Init ==
  /\ kind \in Kinds
  /\ temporality = "new"
  /\ time_series = [s \in Series |-> EmptySeries]
  /\ dropped_datapoints = 0
  /\ now = 0 /\ received = 0
  /\ observed = NoPoints /\ exported = NoPoints /\ mixed = FALSE

-----------------------------------------------------------------------------
(* Receiving. *)

\* last_point: the newest of new_points, or else previous_point
KnownPoints(ts) == ts.previous_point \o ts.new_points

AccumulateAsIs(ts, p) == [ts EXCEPT !.new_points = Append(@, p)]

\* Mutant of AccumulateIfDifferent: the point exported last is not looked at.
AccumulateIfDifferentFromNew(ts, p) ==
  IF ts.new_points # <<>> /\ Last(ts.new_points).value = p.value THEN ts
  ELSE AccumulateAsIs(ts, p)

AccumulateIfDifferent(ts, p) ==
  IF KnownPoints(ts) # <<>> /\ Last(KnownPoints(ts)).value = p.value THEN ts
  ELSE AccumulateAsIs(ts, p)

\* The temporality that counts: a gauge or a summary has none of its own.
TreatedAs(t) ==
  CASE kind = "gauge" -> "delta" [] kind = "summary" -> "cumulative" [] OTHER -> t

\* Mutant of AccumulatedBy: points that repeat the last one are discarded whatever the metric is.
AccumulatedIfDifferent(t, ts, p) == AccumulateIfDifferent(ts, p)

AccumulatedBy(t, ts, p) ==
  IF TreatedAs(t) = "cumulative" THEN AccumulateIfDifferent(ts, p) ELSE AccumulateAsIs(ts, p)

\* accumulate_metric.  The accumulator keeps the temporality of the metric's first message.
Accumulate(s, t, v) ==
  LET p == [value |-> v, time |-> now] IN
  /\ kind # "exponential_histogram"
  /\ received < MaxPoints /\ received' = received + 1
  /\ temporality' = IF temporality = "new" THEN TreatedAs(t) ELSE temporality
  /\ time_series' = [time_series EXCEPT ![s] = AccumulatedBy(t, @, p)]
  /\ observed' = [observed EXCEPT ![s] = Append(@, p)]
  /\ mixed' = (mixed \/ temporality \notin {"new", TreatedAs(t)})
  /\ UNCHANGED <<kind, dropped_datapoints, now, exported>>

DropExponentialHistogram ==
  /\ kind = "exponential_histogram"
  /\ received < MaxPoints /\ received' = received + 1
  /\ dropped_datapoints' = dropped_datapoints + 1
  /\ UNCHANGED <<kind, temporality, time_series, now, observed, exported, mixed>>

-----------------------------------------------------------------------------
(* Exporting. *)

\* Mutant of SaturatingSub: a plain subtraction.
UncheckedSub(a, b) == a - b

SaturatingSub(a, b) == IF a > b THEN a - b ELSE 0

CloneWithTimestamp(p, t) == [p EXCEPT !.time = t]

\* Mutant of Inflate: the last point is not repeated after a gap.
InflateNever(prev, this) == <<this>>

\* What a turn of the loop of take_and_inflate_data_points puts out after the point prev.
Inflate(prev, this) ==
  IF this.time > prev.time + MaxTimeBetweenData
  THEN <<CloneWithTimestamp(prev, SaturatingSub(this.time, ReportLastTime)), this>>
  ELSE <<this>>

\* The first point of a series, and the zero before it.
WithZero(first) ==
  IF first.value = 0 THEN <<first>>
  ELSE <<[value |-> 0, time |-> SaturatingSub(first.time, ReportLastTime)], first>>

\* The output begins after the previous point, or else with the first one; from then on
\* the last point put out is the one before this.
InflatedPoints(ts) ==
  LET points == KnownPoints(ts)
      output[n \in 0..Len(points)] ==
        IF n = 0 THEN <<>>
        ELSE IF n = 1 THEN (IF ts.previous_point # <<>> THEN <<>> ELSE WithZero(points[1]))
        ELSE output[n - 1] \o Inflate(points[n - 1], points[n])
  IN  output[Len(points)]

\* export_gauge, export_sum, export_histogram, export_summary: by the accumulator's temporality
ExportedPoints(ts) ==
  IF temporality = "cumulative" THEN InflatedPoints(ts) ELSE ts.new_points

\* Mutant of AfterExport: the last point is taken and not put back.
AfterExportForgotten(ts) == EmptySeries

\* previous_point becomes the last point of the output, if there is any.
AfterExport(ts) ==
  [previous_point |-> IF temporality = "cumulative" /\ ts.new_points # <<>>
                      THEN <<Last(ts.new_points)>> ELSE ts.previous_point,
   new_points |-> <<>>]

\* export: everything new is taken into one report.
Export ==
  /\ \E s \in Series : time_series[s].new_points # <<>>
  /\ exported' = [s \in Series |-> exported[s] \o ExportedPoints(time_series[s])]
  /\ time_series' = [s \in Series |-> AfterExport(time_series[s])]
  /\ UNCHANGED <<kind, temporality, dropped_datapoints, now, received, observed, mixed>>

Tick ==
  /\ now < MaxTime
  /\ now' = now + 1
  /\ UNCHANGED <<state, received, observed, exported, mixed>>

\* The bound of the clock is no end of the program.
ClockStops == now = MaxTime /\ UNCHANGED vars

Next ==
  \/ \E s \in Series, t \in Temporalities, v \in 0..MaxValue : Accumulate(s, t, v)
  \/ DropExponentialHistogram
  \/ Export
  \/ Tick
  \/ ClockStops

Spec == Init /\ [][Next]_vars

-----------------------------------------------------------------------------
(* Properties, about the whole series that the reports of an instance make up. *)

Cumulative == temporality = "cumulative"

\* The values a series goes through, from zero: repetitions count once.
Course(points) ==
  LET upto[n \in 0..Len(points)] ==
        IF n = 0 THEN <<0>>
        ELSE IF Last(upto[n - 1]) = points[n].value THEN upto[n - 1]
        ELSE Append(upto[n - 1], points[n].value)
  IN  upto[Len(points)]

\* What PromQL's rate needs of a cumulative series: it starts from zero, its value never
\* changes over a gap longer than MAX_TIME_BETWEEN_DATA_NANOS, and time does not go back,
\* wherever the reports were cut.
RateWorks ==
  Cumulative => \A s \in Series :
    LET e == exported[s] IN
    e # <<>> =>
      /\ e[1].value = 0
      /\ \A i \in 1..Len(e) - 1 :
           /\ e[i].time <= e[i + 1].time
           /\ e[i].value # e[i + 1].value => e[i + 1].time <= e[i].time + MaxTimeBetweenData

\* Reducing loses no change of a cumulative metric: the points reported and those that wait
\* go through the values that were observed, in their order.
CoursePreserved ==
  Cumulative => \A s \in Series :
    Course(exported[s] \o time_series[s].new_points) = Course(observed[s])

\* "Data points are discarded if they are identical to the previous data point": a value is
\* only repeated to bridge a long gap, right before the point that ends it.  (A metric that
\* comes with both temporalities is not reduced.)
RepeatedOnlyAcrossGaps ==
  Cumulative /\ ~mixed => \A s \in Series :
    LET e == exported[s] IN
    \A i \in 1..Len(e) - 1 :
      e[i].value = e[i + 1].value =>
        /\ i + 2 <= Len(e)
        /\ e[i + 2].value # e[i + 1].value
        /\ e[i + 2].time = e[i + 1].time + ReportLastTime
        /\ e[i + 2].time > e[i].time + MaxTimeBetweenData

\* Gauges and delta metrics are reported as they came, each point exactly once.
DeltasPassThrough ==
  ~Cumulative /\ ~mixed => \A s \in Series :
    exported[s] \o time_series[s].new_points = observed[s]

=============================================================================
