---------------------------- MODULE PlatformMetrics ----------------------------
(***************************************************************************)
(* PlatformMetricsState: the metrics made from the platform's telemetry,   *)
(* and the points of them that each batch reports.  In the first version   *)
(* (PlatformReport) everything is recorded, and dated, by the event that   *)
(* ends an invocation, platform.report; in the second (PlatformV2) what    *)
(* each event says is recorded when it comes, and dated by the last        *)
(* platform.runtimeDone.                                                   *)
(*                                                                         *)
(* A point of a counter and one of a summary differ in the sum, which      *)
(* changes only with the count: both are the count here.  Instruments that *)
(* a version does not have are never recorded by it.                       *)
(***************************************************************************)
EXTENDS Integers, Sequences, FiniteSets

CONSTANTS
  MaxTimeBetweenData,  \* MAX_TIME_BETWEEN_DATA_NANOS
  ReportLastTime,      \* REPORT_LAST_TIME_NANOS
  MemorySize,          \* memory_size_mb of the function
  StartTime,           \* the time since the epoch at which the process starts
  Delays,              \* the times that pass between two events
  MaxInvocations       \* bound: of invocations

ASSUME PlatformMetricsAssumption ==
  /\ MaxTimeBetweenData \in Nat /\ ReportLastTime \in Nat \ {0}
  /\ ReportLastTime < MaxTimeBetweenData
  /\ MemorySize \in Nat \ {0}
  /\ StartTime \in Nat /\ StartTime > MaxTimeBetweenData + 1
  /\ Delays \subseteq Nat \ {0}
  /\ MaxInvocations \in Nat

VARIABLES
  mode,                   \* PlatformMetricsMode, not Disabled
  latest_data_timestamp,
  metrics,                \* of each counter and summary: [count, last_count, last_report_timestamp]
  max,                    \* of each gauge: Option, no maximum or one
  now,                    \* the clock of the platform, which dates its events
  phase,                  \* of the environment: "leftover", "init", "idle", "over"
  invocations,            \* how many invocations ended
  runtime_done,           \* the platform.runtimeDone of the last of them, or <<>>
  last_end,               \* when it ended; before the first, when the process started
  occurrences,            \* history: to which time each recorded occurrence belongs
  exported,               \* history: the points of counters and summaries, in order
  exported_gauges         \* history: the points of gauges

state == <<mode, latest_data_timestamp, metrics, max>>
platform == <<now, phase, invocations, runtime_done, last_end>>
history == <<occurrences, exported, exported_gauges>>
vars == <<state, platform, history>>

Counters == {"coldstarts", "executions", "errors", "ooms", "timeouts"}
Summaries == {"init_duration", "restore_duration", "invoke_duration", "overhead_duration",
              "result_size", "billed_duration"}
Cumulative == Counters \cup Summaries
Gauges == {"memory_used", "memory_limit"}

Statuses == {"Success", "Error", "Failure", "Timeout"}
RuntimeDone == [status : Statuses, metrics : BOOLEAN, produced_bytes : BOOLEAN]
Point == [value : Nat, time : Nat]

\* Counter::new, Summary::new
NewInstrument == [count |-> 0, last_count |-> 0, last_report_timestamp |-> 0]

TypeOK ==
  /\ mode \in {"PlatformReport", "PlatformV2"}
  /\ latest_data_timestamp \in Nat
  /\ metrics \in [Cumulative -> [count : Nat, last_count : Nat, last_report_timestamp : Nat]]
  /\ max \in [Gauges -> Seq(Nat)]
  /\ now \in Nat /\ last_end \in Nat
  /\ phase \in {"leftover", "init", "idle", "over"}
  /\ invocations \in 0..MaxInvocations
  /\ runtime_done \in Seq(RuntimeDone)
  /\ occurrences \in [Cumulative -> Seq(Nat)]
  /\ exported \in [Cumulative -> Seq(Point)]
  /\ exported_gauges \in [Gauges -> SUBSET Point]

\* for_mode.  The extension was told of the leftovers by the telemetry of its init.
Init ==
  /\ mode \in {"PlatformReport", "PlatformV2"}
  /\ latest_data_timestamp = StartTime
  /\ metrics = [i \in Cumulative |-> NewInstrument]
  /\ max = [g \in Gauges |-> <<>>]
  /\ now = StartTime /\ phase = "leftover" /\ invocations = 0
  /\ runtime_done = <<>> /\ last_end = StartTime
  /\ occurrences = [i \in Cumulative |-> <<>>]
  /\ exported = [i \in Cumulative |-> <<>>]
  /\ exported_gauges = [g \in Gauges |-> {}]

-----------------------------------------------------------------------------
(* Recording. *)

\* To which time an occurrence belongs: to the event that ends its invocation in the
\* mode's view; what precedes all invocations belongs to the start of the process.
DateOf(time) == IF mode = "PlatformReport" THEN time ELSE last_end

\* Counter::record(1), Summary::record of these instruments.
Record(instruments, date) ==
  /\ metrics' = [i \in Cumulative |->
       IF i \in instruments THEN [metrics[i] EXCEPT !.count = @ + 1] ELSE metrics[i]]
  /\ occurrences' = [i \in Cumulative |->
       IF i \in instruments THEN Append(occurrences[i], date) ELSE occurrences[i]]

Larger(known, value) ==
  IF known # <<>> /\ known[1] > value THEN known ELSE <<value>>

RecordMemory(report) ==
  max' = [max EXCEPT !["memory_used"] = Larger(@, report.memory_used),
                     !["memory_limit"] = Larger(@, MemorySize)]

IsOutOfMemory(report) ==
  \/ report.error_type = "Runtime.OutOfMemory"
  \/ report.memory_used >= MemorySize /\ report.status = "Error"

Only(instrument, condition) == IF condition THEN {instrument} ELSE {}

\* update_coldstarts_metric, update_executions_and_status_metrics,
\* update_duration_metrics and update_result_size_metric; done is the runtimeDone
\* that the processing state holds, if any.
RecordedAfterReport(report, done) ==
  LET out_of_memory == report.status = "Error" /\ IsOutOfMemory(report)
      runtime_metrics == done # <<>> /\ done[1].metrics
  IN  {"executions", "overhead_duration"}
      \cup Only("coldstarts", report.start # "warm")
      \cup Only("ooms", out_of_memory)
      \cup Only("errors", report.status \in {"Error", "Failure"} /\ ~out_of_memory)
      \cup Only("timeouts", report.status = "Timeout")
      \cup Only("init_duration", report.start = "init")
      \cup Only("restore_duration", report.start = "restore")
      \cup Only("invoke_duration", runtime_metrics)
      \cup Only("result_size", runtime_metrics /\ done[1].produced_bytes)

\* Mutant of UpdateMetricsAfterReport: the timestamp is left to the next runtimeDone.
UpdateMetricsUndated(report, done, time) ==
  /\ Record(RecordedAfterReport(report, done), DateOf(time))
  /\ RecordMemory(report)
  /\ UNCHANGED latest_data_timestamp

\* v1::update_metrics_after_report
UpdateMetricsAfterReport(report, done, time) ==
  /\ Record(RecordedAfterReport(report, done), DateOf(time))
  /\ RecordMemory(report)
  /\ latest_data_timestamp' = time

\* v2::update_metrics_with_report: the timestamp remains that of the runtimeDone.
UpdateMetricsWithReport(report) ==
  /\ Record({"billed_duration"} \cup Only("ooms", report.status = "Error" /\ IsOutOfMemory(report)),
            DateOf(now))
  /\ RecordMemory(report)
  /\ UNCHANGED latest_data_timestamp

\* Mutant of UpdateMetricsWithRuntimeDone: the points keep the time of the start.
UpdateMetricsWithoutTime(done, time) ==
  /\ Record(Only("invoke_duration", done.metrics)
              \cup Only("errors", done.status \in {"Error", "Failure"})
              \cup Only("timeouts", done.status = "Timeout"), time)
  /\ UNCHANGED <<latest_data_timestamp, max>>

\* v2::update_metrics_with_runtime_done
UpdateMetricsWithRuntimeDone(done, time) ==
  /\ Record(Only("invoke_duration", done.metrics)
              \cup Only("errors", done.status \in {"Error", "Failure"})
              \cup Only("timeouts", done.status = "Timeout"), time)
  /\ latest_data_timestamp' = time
  /\ UNCHANGED max

-----------------------------------------------------------------------------
(* The events, as the platform sends them. *)

\* The arm of PlatformReport, in normal and in degraded mode alike.
ProcessReport(report, done, time) ==
  \/ mode = "PlatformReport" /\ UpdateMetricsAfterReport(report, done, time)
  \/ mode = "PlatformV2" /\ UpdateMetricsWithReport(report)

Report(status, start) ==
  [status : {status}, start : {start}, memory_used : {1, MemorySize},
   error_type : IF status = "Error" THEN {"Runtime.OutOfMemory", "other"} ELSE {"none"}]

\* The report of an invocation that ended the process before this one.  It is processed
\* in degraded mode, which keeps no runtimeDone.
PlatformReportOfCrashedInstance ==
  /\ phase = "leftover"
  /\ \E status \in {"Error", "Timeout"} :
       \E report \in Report(status, "warm") : ProcessReport(report, <<>>, StartTime - 1)
  /\ phase' = "init"
  /\ UNCHANGED <<mode, now, invocations, runtime_done, last_end, exported, exported_gauges>>

\* v2::update_metrics_with_init_report; the first version ignores the event.
PlatformInitReport ==
  /\ phase \in {"leftover", "init"}
  /\ Record(Only("init_duration", mode = "PlatformV2"), DateOf(now))
  /\ phase' = "idle"
  /\ UNCHANGED <<mode, latest_data_timestamp, max, now, invocations, runtime_done, last_end,
                 exported, exported_gauges>>

\* A function that does not return produces nothing, and may give no metrics.
PlatformRuntimeDone ==
  /\ phase = "idle" /\ invocations < MaxInvocations
  /\ \E d \in Delays, done \in RuntimeDone :
       /\ done.produced_bytes = (done.status = "Success")
       /\ done.status = "Success" => done.metrics
       /\ now' = now + d
       /\ last_end' = now'
       /\ runtime_done' = <<done>>
       /\ \/ mode = "PlatformV2" /\ UpdateMetricsWithRuntimeDone(done, now')
          \/ mode = "PlatformReport"
             /\ UNCHANGED <<latest_data_timestamp, metrics, max, occurrences>>
  /\ invocations' = invocations + 1
  /\ phase' = "over"
  /\ UNCHANGED <<mode, exported, exported_gauges>>

PlatformReport ==
  /\ phase = "over"
  /\ \E d \in Delays, start \in IF invocations = 1 THEN {"init", "restore", "warm"} ELSE {"warm"} :
       \E report \in Report(runtime_done[1].status, start) :
         /\ now' = now + d
         /\ ProcessReport(report, runtime_done, now')
  /\ phase' = "idle"
  /\ UNCHANGED <<mode, invocations, runtime_done, last_end, exported, exported_gauges>>

-----------------------------------------------------------------------------
(* Reporting. *)

GapIsLong(m, time) == time > m.last_report_timestamp + MaxTimeBetweenData

\* Counter::report, Summary::report: nothing unless the count changed; after a long gap
\* the last count is repeated shortly before the new one.
ReportedPoints(m, time) ==
  IF m.count = m.last_count THEN <<>>
  ELSE (IF GapIsLong(m, time)
        THEN <<[value |-> m.last_count, time |-> time - ReportLastTime]>> ELSE <<>>)
       \o <<[value |-> m.count, time |-> time]>>

\* Mutant of AfterReport: a report that leaves the instrument out counts as one, too.
AfterEveryReport(m, time) ==
  [m EXCEPT !.last_count = m.count, !.last_report_timestamp = time]

\* Mutant of AfterReport: the counts start anew with each report.
AfterDeltaReport(m, time) ==
  IF m.count = m.last_count THEN m
  ELSE [m EXCEPT !.last_count = m.count, !.count = @ - m.last_count,
                 !.last_report_timestamp = time]

AfterReport(m, time) ==
  IF m.count = m.last_count THEN m
  ELSE [count |-> m.count, last_count |-> m.count, last_report_timestamp |-> time]

\* MaxGauge::report: always, and without repeating the previous value.
ReportedGaugePoints(known, time) ==
  {[value |-> known[k], time |-> time] : k \in DOMAIN known}

\* make_metrics_report of both versions, called for each batch by prepare_metrics.
MakeMetricsReport ==
  /\ exported' = [i \in Cumulative |->
       exported[i] \o ReportedPoints(metrics[i], latest_data_timestamp)]
  /\ exported_gauges' = [g \in Gauges |->
       exported_gauges[g] \cup ReportedGaugePoints(max[g], latest_data_timestamp)]
  /\ metrics' = [i \in Cumulative |-> AfterReport(metrics[i], latest_data_timestamp)]
  /\ UNCHANGED <<mode, latest_data_timestamp, max, platform, occurrences>>

Next ==
  \/ PlatformReportOfCrashedInstance \/ PlatformInitReport
  \/ PlatformRuntimeDone \/ PlatformReport
  \/ MakeMetricsReport

Spec == Init /\ [][Next]_vars

-----------------------------------------------------------------------------
(* Properties. *)

\* A rate over a pair of points that follow each other is right.
RateSpans(q, p) ==
  /\ q.time <= p.time /\ q.value <= p.value
  /\ q.value < p.value => p.time - q.time <= MaxTimeBetweenData

\* "If the time-distance between two data points of a counter is too long, Prometheus'
\* `rate` will not produce any data" (MAX_TIME_BETWEEN_DATA_NANOS): wherever a counter
\* or a summary changes, it changes from a point that is near, beginning with zero.
RateWorks ==
  \A i \in Cumulative : \A k \in DOMAIN exported[i] :
    IF k = 1 THEN exported[i][k].value = 0 ELSE RateSpans(exported[i][k - 1], exported[i][k])

\* How many of the occurrences of an instrument belong to a time up to this one.
CountUpTo(i, time) ==
  Cardinality({k \in DOMAIN occurrences[i] : occurrences[i][k] <= time})

\* "All metrics are updated after report in order to maintain consistent timestamps
\* between the metrics" (v1): a point that was not put in to bridge a gap counts what had
\* happened by its time, neither less nor more, so that the metrics of an instance agree
\* with each other at any time.  In the second version a point may miss what belongs
\* to the very invocation that dates it, and nothing older.  However events are cut into
\* batches, and also after a report of a crashed instance.
PointsAreTrue ==
  \A i \in Cumulative : \A k \in DOMAIN exported[i] :
    LET p == exported[i][k]
        bridge == p.value = IF k = 1 THEN 0 ELSE exported[i][k - 1].value
    IN  /\ p.value <= CountUpTo(i, p.time)
        /\ ~bridge => p.value >= CountUpTo(i, IF mode = "PlatformReport" THEN p.time ELSE p.time - 1)

\* In the first version two batches never give an instrument two values for one time, of
\* which a store of time series would keep one.
OneValuePerTime ==
  mode = "PlatformReport" =>
    /\ \A i \in Cumulative : \A k, l \in DOMAIN exported[i] :
         exported[i][k].time = exported[i][l].time => k = l
    /\ \A g \in Gauges : \A p, q \in exported_gauges[g] : p.time = q.time => p = q

=============================================================================
