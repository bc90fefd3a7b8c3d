------------------------- MODULE PlatformMetricsProofs -------------------------
(***************************************************************************)
(* Type correctness of PlatformMetrics, and that the reported points give  *)
(* rates that work, true counts and one value for each time, for every     *)
(* value of the constants.                                                 *)
(*                                                                         *)
(* The inductive invariant ties what an instrument remembers of its last   *)
(* report to the last of its reported points, and says that the timestamp  *)
(* of the metrics never falls behind a report: before the leftovers were   *)
(* processed, the only time it goes back, nothing was reported.  To it     *)
(* TrueInv adds what the counts and points say of the occurrences, and     *)
(* OneValueInv that the first version moves the timestamp at each change. *)
(***************************************************************************)
EXTENDS PlatformMetrics, FiniteSetTheorems, TLAPS

\* What an instrument remembers of its last report is its last reported point.
Remembers(m, points) ==
  IF points = <<>> THEN m.last_count = 0 /\ m.last_report_timestamp = 0
  ELSE /\ m.last_count > 0
       /\ points[Len(points)] = [value |-> m.last_count, time |-> m.last_report_timestamp]

LastPointKnown(i) == Remembers(metrics[i], exported[i])

NotAhead(i) ==
  /\ metrics[i].last_count <= metrics[i].count
  /\ metrics[i].last_report_timestamp <= latest_data_timestamp

ClockRuns ==
  /\ StartTime - 1 <= latest_data_timestamp /\ latest_data_timestamp <= now
  /\ StartTime <= now
  /\ phase = "leftover" => \A i \in Cumulative : metrics[i].count = 0
  /\ phase = "over" => runtime_done # <<>>

RateWorksOver(points) ==
  \A k \in 1..Len(points) :
    IF k = 1 THEN points[k].value = 0 ELSE RateSpans(points[k - 1], points[k])

IInv ==
  /\ TypeOK
  /\ ClockRuns
  /\ \A i \in Cumulative : LastPointKnown(i) /\ NotAhead(i) /\ RateWorksOver(exported[i])

-----------------------------------------------------------------------------
(* Recording. *)

\* Recording keeps the types, and adds at most one to a count.
LEMMA RecordFacts ==
  ASSUME TypeOK, NEW S, NEW date \in Nat, Record(S, date)
  PROVE  /\ metrics' \in [Cumulative -> [count : Nat, last_count : Nat, last_report_timestamp : Nat]]
         /\ occurrences' \in [Cumulative -> Seq(Nat)]
         /\ \A i \in Cumulative :
              /\ metrics'[i].last_count = metrics[i].last_count
              /\ metrics'[i].last_report_timestamp = metrics[i].last_report_timestamp
              /\ metrics[i].count <= metrics'[i].count
<1>1. metrics \in [Cumulative -> [count : Nat, last_count : Nat, last_report_timestamp : Nat]]
  BY DEF TypeOK
<1>2. metrics' = [i \in Cumulative |->
                   IF i \in S THEN [metrics[i] EXCEPT !.count = @ + 1] ELSE metrics[i]]
  BY DEF Record
<1>3. ASSUME NEW i \in Cumulative
      PROVE  /\ metrics'[i] \in [count : Nat, last_count : Nat, last_report_timestamp : Nat]
             /\ metrics'[i].last_count = metrics[i].last_count
             /\ metrics'[i].last_report_timestamp = metrics[i].last_report_timestamp
             /\ metrics[i].count <= metrics'[i].count
  <2>1. metrics[i] \in [count : Nat, last_count : Nat, last_report_timestamp : Nat]
    BY <1>1
  <2>2. metrics'[i] = IF i \in S THEN [metrics[i] EXCEPT !.count = @ + 1] ELSE metrics[i]
    BY <1>2
  <2> QED BY <2>1, <2>2
<1>4. occurrences' \in [Cumulative -> Seq(Nat)]
  BY DEF Record, TypeOK
<1> QED BY <1>2, <1>3, <1>4

\* The memory gauges keep their type.
LEMMA RecordMemoryType ==
  ASSUME TypeOK, NEW r, r.memory_used \in Nat, RecordMemory(r)
  PROVE  max' \in [Gauges -> Seq(Nat)]
<1>1. MemorySize \in Nat
  BY PlatformMetricsAssumption
<1>2. ASSUME NEW known \in Seq(Nat), NEW v \in Nat PROVE Larger(known, v) \in Seq(Nat)
  BY <1>2 DEF Larger
<1> QED BY <1>1, <1>2 DEF RecordMemory, TypeOK, Gauges

\* A step that only records keeps the invariant: reported points and what is remembered
\* of them do not change, and the timestamp does not go back behind them.
LEMMA RecordingKeeps ==
  ASSUME IInv, TypeOK', ClockRuns', exported' = exported,
         \A i \in Cumulative :
           /\ metrics'[i].last_count = metrics[i].last_count
           /\ metrics'[i].last_report_timestamp = metrics[i].last_report_timestamp
           /\ metrics[i].count <= metrics'[i].count
           /\ metrics[i].last_report_timestamp <= latest_data_timestamp'
  PROVE  IInv'
<1>1. ASSUME NEW i \in Cumulative
      PROVE  LastPointKnown(i)' /\ NotAhead(i)' /\ RateWorksOver(exported'[i])
  <2>1. LastPointKnown(i) /\ NotAhead(i) /\ RateWorksOver(exported[i])
    BY DEF IInv
  <2>2. LastPointKnown(i)'
    BY <2>1 DEF LastPointKnown, Remembers
  <2>3. RateWorksOver(exported'[i])
    BY <2>1 DEF RateWorksOver
  <2>4. /\ metrics[i].last_count \in Nat /\ metrics[i].count \in Nat
        /\ metrics'[i].count \in Nat
    BY DEF IInv, TypeOK
  <2>5. NotAhead(i)'
    BY <2>1, <2>4 DEF NotAhead
  <2> QED BY <2>2, <2>3, <2>5
<1> QED BY <1>1 DEF IInv

-----------------------------------------------------------------------------
(* Reporting. *)

\* What one instrument reports extends its points such that rates work, and is
\* remembered.  The point that bridges a gap comes after the one reported last.
LEMMA ReportExtends ==
  ASSUME NEW m \in [count : Nat, last_count : Nat, last_report_timestamp : Nat],
         NEW points \in Seq(Point), NEW time \in Nat,
         StartTime - 1 <= time,
         m.last_count <= m.count, m.last_report_timestamp <= time,
         Remembers(m, points),
         RateWorksOver(points),
         NEW new, new = points \o ReportedPoints(m, time),
         NEW n, n = AfterReport(m, time)
  PROVE  /\ n \in [count : Nat, last_count : Nat, last_report_timestamp : Nat]
         /\ n.last_count <= n.count /\ n.count = m.count
         /\ n.last_report_timestamp <= time
         /\ new \in Seq(Point)
         /\ Remembers(n, new)
         /\ RateWorksOver(new)
<1> DEFINE before == [value |-> m.last_count, time |-> m.last_report_timestamp]
           old == [value |-> m.last_count, time |-> time - ReportLastTime]
           latest == [value |-> m.count, time |-> time]
<1>1. /\ MaxTimeBetweenData \in Nat /\ ReportLastTime \in Nat /\ StartTime \in Nat
      /\ ReportLastTime < MaxTimeBetweenData /\ StartTime > MaxTimeBetweenData + 1
  BY PlatformMetricsAssumption
<1>2. CASE m.count = m.last_count
  <2>1. n = m /\ new = points
    BY <1>2 DEF AfterReport, ReportedPoints
  <2> QED BY <2>1
<1>3. CASE m.count # m.last_count /\ GapIsLong(m, time)
  <2>1. time > m.last_report_timestamp + MaxTimeBetweenData
    BY <1>3 DEF GapIsLong
  <2>2. old \in Point /\ latest \in Point
    BY <1>1, <2>1 DEF Point
  <2>3. RateSpans(before, old) /\ RateSpans(old, latest)
    BY <1>1, <2>1 DEF RateSpans
  <2>4. new = points \o <<old, latest>>
    BY <1>3 DEF ReportedPoints
  <2>5. /\ n = [count |-> m.count, last_count |-> m.count, last_report_timestamp |-> time]
        /\ m.count \in Nat /\ m.count > 0
    BY <1>3 DEF AfterReport
  <2> HIDE DEF old, latest, before
  <2>6. /\ new \in Seq(Point) /\ Len(new) = Len(points) + 2
        /\ \A k \in 1..Len(points) : new[k] = points[k]
        /\ new[Len(points) + 1] = old /\ new[Len(points) + 2] = latest
    BY <2>2, <2>4
  <2>7. points # <<>> => points[Len(points)] = before
    BY DEF before, Remembers
  <2>8. points = <<>> => old.value = 0
    BY DEF old, Remembers
  <2>9. ASSUME NEW k \in 1..Len(new)
        PROVE  IF k = 1 THEN new[k].value = 0 ELSE RateSpans(new[k - 1], new[k])
    <3>1. CASE k <= Len(points)
      BY <2>6, <3>1 DEF RateWorksOver
    <3>2. CASE k = Len(points) + 1 /\ points = <<>>
      BY <2>6, <2>8, <3>2
    <3>3. CASE k = Len(points) + 1 /\ points # <<>>
      BY <2>3, <2>6, <2>7, <3>3
    <3>4. CASE k = Len(points) + 2
      BY <2>3, <2>6, <3>4
    <3> QED BY <2>6, <3>1, <3>2, <3>3, <3>4
  <2>10. RateWorksOver(new)
    BY <2>9 DEF RateWorksOver
  <2>11. /\ n \in [count : Nat, last_count : Nat, last_report_timestamp : Nat]
         /\ n.last_count <= n.count /\ n.count = m.count /\ n.last_count > 0
         /\ n.last_report_timestamp <= time
         /\ latest = [value |-> n.last_count, time |-> n.last_report_timestamp]
    BY <1>3, <2>5 DEF latest
  <2>12. new # <<>> /\ new[Len(new)] = [value |-> n.last_count, time |-> n.last_report_timestamp]
    BY <2>6, <2>11
  <2> QED BY <2>6, <2>10, <2>11, <2>12 DEF Remembers
<1>4. CASE m.count # m.last_count /\ ~GapIsLong(m, time)
  <2>1. time <= m.last_report_timestamp + MaxTimeBetweenData
    BY <1>1, <1>4 DEF GapIsLong
  <2>2. points # <<>>
    BY <1>1, <2>1 DEF Remembers
  <2>3. RateSpans(before, latest)
    BY <1>1, <2>1 DEF RateSpans
  <2>4. new = points \o <<latest>> /\ latest \in Point
    BY <1>4 DEF ReportedPoints, Point
  <2>5. /\ n = [count |-> m.count, last_count |-> m.count, last_report_timestamp |-> time]
        /\ m.count \in Nat /\ m.count > 0
    BY <1>4 DEF AfterReport
  <2> HIDE DEF old, latest, before
  <2>6. /\ new \in Seq(Point) /\ Len(new) = Len(points) + 1
        /\ \A k \in 1..Len(points) : new[k] = points[k]
        /\ new[Len(points) + 1] = latest
    BY <2>4
  <2>7. points[Len(points)] = before
    BY <2>2 DEF before, Remembers
  <2>8. ASSUME NEW k \in 1..Len(new)
        PROVE  IF k = 1 THEN new[k].value = 0 ELSE RateSpans(new[k - 1], new[k])
    <3>1. CASE k <= Len(points)
      BY <2>6, <3>1 DEF RateWorksOver
    <3>2. CASE k = Len(points) + 1
      BY <2>2, <2>3, <2>6, <2>7, <3>2
    <3> QED BY <2>6, <3>1, <3>2
  <2>9. RateWorksOver(new)
    BY <2>8 DEF RateWorksOver
  <2>10. /\ n \in [count : Nat, last_count : Nat, last_report_timestamp : Nat]
         /\ n.last_count <= n.count /\ n.count = m.count /\ n.last_count > 0
         /\ n.last_report_timestamp <= time
         /\ latest = [value |-> n.last_count, time |-> n.last_report_timestamp]
    BY <1>4, <2>5 DEF latest
  <2>11. new # <<>> /\ new[Len(new)] = [value |-> n.last_count, time |-> n.last_report_timestamp]
    BY <2>6, <2>10
  <2> QED BY <2>6, <2>9, <2>10, <2>11 DEF Remembers
<1> QED BY <1>2, <1>3, <1>4

\* A report keeps the invariant: each instrument adds rising points.
LEMMA MakeMetricsReportStep ==
  ASSUME IInv, MakeMetricsReport PROVE IInv'
<1>1. TypeOK /\ ClockRuns
  BY DEF IInv
<1>2. /\ latest_data_timestamp' = latest_data_timestamp /\ max' = max
      /\ UNCHANGED <<mode, now, phase, invocations, runtime_done, last_end, occurrences>>
  BY DEF MakeMetricsReport, platform
<1>3. ASSUME NEW i \in Cumulative
      PROVE  /\ metrics'[i] \in [count : Nat, last_count : Nat, last_report_timestamp : Nat]
             /\ exported'[i] \in Seq(Point)
             /\ metrics'[i].count = metrics[i].count
             /\ LastPointKnown(i)' /\ NotAhead(i)' /\ RateWorksOver(exported'[i])
  <2>1. /\ metrics'[i] = AfterReport(metrics[i], latest_data_timestamp)
        /\ exported'[i] = exported[i] \o ReportedPoints(metrics[i], latest_data_timestamp)
    BY DEF MakeMetricsReport
  <2>2. LastPointKnown(i) /\ NotAhead(i) /\ RateWorksOver(exported[i])
    BY DEF IInv
  <2>3. /\ metrics[i] \in [count : Nat, last_count : Nat, last_report_timestamp : Nat]
        /\ exported[i] \in Seq(Point) /\ latest_data_timestamp \in Nat
        /\ StartTime - 1 <= latest_data_timestamp
    BY <1>1 DEF TypeOK, ClockRuns
  <2>4. /\ metrics'[i] \in [count : Nat, last_count : Nat, last_report_timestamp : Nat]
        /\ metrics'[i].last_count <= metrics'[i].count /\ metrics'[i].count = metrics[i].count
        /\ metrics'[i].last_report_timestamp <= latest_data_timestamp
        /\ exported'[i] \in Seq(Point)
        /\ Remembers(metrics'[i], exported'[i])
        /\ RateWorksOver(exported'[i])
    BY <2>1, <2>2, <2>3, ReportExtends DEF LastPointKnown, NotAhead
  <2> QED BY <1>2, <2>4 DEF LastPointKnown, NotAhead
<1>4. /\ metrics' \in [Cumulative -> [count : Nat, last_count : Nat, last_report_timestamp : Nat]]
      /\ exported' \in [Cumulative -> Seq(Point)]
  BY <1>3 DEF MakeMetricsReport
<1>5. exported_gauges' \in [Gauges -> SUBSET Point]
  <2>1. ASSUME NEW g \in Gauges
        PROVE  exported_gauges[g] \cup ReportedGaugePoints(max[g], latest_data_timestamp)
                 \in SUBSET Point
    BY <1>1, <2>1 DEF TypeOK, ReportedGaugePoints, Point
  <2> QED BY <2>1 DEF MakeMetricsReport
<1>6. TypeOK'
  BY <1>1, <1>2, <1>4, <1>5 DEF TypeOK
<1>7. ClockRuns'
  BY <1>1, <1>2, <1>3 DEF ClockRuns
<1> QED BY <1>3, <1>6, <1>7 DEF IInv

-----------------------------------------------------------------------------
(* The other steps. *)

\* Before anything was recorded, nothing was reported.
LEMMA NothingReportedYet ==
  ASSUME IInv, phase = "leftover", NEW i \in Cumulative
  PROVE  metrics[i].last_report_timestamp = 0
<1>1. metrics[i].last_count = 0 /\ metrics[i].count = 0
  <2>1. metrics[i].last_count \in Nat /\ metrics[i].last_count <= metrics[i].count
    BY DEF IInv, TypeOK, NotAhead
  <2>2. metrics[i].count = 0
    BY DEF IInv, ClockRuns
  <2> QED BY <2>1, <2>2
<1>2. Remembers(metrics[i], exported[i])
  BY DEF IInv, LastPointKnown
<1> QED BY <1>1, <1>2 DEF Remembers

\* An event of the platform that is processed as a report, at the time given.
LEMMA ReportStep ==
  ASSUME IInv, NEW report \in [status : Statuses, start : {"init", "restore", "warm"},
                               memory_used : {1, MemorySize},
                               error_type : {"Runtime.OutOfMemory", "other", "none"}],
         NEW done, NEW time \in Nat, ProcessReport(report, done, time),
         phase # "leftover" => latest_data_timestamp <= time
  PROVE  /\ metrics' \in [Cumulative -> [count : Nat, last_count : Nat, last_report_timestamp : Nat]]
         /\ occurrences' \in [Cumulative -> Seq(Nat)]
         /\ max' \in [Gauges -> Seq(Nat)]
         /\ latest_data_timestamp' \in {latest_data_timestamp, time}
         /\ \A i \in Cumulative :
              /\ metrics'[i].last_count = metrics[i].last_count
              /\ metrics'[i].last_report_timestamp = metrics[i].last_report_timestamp
              /\ metrics[i].count <= metrics'[i].count
              /\ metrics[i].last_report_timestamp <= latest_data_timestamp'
<1>1. TypeOK /\ report.memory_used \in Nat
  BY PlatformMetricsAssumption DEF IInv
<1>2. \A t \in Nat : DateOf(t) \in Nat
  BY <1>1 DEF DateOf, TypeOK
<1>3. RecordMemory(report) /\ latest_data_timestamp' \in {latest_data_timestamp, time}
  BY DEF ProcessReport, UpdateMetricsAfterReport, UpdateMetricsWithReport
<1>4. max' \in [Gauges -> Seq(Nat)]
  BY <1>1, <1>3, RecordMemoryType
<1>5. \E S : \E date \in Nat : Record(S, date)
  <2>1. CASE UpdateMetricsAfterReport(report, done, time)
    BY <1>2, <2>1 DEF UpdateMetricsAfterReport
  <2>2. CASE UpdateMetricsWithReport(report)
    <3>1. now \in Nat
      BY <1>1 DEF TypeOK
    <3> QED BY <1>2, <2>2, <3>1 DEF UpdateMetricsWithReport
  <2> QED BY <2>1, <2>2 DEF ProcessReport
<1>6. /\ metrics' \in [Cumulative -> [count : Nat, last_count : Nat, last_report_timestamp : Nat]]
      /\ occurrences' \in [Cumulative -> Seq(Nat)]
      /\ \A i \in Cumulative :
           /\ metrics'[i].last_count = metrics[i].last_count
           /\ metrics'[i].last_report_timestamp = metrics[i].last_report_timestamp
           /\ metrics[i].count <= metrics'[i].count
  BY <1>1, <1>5, RecordFacts
<1>7. ASSUME NEW i \in Cumulative
      PROVE  metrics[i].last_report_timestamp <= latest_data_timestamp'
  <2>1. /\ metrics[i].last_report_timestamp <= latest_data_timestamp
        /\ metrics[i].last_report_timestamp \in Nat /\ latest_data_timestamp \in Nat
    BY DEF IInv, NotAhead, TypeOK
  <2>2. phase = "leftover" => metrics[i].last_report_timestamp = 0
    BY NothingReportedYet
  <2> QED BY <1>3, <2>1, <2>2
<1> QED BY <1>3, <1>4, <1>6, <1>7

\* A leftover report is counted before anything is reported.
LEMMA CrashedInstanceStep ==
  ASSUME IInv, PlatformReportOfCrashedInstance PROVE IInv'
<1>1. TypeOK /\ ClockRuns
  BY DEF IInv
<1>2. /\ phase = "leftover" /\ phase' = "init"
      /\ UNCHANGED <<mode, now, invocations, runtime_done, last_end, exported, exported_gauges>>
  BY DEF PlatformReportOfCrashedInstance
<1>3. StartTime - 1 \in Nat /\ StartTime \in Nat
  BY PlatformMetricsAssumption
<1> PICK status \in {"Error", "Timeout"} :
      \E r \in Report(status, "warm") : ProcessReport(r, <<>>, StartTime - 1)
  BY DEF PlatformReportOfCrashedInstance
<1>4. PICK report \in Report(status, "warm") : ProcessReport(report, <<>>, StartTime - 1)
  OBVIOUS
<1>5. report \in [status : Statuses, start : {"init", "restore", "warm"},
                  memory_used : {1, MemorySize},
                  error_type : {"Runtime.OutOfMemory", "other", "none"}]
  BY <1>4 DEF Report, Statuses
<1>6. /\ metrics' \in [Cumulative -> [count : Nat, last_count : Nat, last_report_timestamp : Nat]]
      /\ occurrences' \in [Cumulative -> Seq(Nat)]
      /\ max' \in [Gauges -> Seq(Nat)]
      /\ latest_data_timestamp' \in {latest_data_timestamp, StartTime - 1}
      /\ \A i \in Cumulative :
           /\ metrics'[i].last_count = metrics[i].last_count
           /\ metrics'[i].last_report_timestamp = metrics[i].last_report_timestamp
           /\ metrics[i].count <= metrics'[i].count
           /\ metrics[i].last_report_timestamp <= latest_data_timestamp'
  BY <1>2, <1>3, <1>4, <1>5, ReportStep
<1>7. TypeOK'
  BY <1>1, <1>2, <1>3, <1>6 DEF TypeOK
<1>8. ClockRuns'
  BY <1>1, <1>2, <1>3, <1>6 DEF ClockRuns, TypeOK
<1> QED BY <1>2, <1>6, <1>7, <1>8, RecordingKeeps

\* The report of an init keeps the invariant.
LEMMA InitReportStep ==
  ASSUME IInv, PlatformInitReport PROVE IInv'
<1>1. TypeOK /\ ClockRuns
  BY DEF IInv
<1>2. /\ phase' = "idle"
      /\ UNCHANGED <<mode, latest_data_timestamp, max, now, invocations, runtime_done, last_end,
                     exported, exported_gauges>>
  BY DEF PlatformInitReport
<1>3. DateOf(now) \in Nat
  BY <1>1 DEF DateOf, TypeOK
<1>4. /\ metrics' \in [Cumulative -> [count : Nat, last_count : Nat, last_report_timestamp : Nat]]
      /\ occurrences' \in [Cumulative -> Seq(Nat)]
      /\ \A i \in Cumulative :
           /\ metrics'[i].last_count = metrics[i].last_count
           /\ metrics'[i].last_report_timestamp = metrics[i].last_report_timestamp
           /\ metrics[i].count <= metrics'[i].count
  BY <1>1, <1>3, RecordFacts DEF PlatformInitReport
<1>5. TypeOK'
  BY <1>1, <1>2, <1>4 DEF TypeOK
<1>6. ClockRuns'
  BY <1>1, <1>2 DEF ClockRuns
<1>7. \A i \in Cumulative : metrics[i].last_report_timestamp <= latest_data_timestamp'
  BY <1>2 DEF IInv, NotAhead
<1> QED BY <1>2, <1>4, <1>5, <1>6, <1>7, RecordingKeeps

\* The end of a runtime keeps the invariant.
LEMMA RuntimeDoneStep ==
  ASSUME IInv, PlatformRuntimeDone PROVE IInv'
<1>1. TypeOK /\ ClockRuns /\ Delays \subseteq Nat \ {0} /\ MaxInvocations \in Nat
  BY PlatformMetricsAssumption DEF IInv
<1>2. /\ phase = "idle" /\ phase' = "over"
      /\ invocations < MaxInvocations /\ invocations' = invocations + 1
      /\ UNCHANGED <<mode, exported, exported_gauges>>
  BY DEF PlatformRuntimeDone
<1>3. PICK d \in Delays, done \in RuntimeDone :
        /\ now' = now + d /\ last_end' = now' /\ runtime_done' = <<done>>
        /\ \/ mode = "PlatformV2" /\ UpdateMetricsWithRuntimeDone(done, now')
           \/ mode = "PlatformReport"
              /\ UNCHANGED <<latest_data_timestamp, metrics, max, occurrences>>
  BY DEF PlatformRuntimeDone
<1>4. now' \in Nat /\ now < now' /\ now \in Nat /\ latest_data_timestamp \in Nat
  BY <1>1, <1>3 DEF TypeOK
<1>5. latest_data_timestamp' \in {latest_data_timestamp, now'} /\ max' = max
  BY <1>3 DEF UpdateMetricsWithRuntimeDone
<1>6. /\ metrics' \in [Cumulative -> [count : Nat, last_count : Nat, last_report_timestamp : Nat]]
      /\ occurrences' \in [Cumulative -> Seq(Nat)]
      /\ \A i \in Cumulative :
           /\ metrics'[i].last_count = metrics[i].last_count
           /\ metrics'[i].last_report_timestamp = metrics[i].last_report_timestamp
           /\ metrics[i].count <= metrics'[i].count
  <2>1. CASE UpdateMetricsWithRuntimeDone(done, now')
    BY <1>1, <1>4, <2>1, RecordFacts DEF UpdateMetricsWithRuntimeDone
  <2>2. CASE UNCHANGED <<latest_data_timestamp, metrics, max, occurrences>>
    BY <1>1, <2>2 DEF TypeOK
  <2> QED BY <1>3, <2>1, <2>2
<1>7. TypeOK'
  <2>1. runtime_done' \in Seq(RuntimeDone)
    BY <1>3
  <2>2. invocations' \in 0..MaxInvocations
    BY <1>1, <1>2 DEF TypeOK
  <2> QED BY <1>1, <1>2, <1>3, <1>4, <1>5, <1>6, <2>1, <2>2 DEF TypeOK
<1>8. ClockRuns'
  BY <1>1, <1>2, <1>3, <1>4, <1>5, PlatformMetricsAssumption DEF ClockRuns
<1>9. \A i \in Cumulative : metrics[i].last_report_timestamp <= latest_data_timestamp'
  <2> TAKE i \in Cumulative
  <2>1. /\ metrics[i].last_report_timestamp <= latest_data_timestamp
        /\ metrics[i].last_report_timestamp \in Nat
    BY DEF IInv, NotAhead, TypeOK
  <2>2. latest_data_timestamp <= now
    BY <1>1 DEF ClockRuns
  <2> QED BY <1>4, <1>5, <2>1, <2>2
<1> QED BY <1>2, <1>6, <1>7, <1>8, <1>9, RecordingKeeps

\* The report of an invocation keeps the invariant.
LEMMA PlatformReportStep ==
  ASSUME IInv, PlatformReport PROVE IInv'
<1>1. TypeOK /\ ClockRuns /\ Delays \subseteq Nat \ {0}
  BY PlatformMetricsAssumption DEF IInv
<1>2. /\ phase = "over" /\ phase' = "idle"
      /\ UNCHANGED <<mode, invocations, runtime_done, last_end, exported, exported_gauges>>
  BY DEF PlatformReport
<1>3. runtime_done[1].status \in Statuses
  <2>1. runtime_done \in Seq(RuntimeDone) /\ runtime_done # <<>>
    BY <1>1, <1>2 DEF TypeOK, ClockRuns
  <2>2. runtime_done[1] \in RuntimeDone
    BY <2>1
  <2> QED BY <2>2 DEF RuntimeDone
<1>4. PICK d \in Delays, start \in {"init", "restore", "warm"} :
        \E r \in Report(runtime_done[1].status, start) :
          now' = now + d /\ ProcessReport(r, runtime_done, now')
  BY DEF PlatformReport
<1>5. PICK report \in Report(runtime_done[1].status, start) :
        now' = now + d /\ ProcessReport(report, runtime_done, now')
  BY <1>4
<1>6. report \in [status : Statuses, start : {"init", "restore", "warm"},
                  memory_used : {1, MemorySize},
                  error_type : {"Runtime.OutOfMemory", "other", "none"}]
  BY <1>3, <1>5 DEF Report
<1>7. now' \in Nat /\ now < now' /\ now \in Nat /\ latest_data_timestamp \in Nat
      /\ latest_data_timestamp <= now
  BY <1>1, <1>5 DEF TypeOK, ClockRuns
<1>8. /\ metrics' \in [Cumulative -> [count : Nat, last_count : Nat, last_report_timestamp : Nat]]
      /\ occurrences' \in [Cumulative -> Seq(Nat)]
      /\ max' \in [Gauges -> Seq(Nat)]
      /\ latest_data_timestamp' \in {latest_data_timestamp, now'}
      /\ \A i \in Cumulative :
           /\ metrics'[i].last_count = metrics[i].last_count
           /\ metrics'[i].last_report_timestamp = metrics[i].last_report_timestamp
           /\ metrics[i].count <= metrics'[i].count
           /\ metrics[i].last_report_timestamp <= latest_data_timestamp'
  BY <1>2, <1>5, <1>6, <1>7, ReportStep
<1>9. TypeOK'
  BY <1>1, <1>2, <1>7, <1>8 DEF TypeOK
<1>10. ClockRuns'
  BY <1>1, <1>2, <1>7, <1>8, PlatformMetricsAssumption DEF ClockRuns
<1> QED BY <1>2, <1>8, <1>9, <1>10, RecordingKeeps

-----------------------------------------------------------------------------
(* Rates. *)

\* The invariant holds initially.
LEMMA InitIInv == Init => IInv
<1> SUFFICES ASSUME Init PROVE IInv
  OBVIOUS
<1>1. StartTime \in Nat /\ MaxInvocations \in Nat
  BY PlatformMetricsAssumption
<1>2. TypeOK
  <2>1. NewInstrument \in [count : Nat, last_count : Nat, last_report_timestamp : Nat]
    BY DEF NewInstrument
  <2> QED BY <1>1, <2>1 DEF Init, TypeOK
<1>3. ClockRuns
  BY <1>1 DEF Init, ClockRuns, NewInstrument
<1>4. ASSUME NEW i \in Cumulative
      PROVE  LastPointKnown(i) /\ NotAhead(i) /\ RateWorksOver(exported[i])
  BY <1>1 DEF Init, LastPointKnown, Remembers, NotAhead, RateWorksOver, NewInstrument
<1> QED BY <1>2, <1>3, <1>4 DEF IInv

\* Each step keeps the invariant.
LEMMA NextIInv == IInv /\ [Next]_vars => IInv'
<1> SUFFICES ASSUME IInv, [Next]_vars PROVE IInv'
  OBVIOUS
<1>1. CASE Next
  BY <1>1, CrashedInstanceStep, InitReportStep, RuntimeDoneStep, PlatformReportStep,
     MakeMetricsReportStep DEF Next
<1>2. CASE UNCHANGED vars
  <2>1. TypeOK' /\ ClockRuns'
    BY <1>2 DEF IInv, TypeOK, ClockRuns, vars, state, platform, history
  <2>2. exported' = exported /\ metrics' = metrics /\ latest_data_timestamp' = latest_data_timestamp
    BY <1>2 DEF vars, state, history
  <2>3. \A i \in Cumulative : /\ metrics[i].count <= metrics'[i].count
                               /\ metrics[i].last_report_timestamp <= latest_data_timestamp'
    BY <2>2 DEF IInv, NotAhead, TypeOK
  <2> QED BY <2>1, <2>2, <2>3, RecordingKeeps
<1> QED BY <1>1, <1>2

\* However the platform's events are cut into batches, whatever their times, every metric
\* has its type, no timestamp is computed below zero, and each change of a counter or a
\* summary is near the point before it, beginning with zero (Counter::report,
\* Summary::report).
THEOREM RatesWork == Spec => [](TypeOK /\ RateWorks)
<1>1. IInv => TypeOK /\ RateWorks
  <2> SUFFICES ASSUME IInv PROVE TypeOK /\ RateWorks
    OBVIOUS
  <2>1. ASSUME NEW i \in Cumulative
        PROVE  RateWorksOver(exported[i]) /\ DOMAIN exported[i] = 1..Len(exported[i])
    BY DEF IInv, TypeOK
  <2> QED BY <2>1 DEF IInv, RateWorks, RateWorksOver
<1> QED BY <1>1, InitIInv, NextIInv, PTL DEF Spec

-----------------------------------------------------------------------------
(* What the points count.                                                  *)

\* How many of these occurrences belong to a time up to this one.
CountOf(occ, time) == Cardinality({k \in 1..Len(occ) : occ[k] <= time})

\* Up to when all that happened by a time is in a point of that time.
CountedBy(version, time) == IF version = "PlatformReport" THEN time ELSE time - 1

ValueBefore(points, k) == IF k = 1 THEN 0 ELSE points[k - 1].value

IsTrue(version, occ, points, k) ==
  /\ points[k].value <= CountOf(occ, points[k].time)
  /\ points[k].value # ValueBefore(points, k) =>
       points[k].value >= CountOf(occ, CountedBy(version, points[k].time))

\* A count is the number of the occurrences.  They, and the points reported, are not after the
\* timestamp of the metrics, which in the second version is the end of the last invocation.
TrueInv ==
  /\ mode = "PlatformV2" => latest_data_timestamp = last_end
  /\ \A i \in Cumulative :
       /\ metrics[i].count = Len(occurrences[i])
       /\ \A k \in 1..Len(occurrences[i]) : occurrences[i][k] <= latest_data_timestamp
       /\ \A k \in 1..Len(exported[i]) :
            exported[i][k].time <= latest_data_timestamp /\ IsTrue(mode, occurrences[i], exported[i], k)

\* A gauge has one maximum or none.
OneMaximum(option) == option = <<>> \/ \E v \in Nat : option = <<v>>

\* In the first version the timestamp moves with every change.
OneValueInv ==
  /\ \A g \in Gauges : OneMaximum(max[g])
  /\ mode = "PlatformReport" =>
       /\ \A i \in Cumulative :
            /\ \A k, l \in 1..Len(exported[i]) : k < l => exported[i][k].time < exported[i][l].time
            /\ exported[i] # <<>> /\ metrics[i].count # metrics[i].last_count =>
                 metrics[i].last_report_timestamp < latest_data_timestamp
       /\ \A g \in Gauges :
            /\ phase = "leftover" => max[g] = <<>> /\ exported_gauges[g] = {}
            /\ \A p \in exported_gauges[g] :
                 /\ p.time <= latest_data_timestamp
                 /\ p.time = latest_data_timestamp => max[g] = <<p.value>>
            /\ \A p, q \in exported_gauges[g] : p.time = q.time => p = q

-----------------------------------------------------------------------------
(* Counting. *)

\* Counts grow with the time, up to all occurrences.
LEMMA CountFacts ==
  ASSUME NEW occ \in Seq(Nat), NEW t \in Int, NEW u \in Int, t <= u
  PROVE  /\ CountOf(occ, t) \in Nat
         /\ CountOf(occ, t) <= CountOf(occ, u)
         /\ CountOf(occ, t) <= Len(occ)
         /\ (\A k \in 1..Len(occ) : occ[k] <= t) => CountOf(occ, t) = Len(occ)
<1> DEFINE Upto(v) == {k \in 1..Len(occ) : occ[k] <= v}
<1>1. /\ Len(occ) \in Nat /\ \A k \in 1..Len(occ) : occ[k] \in Nat
      /\ IsFiniteSet(1..Len(occ)) /\ Cardinality(1..Len(occ)) = Len(occ)
  <2>1. Len(occ) \in Nat /\ \A k \in 1..Len(occ) : occ[k] \in Nat
    OBVIOUS
  <2>2. IsFiniteSet(1..Len(occ)) /\ Cardinality(1..Len(occ)) = IF 1 > Len(occ) THEN 0 ELSE Len(occ) - 1 + 1
    BY <2>1, FS_Interval
  <2> QED BY <2>1, <2>2
<1>2. Upto(t) \in SUBSET Upto(u) /\ Upto(u) \in SUBSET (1..Len(occ)) /\ Upto(t) \in SUBSET (1..Len(occ))
  BY <1>1
<1>3. (\A k \in 1..Len(occ) : occ[k] <= t) => Upto(t) = 1..Len(occ)
  OBVIOUS
<1>4. CountOf(occ, t) = Cardinality(Upto(t)) /\ CountOf(occ, u) = Cardinality(Upto(u))
  BY DEF CountOf
<1> HIDE DEF Upto
<1>5. IsFiniteSet(Upto(u)) /\ IsFiniteSet(Upto(t)) /\ Cardinality(Upto(t)) <= Cardinality(1..Len(occ))
  BY <1>1, <1>2, FS_Subset
<1>6. Cardinality(Upto(t)) <= Cardinality(Upto(u))
  BY <1>2, <1>5, FS_Subset
<1>7. Cardinality(Upto(t)) \in Nat
  BY <1>5, FS_CardinalityType
<1> QED BY <1>1, <1>3, <1>4, <1>5, <1>6, <1>7

\* One more occurrence does not lower a count, and leaves that of an earlier time.
LEMMA CountAppend ==
  ASSUME NEW occ \in Seq(Nat), NEW date \in Nat, NEW t \in Int
  PROVE  /\ CountOf(occ, t) <= CountOf(Append(occ, date), t)
         /\ t < date => CountOf(Append(occ, date), t) = CountOf(occ, t)
<1> DEFINE new == Append(occ, date)
           Before == {k \in 1..Len(occ) : occ[k] <= t}
           After == {k \in 1..Len(new) : new[k] <= t}
<1>1. /\ Len(new) = Len(occ) + 1 /\ Len(occ) \in Nat /\ new[Len(occ) + 1] = date
      /\ \A k \in 1..Len(occ) : new[k] = occ[k] /\ occ[k] \in Nat
  OBVIOUS
<1> HIDE DEF new
<1>2. Before \in SUBSET After /\ After \in SUBSET (1..Len(new))
  BY <1>1
<1>3. t < date => Before = After
  <2> SUFFICES ASSUME t < date, NEW k \in After PROVE k \in Before
    BY <1>2
  <2>1. k # Len(occ) + 1
    BY <1>1
  <2> QED BY <1>1, <2>1
<1>4. CountOf(occ, t) = Cardinality(Before) /\ CountOf(new, t) = Cardinality(After)
  BY DEF CountOf
<1>5. Len(new) \in Int
  BY <1>1
<1> HIDE DEF Before, After
<1>6. IsFiniteSet(1..Len(new))
  BY <1>5, FS_Interval
<1>7. IsFiniteSet(After)
  BY <1>2, <1>6, FS_Subset
<1>8. Cardinality(Before) <= Cardinality(After)
  BY <1>2, <1>7, FS_Subset
<1> QED BY <1>3, <1>4, <1>8 DEF new

\* A count is a number.
LEMMA CountType == ASSUME NEW occ \in Seq(Nat), NEW t \in Int PROVE CountOf(occ, t) \in Nat
<1>1. t <= t
  OBVIOUS
<1> QED BY <1>1, CountFacts

\* A point stays true when an occurrence is added that belongs to a later time.
LEMMA StaysTrue ==
  ASSUME NEW version, NEW occ \in Seq(Nat), NEW date \in Nat, NEW points \in Seq(Point),
         NEW k \in 1..Len(points), IsTrue(version, occ, points, k), CountedBy(version, points[k].time) < date
  PROVE  IsTrue(version, Append(occ, date), points, k)
<1>1. points[k].time \in Nat /\ points[k].value \in Nat
  <2>1. points[k] \in Point
    OBVIOUS
  <2> QED BY <2>1 DEF Point
<1>2. CountedBy(version, points[k].time) \in Int
  BY <1>1 DEF CountedBy
<1>3. /\ CountOf(occ, points[k].time) <= CountOf(Append(occ, date), points[k].time)
      /\ CountOf(Append(occ, date), CountedBy(version, points[k].time)) = CountOf(occ, CountedBy(version, points[k].time))
  BY <1>1, <1>2, CountAppend
<1>4. /\ CountOf(occ, points[k].time) \in Nat
      /\ CountOf(Append(occ, date), points[k].time) \in Nat
  <2>1. Append(occ, date) \in Seq(Nat) /\ points[k].time \in Int
    BY <1>1
  <2> QED BY <1>1, <2>1, CountType
<1> QED BY <1>1, <1>3, <1>4 DEF IsTrue

-----------------------------------------------------------------------------
(* Truth is kept. *)

\* A step that records occurrences which belong to no earlier time than is reported keeps
\* all points true.
LEMMA RecordingIsTrue ==
  ASSUME TypeOK, TrueInv, NEW S, NEW date \in Nat, Record(S, date),
         exported' = exported, mode' = mode,
         mode = "PlatformV2" => latest_data_timestamp' = last_end',
         S = {} \/ date <= latest_data_timestamp',
         \A i \in Cumulative :
           /\ \A k \in 1..Len(occurrences[i]) : occurrences[i][k] <= latest_data_timestamp'
           /\ \A k \in 1..Len(exported[i]) :
                /\ exported[i][k].time <= latest_data_timestamp'
                /\ S = {} \/ CountedBy(mode, exported[i][k].time) < date
  PROVE  TrueInv'
<1>1. ASSUME NEW i \in Cumulative
      PROVE  /\ metrics'[i].count = Len(occurrences'[i])
             /\ \A k \in 1..Len(occurrences'[i]) : occurrences'[i][k] <= latest_data_timestamp'
             /\ \A k \in 1..Len(exported'[i]) :
                  /\ exported'[i][k].time <= latest_data_timestamp'
                  /\ IsTrue(mode, occurrences'[i], exported'[i], k)
  <2>1. /\ occurrences[i] \in Seq(Nat) /\ exported[i] \in Seq(Point)
        /\ metrics[i] \in [count : Nat, last_count : Nat, last_report_timestamp : Nat]
    BY DEF TypeOK
  <2>2. /\ metrics[i].count = Len(occurrences[i])
        /\ \A k \in 1..Len(exported[i]) : IsTrue(mode, occurrences[i], exported[i], k)
    BY DEF TrueInv
  <2>4. CASE i \in S
    <3>1. /\ occurrences'[i] = Append(occurrences[i], date)
          /\ metrics'[i].count = metrics[i].count + 1
      BY <2>1, <2>4 DEF Record
    <3>2. \A k \in 1..Len(exported[i]) : IsTrue(mode, occurrences'[i], exported[i], k)
      BY <2>1, <2>2, <2>4, <3>1, StaysTrue
    <3>3. \A k \in 1..Len(occurrences'[i]) : occurrences'[i][k] <= latest_data_timestamp'
      BY <2>1, <2>4, <3>1
    <3> QED BY <2>1, <2>2, <3>1, <3>2, <3>3
  <2>5. CASE i \notin S
    <3>1. occurrences'[i] = occurrences[i] /\ metrics'[i] = metrics[i]
      BY <2>5 DEF Record
    <3> QED BY <2>2, <3>1
  <2> QED BY <2>4, <2>5
<1>2. mode' = mode
  OBVIOUS
<1> QED BY <1>1, <1>2 DEF TrueInv

\* What a report adds: nothing; the latest value after points that are near; or that
\* after a repetition of the last value.
Extends(new, points, m, time) ==
  \/ m.count = m.last_count /\ new = points
  \/ /\ m.count # m.last_count /\ ~GapIsLong(m, time) /\ points # <<>>
     /\ Len(new) = Len(points) + 1
     /\ \A k \in 1..Len(points) : new[k] = points[k]
     /\ new[Len(points) + 1] = [value |-> m.count, time |-> time]
  \/ /\ m.count # m.last_count /\ GapIsLong(m, time)
     /\ Len(new) = Len(points) + 2
     /\ \A k \in 1..Len(points) : new[k] = points[k]
     /\ new[Len(points) + 1] = [value |-> m.last_count, time |-> time - ReportLastTime]
     /\ new[Len(points) + 2] = [value |-> m.count, time |-> time]

\* A report does one of these.
LEMMA PointsAdded ==
  ASSUME NEW m \in [count : Nat, last_count : Nat, last_report_timestamp : Nat],
         NEW points \in Seq(Point), NEW time \in Nat, StartTime - 1 <= time,
         Remembers(m, points),
         NEW new, new = points \o ReportedPoints(m, time)
  PROVE  Extends(new, points, m, time)
<1> DEFINE old == [value |-> m.last_count, time |-> time - ReportLastTime]
           latest == [value |-> m.count, time |-> time]
<1>1. /\ MaxTimeBetweenData \in Nat /\ ReportLastTime \in Nat /\ StartTime \in Nat
      /\ StartTime > MaxTimeBetweenData + 1
  BY PlatformMetricsAssumption
<1>2. CASE m.count = m.last_count
  <2>1. new = points
    BY <1>2 DEF ReportedPoints
  <2> QED BY <1>2, <2>1 DEF Extends
<1>3. CASE m.count # m.last_count /\ GapIsLong(m, time)
  <2>1. new = points \o <<old, latest>>
    BY <1>3 DEF ReportedPoints
  <2> HIDE DEF old, latest
  <2>2. /\ Len(new) = Len(points) + 2
        /\ \A k \in 1..Len(points) : new[k] = points[k]
        /\ new[Len(points) + 1] = old /\ new[Len(points) + 2] = latest
    BY <2>1
  <2> QED BY <1>3, <2>2 DEF old, latest, Extends
<1>4. CASE m.count # m.last_count /\ ~GapIsLong(m, time)
  <2>1. points # <<>>
    BY <1>1, <1>4 DEF GapIsLong, Remembers
  <2>2. new = points \o <<latest>>
    BY <1>4 DEF ReportedPoints
  <2> HIDE DEF old, latest
  <2>3. /\ Len(new) = Len(points) + 1
        /\ \A k \in 1..Len(points) : new[k] = points[k]
        /\ new[Len(points) + 1] = latest
    BY <2>2
  <2> QED BY <1>4, <2>1, <2>3 DEF latest, Extends
<1> QED BY <1>2, <1>3, <1>4

\* The points that a report adds are true: the latest counts everything, and the repetition
\* no more than the point it repeats.
LEMMA ReportIsTrue ==
  ASSUME NEW version, NEW occ \in Seq(Nat),
         NEW m \in [count : Nat, last_count : Nat, last_report_timestamp : Nat],
         NEW points \in Seq(Point), NEW time \in Nat, StartTime - 1 <= time,
         Remembers(m, points),
         m.count = Len(occ), \A k \in 1..Len(occ) : occ[k] <= time,
         \A k \in 1..Len(points) : points[k].time <= time /\ IsTrue(version, occ, points, k),
         NEW new, new = points \o ReportedPoints(m, time)
  PROVE  \A k \in 1..Len(new) : new[k].time <= time /\ IsTrue(version, occ, new, k)
<1> DEFINE old == [value |-> m.last_count, time |-> time - ReportLastTime]
           latest == [value |-> m.count, time |-> time]
<1>1. /\ MaxTimeBetweenData \in Nat /\ ReportLastTime \in Nat
      /\ ReportLastTime < MaxTimeBetweenData /\ Len(points) \in Nat
  BY PlatformMetricsAssumption
<1>2. ASSUME \A k \in 1..Len(points) : new[k] = points[k], Len(new) >= Len(points), Len(new) \in Nat,
             NEW k \in 1..Len(points)
      PROVE  new[k].time <= time /\ IsTrue(version, occ, new, k)
  <2>1. ValueBefore(new, k) = ValueBefore(points, k) /\ new[k] = points[k]
    BY <1>1, <1>2 DEF ValueBefore
  <2> QED BY <2>1 DEF IsTrue
<1>3. ASSUME NEW k \in 1..Len(new), new[k] = latest
      PROVE  new[k].time <= time /\ IsTrue(version, occ, new, k)
  <2>1. CountOf(occ, time) = Len(occ)
    <3>1. time \in Int /\ time <= time
      OBVIOUS
    <3> QED BY <3>1, CountFacts
  <2>2. CountOf(occ, CountedBy(version, time)) <= Len(occ)
    <3>1. CountedBy(version, time) \in Int
      BY DEF CountedBy
    <3>2. CountedBy(version, time) <= CountedBy(version, time)
      BY <3>1
    <3> QED BY <3>1, <3>2, CountFacts
  <2>3. Len(occ) \in Nat /\ new[k].time = time /\ new[k].value = Len(occ)
    BY <1>3
  <2> QED BY <2>1, <2>2, <2>3 DEF IsTrue
<1>4. CASE new = points
  BY <1>4
<1>5. CASE /\ Len(new) = Len(points) + 1
           /\ \A k \in 1..Len(points) : new[k] = points[k]
           /\ new[Len(points) + 1] = latest
  <2> SUFFICES ASSUME NEW k \in 1..Len(new)
               PROVE  new[k].time <= time /\ IsTrue(version, occ, new, k)
    OBVIOUS
  <2>1. k \in 1..Len(points) \/ k = Len(points) + 1
    BY <1>1, <1>5
  <2> HIDE DEF latest
  <2> QED BY <1>1, <1>2, <1>3, <1>5, <2>1
<1>6. CASE /\ GapIsLong(m, time)
           /\ Len(new) = Len(points) + 2
           /\ \A k \in 1..Len(points) : new[k] = points[k]
           /\ new[Len(points) + 1] = old /\ new[Len(points) + 2] = latest
  <2> SUFFICES ASSUME NEW k \in 1..Len(new)
               PROVE  new[k].time <= time /\ IsTrue(version, occ, new, k)
    OBVIOUS
  <2>1. k \in 1..Len(points) \/ k = Len(points) + 1 \/ k = Len(points) + 2
    BY <1>1, <1>6
  <2>2. CASE k = Len(points) + 1
    <3>1. new[k].value = m.last_count /\ new[k].time = time - ReportLastTime
      BY <1>6, <2>2
    <3>2. ValueBefore(new, k) = m.last_count
      BY <1>1, <1>6, <2>2 DEF ValueBefore, Remembers
    <3>3. m.last_count <= CountOf(occ, time - ReportLastTime)
      <4>1. /\ time - ReportLastTime \in Int /\ m.last_report_timestamp \in Int
            /\ m.last_report_timestamp <= time - ReportLastTime
        BY <1>1, <1>6 DEF GapIsLong
      <4>2. /\ CountOf(occ, m.last_report_timestamp) <= CountOf(occ, time - ReportLastTime)
            /\ CountOf(occ, m.last_report_timestamp) \in Nat
            /\ CountOf(occ, time - ReportLastTime) \in Nat
        BY <4>1, CountFacts, CountType
      <4>3. CASE points = <<>>
        BY <4>2, <4>3 DEF Remembers
      <4>4. CASE points # <<>>
        <5>1. Len(points) \in 1..Len(points) /\ points[Len(points)].value = m.last_count
              /\ points[Len(points)].time = m.last_report_timestamp
          BY <4>4 DEF Remembers
        <5>2. m.last_count <= CountOf(occ, m.last_report_timestamp)
          BY <5>1 DEF IsTrue
        <5> QED BY <4>2, <5>2
      <4> QED BY <4>3, <4>4
    <3> QED BY <1>1, <3>1, <3>2, <3>3 DEF IsTrue
  <2>3. CASE k = Len(points) + 2
    <3> HIDE DEF latest
    <3> QED BY <1>3, <1>6, <2>3
  <2>4. CASE k \in 1..Len(points)
    BY <1>1, <1>2, <1>6, <2>4
  <2> QED BY <2>1, <2>2, <2>3, <2>4
<1>7. \/ new = points
      \/ /\ Len(new) = Len(points) + 1
         /\ \A k \in 1..Len(points) : new[k] = points[k]
         /\ new[Len(points) + 1] = latest
      \/ /\ GapIsLong(m, time)
         /\ Len(new) = Len(points) + 2
         /\ \A k \in 1..Len(points) : new[k] = points[k]
         /\ new[Len(points) + 1] = old /\ new[Len(points) + 2] = latest
  <2>1. Extends(new, points, m, time)
    BY PointsAdded
  <2> QED BY <2>1 DEF Extends
<1> QED BY <1>4, <1>5, <1>6, <1>7

-----------------------------------------------------------------------------
(* Every step keeps the points true. *)

\* Before the leftovers are processed there is neither an occurrence nor a point.
LEMMA NothingYet ==
  ASSUME IInv, TrueInv, phase = "leftover", NEW i \in Cumulative
  PROVE  occurrences[i] = <<>> /\ exported[i] = <<>>
<1>1. /\ metrics[i].count = 0 /\ metrics[i].count = Len(occurrences[i])
      /\ occurrences[i] \in Seq(Nat)
  BY DEF IInv, ClockRuns, TrueInv, TypeOK
<1>2. metrics[i].last_count \in Nat /\ metrics[i].last_count <= metrics[i].count
  BY DEF IInv, TypeOK, NotAhead
<1>3. exported[i] = <<>>
  <2>1. Remembers(metrics[i], exported[i])
    BY DEF IInv, LastPointKnown
  <2> QED BY <1>1, <1>2, <2>1 DEF Remembers
<1> QED BY <1>1, <1>3

\* The times of points are numbers.
LEMMA PointTimes ==
  ASSUME TypeOK, NEW i \in Cumulative, NEW k \in 1..Len(exported[i])
  PROVE  exported[i][k].time \in Nat /\ exported[i][k].value \in Nat
<1>1. exported[i] \in Seq(Point)
  BY DEF TypeOK
<1>2. exported[i][k] \in Point
  BY <1>1
<1> QED BY <1>2 DEF Point

\* What a report records: in the first version it belongs to the time of the report, which
\* becomes that of the metrics; in the second to the end of the invocation.
LEMMA ReportRecords ==
  ASSUME NEW report, NEW done, NEW time, ProcessReport(report, done, time)
  PROVE  \/ /\ mode = "PlatformReport" /\ latest_data_timestamp' = time
            /\ \E S : Record(S, time)
         \/ /\ mode = "PlatformV2" /\ latest_data_timestamp' = latest_data_timestamp
            /\ \E S : Record(S, last_end)
<1>1. CASE mode = "PlatformReport" /\ UpdateMetricsAfterReport(report, done, time)
  BY <1>1 DEF UpdateMetricsAfterReport, DateOf
<1>2. CASE mode = "PlatformV2" /\ UpdateMetricsWithReport(report)
  BY <1>2 DEF UpdateMetricsWithReport, DateOf
<1> QED BY <1>1, <1>2 DEF ProcessReport

\* A leftover report of a crashed instance keeps the points true: it comes first.
LEMMA CrashedInstanceTrue ==
  ASSUME IInv, TrueInv, PlatformReportOfCrashedInstance PROVE TrueInv'
<1>1. TypeOK /\ StartTime - 1 \in Nat /\ last_end \in Nat
  BY PlatformMetricsAssumption DEF IInv, TypeOK
<1>2. phase = "leftover" /\ UNCHANGED <<mode, last_end, exported>>
  BY DEF PlatformReportOfCrashedInstance
<1>3. \A i \in Cumulative : occurrences[i] = <<>> /\ exported[i] = <<>>
  BY <1>2, NothingYet
<1>4. \E report : ProcessReport(report, <<>>, StartTime - 1)
  BY DEF PlatformReportOfCrashedInstance
<1>5. CASE /\ mode = "PlatformReport" /\ latest_data_timestamp' = StartTime - 1
           /\ \E S : Record(S, StartTime - 1)
  BY <1>1, <1>2, <1>3, <1>5, RecordingIsTrue
<1>6. CASE /\ mode = "PlatformV2" /\ latest_data_timestamp' = latest_data_timestamp
           /\ \E S : Record(S, last_end)
  <2>1. latest_data_timestamp = last_end
    BY <1>6 DEF TrueInv
  <2> QED BY <1>1, <1>2, <1>3, <1>6, <2>1, RecordingIsTrue
<1> QED BY <1>4, <1>5, <1>6, ReportRecords

\* The report of an init keeps the points true: what it records in the second version
\* belongs to the start, which points of that time need not count.
LEMMA InitReportTrue ==
  ASSUME IInv, TrueInv, PlatformInitReport PROVE TrueInv'
<1>1. TypeOK /\ last_end \in Nat /\ now \in Nat
  BY DEF IInv, TypeOK
<1>2. UNCHANGED <<mode, latest_data_timestamp, last_end, exported>>
  BY DEF PlatformInitReport
<1>3. ASSUME NEW i \in Cumulative
      PROVE  /\ \A k \in 1..Len(occurrences[i]) : occurrences[i][k] <= latest_data_timestamp'
             /\ \A k \in 1..Len(exported[i]) :
                  exported[i][k].time \in Nat /\ exported[i][k].time <= latest_data_timestamp'
  BY <1>1, <1>2, PointTimes DEF TrueInv
<1>4. CASE mode = "PlatformV2"
  <2>1. latest_data_timestamp = last_end /\ \E S : Record(S, last_end)
    BY <1>4 DEF TrueInv, PlatformInitReport, DateOf
  <2>2. ASSUME NEW i \in Cumulative, NEW k \in 1..Len(exported[i])
        PROVE  CountedBy(mode, exported[i][k].time) < last_end
    BY <1>1, <1>2, <1>3, <1>4, <2>1 DEF CountedBy
  <2>3. last_end <= latest_data_timestamp'
    BY <1>1, <1>2, <2>1
  <2> QED BY <1>1, <1>2, <1>3, <2>1, <2>2, <2>3, RecordingIsTrue
<1>5. CASE mode # "PlatformV2"
  <2>1. Record({}, DateOf(now)) /\ DateOf(now) \in Nat
    BY <1>1, <1>5 DEF PlatformInitReport, Only, DateOf
  <2> QED BY <1>1, <1>2, <1>3, <1>5, <2>1, RecordingIsTrue
<1> QED BY <1>4, <1>5

\* The end of a runtime keeps the points true: what the second version records belongs to a
\* later time than any point.
LEMMA RuntimeDoneTrue ==
  ASSUME IInv, TrueInv, PlatformRuntimeDone PROVE TrueInv'
<1>1. TypeOK /\ last_end \in Nat /\ now \in Nat /\ latest_data_timestamp \in Nat
      /\ latest_data_timestamp <= now /\ Delays \subseteq Nat \ {0}
  BY PlatformMetricsAssumption DEF IInv, TypeOK, ClockRuns
<1>2. UNCHANGED <<mode, exported>>
  BY DEF PlatformRuntimeDone
<1>3. PICK d \in Delays, done \in RuntimeDone :
        /\ now' = now + d /\ last_end' = now'
        /\ \/ mode = "PlatformV2" /\ UpdateMetricsWithRuntimeDone(done, now')
           \/ mode = "PlatformReport"
              /\ UNCHANGED <<latest_data_timestamp, metrics, max, occurrences>>
  BY DEF PlatformRuntimeDone
<1>4. now' \in Nat /\ now < now'
  BY <1>1, <1>3
<1>5. CASE mode = "PlatformV2" /\ UpdateMetricsWithRuntimeDone(done, now')
  <2>1. latest_data_timestamp' = now' /\ \E S : Record(S, now')
    BY <1>5 DEF UpdateMetricsWithRuntimeDone
  <2>2. ASSUME NEW i \in Cumulative
        PROVE  /\ \A k \in 1..Len(occurrences[i]) : occurrences[i][k] <= latest_data_timestamp'
               /\ \A k \in 1..Len(exported[i]) :
                    /\ exported[i][k].time <= latest_data_timestamp'
                    /\ CountedBy(mode, exported[i][k].time) < now'
    <3>1. occurrences[i] \in Seq(Nat)
      BY <1>1 DEF TypeOK
    <3>2. ASSUME NEW k \in 1..Len(occurrences[i]) PROVE occurrences[i][k] <= latest_data_timestamp'
      <4>1. occurrences[i][k] \in Nat /\ occurrences[i][k] <= latest_data_timestamp
        BY <3>1 DEF TrueInv
      <4> QED BY <1>1, <1>4, <2>1, <4>1
    <3>3. ASSUME NEW k \in 1..Len(exported[i])
          PROVE  /\ exported[i][k].time <= latest_data_timestamp'
                 /\ CountedBy(mode, exported[i][k].time) < now'
      <4>1. exported[i][k].time \in Nat /\ exported[i][k].time <= latest_data_timestamp
        BY <1>1, PointTimes DEF TrueInv
      <4> QED BY <1>1, <1>4, <2>1, <4>1 DEF CountedBy
    <3> QED BY <3>2, <3>3
  <2>3. now' <= latest_data_timestamp'
    BY <1>4, <2>1
  <2> QED BY <1>1, <1>2, <1>3, <1>4, <2>1, <2>2, <2>3, RecordingIsTrue
<1>6. CASE mode = "PlatformReport" /\ UNCHANGED <<latest_data_timestamp, metrics, max, occurrences>>
  BY <1>2, <1>6 DEF TrueInv
<1> QED BY <1>3, <1>5, <1>6

\* The report of an invocation keeps the points true: what the first version records belongs
\* to a later time than any point, what the second records to that of the runtimeDone.
LEMMA PlatformReportTrue ==
  ASSUME IInv, TrueInv, PlatformReport PROVE TrueInv'
<1>1. TypeOK /\ last_end \in Nat /\ now \in Nat /\ latest_data_timestamp \in Nat
      /\ latest_data_timestamp <= now /\ Delays \subseteq Nat \ {0}
  BY PlatformMetricsAssumption DEF IInv, TypeOK, ClockRuns
<1>2. UNCHANGED <<mode, last_end, exported>>
  BY DEF PlatformReport
<1>3. \E d \in Delays : \E report : now' = now + d /\ ProcessReport(report, runtime_done, now')
  BY DEF PlatformReport
<1>4. now' \in Nat /\ now < now' /\ \E report : ProcessReport(report, runtime_done, now')
  BY <1>1, <1>3
<1>5. ASSUME NEW i \in Cumulative
      PROVE  /\ \A k \in 1..Len(occurrences[i]) :
                  occurrences[i][k] \in Nat /\ occurrences[i][k] <= latest_data_timestamp
             /\ \A k \in 1..Len(exported[i]) :
                  exported[i][k].time \in Nat /\ exported[i][k].time <= latest_data_timestamp
  <2>1. occurrences[i] \in Seq(Nat)
    BY <1>1 DEF TypeOK
  <2> QED BY <1>1, <2>1, PointTimes DEF TrueInv
<1>6. CASE mode = "PlatformReport" /\ latest_data_timestamp' = now' /\ \E S : Record(S, now')
  <2>1. ASSUME NEW i \in Cumulative
        PROVE  /\ \A k \in 1..Len(occurrences[i]) : occurrences[i][k] <= latest_data_timestamp'
               /\ \A k \in 1..Len(exported[i]) :
                    /\ exported[i][k].time <= latest_data_timestamp'
                    /\ CountedBy(mode, exported[i][k].time) < now'
    BY <1>1, <1>4, <1>5, <1>6 DEF CountedBy
  <2>2. now' <= latest_data_timestamp'
    BY <1>4, <1>6
  <2> QED BY <1>1, <1>2, <1>4, <1>6, <2>1, <2>2, RecordingIsTrue
<1>7. CASE /\ mode = "PlatformV2" /\ latest_data_timestamp' = latest_data_timestamp
           /\ \E S : Record(S, last_end)
  <2>1. latest_data_timestamp = last_end
    BY <1>7 DEF TrueInv
  <2>2. ASSUME NEW i \in Cumulative
        PROVE  /\ \A k \in 1..Len(occurrences[i]) : occurrences[i][k] <= latest_data_timestamp'
               /\ \A k \in 1..Len(exported[i]) :
                    /\ exported[i][k].time <= latest_data_timestamp'
                    /\ CountedBy(mode, exported[i][k].time) < last_end
    BY <1>1, <1>5, <1>7, <2>1 DEF CountedBy
  <2>3. last_end <= latest_data_timestamp'
    BY <1>1, <1>7, <2>1
  <2> QED BY <1>1, <1>2, <1>7, <2>1, <2>2, <2>3, RecordingIsTrue
<1> QED BY <1>4, <1>6, <1>7, ReportRecords

\* The points that a report adds are true, for it dates them by the last change.
LEMMA MakeMetricsReportTrue ==
  ASSUME IInv, TrueInv, MakeMetricsReport PROVE TrueInv'
<1>1. TypeOK /\ latest_data_timestamp \in Nat /\ StartTime - 1 <= latest_data_timestamp
  BY DEF IInv, TypeOK, ClockRuns
<1>2. UNCHANGED <<mode, latest_data_timestamp, last_end, occurrences>>
  BY DEF MakeMetricsReport, platform
<1>3. ASSUME NEW i \in Cumulative
      PROVE  /\ metrics'[i].count = Len(occurrences'[i])
             /\ \A k \in 1..Len(occurrences'[i]) : occurrences'[i][k] <= latest_data_timestamp'
             /\ \A k \in 1..Len(exported'[i]) :
                  /\ exported'[i][k].time <= latest_data_timestamp'
                  /\ IsTrue(mode, occurrences'[i], exported'[i], k)
  <2>1. /\ occurrences[i] \in Seq(Nat) /\ exported[i] \in Seq(Point)
        /\ metrics[i] \in [count : Nat, last_count : Nat, last_report_timestamp : Nat]
    BY <1>1 DEF TypeOK
  <2>2. /\ metrics'[i] = AfterReport(metrics[i], latest_data_timestamp)
        /\ exported'[i] = exported[i] \o ReportedPoints(metrics[i], latest_data_timestamp)
    BY DEF MakeMetricsReport
  <2>3. /\ metrics[i].count = Len(occurrences[i])
        /\ \A k \in 1..Len(occurrences[i]) : occurrences[i][k] <= latest_data_timestamp
        /\ \A k \in 1..Len(exported[i]) :
             /\ exported[i][k].time <= latest_data_timestamp
             /\ IsTrue(mode, occurrences[i], exported[i], k)
    BY DEF TrueInv
  <2>4. Remembers(metrics[i], exported[i])
    BY DEF IInv, LastPointKnown
  <2>5. \A k \in 1..Len(exported'[i]) :
          /\ exported'[i][k].time <= latest_data_timestamp
          /\ IsTrue(mode, occurrences[i], exported'[i], k)
    <3> DEFINE new == exported'[i]
               m == metrics[i]
               points == exported[i]
               occ == occurrences[i]
               time == latest_data_timestamp
    <3>1. /\ occ \in Seq(Nat) /\ points \in Seq(Point)
          /\ m \in [count : Nat, last_count : Nat, last_report_timestamp : Nat]
          /\ time \in Nat /\ StartTime - 1 <= time
          /\ new = points \o ReportedPoints(m, time)
          /\ m.count = Len(occ) /\ \A k \in 1..Len(occ) : occ[k] <= time
          /\ \A k \in 1..Len(points) : points[k].time <= time /\ IsTrue(mode, occ, points, k)
          /\ Remembers(m, points)
      BY <1>1, <2>1, <2>2, <2>3, <2>4
    <3> HIDE DEF new, m, points, occ, time
    <3>2. \A k \in 1..Len(new) : new[k].time <= time /\ IsTrue(mode, occ, new, k)
      BY <3>1, ReportIsTrue
    <3> QED BY <3>2 DEF new, m, points, occ, time
  <2>6. metrics'[i].count = metrics[i].count
    BY <2>2 DEF AfterReport
  <2> QED BY <1>2, <2>3, <2>5, <2>6
<1>4. mode' = "PlatformV2" => latest_data_timestamp' = last_end'
  BY <1>2 DEF TrueInv
<1> QED BY <1>2, <1>3, <1>4 DEF TrueInv

\* The points are true initially.
LEMMA InitTrue == Init => TrueInv
<1> SUFFICES ASSUME Init PROVE TrueInv
  OBVIOUS
<1>1. ASSUME NEW i \in Cumulative
      PROVE  metrics[i].count = 0 /\ occurrences[i] = <<>> /\ exported[i] = <<>>
  BY DEF Init, NewInstrument
<1> QED BY <1>1 DEF Init, TrueInv

\* Each step keeps the points true.
LEMMA TrueKept == IInv /\ TrueInv /\ [Next]_vars => TrueInv'
<1> SUFFICES ASSUME IInv, TrueInv, [Next]_vars PROVE TrueInv'
  OBVIOUS
<1>1. CASE Next
  BY <1>1, CrashedInstanceTrue, InitReportTrue, RuntimeDoneTrue, PlatformReportTrue,
     MakeMetricsReportTrue DEF Next
<1>2. CASE UNCHANGED vars
  BY <1>2 DEF TrueInv, vars, state, platform, history
<1> QED BY <1>1, <1>2

\* However events are cut into batches, and also after a report of a crashed instance, a
\* point of a counter or a summary that does not bridge a gap counts what happened by its
\* time, no more and, but for what the second version adds to the last invocation, no less.
THEOREM PointsCount == Spec => []PointsAreTrue
<1>1. IInv /\ TrueInv => PointsAreTrue
  <2> SUFFICES ASSUME IInv, TrueInv, NEW i \in Cumulative, NEW k \in DOMAIN exported[i]
               PROVE  LET p == exported[i][k]
                          bridge == p.value = IF k = 1 THEN 0 ELSE exported[i][k - 1].value
                      IN  /\ p.value <= CountUpTo(i, p.time)
                          /\ ~bridge => p.value >=
                               CountUpTo(i, IF mode = "PlatformReport" THEN p.time ELSE p.time - 1)
    BY DEF PointsAreTrue
  <2>1. occurrences[i] \in Seq(Nat) /\ exported[i] \in Seq(Point)
    BY DEF IInv, TypeOK
  <2>2. \A t : CountUpTo(i, t) = CountOf(occurrences[i], t)
    <3>1. DOMAIN occurrences[i] = 1..Len(occurrences[i])
      BY <2>1
    <3> QED BY <3>1 DEF CountUpTo, CountOf
  <2>3. IsTrue(mode, occurrences[i], exported[i], k)
    BY <2>1 DEF TrueInv
  <2> QED BY <2>2, <2>3 DEF IsTrue, ValueBefore, CountedBy
<1> QED BY <1>1, InitTrue, TrueKept, InitIInv, NextIInv, PTL DEF Spec

-----------------------------------------------------------------------------
(* One value for each time. *)

\* The points that a report adds come after those reported, at times of their own.
LEMMA ReportRises ==
  ASSUME NEW m \in [count : Nat, last_count : Nat, last_report_timestamp : Nat],
         NEW points \in Seq(Point), NEW time \in Nat, NEW new,
         Extends(new, points, m, time), Remembers(m, points),
         \A k, l \in 1..Len(points) : k < l => points[k].time < points[l].time,
         points # <<>> /\ m.count # m.last_count => m.last_report_timestamp < time
  PROVE  \A k, l \in 1..Len(new) : k < l => new[k].time < new[l].time
<1>1. /\ MaxTimeBetweenData \in Nat /\ ReportLastTime \in Nat \ {0}
      /\ ReportLastTime < MaxTimeBetweenData /\ Len(points) \in Nat
  BY PlatformMetricsAssumption
<1>2. ASSUME NEW k \in 1..Len(points)
      PROVE  points[k].time \in Nat /\ points[k].time <= m.last_report_timestamp
  <2>1. points[k] \in Point /\ Len(points) \in 1..Len(points) /\ points # <<>>
    BY <1>1
  <2>2. points[Len(points)].time = m.last_report_timestamp
    BY <2>1 DEF Remembers
  <2>3. k = Len(points) \/ k < Len(points)
    BY <1>1
  <2>4. points[k].time \in Nat
    BY <2>1 DEF Point
  <2> QED BY <2>1, <2>2, <2>3, <2>4
<1> SUFFICES ASSUME NEW k \in 1..Len(new), NEW l \in 1..Len(new), k < l
             PROVE  new[k].time < new[l].time
  OBVIOUS
<1>3. CASE new = points
  BY <1>3
<1>4. CASE /\ m.count # m.last_count /\ points # <<>>
           /\ Len(new) = Len(points) + 1
           /\ \A j \in 1..Len(points) : new[j] = points[j]
           /\ new[Len(points) + 1] = [value |-> m.count, time |-> time]
  <2>1. k \in 1..Len(points) /\ new[k] = points[k]
    BY <1>1, <1>4
  <2>2. CASE l \in 1..Len(points)
    <3>1. new[l] = points[l]
      BY <1>4, <2>2
    <3>2. points[k].time < points[l].time
      BY ONLY <2>1, <2>2, k < l,
              \A a, b \in 1..Len(points) : a < b => points[a].time < points[b].time
    <3>3. points[k].time \in Nat /\ points[l].time \in Nat
      BY <1>2, <2>1, <2>2
    <3> QED BY <2>1, <3>1, <3>2, <3>3
  <2>3. CASE l = Len(points) + 1
    <3>1. new[l].time = time
      BY <1>4, <2>3
    <3> QED BY <1>2, <1>4, <2>1, <3>1
  <2>4. l \in 1..Len(points) \/ l = Len(points) + 1
    BY <1>1, <1>4
  <2> QED BY <2>2, <2>3, <2>4
<1>5. CASE /\ GapIsLong(m, time)
           /\ Len(new) = Len(points) + 2
           /\ \A j \in 1..Len(points) : new[j] = points[j]
           /\ new[Len(points) + 1] = [value |-> m.last_count, time |-> time - ReportLastTime]
           /\ new[Len(points) + 2] = [value |-> m.count, time |-> time]
  <2>1. new[Len(points) + 1].time = time - ReportLastTime /\ new[Len(points) + 2].time = time
    BY <1>5
  <2>2. m.last_report_timestamp < time - ReportLastTime
    BY <1>1, <1>5 DEF GapIsLong
  <2>3. CASE k \in 1..Len(points) /\ l \in 1..Len(points)
    <3>1. new[k] = points[k] /\ new[l] = points[l]
      BY <1>5, <2>3
    <3>2. points[k].time < points[l].time
      BY ONLY <2>3, k < l,
              \A a, b \in 1..Len(points) : a < b => points[a].time < points[b].time
    <3>3. points[k].time \in Nat /\ points[l].time \in Nat
      BY <1>2, <2>3
    <3> QED BY <3>1, <3>2, <3>3
  <2>4. CASE k \in 1..Len(points) /\ l \in {Len(points) + 1, Len(points) + 2}
    <3>1. new[k].time \in Nat /\ new[k].time <= m.last_report_timestamp
      BY <1>2, <1>5, <2>4
    <3>2. new[l].time \in {time - ReportLastTime, time}
      BY <2>1, <2>4
    <3> QED BY <1>1, <2>2, <3>1, <3>2
  <2>5. CASE k = Len(points) + 1 /\ l = Len(points) + 2
    BY <1>1, <2>1, <2>5
  <2>6. \/ k \in 1..Len(points) /\ l \in 1..Len(points)
        \/ k \in 1..Len(points) /\ l \in {Len(points) + 1, Len(points) + 2}
        \/ k = Len(points) + 1 /\ l = Len(points) + 2
    <3>1. k \in 1..(Len(points) + 2) /\ l \in 1..(Len(points) + 2)
      BY <1>5
    <3> QED BY ONLY <1>1, <3>1, k < l
  <2> QED BY <2>3, <2>4, <2>5, <2>6
<1> QED BY <1>3, <1>4, <1>5 DEF Extends

\* A step that reports nothing, and leaves the timestamp and what is recorded or moves it up.
LEMMA NothingReported ==
  ASSUME IInv, OneValueInv, mode' = mode, mode = "PlatformReport",
         exported' = exported, exported_gauges' = exported_gauges, phase' # "leftover",
         \A g \in Gauges : OneMaximum(max'[g]),
         \/ /\ metrics' = metrics /\ max' = max
            /\ latest_data_timestamp' = latest_data_timestamp
         \/ /\ latest_data_timestamp' \in Nat /\ latest_data_timestamp < latest_data_timestamp'
            /\ \A i \in Cumulative :
                 metrics'[i].last_report_timestamp = metrics[i].last_report_timestamp
  PROVE  OneValueInv'
<1>1. ASSUME NEW i \in Cumulative, exported[i] # <<>>, metrics'[i].count # metrics'[i].last_count
      PROVE  metrics'[i].last_report_timestamp < latest_data_timestamp'
  <2>1. /\ metrics[i].last_report_timestamp \in Nat /\ latest_data_timestamp \in Nat
        /\ metrics[i].last_report_timestamp <= latest_data_timestamp
    BY DEF IInv, TypeOK, NotAhead
  <2> QED BY <1>1, <2>1 DEF OneValueInv
<1>2. ASSUME NEW g \in Gauges, NEW p \in exported_gauges[g]
      PROVE  /\ p.time <= latest_data_timestamp'
             /\ p.time = latest_data_timestamp' => max'[g] = <<p.value>>
  <2>1. p \in Point /\ latest_data_timestamp \in Nat
    BY DEF IInv, TypeOK
  <2>2. p.time \in Nat
    BY <2>1 DEF Point
  <2>3. /\ p.time <= latest_data_timestamp
        /\ p.time = latest_data_timestamp => max[g] = <<p.value>>
    BY DEF OneValueInv
  <2> QED BY <2>1, <2>2, <2>3
<1> QED BY <1>1, <1>2 DEF OneValueInv

\* A report keeps one value for each time.
LEMMA MakeMetricsReportOneValue ==
  ASSUME IInv, OneValueInv, MakeMetricsReport PROVE OneValueInv'
<1>1. TypeOK /\ latest_data_timestamp \in Nat /\ StartTime - 1 <= latest_data_timestamp
  BY DEF IInv, TypeOK, ClockRuns
<1>2. UNCHANGED <<mode, latest_data_timestamp, max, phase>>
  BY DEF MakeMetricsReport, platform
<1> SUFFICES ASSUME mode = "PlatformReport" PROVE OneValueInv'
  BY <1>2 DEF OneValueInv
<1>3. ASSUME NEW i \in Cumulative
      PROVE  /\ \A k, l \in 1..Len(exported'[i]) : k < l => exported'[i][k].time < exported'[i][l].time
             /\ metrics'[i].count = metrics'[i].last_count
  <2> DEFINE m == metrics[i]
             points == exported[i]
             new == exported'[i]
  <2>1. /\ metrics'[i] = AfterReport(m, latest_data_timestamp)
        /\ new = points \o ReportedPoints(m, latest_data_timestamp)
    BY DEF MakeMetricsReport
  <2>2. /\ points \in Seq(Point) /\ Remembers(m, points)
        /\ m \in [count : Nat, last_count : Nat, last_report_timestamp : Nat]
        /\ \A k, l \in 1..Len(points) : k < l => points[k].time < points[l].time
        /\ points # <<>> /\ m.count # m.last_count => m.last_report_timestamp < latest_data_timestamp
    BY DEF IInv, TypeOK, LastPointKnown, OneValueInv
  <2>3. metrics'[i].count = metrics'[i].last_count
    BY <2>1, <2>2 DEF AfterReport
  <2> HIDE DEF m, points, new
  <2>4. Extends(new, points, m, latest_data_timestamp)
    BY <1>1, <2>1, <2>2, PointsAdded
  <2>5. \A k, l \in 1..Len(new) : k < l => new[k].time < new[l].time
    BY <1>1, <2>2, <2>4, ReportRises
  <2> QED BY <2>3, <2>5 DEF new
<1>4. ASSUME NEW g \in Gauges
      PROVE  /\ phase = "leftover" => max[g] = <<>> /\ exported_gauges'[g] = {}
             /\ \A p \in exported_gauges'[g] :
                  /\ p.time <= latest_data_timestamp
                  /\ p.time = latest_data_timestamp => max[g] = <<p.value>>
             /\ \A p, q \in exported_gauges'[g] : p.time = q.time => p = q
  <2>1. exported_gauges'[g] =
          exported_gauges[g] \cup ReportedGaugePoints(max[g], latest_data_timestamp)
    BY DEF MakeMetricsReport
  <2>2. /\ phase = "leftover" => max[g] = <<>> /\ exported_gauges[g] = {}
        /\ \A p \in exported_gauges[g] :
             /\ p \in Point
             /\ p.time <= latest_data_timestamp
             /\ p.time = latest_data_timestamp => max[g] = <<p.value>>
        /\ \A p, q \in exported_gauges[g] : p.time = q.time => p = q
    BY <1>1 DEF OneValueInv, TypeOK
  <2>3. OneMaximum(max[g])
    BY DEF OneValueInv
  <2>4. ASSUME NEW p \in ReportedGaugePoints(max[g], latest_data_timestamp)
        PROVE  /\ max[g] # <<>> /\ max[g] = <<p.value>> /\ p.time = latest_data_timestamp
               /\ p \in Point
    <3>1. PICK k \in DOMAIN max[g] : p = [value |-> max[g][k], time |-> latest_data_timestamp]
      BY DEF ReportedGaugePoints
    <3>2. PICK v \in Nat : max[g] = <<v>>
      BY <2>3, <3>1 DEF OneMaximum
    <3>3. k = 1 /\ max[g][k] = v
      BY <3>1, <3>2
    <3> QED BY <1>1, <3>1, <3>2, <3>3 DEF Point
  <2>5. \A p, q \in ReportedGaugePoints(max[g], latest_data_timestamp) : p = q
    <3> TAKE p, q \in ReportedGaugePoints(max[g], latest_data_timestamp)
    <3>1. /\ p \in [value : Nat, time : Nat] /\ q \in [value : Nat, time : Nat]
          /\ <<p.value>> = <<q.value>> /\ p.time = q.time
      BY <2>4 DEF Point
    <3> QED BY <3>1
  <2>6. \A p \in exported_gauges[g] : \A q \in ReportedGaugePoints(max[g], latest_data_timestamp) :
          p.time = q.time => p = q
    <3> TAKE p \in exported_gauges[g]
    <3> TAKE q \in ReportedGaugePoints(max[g], latest_data_timestamp)
    <3> HAVE p.time = q.time
    <3>1. /\ p \in [value : Nat, time : Nat] /\ q \in [value : Nat, time : Nat]
          /\ <<p.value>> = <<q.value>>
      BY <2>2, <2>4 DEF Point
    <3> QED BY <3>1
  <2>7. \A p, q \in exported_gauges'[g] : p.time = q.time => p = q
    BY <2>1, <2>2, <2>5, <2>6
  <2>8. \A p \in exported_gauges'[g] :
          /\ p.time <= latest_data_timestamp
          /\ p.time = latest_data_timestamp => max[g] = <<p.value>>
    BY <1>1, <2>1, <2>2, <2>4
  <2>9. phase = "leftover" => exported_gauges'[g] = {}
    BY <2>1, <2>2, <2>4
  <2> QED BY <2>2, <2>7, <2>8, <2>9
<1> QED BY <1>2, <1>3, <1>4 DEF OneValueInv

\* Processing a report gives each gauge one maximum.
LEMMA ReportMaximum ==
  ASSUME TypeOK, OneValueInv, NEW report, report.memory_used \in Nat, NEW done, NEW time,
         ProcessReport(report, done, time), NEW g \in Gauges
  PROVE  OneMaximum(max'[g])
<1>1. RecordMemory(report) /\ MemorySize \in Nat
  BY PlatformMetricsAssumption DEF ProcessReport, UpdateMetricsAfterReport, UpdateMetricsWithReport
<1>2. OneMaximum(max[g]) /\ max \in [Gauges -> Seq(Nat)]
  BY DEF OneValueInv, TypeOK
<1>3. ASSUME NEW v \in Nat PROVE OneMaximum(Larger(max[g], v))
  BY <1>2 DEF OneMaximum, Larger
<1> QED BY <1>1, <1>2, <1>3 DEF RecordMemory, Gauges

\* A leftover report of a crashed instance keeps one value for each time: it comes first.
LEMMA CrashedInstanceOneValue ==
  ASSUME IInv, TrueInv, OneValueInv, PlatformReportOfCrashedInstance PROVE OneValueInv'
<1>1. TypeOK
  BY DEF IInv
<1>2. /\ phase = "leftover" /\ phase' = "init"
      /\ UNCHANGED <<mode, exported, exported_gauges>>
  BY DEF PlatformReportOfCrashedInstance
<1>3. \E report : report.memory_used \in Nat /\ ProcessReport(report, <<>>, StartTime - 1)
  BY PlatformMetricsAssumption DEF PlatformReportOfCrashedInstance, Report
<1>4. \A g \in Gauges : OneMaximum(max'[g])
  BY <1>1, <1>3, ReportMaximum
<1>5. \A i \in Cumulative : exported[i] = <<>>
  BY <1>2, NothingYet
<1>6. mode = "PlatformReport" => \A g \in Gauges : exported_gauges[g] = {}
  BY <1>2 DEF OneValueInv
<1> QED BY <1>2, <1>4, <1>5, <1>6 DEF OneValueInv

\* The report of an init records nothing in the first version.
LEMMA InitReportOneValue ==
  ASSUME IInv, OneValueInv, PlatformInitReport PROVE OneValueInv'
<1>1. TypeOK
  BY DEF IInv
<1>2. /\ phase' = "idle"
      /\ UNCHANGED <<mode, latest_data_timestamp, max, exported, exported_gauges>>
  BY DEF PlatformInitReport
<1>3. \A g \in Gauges : OneMaximum(max'[g])
  BY <1>2 DEF OneValueInv
<1>4. CASE mode = "PlatformReport"
  <2>1. metrics' = metrics
    BY <1>1, <1>4 DEF PlatformInitReport, Only, Record, TypeOK
  <2> QED BY <1>2, <1>3, <1>4, <2>1, NothingReported
<1>5. CASE mode # "PlatformReport"
  BY <1>2, <1>3, <1>5 DEF OneValueInv
<1> QED BY <1>4, <1>5

\* The end of a runtime records nothing in the first version.
LEMMA RuntimeDoneOneValue ==
  ASSUME IInv, OneValueInv, PlatformRuntimeDone PROVE OneValueInv'
<1>1. phase' = "over" /\ UNCHANGED <<mode, exported, exported_gauges>>
  BY DEF PlatformRuntimeDone
<1>2. max' = max /\ (mode = "PlatformReport" =>
                       UNCHANGED <<latest_data_timestamp, metrics, max, occurrences>>)
  BY DEF PlatformRuntimeDone, UpdateMetricsWithRuntimeDone
<1>3. \A g \in Gauges : OneMaximum(max'[g])
  BY <1>2 DEF OneValueInv
<1>4. CASE mode = "PlatformReport"
  BY <1>1, <1>2, <1>3, <1>4, NothingReported
<1>5. CASE mode # "PlatformReport"
  BY <1>1, <1>3, <1>5 DEF OneValueInv
<1> QED BY <1>4, <1>5

\* The report of an invocation moves the timestamp of the first version up.
LEMMA PlatformReportOneValue ==
  ASSUME IInv, OneValueInv, PlatformReport PROVE OneValueInv'
<1>1. TypeOK /\ now \in Nat /\ latest_data_timestamp \in Nat
      /\ latest_data_timestamp <= now /\ Delays \subseteq Nat \ {0}
  BY PlatformMetricsAssumption DEF IInv, TypeOK, ClockRuns
<1>2. phase' = "idle" /\ UNCHANGED <<mode, exported, exported_gauges>>
  BY DEF PlatformReport
<1>3. \E d \in Delays : \E report :
        /\ report.memory_used \in Nat
        /\ now' = now + d /\ ProcessReport(report, runtime_done, now')
  BY PlatformMetricsAssumption DEF PlatformReport, Report
<1>4. PICK report : /\ report.memory_used \in Nat /\ now' \in Nat /\ now < now'
                    /\ ProcessReport(report, runtime_done, now')
  BY <1>1, <1>3
<1>5. \A g \in Gauges : OneMaximum(max'[g])
  BY <1>1, <1>4, ReportMaximum
<1>6. CASE mode = "PlatformReport"
  <2>1. latest_data_timestamp' = now' /\ \E S : Record(S, now')
    BY <1>4, <1>6, ReportRecords
  <2>2. \A i \in Cumulative : metrics'[i].last_report_timestamp = metrics[i].last_report_timestamp
    BY <1>1, <1>4, <2>1, RecordFacts
  <2>3. latest_data_timestamp' \in Nat /\ latest_data_timestamp < latest_data_timestamp'
    BY <1>1, <1>4, <2>1
  <2> QED BY <1>2, <1>5, <1>6, <2>2, <2>3, NothingReported
<1>7. CASE mode # "PlatformReport"
  BY <1>2, <1>5, <1>7 DEF OneValueInv
<1> QED BY <1>6, <1>7

\* In the first version two batches never give a counter, a summary or a gauge two values for
\* one time, however many batches are cut between two reports.
THEOREM OneValueEach == Spec => []OneValuePerTime
<1>1. Init => OneValueInv
  <2> SUFFICES ASSUME Init PROVE OneValueInv
    OBVIOUS
  <2>1. \A i \in Cumulative : exported[i] = <<>>
    BY DEF Init
  <2>2. \A g \in Gauges : max[g] = <<>> /\ exported_gauges[g] = {}
    BY DEF Init
  <2> QED BY <2>1, <2>2 DEF OneValueInv, OneMaximum
<1>2. IInv /\ TrueInv /\ OneValueInv /\ [Next]_vars => OneValueInv'
  <2> SUFFICES ASSUME IInv, TrueInv, OneValueInv, [Next]_vars PROVE OneValueInv'
    OBVIOUS
  <2>1. CASE Next
    BY <2>1, CrashedInstanceOneValue, InitReportOneValue, RuntimeDoneOneValue,
       PlatformReportOneValue, MakeMetricsReportOneValue DEF Next
  <2>2. CASE UNCHANGED vars
    BY <2>2 DEF OneValueInv, vars, state, platform, history
  <2> QED BY <2>1, <2>2
<1>3. IInv /\ OneValueInv => OneValuePerTime
  <2> SUFFICES ASSUME IInv, OneValueInv, mode = "PlatformReport" PROVE OneValuePerTime
    BY DEF OneValuePerTime
  <2>1. ASSUME NEW i \in Cumulative, NEW k \in DOMAIN exported[i], NEW l \in DOMAIN exported[i],
               exported[i][k].time = exported[i][l].time
        PROVE  k = l
    <3>1. exported[i] \in Seq(Point)
      BY DEF IInv, TypeOK
    <3>2. /\ k \in 1..Len(exported[i]) /\ l \in 1..Len(exported[i])
          /\ exported[i][k].time \in Nat /\ exported[i][l].time \in Nat
      BY <3>1, PointTimes DEF IInv
    <3>3. /\ k < l => exported[i][k].time < exported[i][l].time
          /\ l < k => exported[i][l].time < exported[i][k].time
      BY <3>2 DEF OneValueInv
    <3> QED BY <2>1, <3>2, <3>3
  <2>2. \A g \in Gauges : \A p, q \in exported_gauges[g] : p.time = q.time => p = q
    BY DEF OneValueInv
  <2> QED BY <2>1, <2>2 DEF OneValuePerTime
<1> QED BY <1>1, <1>2, <1>3, InitIInv, NextIInv, InitTrue, TrueKept, PTL DEF Spec

=============================================================================
