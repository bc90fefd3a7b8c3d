------------------------ MODULE TelemetryServiceProofs ------------------------
(***************************************************************************)
(* Two parts.  The operators of TelemetryProcessor return what their types *)
(* promise: nothing that arrives can bring the processing state out of its *)
(* type.  And, with that, invariants of the telemetry service, whatever    *)
(* telemetry, spans, metrics and invoke events arrive, in whatever order,  *)
(* and with any strategy.                                                  *)
(***************************************************************************)
EXTENDS TelemetryService, FiniteSetTheorems, SequenceTheorems, TLAPS

-----------------------------------------------------------------------------
(* The telemetry processor. *)

ProcessingType ==
  [inv : InvocationProcessingState, out : OutputBuffers, metrics : SUBSET Nat]

\* The two kinds of records, field by field.
LEMMA ProcessingFields ==
  ASSUME NEW p, p \in ProcessingType
  PROVE  /\ p = [inv |-> p.inv, out |-> p.out, metrics |-> p.metrics]
         /\ p.inv \in InvocationProcessingState
         /\ p.out \in OutputBuffers
         /\ p.metrics \in SUBSET Nat
  BY DEF ProcessingType

\* What an InvocationProcessingState consists of.
LEMMA InvocationFields ==
  ASSUME NEW inv, inv \in InvocationProcessingState
  PROVE  /\ inv.req \in Requests
         /\ inv.delaying_logs \in BOOLEAN
         /\ inv.logs \in Seq(Event)
         /\ inv.data \in SUBSET Event
         /\ inv.captured \in SUBSET Span
         /\ IsFiniteSet(inv.captured)
  BY DEF InvocationProcessingState

\* Logs and spans put in the output buffers keep them well formed.
LEMMA OutputAppend ==
  ASSUME NEW out \in OutputBuffers, NEW logs \in Seq(LogRecord),
         NEW spans \in Seq(PlatformSpan), NEW traces \in Seq(Nat)
  PROVE  /\ [out EXCEPT !.logs = @ \o logs] \in OutputBuffers
         /\ [out EXCEPT !.spans = @ \o spans] \in OutputBuffers
         /\ [out EXCEPT !.logs = @ \o logs, !.spans = @ \o spans,
                        !.epsagonTraces = traces] \in OutputBuffers
<1>1. out.logs \in Seq(LogRecord) /\ out.spans \in Seq(PlatformSpan)
  BY DEF OutputBuffers
<1>2. out.logs \o logs \in Seq(LogRecord) /\ out.spans \o spans \in Seq(PlatformSpan)
  BY <1>1, ConcatProperties
<1> HIDE <1>1
<1> DEFINE l == out.logs \o logs
           s == out.spans \o spans
<1>3. l \in Seq(LogRecord) /\ s \in Seq(PlatformSpan)
  BY <1>2
<1> HIDE DEF l, s
<1>4. /\ [out EXCEPT !.logs = l] \in OutputBuffers
      /\ [out EXCEPT !.spans = s] \in OutputBuffers
      /\ [out EXCEPT !.logs = l, !.spans = s, !.epsagonTraces = traces] \in OutputBuffers
  BY <1>3 DEF OutputBuffers
<1> QED
  BY <1>4 DEF l, s

\* add_function_scope_spans keeps the set of spans and their count well formed.
LEMMA AddFunctionSpansType ==
  ASSUME NEW out \in OutputBuffers, NEW spans \in SUBSET Span, IsFiniteSet(spans)
  PROVE  AddFunctionSpans(out, spans) \in OutputBuffers
<1>1. Cardinality(spans) \in Nat
  BY FS_CardinalityType
<1> DEFINE all == out.functionSpans \cup spans
           count == out.functionSpansCount + Cardinality(spans)
<1>2. all \in SUBSET Span /\ count \in Nat
  BY <1>1 DEF OutputBuffers
<1> HIDE DEF all, count
<1>3. [out EXCEPT !.functionSpans = all, !.functionSpansCount = count] \in OutputBuffers
  BY <1>2 DEF OutputBuffers
<1> QED
  BY <1>3 DEF AddFunctionSpans, all, count

\* Two batches taken together are a batch.
LEMMA MergeType ==
  ASSUME NEW a \in OutputBuffers, NEW b \in OutputBuffers
  PROVE  Merge(a, b) \in OutputBuffers
  BY DEF Merge, OutputBuffers

\* OutputBuffers after take_all.
LEMMA EmptyBuffersType == EmptyBuffers \in OutputBuffers
  BY DEF EmptyBuffers, OutputBuffers

\* The state an invocation begins with.
LEMMA NewInvocationStateType ==
  ASSUME NEW r \in Requests
  PROVE  NewInvocationState(r) \in InvocationProcessingState
  BY FS_EmptySet DEF NewInvocationState, InvocationProcessingState

\* A log is always correlated with a span of a known kind.
LEMMA CurrentSpanType == \A inv : CurrentSpan(inv) \in SpanRefs
  BY DEF CurrentSpan, SpanRefs, InvocationSpans

\* A log made from an event is a log record.
LEMMA MakeLogType ==
  ASSUME NEW inv \in InvocationProcessingState, NEW e \in Event
  PROVE  MakeLog(inv, e) \in LogRecord
  BY CurrentSpanType DEF MakeLog, LogRecord, InvocationProcessingState, Event

\* Emitting logs leaves the state of the invocation alone.
LEMMA EmitLogsType ==
  ASSUME NEW p \in ProcessingType, NEW logs \in Seq(LogRecord)
  PROVE  /\ EmitLogs(p, logs) \in ProcessingType
         /\ EmitLogs(p, logs).inv = p.inv
<1> DEFINE out == [p.out EXCEPT !.logs = @ \o logs]
<1>1. out \in OutputBuffers
  BY OutputAppend, EmptySeq DEF ProcessingType
<1>2. EmitLogs(p, logs) = [p EXCEPT !.out = out]
  BY DEF EmitLogs, ProcessingType
<1> HIDE DEF out
<1> QED
  BY <1>1, <1>2 DEF ProcessingType

\* So does emitting a platform log, or deciding against it.
LEMMA EmitPlatformLogType ==
  ASSUME NEW p \in ProcessingType, NEW e \in Event
  PROVE  /\ EmitPlatformLog(p, e) \in ProcessingType
         /\ EmitPlatformLog(p, e).inv = p.inv
<1>1. <<MakeLog(p.inv, e)>> \in Seq(LogRecord)
  BY MakeLogType DEF ProcessingType
<1> QED
  BY <1>1, EmitLogsType DEF EmitPlatformLog

\* take() leaves an empty list of held logs.
LEMMA ClearHeldLogsType ==
  ASSUME NEW p \in ProcessingType
  PROVE  [p EXCEPT !.inv.logs = <<>>] \in ProcessingType
<1> DEFINE none == <<>>
<1>1. none \in Seq(Event)
  OBVIOUS
<1> HIDE DEF none
<1>2. [p EXCEPT !.inv.logs = none] \in ProcessingType
  BY <1>1 DEF ProcessingType, InvocationProcessingState
<1> QED
  BY <1>2 DEF none

\* The held logs become log records, one each.
LEMMA EmitHeldLogsType ==
  ASSUME NEW p \in ProcessingType
  PROVE  EmitHeldLogs(p) \in ProcessingType
<1> DEFINE logs == [i \in 1..Len(p.inv.logs) |-> MakeLog(p.inv, p.inv.logs[i])]
<1>1. p.inv \in InvocationProcessingState /\ p.inv.logs \in Seq(Event)
  BY DEF ProcessingType, InvocationProcessingState
<1>2. logs \in Seq(LogRecord)
  <2>1. \A i \in 1..Len(p.inv.logs) : p.inv.logs[i] \in Event
    BY <1>1
  <2>2. \A i \in 1..Len(p.inv.logs) : MakeLog(p.inv, p.inv.logs[i]) \in LogRecord
    BY <1>1, <2>1, MakeLogType
  <2> QED
    BY <1>1, <2>2
<1>3. EmitLogs(p, logs) \in ProcessingType
  BY <1>2, EmitLogsType
<1> HIDE DEF logs
<1> QED
  BY <1>3, ClearHeldLogsType DEF EmitHeldLogs, logs

\* process_delayed_logs
LEMMA ReleaseDelayedLogsType ==
  ASSUME NEW p \in ProcessingType
  PROVE  ReleaseDelayedLogs(p) \in ProcessingType
<1> DEFINE q == [p EXCEPT !.inv.delaying_logs = FALSE]
<1>1. q \in ProcessingType
  BY DEF ProcessingType, InvocationProcessingState
<1> HIDE DEF q
<1>2. q.inv \in InvocationProcessingState /\ q.inv.data \in SUBSET Event
  BY <1>1 DEF ProcessingType, InvocationProcessingState
<1>3. StartLogs(q.inv) \in Seq(LogRecord)
  <2>1. CASE Has(q.inv, "PlatformStart")
    <3>1. (CHOOSE d \in q.inv.data : d.kind = "PlatformStart") \in Event
      BY <1>2, <2>1 DEF Has
    <3>2. MakeLog(q.inv, CHOOSE d \in q.inv.data : d.kind = "PlatformStart") \in LogRecord
      BY <1>2, <3>1, MakeLogType
    <3> QED
      BY <3>2 DEF StartLogs
  <2>2. CASE ~Has(q.inv, "PlatformStart")
    BY <2>2 DEF StartLogs
  <2> QED
    BY <2>1, <2>2
<1>4. EmitLogs(q, StartLogs(q.inv)) \in ProcessingType
  BY <1>1, <1>3, EmitLogsType
<1> QED
  BY <1>4, EmitHeldLogsType DEF ReleaseDelayedLogs, q

\* Recording the data of a platform event.
LEMMA RecordType ==
  ASSUME NEW p \in ProcessingType, NEW e \in Event
  PROVE  Record(p, e) \in ProcessingType
<1>1. p.inv.data \in SUBSET Event
  BY DEF ProcessingType, InvocationProcessingState
<1>2. {d \in p.inv.data : d.kind # e.kind} \cup {e} \in SUBSET Event
  BY <1>1
<1> QED
  BY <1>2 DEF Record, RecordData, ProcessingType, InvocationProcessingState

\* Counting an event in the platform metrics.
LEMMA CountInMetricsType ==
  ASSUME NEW p \in ProcessingType, NEW e \in Event, NEW modes
  PROVE  CountInMetrics(p, e, modes) \in ProcessingType
  BY DEF CountInMetrics, ProcessingType, Event

\* Setting a function log aside until the invocation span is there.
LEMMA HoldLogType ==
  ASSUME NEW p \in ProcessingType, NEW e \in Event
  PROVE  [p EXCEPT !.inv.logs = Append(@, e)] \in ProcessingType
<1> DEFINE logs == Append(p.inv.logs, e)
<1>1. logs \in Seq(Event)
  <2>1. p.inv.logs \in Seq(Event)
    BY DEF ProcessingType, InvocationProcessingState
  <2> QED
    BY <2>1, AppendProperties
<1> HIDE DEF logs
<1>2. [p EXCEPT !.inv.logs = logs] \in ProcessingType
  BY <1>1 DEF ProcessingType, InvocationProcessingState
<1> QED
  BY <1>2 DEF logs

\* Keeping an Epsagon trace for the next batch.
LEMMA KeepTraceType ==
  ASSUME NEW p \in ProcessingType, NEW id \in Nat
  PROVE  [p EXCEPT !.out.epsagonTraces = Append(@, id)] \in ProcessingType
<1> DEFINE traces == Append(p.out.epsagonTraces, id)
<1>1. traces \in Seq(Nat)
  <2>1. p.out.epsagonTraces \in Seq(Nat)
    BY DEF ProcessingType, OutputBuffers
  <2> QED
    BY <2>1, AppendProperties
<1> HIDE DEF traces
<1>2. [p EXCEPT !.out.epsagonTraces = traces] \in ProcessingType
  BY <1>1 DEF ProcessingType, OutputBuffers
<1> QED
  BY <1>2 DEF traces

\* Emitting platform spans.
LEMMA EmitSpansType ==
  ASSUME NEW p \in ProcessingType, NEW spans \in Seq(PlatformSpan)
  PROVE  [p EXCEPT !.out.spans = @ \o spans] \in ProcessingType
<1> DEFINE all == p.out.spans \o spans
<1>1. all \in Seq(PlatformSpan)
  <2>1. p.out.spans \in Seq(PlatformSpan)
    BY DEF ProcessingType, OutputBuffers
  <2> QED
    BY <2>1, ConcatProperties
<1> HIDE DEF all
<1>2. [p EXCEPT !.out.spans = all] \in ProcessingType
  BY <1>1 DEF ProcessingType, OutputBuffers
<1> QED
  BY <1>2 DEF all

\* A platform span that is made on a condition.
LEMMA SpanIfType ==
  ASSUME NEW cond, NEW kind \in {"init", "invocation", "context"},
         NEW owner \in Requests \cup {Degraded}
  PROVE  SpanIf(cond, kind, owner) \in Seq(PlatformSpan)
<1> DEFINE span == [kind |-> kind, inv |-> owner]
<1>1. span \in PlatformSpan
  BY DEF PlatformSpan
<1> HIDE DEF span
<1>2. <<span>> \in Seq(PlatformSpan)
  BY <1>1
<1>3. SpanIf(cond, kind, owner) = <<span>> \/ SpanIf(cond, kind, owner) = <<>>
  BY DEF SpanIf, span
<1> QED
  BY <1>2, <1>3, EmptySeq

\* make_spans_after_invocation and make_spans_after_report
LEMMA PlatformSpansType ==
  ASSUME NEW inv \in InvocationProcessingState
  PROVE  /\ SpansAfterInvocation(inv) \in Seq(PlatformSpan)
         /\ SpansAfterReport(inv) \in Seq(PlatformSpan)
<1>1. inv.req \in Requests
  BY InvocationFields
<1> DEFINE invoked == TracingMode = "TelemetryApi" /\ Has(inv, "PlatformStart")
                        /\ Has(inv, "PlatformRuntimeDone")
           reported == \A k \in {"PlatformStart", "PlatformRuntimeDone", "PlatformReport"} : Has(inv, k)
<1>2. SpanIf(InitSeen(inv), "init", inv.req) \in Seq(PlatformSpan)
  BY <1>1, SpanIfType
<1>3. SpanIf(invoked, "invocation", inv.req) \in Seq(PlatformSpan)
  BY <1>1, SpanIfType
<1>4. SpanIf(reported, "context", inv.req) \in Seq(PlatformSpan)
  BY <1>1, SpanIfType
<1> QED
  BY <1>2, <1>3, <1>4, ConcatProperties DEF SpansAfterInvocation, SpansAfterReport

\* emit_trigger_and_invocation_spans emits spans that were captured.
LEMMA TriggerSpansType ==
  ASSUME NEW inv \in InvocationProcessingState
  PROVE  /\ TriggerAndInvocationSpans(inv) \in SUBSET Span
         /\ IsFiniteSet(TriggerAndInvocationSpans(inv))
<1>1. inv.captured \in SUBSET Span /\ IsFiniteSet(inv.captured)
  BY InvocationFields
<1>2. TriggerAndInvocationSpans(inv) \subseteq inv.captured
  BY DEF TriggerAndInvocationSpans
<1> QED
  BY <1>1, <1>2, FS_Subset

-----------------------------------------------------------------------------
(* process_telemetry, arm by arm. *)

\* The arm for Function events.
LEMMA OnFunctionLogType ==
  ASSUME NEW p \in ProcessingType, NEW e \in Event
  PROVE  OnFunctionLog(p, e) \in ProcessingType
<1>1. e.id \in Nat
  BY DEF Event
<1>2. <<MakeLog(p.inv, e)>> \in Seq(LogRecord)
  BY MakeLogType DEF ProcessingType
<1> QED
  BY <1>1, <1>2, KeepTraceType, HoldLogType, EmitLogsType DEF OnFunctionLog

\* The arm for PlatformStart.
LEMMA OnStartType ==
  ASSUME NEW p \in ProcessingType, NEW e \in Event
  PROVE  OnStart(p, e) \in ProcessingType /\ OnInitReport(p, e) \in ProcessingType
  BY EmitPlatformLogType, CountInMetricsType, RecordType DEF OnStart, OnInitReport

\* The arm for PlatformRuntimeDone.
LEMMA OnRuntimeDoneType ==
  ASSUME NEW p \in ProcessingType, NEW e \in Event
  PROVE  OnRuntimeDone(p, e) \in ProcessingType
<1> DEFINE released == IF LogMode = "Structured" /\ p.inv.delaying_logs
                       THEN ReleaseDelayedLogs(p) ELSE p
           q == Record(CountInMetrics(EmitPlatformLog(released, e), e, {"PlatformV2"}), e)
           out == IF TracingMode = "OtelInstrumentation"
                  THEN AddFunctionSpans(q.out, TriggerAndInvocationSpans(q.inv)) ELSE q.out
<1>1. released \in ProcessingType
  BY ReleaseDelayedLogsType
<1>2. EmitPlatformLog(released, e) \in ProcessingType
  BY <1>1, EmitPlatformLogType
<1>3. q \in ProcessingType
  BY <1>2, CountInMetricsType, RecordType
<1> HIDE DEF q
<1>4. q.inv \in InvocationProcessingState /\ q.out \in OutputBuffers
  BY <1>3 DEF ProcessingType
<1>5. out \in OutputBuffers
  BY <1>4, TriggerSpansType, AddFunctionSpansType
<1> HIDE DEF out
<1> DEFINE spans == SpansAfterInvocation(q.inv)
<1>6. spans \in Seq(PlatformSpan)
  BY <1>4, PlatformSpansType
<1> HIDE DEF spans
<1> DEFINE done == [out EXCEPT !.spans = @ \o spans]
<1>7. done \in OutputBuffers
  BY <1>5, <1>6, OutputAppend, EmptySeq
<1> HIDE DEF done
<1>8. [q EXCEPT !.out = done] \in ProcessingType
  BY <1>3, <1>7 DEF ProcessingType
<1> QED
  BY <1>3, <1>8 DEF OnRuntimeDone, q, out, spans, done

\* The arm for PlatformReport.
LEMMA OnReportType ==
  ASSUME NEW p \in ProcessingType, NEW e \in Event
  PROVE  OnReport(p, e) \in ProcessingType
<1> DEFINE flushed == IF LogMode = "Structured" THEN EmitHeldLogs(p) ELSE p
           q == Record(CountInMetrics(EmitPlatformLog(flushed, e), e,
                                      {"PlatformReport", "PlatformV2"}), e)
<1>1. flushed \in ProcessingType
  BY EmitHeldLogsType
<1>2. EmitPlatformLog(flushed, e) \in ProcessingType
  BY <1>1, EmitPlatformLogType
<1>3. q \in ProcessingType
  BY <1>2, CountInMetricsType, RecordType
<1> HIDE DEF q
<1>4. SpansAfterReport(q.inv) \in Seq(PlatformSpan)
  BY <1>3, PlatformSpansType DEF ProcessingType
<1>5. [q EXCEPT !.out.spans = @ \o SpansAfterReport(q.inv)] \in ProcessingType
  BY <1>3, <1>4, EmitSpansType
<1> QED
  BY <1>3, <1>5 DEF OnReport, q

\* Whatever event arrives, in whatever state of the invocation.
THEOREM ProcessTelemetryType ==
  ASSUME NEW p \in ProcessingType, NEW e \in Event
  PROVE  ProcessTelemetry(p, e) \in ProcessingType
<1>1. e.kind \in EventKinds
  BY DEF Event
<1> QED
  BY <1>1, OnFunctionLogType, OnStartType, OnRuntimeDoneType, OnReportType, RecordType
     DEF ProcessTelemetry, EventKinds

\* Degraded mode too only makes well-formed telemetry.
LEMMA ProcessDegradedType ==
  ASSUME NEW out \in OutputBuffers, NEW initDone, NEW e \in Event
  PROVE  ProcessDegraded(out, initDone, e) \in OutputBuffers
<1> DEFINE initSpan == e.kind = "PlatformInitReport" /\ initDone /\ TracingMode # "Disabled"
           traces == IF e.kind = "EpsagonTrace" /\ LogMode = "Structured"
                     THEN Append(out.epsagonTraces, e.id) ELSE out.epsagonTraces
<1>1. e.kind \in EventKinds /\ e.id \in Nat /\ out.epsagonTraces \in Seq(Nat)
  BY DEF Event, OutputBuffers
<1>2. DegradedLogs(e) \in Seq(LogRecord)
  <2>1. DegradedLog(e) \in LogRecord
    BY <1>1 DEF DegradedLog, LogRecord, SpanRefs
  <2>2. <<DegradedLog(e)>> \in Seq(LogRecord)
    BY <2>1
  <2>3. DegradedLogs(e) = <<DegradedLog(e)>> \/ DegradedLogs(e) = <<>>
    BY DEF DegradedLogs
  <2> QED
    BY <2>2, <2>3, EmptySeq
<1>3. SpanIf(initSpan, "init", Degraded) \in Seq(PlatformSpan)
  BY SpanIfType
<1>4. traces \in Seq(Nat)
  BY <1>1, AppendProperties
<1> QED
  BY <1>2, <1>3, <1>4, OutputAppend DEF ProcessDegraded

-----------------------------------------------------------------------------
(* process_function_spans *)

\* The spans of a batch are finitely many.
LEMMA SpansOfSeq ==
  ASSUME NEW spans \in Seq(Span)
  PROVE  /\ {spans[i] : i \in DOMAIN spans} \in SUBSET Span
         /\ IsFiniteSet({spans[i] : i \in DOMAIN spans})
<1>1. DOMAIN spans = 1..Len(spans) /\ Len(spans) \in Nat
  OBVIOUS
<1>2. IsFiniteSet(DOMAIN spans)
  BY <1>1, FS_Interval
<1>3. \A i \in DOMAIN spans : spans[i] \in Span
  BY ElementOfSeq, <1>1
<1>4. IsFiniteSet({spans[i] : i \in DOMAIN spans})
  <2> DEFINE all == {spans[i] : i \in DOMAIN spans}
  <2>1. spans \in Surjection(DOMAIN spans, all)
    BY <1>1 DEF Surjection
  <2> QED
    BY <1>2, <2>1, FS_Surjection
<1> QED
  BY <1>3, <1>4

\* What try_capture_span keeps, and what is passed on.
LEMMA CapturedType ==
  ASSUME NEW spans \in Seq(Span), NEW captured
  PROVE  /\ NewlyCaptured(captured, spans) \in SUBSET Span
         /\ IsFiniteSet(NewlyCaptured(captured, spans))
         /\ PassedOn(captured, spans) \in SUBSET Span
         /\ IsFiniteSet(PassedOn(captured, spans))
<1> DEFINE all == {spans[i] : i \in DOMAIN spans}
<1>1. all \in SUBSET Span /\ IsFiniteSet(all)
  BY SpansOfSeq
<1>2. NewlyCaptured(captured, spans) \subseteq all
  BY DEF NewlyCaptured
<1>3. PassedOn(captured, spans) \subseteq all
  BY DEF PassedOn
<1> HIDE DEF all
<1> QED
  BY <1>1, <1>2, <1>3, FS_Subset

\* Whatever spans the function exports.
THEOREM ProcessFunctionSpansType ==
  ASSUME NEW p \in ProcessingType, NEW spans \in Seq(Span)
  PROVE  ProcessFunctionSpans(p, spans) \in ProcessingType
<1> DEFINE captured == p.inv.captured \cup NewlyCaptured(p.inv.captured, spans)
           inv == [p.inv EXCEPT !.captured = @ \cup NewlyCaptured(@, spans)]
           out == IF ShouldProduceSpans(inv) /\ TracingMode = "OtelInstrumentation"
                  THEN AddFunctionSpans(p.out, PassedOn(p.inv.captured, spans)) ELSE p.out
           q == [p EXCEPT !.inv = inv, !.out = out]
<1>1. p.inv \in InvocationProcessingState /\ p.out \in OutputBuffers
  BY DEF ProcessingType
<1>2. captured \in SUBSET Span /\ IsFiniteSet(captured)
  BY <1>1, InvocationFields, CapturedType, FS_Union
<1> HIDE DEF captured
<1>3. [p.inv EXCEPT !.captured = captured] \in InvocationProcessingState
  BY <1>1, <1>2 DEF InvocationProcessingState
<1>4. inv \in InvocationProcessingState
  BY <1>3 DEF captured
<1>5. out \in OutputBuffers
  BY <1>1, CapturedType, AddFunctionSpansType
<1> HIDE DEF inv, out
<1>6. q \in ProcessingType
  BY <1>4, <1>5 DEF ProcessingType
<1> HIDE DEF q
<1> QED
  BY <1>6, ReleaseDelayedLogsType DEF ProcessFunctionSpans, inv, out, q

-----------------------------------------------------------------------------
(* The telemetry service. *)

\* The loops that run inside a critical section rely on what they began with: a replay
\* has an invocation to attribute the events to, the loop over what an earlier instance
\* left holds the PlatformInitStart that ended it.  The handler has an invoke event
\* until it enqueues it.
LoopInv ==
  /\ section = "replay" => invocation_state # NoInvocation
  /\ section = "degrade" => held_event # NoEvent
  /\ pc \in {"context", "drain", "enqueue"} => handling \in Requests

TypeInv == TypeOK /\ LoopInv

\* In the initial state all is well typed, and no loop runs.
LEMMA InitTypes == Init => TypeInv
<1> SUFFICES ASSUME Init PROVE TypeInv
  OBVIOUS
<1>1. output_buffers \in OutputBuffers /\ sent \in OutputBuffers
  BY EmptyBuffersType DEF Init
<1>2. \A S : <<>> \in Seq(S)
  BY EmptySeq
<1> QED
  BY <1>1, <1>2
     DEF Init, TypeInv, TypeOK, LoopInv, Sections, HandlerSteps, InputTypes, InitFlagTypes,
         ProcessingTypes, LoopTypes, CoordinationTypes, FlagTypes, HandlerTypes, SendTypes

\* A group of variables that a step leaves alone stays well typed.
LEMMA Frames ==
  ASSUME TypeOK
  PROVE  /\ UNCHANGED inputs => InputTypes'
         /\ UNCHANGED half_processed_event_buffer => (half_processed_event_buffer \in Seq(Event))'
         /\ UNCHANGED initFlags => InitFlagTypes'
         /\ UNCHANGED processing => ProcessingTypes'
         /\ UNCHANGED loop => LoopTypes'
         /\ UNCHANGED coordination => CoordinationTypes'
         /\ UNCHANGED flags => FlagTypes'
         /\ UNCHANGED handler => HandlerTypes'
         /\ UNCHANGED sends => SendTypes'
         /\ UNCHANGED now => (now \in Nat)'
<1> USE DEF TypeOK
<1>1. UNCHANGED inputs => InputTypes'
  BY DEF inputs, InputTypes
<1>2. UNCHANGED initFlags => InitFlagTypes'
  BY Zenon DEF initFlags, InitFlagTypes
<1>3. UNCHANGED processing => ProcessingTypes'
  BY DEF processing, ProcessingTypes
<1>4. UNCHANGED loop => LoopTypes'
  BY Zenon DEF loop, LoopTypes
<1>5. UNCHANGED coordination => CoordinationTypes'
  BY Zenon DEF coordination, CoordinationTypes
<1>6. UNCHANGED flags => FlagTypes'
  BY Zenon DEF flags, FlagTypes
<1>7. UNCHANGED handler => HandlerTypes'
  BY DEF handler, HandlerTypes
<1>8. UNCHANGED sends => SendTypes'
  BY DEF sends, SendTypes
<1>9. UNCHANGED half_processed_event_buffer => (half_processed_event_buffer \in Seq(Event))'
  OBVIOUS
<1>10. UNCHANGED now => (now \in Nat)'
  OBVIOUS
<1> QED
  BY <1>1, <1>2, <1>3, <1>4, <1>5, <1>6, <1>7, <1>8, <1>9, <1>10

-----------------------------------------------------------------------------
(* The parts that actions share.                                           *)

\* should_send is set and a signal enters the channel.
LEMMA SignalTypes ==
  ASSUME CoordinationTypes, SignalShouldSend, should_send_by' \in Nat \cup {NoTime},
         timers' \in SUBSET Nat
  PROVE  CoordinationTypes'
<1>1. signals' \in Seq(Signal)
  BY AppendProperties DEF CoordinationTypes, SignalShouldSend, Signal
<1>2. should_send' \in BOOLEAN
  BY DEF SignalShouldSend
<1> QED
  BY <1>1, <1>2 DEF CoordinationTypes

\* signal_should_send_by, with any deadline.
LEMMA SignalByTypes ==
  ASSUME TypeOK, NEW time \in Nat, SignalShouldSendBy(time)
  PROVE  CoordinationTypes'
<1>1. CoordinationTypes
  BY DEF TypeOK
<1>2. CASE UNCHANGED coordination
  BY <1>2, Frames
<1>3. CASE SignalShouldSend /\ should_send_by' = NoTime /\ UNCHANGED timers
  BY <1>1, <1>3, SignalTypes DEF CoordinationTypes
<1>4. CASE /\ should_send_by' = time /\ timers' = timers \cup {time}
           /\ UNCHANGED <<should_send, signals>>
  <2>1. should_send' \in BOOLEAN
    BY <1>1, <1>4 DEF CoordinationTypes
  <2>2. should_send_by' \in Nat \cup {NoTime} /\ timers' \in SUBSET Nat /\ signals' \in Seq(Signal)
    BY <1>1, <1>4 DEF CoordinationTypes
  <2> QED
    BY <2>1, <2>2 DEF CoordinationTypes
<1> QED
  BY <1>2, <1>3, <1>4 DEF SignalShouldSendBy, SpawnTimer

\* send_telemetry
LEMMA SendTelemetryTypes ==
  ASSUME TypeOK, SendTelemetry
  PROVE  CoordinationTypes' /\ SendTypes' /\ output_buffers' \in OutputBuffers
<1>1. sent \in OutputBuffers /\ output_buffers \in OutputBuffers /\ in_flight \in Nat
  BY DEF TypeOK, ProcessingTypes, SendTypes
<1>2. Merge(sent, output_buffers) \in OutputBuffers
  BY <1>1, MergeType
<1>3. in_flight' \in Nat
  BY <1>1 DEF SendTelemetry
<1>4. should_send' \in BOOLEAN
  BY DEF SendTelemetry
<1>5. /\ should_send_by' \in Nat \cup {NoTime}
      /\ signals' \in Seq(Signal) /\ timers' \in SUBSET Nat /\ detached' \in Nat
  BY DEF SendTelemetry, TypeOK, CoordinationTypes, SendTypes
<1>6. sent' \in OutputBuffers /\ output_buffers' \in OutputBuffers
  BY <1>2, EmptyBuffersType DEF SendTelemetry
<1> QED
  BY <1>3, <1>4, <1>5, <1>6 DEF CoordinationTypes, SendTypes

\* The end of the critical section, and an error in it.
LEMMA LeaveTypes ==
  ASSUME LeaveLoop
  PROVE  LoopTypes' /\ section' = "free"
<1>1. invocation_done' \in BOOLEAN /\ init_done' \in BOOLEAN
  BY DEF LeaveLoop
<1>2. pending_events' \in Seq(Event)
  BY EmptySeq DEF LeaveLoop
<1>3. section' \in Sections /\ held_event' \in Event \cup {NoEvent}
  BY DEF LeaveLoop, Sections
<1> QED
  BY <1>1, <1>2, <1>3 DEF LoopTypes, LeaveLoop

\* handle_telemetry after an error.
LEMMA AbortTypes ==
  ASSUME TypeOK, AbortLoop
  PROVE  LoopTypes' /\ CoordinationTypes' /\ section' = "free"
<1>1. CoordinationTypes
  BY DEF TypeOK
<1>2. signals' \in Seq(Signal)
  BY <1>1, AppendProperties DEF AbortLoop, CoordinationTypes, Signal
<1>3. should_send' \in BOOLEAN
  BY <1>1 DEF AbortLoop, CoordinationTypes
<1>4. should_send_by' \in Nat \cup {NoTime} /\ timers' \in SUBSET Nat
  BY <1>1 DEF AbortLoop, CoordinationTypes
<1> QED
  BY <1>2, <1>3, <1>4, LeaveTypes DEF AbortLoop, CoordinationTypes

\* The beginning of the critical section.
LEMMA EnterTypes ==
  ASSUME TypeOK, EnterLoop
  PROVE  LoopTypes' /\ section' \in {"free", "events"}
<1>1. section' \in {"free", "events"}
  BY DEF EnterLoop
<1>2. invocation_done' \in BOOLEAN /\ init_done' \in BOOLEAN
  BY DEF EnterLoop, TypeOK, LoopTypes
<1>3. pending_events' \in Seq(Event) /\ held_event' \in Event \cup {NoEvent}
  BY DEF EnterLoop, TypeOK, LoopTypes
<1> QED
  BY <1>1, <1>2, <1>3 DEF LoopTypes, Sections

\* What process_telemetry and process_function_spans work on, and what they leave.
LEMMA ProcessingStateType ==
  ASSUME TypeOK, invocation_state # NoInvocation
  PROVE  ProcessingState \in ProcessingType
  BY DEF TypeOK, ProcessingTypes, ProcessingState, Processing, ProcessingType

\* The result of processing is well typed where it is put back.
LEMMA SetProcessingTypes ==
  ASSUME NEW p \in ProcessingType, SetProcessing(p)
  PROVE  ProcessingTypes' /\ invocation_state' # NoInvocation
  BY ServiceAssumption DEF SetProcessing, ProcessingType, ProcessingTypes

-----------------------------------------------------------------------------
(* The clock, the timers and the send operations.                          *)

\* Nothing the environment of the handlers does breaks the types.
LEMMA TimeStep ==
  ASSUME TypeInv, \/ Tick \/ SendEnds
                  \/ \E t \in timers : TimerFires(t)
  PROVE  TypeInv'
<1> USE DEF TypeInv
<1>1. CASE Tick
  <2>1. (now \in Nat)'
    BY <1>1 DEF Tick, TypeOK
  <2>2. LoopInv'
    BY <1>1 DEF Tick, LoopInv, loop, handler, processing
  <2> QED
    BY <1>1, <2>1, <2>2, Frames DEF Tick, TypeOK
<1>2. CASE SendEnds
  <2>1. SendTypes'
    <3>1. SendTypes
      BY DEF TypeOK
    <3>2. CASE in_flight > 0 /\ in_flight' = in_flight - 1 /\ UNCHANGED detached
      BY <1>2, <3>1, <3>2 DEF SendEnds, SendTypes
    <3>3. CASE detached > 0 /\ detached' = detached - 1 /\ UNCHANGED in_flight
      BY <1>2, <3>1, <3>3 DEF SendEnds, SendTypes
    <3> QED
      BY <1>2, <3>2, <3>3 DEF SendEnds
  <2>2. LoopInv'
    BY <1>2 DEF SendEnds, LoopInv, loop, handler, processing
  <2> QED
    BY <1>2, <2>1, <2>2, Frames DEF SendEnds, TypeOK
<1>3. ASSUME NEW t \in timers, TimerFires(t) PROVE TypeInv'
  <2>1. CoordinationTypes'
    <3>1. CoordinationTypes /\ timers' \in SUBSET Nat
      BY <1>3 DEF TypeOK, CoordinationTypes, TimerFires
    <3>2. CASE ShouldSendByNow
      <4>1. SignalShouldSend /\ should_send_by' = NoTime
        BY <1>3, <3>2 DEF TimerFires, ServeDeadline
      <4> QED
        BY <3>1, <4>1, SignalTypes
    <3>3. CASE ~ShouldSendByNow
      <4>1. UNCHANGED <<should_send_by, should_send, signals>>
        BY <1>3, <3>3 DEF TimerFires, ServeDeadline
      <4>2. should_send' \in BOOLEAN
        BY <3>1, <4>1 DEF CoordinationTypes
      <4>3. should_send_by' \in Nat \cup {NoTime} /\ signals' \in Seq(Signal)
        BY <3>1, <4>1 DEF CoordinationTypes
      <4> QED
        BY <3>1, <4>2, <4>3 DEF CoordinationTypes
    <3> QED
      BY <3>2, <3>3
  <2>2. LoopInv'
    BY <1>3 DEF TimerFires, LoopInv, loop, handler, processing
  <2> QED
    BY <1>3, <2>1, <2>2, Frames DEF TimerFires, TypeOK
<1> QED
  BY <1>1, <1>2, <1>3

-----------------------------------------------------------------------------
(* The invoke and shutdown handler.                                        *)

\* No step of the handler breaks the types; it enqueues the invoke event it was given.
LEMMA HandlerStepTypes == TypeInv /\ HandlerStep => TypeInv'
<1> SUFFICES ASSUME TypeInv, HandlerStep PROVE TypeInv'
  OBVIOUS
<1> USE DEF TypeInv
<1>1. HandlerTypes /\ InputTypes /\ CoordinationTypes /\ SendTypes /\ ProcessingTypes /\ FlagTypes
  BY DEF TypeOK
<1>2. CASE \/ ObtainFunctionContext \/ FailToObtainFunctionContext \/ GraceElapses
           \/ AwaitInFlightSends
  <2>1. HandlerTypes' /\ LoopInv'
    BY <1>1, <1>2 DEF ObtainFunctionContext, FailToObtainFunctionContext, GraceElapses,
       AwaitInFlightSends, HandlerTypes, HandlerSteps, LoopInv, loop, processing
  <2> QED
    BY <1>2, <2>1, Frames DEF ObtainFunctionContext, FailToObtainFunctionContext, GraceElapses,
       AwaitInFlightSends, TypeOK
<1>3. CASE DrainSignals \/ ReceiveSignal
  <2>1. HandlerTypes' /\ LoopInv'
    BY <1>1, <1>3 DEF DrainSignals, ReceiveSignal, HandlerTypes, HandlerSteps, LoopInv, loop,
       processing
  <2>2. CoordinationTypes'
    <3>1. signals' \in Seq(Signal)
      BY <1>1, <1>3, EmptySeq, HeadTailProperties
         DEF DrainSignals, ReceiveSignal, CoordinationTypes
    <3>2. should_send' \in BOOLEAN
      BY <1>1, <1>3 DEF DrainSignals, ReceiveSignal, CoordinationTypes
    <3>3. should_send_by' \in Nat \cup {NoTime} /\ timers' \in SUBSET Nat
      BY <1>1, <1>3 DEF DrainSignals, ReceiveSignal, CoordinationTypes
    <3> QED
      BY <3>1, <3>2, <3>3 DEF CoordinationTypes
  <2> QED
    BY <1>3, <2>1, <2>2, Frames DEF DrainSignals, ReceiveSignal, TypeOK
<1>4. CASE EnqueueInvokeEvent
  <2>1. InputTypes'
    <3>1. [req |-> handling, spans |-> <<>>] \in InvokeEventDataWithSpans
      BY <1>4, EmptySeq DEF EnqueueInvokeEvent, LoopInv, InvokeEventDataWithSpans
    <3> QED
      BY <1>1, <1>4, <3>1, AppendProperties DEF EnqueueInvokeEvent, InputTypes
  <2>2. FlagTypes'
    BY <1>1, <1>4, Zenon DEF EnqueueInvokeEvent, FlagTypes
  <2>3. LoopTypes' /\ section' \in {"free", "events"}
    BY <1>4, EnterTypes DEF EnqueueInvokeEvent
  <2>4. HandlerTypes' /\ LoopInv'
    BY <1>1, <1>4, <2>3 DEF EnqueueInvokeEvent, HandlerTypes, HandlerSteps, LoopInv
  <2> QED
    BY <1>4, <2>1, <2>2, <2>3, <2>4, Frames DEF EnqueueInvokeEvent, TypeOK
<1>5. CASE CheckShouldSend
  <2>1. CoordinationTypes' /\ SendTypes' /\ output_buffers' \in OutputBuffers
    <3>1. CASE should_send \/ ShouldSendByNow
      BY <1>5, <3>1, SendTelemetryTypes DEF CheckShouldSend
    <3>2. CASE ~(should_send \/ ShouldSendByNow)
      <4>1. UNCHANGED <<output_buffers, coordination, sends>>
        BY <1>5, <3>2 DEF CheckShouldSend
      <4> QED
        BY <1>1, <4>1, Frames DEF ProcessingTypes
    <3> QED
      BY <3>1, <3>2
  <2>2. ProcessingTypes' /\ UNCHANGED invocation_state
    BY <1>1, <1>5, <2>1 DEF CheckShouldSend, ProcessingTypes
  <2>3. HandlerTypes' /\ LoopInv'
    BY <1>1, <1>5, <2>2 DEF CheckShouldSend, HandlerTypes, HandlerSteps, LoopInv, loop
  <2> QED
    BY <1>5, <2>1, <2>2, <2>3, Frames DEF CheckShouldSend, TypeOK
<1>6. CASE ForbidOtel \/ PermitOtel
  <2>1. HandlerTypes' /\ LoopInv'
    BY <1>1, <1>6 DEF ForbidOtel, PermitOtel, HandlerTypes, HandlerSteps, LoopInv, loop,
       processing
  <2>2. FlagTypes'
    BY <1>1, <1>6, Zenon DEF ForbidOtel, PermitOtel, FlagTypes
  <2> QED
    BY <1>6, <2>1, <2>2, Frames DEF ForbidOtel, PermitOtel, TypeOK
<1>7. CASE AwaitTimesOut \/ FinishShutdown
  <2>1. SendTypes'
    BY <1>1, <1>7 DEF AwaitTimesOut, FinishShutdown, SendTypes
  <2>2. HandlerTypes' /\ LoopInv'
    BY <1>1, <1>7 DEF AwaitTimesOut, FinishShutdown, HandlerTypes, HandlerSteps, LoopInv, loop,
       processing
  <2> QED
    BY <1>7, <2>1, <2>2, Frames DEF AwaitTimesOut, FinishShutdown, TypeOK
<1>8. CASE FlushEnqueuedTelemetry
  <2>1. FlagTypes'
    BY <1>1, <1>8, Zenon DEF FlushEnqueuedTelemetry, FlagTypes
  <2>2. InputTypes'
    BY <1>1, <1>8, EmptySeq DEF FlushEnqueuedTelemetry, InputTypes
  <2>3. LoopTypes'
    <3>1. invocation_done' \in BOOLEAN /\ init_done' \in BOOLEAN
      BY <1>8 DEF FlushEnqueuedTelemetry, TypeOK, LoopTypes
    <3>2. /\ section' \in Sections /\ pending_events' \in Seq(Event)
          /\ held_event' \in Event \cup {NoEvent}
      BY <1>1, <1>8 DEF FlushEnqueuedTelemetry, TypeOK, LoopTypes, Sections, InputTypes
    <3> QED
      BY <3>1, <3>2 DEF LoopTypes
  <2>4. HandlerTypes' /\ LoopInv'
    BY <1>1, <1>8 DEF FlushEnqueuedTelemetry, HandlerTypes, HandlerSteps, LoopInv
  <2> QED
    BY <1>8, <2>1, <2>2, <2>3, <2>4, Frames DEF FlushEnqueuedTelemetry, TypeOK
<1>9. CASE SendFlushed
  <2>1. LoopTypes' /\ section' = "free"
    BY <1>9, LeaveTypes DEF SendFlushed
  <2>2. CoordinationTypes' /\ SendTypes' /\ output_buffers' \in OutputBuffers
    BY <1>9, SendTelemetryTypes DEF SendFlushed
  <2>3. ProcessingTypes'
    BY <1>1, <1>9, <2>2 DEF SendFlushed, ProcessingTypes
  <2>4. HandlerTypes' /\ LoopInv'
    BY <1>1, <1>9, <2>1 DEF SendFlushed, HandlerTypes, HandlerSteps, LoopInv
  <2> QED
    BY <1>9, <2>1, <2>2, <2>3, <2>4, Frames DEF SendFlushed, TypeOK
<1> QED
  BY <1>2, <1>3, <1>4, <1>5, <1>6, <1>7, <1>8, <1>9 DEF HandlerStep

-----------------------------------------------------------------------------
(* The loops of process_telemetry_events.                                  *)

\* What TypeOK says of the variables the loops use.
LEMMA LoopFacts ==
  ASSUME TypeOK
  PROVE  /\ InputTypes /\ half_processed_event_buffer \in Seq(Event) /\ InitFlagTypes
         /\ ProcessingTypes /\ LoopTypes /\ CoordinationTypes
         /\ telemetry_event_queue # <<>> =>
              /\ NextEvent \in Event
              /\ Tail(telemetry_event_queue) \in Seq(Event)
         /\ pending_events # <<>> =>
              /\ Head(pending_events) \in Event
              /\ Tail(pending_events) \in Seq(Event)
  BY HeadTailProperties DEF TypeOK, InputTypes, LoopTypes, NextEvent

\* An invoke event that is taken brings its spans, and the ones that waited for it.
LEMMA TakeInvokeTypes ==
  ASSUME TypeOK, TakeInvokeEvent
  PROVE  InputTypes' /\ ProcessingTypes'
<1> DEFINE invoke == Head(invoke_event_queue)
           new == Processing(NewInvocationState(invoke.req), output_buffers, metrics_state)
           once == ProcessFunctionSpans(new, function_spans_buffer)
           twice == ProcessFunctionSpans(once, invoke.spans)
<1>1. InputTypes /\ ProcessingTypes
  BY DEF TypeOK
<1>2. invoke \in InvokeEventDataWithSpans /\ Tail(invoke_event_queue) \in Seq(InvokeEventDataWithSpans)
  BY <1>1, HeadTailProperties DEF TakeInvokeEvent, InputTypes
<1>3. invoke.req \in Requests /\ invoke.spans \in Seq(Span) /\ function_spans_buffer \in Seq(Span)
  BY <1>1, <1>2 DEF InvokeEventDataWithSpans, InputTypes
<1>4. new \in ProcessingType
  <2>1. NewInvocationState(invoke.req) \in InvocationProcessingState
    BY <1>3, NewInvocationStateType
  <2> QED
    BY <1>1, <2>1 DEF Processing, ProcessingType, ProcessingTypes
<1>5. once \in ProcessingType
  BY <1>3, <1>4, ProcessFunctionSpansType
<1>6. twice \in ProcessingType
  BY <1>3, <1>5, ProcessFunctionSpansType
<1>7. SetProcessing(twice)
  BY DEF TakeInvokeEvent
<1>8. ProcessingTypes'
  BY <1>6, <1>7, SetProcessingTypes
<1>9. InputTypes'
  BY <1>1, <1>2, EmptySeq DEF TakeInvokeEvent, InputTypes
<1> QED
  BY <1>8, <1>9

\* An event processed under the current invocation, which a report ends.
LEMMA ProcessEventTypes ==
  ASSUME TypeOK, ProcessEvent
  PROVE  ProcessingTypes'
<1> DEFINE p == ProcessTelemetry(ProcessingState, NextEvent)
<1>1. p \in ProcessingType
  BY LoopFacts, ProcessingStateType, ProcessTelemetryType DEF ProcessEvent, HasNextEvent
<1> HIDE DEF p
<1>2. CASE EndsInvocation(p.inv)
  <2>1. SetProcessing([p EXCEPT !.inv = NoInvocation])
    BY <1>2 DEF ProcessEvent, p
  <2> QED
    BY <1>1, <2>1 DEF SetProcessing, ProcessingType, ProcessingTypes
<1>3. CASE ~EndsInvocation(p.inv)
  <2>1. SetProcessing(p)
    BY <1>3 DEF ProcessEvent, p
  <2> QED
    BY <1>1, <2>1, SetProcessingTypes
<1> QED
  BY <1>2, <1>3

\* Each iteration of the loop over the telemetry queue keeps the types.
LEMMA EventLoopTypes ==
  ASSUME TypeInv, \/ TakeInvokeEvent \/ RejectInvokeEvent
                  \/ HandleInitStart \/ BufferInitEvent \/ FinishInit
                  \/ ProcessEvent \/ RejectEvent
  PROVE  TypeInv'
<1> USE DEF TypeInv
<1>1. CASE TakeInvokeEvent
  <2>1. LoopInv'
    BY <1>1 DEF TakeInvokeEvent, LoopInv, loop, handler
  <2> QED
    BY <1>1, <2>1, TakeInvokeTypes, Frames DEF TakeInvokeEvent, TypeOK
<1>2. CASE RejectInvokeEvent
  <2>1. InputTypes'
    BY <1>2, LoopFacts, HeadTailProperties DEF RejectInvokeEvent, InputTypes
  <2>2. LoopTypes' /\ CoordinationTypes' /\ section' = "free"
    BY <1>2, AbortTypes DEF RejectInvokeEvent
  <2>3. LoopInv'
    BY <1>2, <2>2 DEF RejectInvokeEvent, LoopInv, handler
  <2> QED
    BY <1>2, <2>1, <2>2, <2>3, Frames DEF RejectInvokeEvent, TypeOK
<1>3. CASE HandleInitStart
  <2>1. NextEvent \in Event /\ InputTypes'
    BY <1>3, LoopFacts DEF HandleInitStart, HasNextEvent, InputTypes
  <2>2. CASE half_processed_event_buffer = <<>>
    <3>1. InitFlagTypes'
      BY <1>3, <2>2, LoopFacts, Zenon DEF HandleInitStart, InitFlagTypes, initFlags
    <3>2. (half_processed_event_buffer \in Seq(Event))'
      <4>1. <<NextEvent>> \in Seq(Event)
        BY <2>1
      <4>2. half_processed_event_buffer' = <<NextEvent>>
        BY <1>3, <2>2 DEF HandleInitStart
      <4> QED
        BY <4>1, <4>2
    <3>3. UNCHANGED loop /\ LoopInv'
      BY <1>3, <2>2 DEF HandleInitStart, LoopInv, loop, handler, processing
    <3> QED
      BY <1>3, <2>1, <3>1, <3>2, <3>3, Frames DEF HandleInitStart, TypeOK
  <2>3. CASE half_processed_event_buffer # <<>>
    <3>1. InitFlagTypes'
      BY <1>3, <2>3, LoopFacts, Zenon DEF HandleInitStart, InitFlagTypes
    <3>2. (half_processed_event_buffer \in Seq(Event))'
      BY <1>3, <2>3, EmptySeq DEF HandleInitStart
    <3>3. LoopTypes'
      <4>1. invocation_done' \in BOOLEAN /\ init_done' \in BOOLEAN
        BY <1>3, <2>3, LoopFacts DEF HandleInitStart, LoopTypes
      <4>2. /\ section' \in Sections /\ pending_events' \in Seq(Event)
            /\ held_event' \in Event \cup {NoEvent}
        BY <1>3, <2>1, <2>3, LoopFacts DEF HandleInitStart, Sections
      <4> QED
        BY <4>1, <4>2 DEF LoopTypes
    <3>4. LoopInv'
      BY <1>3, <2>1, <2>3, ServiceAssumption DEF HandleInitStart, LoopInv, handler
    <3> QED
      BY <1>3, <2>1, <3>1, <3>2, <3>3, <3>4, Frames DEF HandleInitStart, TypeOK
  <2> QED
    BY <2>2, <2>3
<1>4. CASE BufferInitEvent
  <2>1. InputTypes' /\ (half_processed_event_buffer \in Seq(Event))'
    BY <1>4, LoopFacts, AppendProperties DEF BufferInitEvent, HasNextEvent, InputTypes
  <2>2. LoopInv'
    BY <1>4 DEF BufferInitEvent, LoopInv, loop, handler, processing
  <2> QED
    BY <1>4, <2>1, <2>2, Frames DEF BufferInitEvent, TypeOK
<1>5. CASE FinishInit
  <2>1. InitFlagTypes'
    BY <1>5, LoopFacts, Zenon DEF FinishInit, InitFlagTypes
  <2>2. (half_processed_event_buffer \in Seq(Event))'
    BY <1>5, EmptySeq DEF FinishInit
  <2>3. LoopTypes'
    <3>1. invocation_done' \in BOOLEAN /\ init_done' \in BOOLEAN
      BY <1>5, LoopFacts DEF FinishInit, LoopTypes
    <3>2. /\ section' \in Sections /\ pending_events' \in Seq(Event)
          /\ held_event' \in Event \cup {NoEvent}
      BY <1>5, LoopFacts DEF FinishInit, Sections, LoopTypes
    <3> QED
      BY <3>1, <3>2 DEF LoopTypes
  <2>4. LoopInv'
    BY <1>5 DEF FinishInit, HasNextEvent, LoopInv, handler, processing
  <2> QED
    BY <1>5, <2>1, <2>2, <2>3, <2>4, Frames DEF FinishInit, TypeOK
<1>6. CASE ProcessEvent
  <2>1. InputTypes'
    BY <1>6, LoopFacts DEF ProcessEvent, HasNextEvent, InputTypes
  <2>2. LoopTypes'
    <3>1. invocation_done' \in BOOLEAN /\ init_done' \in BOOLEAN
      BY <1>6, LoopFacts DEF ProcessEvent, IsInvocationDone, LoopTypes
    <3>2. /\ section' \in Sections /\ pending_events' \in Seq(Event)
          /\ held_event' \in Event \cup {NoEvent}
      BY <1>6, LoopFacts DEF ProcessEvent, LoopTypes
    <3> QED
      BY <3>1, <3>2 DEF LoopTypes
  <2>3. LoopInv'
    BY <1>6 DEF ProcessEvent, HasNextEvent, LoopInv, handler
  <2> QED
    BY <1>6, <2>1, <2>2, <2>3, ProcessEventTypes, Frames DEF ProcessEvent, TypeOK
<1>7. CASE RejectEvent
  <2>1. InputTypes'
    BY <1>7, LoopFacts DEF RejectEvent, HasNextEvent, InputTypes
  <2>2. LoopTypes' /\ CoordinationTypes' /\ section' = "free"
    BY <1>7, AbortTypes DEF RejectEvent
  <2>3. LoopInv'
    BY <1>7, <2>2 DEF RejectEvent, LoopInv, handler
  <2> QED
    BY <1>7, <2>1, <2>2, <2>3, Frames DEF RejectEvent, TypeOK
<1> QED
  BY <1>1, <1>2, <1>3, <1>4, <1>5, <1>6, <1>7

\* So do the loops over init events, and over what an earlier instance left.
LEMMA InnerLoopTypes ==
  ASSUME TypeInv, \/ ReplayInitEvent \/ ReplayEnds
                  \/ DegradeEvent \/ DegradeEnds \/ FinishProcessing
  PROVE  TypeInv'
<1> USE DEF TypeInv
<1>1. CASE ReplayInitEvent
  <2>1. CASE Head(pending_events).ok
    <3>1. invocation_state # NoInvocation
      BY <1>1 DEF ReplayInitEvent, LoopInv
    <3>2. ProcessTelemetry(ProcessingState, Head(pending_events)) \in ProcessingType
      BY <1>1, <3>1, LoopFacts, ProcessingStateType, ProcessTelemetryType DEF ReplayInitEvent
    <3>3. ProcessingTypes' /\ invocation_state' # NoInvocation
      BY <1>1, <2>1, <3>2, SetProcessingTypes DEF ReplayInitEvent
    <3>4. LoopTypes'
      <4>1. invocation_done' \in BOOLEAN /\ init_done' \in BOOLEAN
        BY <1>1, <2>1, LoopFacts DEF ReplayInitEvent, LoopTypes
      <4>2. /\ section' \in Sections /\ pending_events' \in Seq(Event)
            /\ held_event' \in Event \cup {NoEvent}
        BY <1>1, <2>1, LoopFacts DEF ReplayInitEvent, LoopTypes
      <4> QED
        BY <4>1, <4>2 DEF LoopTypes
    <3>5. LoopInv'
      BY <1>1, <2>1, <3>3 DEF ReplayInitEvent, LoopInv, handler
    <3>6. UNCHANGED coordination
      BY <1>1, <2>1 DEF ReplayInitEvent
    <3> QED
      BY <1>1, <3>3, <3>4, <3>5, <3>6, Frames DEF ReplayInitEvent, TypeOK
  <2>2. CASE ~Head(pending_events).ok
    <3>1. AbortLoop /\ UNCHANGED processing
      BY <1>1, <2>2 DEF ReplayInitEvent
    <3>2. LoopTypes' /\ CoordinationTypes' /\ section' = "free"
      BY <3>1, AbortTypes
    <3>3. LoopInv'
      BY <1>1, <3>2 DEF ReplayInitEvent, LoopInv, handler
    <3> QED
      BY <1>1, <3>1, <3>2, <3>3, Frames DEF ReplayInitEvent, TypeOK
  <2> QED
    BY <2>1, <2>2
<1>2. CASE ReplayEnds
  <2>1. LoopTypes'
    <3>1. invocation_done' \in BOOLEAN /\ init_done' \in BOOLEAN
      BY <1>2, LoopFacts DEF ReplayEnds, LoopTypes
    <3>2. /\ section' \in Sections /\ pending_events' \in Seq(Event)
          /\ held_event' \in Event \cup {NoEvent}
      BY <1>2, LoopFacts DEF ReplayEnds, LoopTypes, Sections
    <3> QED
      BY <3>1, <3>2 DEF LoopTypes
  <2>2. LoopInv'
    BY <1>2 DEF ReplayEnds, LoopInv, handler
  <2> QED
    BY <1>2, <2>1, <2>2, Frames DEF ReplayEnds, TypeOK
<1>3. CASE DegradeEvent
  <2> DEFINE e == Head(pending_events)
  <2>1. e \in Event /\ Tail(pending_events) \in Seq(Event)
    BY <1>3, LoopFacts DEF DegradeEvent
  <2>2. CASE /\ e.ok
             /\ output_buffers' = ProcessDegraded(output_buffers, init_done, e)
             /\ metrics_state' = DegradedMetrics(metrics_state, e)
             /\ init_done' = (init_done \/ e.kind = "PlatformInitRuntimeDone")
             /\ pending_events' = Tail(pending_events)
             /\ UNCHANGED <<section, held_event, invocation_done, invocation_state, coordination>>
    <3>1. output_buffers' \in OutputBuffers
      BY <2>1, <2>2, LoopFacts, ProcessDegradedType DEF ProcessingTypes
    <3>2. metrics_state' \in SUBSET Nat
      <4>1. e.id \in Nat
        BY <2>1 DEF Event
      <4> QED
        BY <2>2, <4>1, LoopFacts DEF DegradedMetrics, ProcessingTypes
    <3>3. ProcessingTypes'
      BY <2>2, <3>1, <3>2, LoopFacts DEF ProcessingTypes
    <3>4. LoopTypes'
      <4>1. invocation_done' \in BOOLEAN /\ init_done' \in BOOLEAN
        BY <2>2, LoopFacts DEF LoopTypes
      <4>2. /\ section' \in Sections /\ pending_events' \in Seq(Event)
            /\ held_event' \in Event \cup {NoEvent}
        BY <2>1, <2>2, LoopFacts DEF LoopTypes
      <4> QED
        BY <4>1, <4>2 DEF LoopTypes
    <3>5. LoopInv'
      BY <1>3, <2>2 DEF DegradeEvent, LoopInv, handler
    <3> QED
      BY <1>3, <2>2, <3>3, <3>4, <3>5, Frames DEF DegradeEvent, TypeOK
  <2>3. CASE AbortLoop /\ UNCHANGED processing
    <3>1. LoopTypes' /\ CoordinationTypes' /\ section' = "free"
      BY <2>3, AbortTypes
    <3>2. LoopInv'
      BY <1>3, <3>1 DEF DegradeEvent, LoopInv, handler
    <3> QED
      BY <1>3, <2>3, <3>1, <3>2, Frames DEF DegradeEvent, TypeOK
  <2>4. CASE /\ pending_events' = <<>>
             /\ UNCHANGED <<section, held_event, invocation_done, init_done, processing, coordination>>
    <3>1. LoopTypes'
      <4>1. invocation_done' \in BOOLEAN /\ init_done' \in BOOLEAN
        BY <2>4, LoopFacts DEF LoopTypes
      <4>2. /\ section' \in Sections /\ pending_events' \in Seq(Event)
            /\ held_event' \in Event \cup {NoEvent}
        BY <2>4, LoopFacts, EmptySeq DEF LoopTypes
      <4> QED
        BY <4>1, <4>2 DEF LoopTypes
    <3>2. LoopInv'
      BY <1>3, <2>4 DEF DegradeEvent, LoopInv, handler, processing
    <3> QED
      BY <1>3, <2>4, <3>1, <3>2, Frames DEF DegradeEvent, TypeOK
  <2> QED
    BY <1>3, <2>2, <2>3, <2>4 DEF DegradeEvent
<1>4. CASE DegradeEnds
  <2>1. InitFlagTypes'
    BY <1>4, LoopFacts, Zenon DEF DegradeEnds, InitFlagTypes
  <2>2. (half_processed_event_buffer \in Seq(Event))'
    <3>1. held_event \in Event
      BY <1>4, LoopFacts DEF DegradeEnds, LoopInv, LoopTypes
    <3>2. <<held_event>> \in Seq(Event)
      BY <3>1
    <3> QED
      BY <1>4, <3>2 DEF DegradeEnds
  <2>3. LoopTypes'
    <3>1. invocation_done' \in BOOLEAN /\ init_done' \in BOOLEAN
      BY <1>4, LoopFacts DEF DegradeEnds, LoopTypes
    <3>2. /\ section' \in Sections /\ pending_events' \in Seq(Event)
          /\ held_event' \in Event \cup {NoEvent}
      BY <1>4, LoopFacts DEF DegradeEnds, LoopTypes, Sections
    <3> QED
      BY <3>1, <3>2 DEF LoopTypes
  <2>4. LoopInv'
    BY <1>4 DEF DegradeEnds, LoopInv, handler
  <2> QED
    BY <1>4, <2>1, <2>2, <2>3, <2>4, Frames DEF DegradeEnds, TypeOK
<1>5. CASE FinishProcessing
  <2>1. LoopTypes' /\ section' = "free"
    BY <1>5, LeaveTypes DEF FinishProcessing
  <2>2. CoordinationTypes'
    <3>1. signals' \in Seq(Signal)
      <4>1. <<"ShouldSend", "InvocationDone">> \in Seq(Signal)
        BY DEF Signal
      <4>2. signals \in Seq(Signal) /\ "InvocationDone" \in Signal
        BY LoopFacts DEF CoordinationTypes, Signal
      <4>3. /\ Append(signals, "InvocationDone") \in Seq(Signal)
            /\ signals \o <<"ShouldSend", "InvocationDone">> \in Seq(Signal)
        BY <4>1, <4>2, AppendProperties, ConcatProperties
      <4>4. \/ signals' = signals
            \/ signals' = Append(signals, "InvocationDone")
            \/ signals' = signals \o <<"ShouldSend", "InvocationDone">>
        BY <1>5 DEF FinishProcessing, DoneSignals
      <4> QED
        BY <4>2, <4>3, <4>4
    <3>2. should_send' \in BOOLEAN
      <4>1. should_send' = TRUE \/ should_send' = should_send
        BY <1>5 DEF FinishProcessing
      <4> QED
        BY <4>1, LoopFacts, Zenon DEF CoordinationTypes
    <3>3. should_send_by' \in Nat \cup {NoTime} /\ timers' \in SUBSET Nat
      BY <1>5, LoopFacts DEF FinishProcessing, CoordinationTypes
    <3> QED
      BY <3>1, <3>2, <3>3 DEF CoordinationTypes
  <2>3. LoopInv'
    BY <1>5, <2>1 DEF FinishProcessing, LoopInv, handler
  <2> QED
    BY <1>5, <2>1, <2>2, <2>3, Frames DEF FinishProcessing, TypeOK
<1> QED
  BY <1>1, <1>2, <1>3, <1>4, <1>5

-----------------------------------------------------------------------------
(* What arrives.                                                           *)

\* Spans go to the invoke event that waits last, to the buffer, or to the invocation.
LEMMA OtlpSpansTypes ==
  ASSUME TypeOK, NEW spans \in Seq(Span), HandleOtlpSpans(spans)
  PROVE  InputTypes' /\ ProcessingTypes' /\ CoordinationTypes'
         /\ (invocation_state' = NoInvocation => invocation_state = NoInvocation)
<1>1. InputTypes /\ ProcessingTypes /\ UNCHANGED telemetry_event_queue /\ now \in Nat
  BY DEF TypeOK, HandleOtlpSpans
<1>2. CASE SpansForQueuedInvoke(spans)
  <2> DEFINE last == Len(invoke_event_queue)
             s == invoke_event_queue[last].spans \o spans
  <2>1. last \in DOMAIN invoke_event_queue
    BY <1>1, <1>2, EmptySeq DEF SpansForQueuedInvoke, InputTypes
  <2>2. invoke_event_queue[last] \in InvokeEventDataWithSpans
    BY <1>1, <2>1 DEF InputTypes
  <2>3. s \in Seq(Span)
    BY <2>2, ConcatProperties DEF InvokeEventDataWithSpans
  <2> HIDE DEF s
  <2>4. [invoke_event_queue[last] EXCEPT !.spans = s] \in InvokeEventDataWithSpans
    BY <2>2, <2>3 DEF InvokeEventDataWithSpans
  <2>5. invoke_event_queue' = [invoke_event_queue EXCEPT ![last] =
                                 [invoke_event_queue[last] EXCEPT !.spans = s]]
    BY <1>2 DEF SpansForQueuedInvoke, s
  <2>6. invoke_event_queue' \in Seq(InvokeEventDataWithSpans)
    <3> DEFINE invoke == [invoke_event_queue[last] EXCEPT !.spans = s]
    <3>1. invoke \in InvokeEventDataWithSpans
      BY <2>4
    <3> HIDE DEF invoke
    <3>2. invoke_event_queue \in Seq(InvokeEventDataWithSpans) /\ last \in 1..Len(invoke_event_queue)
      BY <1>1, <2>1 DEF InputTypes
    <3>3. [invoke_event_queue EXCEPT ![last] = invoke] \in Seq(InvokeEventDataWithSpans)
      BY <3>1, <3>2, ExceptSeq
    <3> QED
      BY <2>5, <3>3 DEF invoke
  <2>7. InputTypes'
    BY <1>1, <1>2, <2>6 DEF SpansForQueuedInvoke, InputTypes
  <2> QED
    BY <1>2, <2>7, Frames DEF SpansForQueuedInvoke, processing
<1>3. CASE SpansForNextInvoke(spans)
  <2>1. InputTypes'
    BY <1>1, <1>3, ConcatProperties DEF SpansForNextInvoke, InputTypes
  <2> QED
    BY <1>3, <2>1, Frames DEF SpansForNextInvoke, processing
<1>4. CASE SpansForRunningInvoke(spans)
  <2>1. ProcessFunctionSpans(ProcessingState, spans) \in ProcessingType
    BY <1>4, ProcessingStateType, ProcessFunctionSpansType DEF SpansForRunningInvoke, InvocationRuns
  <2>2. ProcessingTypes' /\ invocation_state' # NoInvocation
    BY <1>4, <2>1, SetProcessingTypes DEF SpansForRunningInvoke, InvocationRuns
  <2>3. CoordinationTypes'
    <3>1. CASE SignalShouldSend /\ UNCHANGED <<should_send_by, timers>>
      BY <3>1, SignalTypes DEF TypeOK, CoordinationTypes
    <3>2. CASE SignalAfterDelay
      <4>1. now + ReportingDelay \in Nat
        BY <1>1, ServiceAssumption
      <4> QED
        BY <3>2, <4>1, SignalByTypes, Frames DEF SignalAfterDelay
    <3> QED
      BY <1>4, <3>1, <3>2 DEF SpansForRunningInvoke, InvocationRuns
  <2>4. InputTypes'
    BY <1>1, <1>4 DEF SpansForRunningInvoke, InputTypes
  <2> QED
    BY <2>2, <2>3, <2>4
<1> QED
  BY <1>2, <1>3, <1>4 DEF HandleOtlpSpans

\* The handlers of telemetry, spans, metrics, invoke events and the shutdown event.
LEMMA ReceiveTypes == TypeInv /\ Receive => TypeInv'
<1> SUFFICES ASSUME TypeInv, Receive PROVE TypeInv'
  OBVIOUS
<1> USE DEF TypeInv
<1>1. InputTypes /\ ProcessingTypes /\ HandlerTypes /\ now \in Nat
  BY DEF TypeOK
<1>2. ASSUME NEW events \in Seq(Event), NEW age \in 0..(now + ReportingDelay),
             HandleIncomingTelemetry(events, age)
      PROVE  TypeInv'
  <2>1. CoordinationTypes'
    <3>1. now + ReportingDelay - age \in Nat
      BY <1>1, ServiceAssumption
    <3> QED
      BY <1>2, <3>1, SignalByTypes, Frames DEF HandleIncomingTelemetry
  <2>2. InputTypes'
    BY <1>1, <1>2, ConcatProperties DEF HandleIncomingTelemetry, EnqueueEvents, InputTypes
  <2>3. LoopTypes' /\ section' \in {"free", "events"}
    BY <1>2, EnterTypes DEF HandleIncomingTelemetry
  <2>4. LoopInv'
    BY <1>2, <2>3 DEF HandleIncomingTelemetry, LoopInv, handler
  <2> QED
    BY <1>2, <2>1, <2>2, <2>3, <2>4, Frames DEF HandleIncomingTelemetry, TypeOK
<1>3. ASSUME NEW spans \in Seq(Span), HandleOtlpSpans(spans)
      PROVE  TypeInv'
  <2>1. LoopInv'
    BY <1>3, OtlpSpansTypes DEF HandleOtlpSpans, LoopInv, loop, handler
  <2> QED
    BY <1>3, <2>1, OtlpSpansTypes, Frames DEF HandleOtlpSpans, TypeOK
<1>4. ASSUME NEW m \in Nat, HandleOtlpMetrics(m)
      PROVE  TypeInv'
  <2>1. CoordinationTypes'
    <3>1. now + ReportingDelay \in Nat
      BY <1>1, ServiceAssumption
    <3> QED
      BY <1>4, <3>1, SignalByTypes, Frames DEF HandleOtlpMetrics, SignalAfterDelay
  <2>2. ProcessingTypes'
    <3>1. output_buffers.functionMetrics \cup {m} \in SUBSET Nat
      BY <1>1 DEF ProcessingTypes, OutputBuffers
    <3> DEFINE metrics == output_buffers.functionMetrics \cup {m}
    <3> HIDE DEF metrics
    <3>2. [output_buffers EXCEPT !.functionMetrics = metrics] \in OutputBuffers
      BY <1>1, <3>1 DEF ProcessingTypes, OutputBuffers, metrics
    <3> QED
      BY <1>1, <1>4, <3>2 DEF HandleOtlpMetrics, ProcessingTypes, metrics
  <2>3. LoopInv'
    BY <1>4 DEF HandleOtlpMetrics, LoopInv, loop, handler
  <2> QED
    BY <1>4, <2>1, <2>2, <2>3, Frames DEF HandleOtlpMetrics, TypeOK
<1>5. ASSUME NEW r \in Requests, StartInvoke(r)
      PROVE  TypeInv'
  <2>1. HandlerTypes' /\ LoopInv'
    BY <1>5 DEF StartInvoke, HandlerTypes, HandlerSteps, LoopInv, loop, processing
  <2> QED
    BY <1>5, <2>1, Frames DEF StartInvoke, TypeOK
<1>6. CASE StartShutdown
  <2>1. HandlerTypes' /\ LoopInv'
    BY <1>1, <1>6 DEF StartShutdown, HandlerTypes, HandlerSteps, LoopInv, loop, processing
  <2> QED
    BY <1>6, <2>1, Frames DEF StartShutdown, TypeOK
<1> QED
  BY <1>2, <1>3, <1>4, <1>5, <1>6 DEF Receive

\* Every step keeps the types.
LEMMA TypeStep == TypeInv /\ [Next]_serviceVars => TypeInv'
<1> SUFFICES ASSUME TypeInv, [Next]_serviceVars PROVE TypeInv'
  OBVIOUS
<1>1. CASE Receive
  BY <1>1, ReceiveTypes
<1>2. CASE ProcessingStep
  BY <1>2, EventLoopTypes, InnerLoopTypes DEF ProcessingStep
<1>3. CASE HandlerStep
  BY <1>3, HandlerStepTypes
<1>4. CASE Tick \/ SendEnds \/ \E t \in timers : TimerFires(t)
  BY <1>4, TimeStep
<1>5. CASE UNCHANGED serviceVars
  <2>1. LoopInv'
    BY <1>5 DEF serviceVars, TypeInv, LoopInv, loop, handler, processing
  <2> QED
    BY <1>5, <2>1, Frames DEF serviceVars, TypeInv, TypeOK
<1> QED
  BY <1>1, <1>2, <1>3, <1>4, <1>5 DEF Next

\* The telemetry service stays within its types: no event, span or metric, in whatever
\* order it comes, brings it into a state its code has no name for.
THEOREM TypeCorrect == Spec => []TypeOK
<1>1. TypeInv => TypeOK
  BY DEF TypeInv
<1> QED
  BY <1>1, InitTypes, TypeStep, PTL DEF Spec

-----------------------------------------------------------------------------
(* Coordination: what every step does to the flag, the channel and the      *)
(* timers is one of a few changes, and each keeps both promises.            *)

\* A ShouldSend in the channel is still there when another signal follows it.
LEMMA SignalStays ==
  ASSUME NEW more \in Seq(Signal), signals \in Seq(Signal), signals' = signals \o more
  PROVE  /\ HasSignal("ShouldSend") => HasSignal("ShouldSend")'
         /\ (\E i \in DOMAIN more : more[i] = "ShouldSend") => HasSignal("ShouldSend")'
<1>1. /\ Len(signals') = Len(signals) + Len(more)
      /\ \A i \in 1..Len(signals) : signals'[i] = signals[i]
      /\ \A i \in 1..Len(more) : signals'[Len(signals) + i] = more[i]
      /\ signals' \in Seq(Signal) /\ Len(signals) \in Nat /\ Len(more) \in Nat
  BY ConcatProperties
<1>2. DOMAIN signals = 1..Len(signals) /\ DOMAIN more = 1..Len(more)
      /\ DOMAIN signals' = 1..Len(signals')
  BY <1>1
<1>3. ASSUME HasSignal("ShouldSend") PROVE HasSignal("ShouldSend")'
  <2>1. PICK i \in DOMAIN signals : signals[i] = "ShouldSend"
    BY <1>3 DEF HasSignal
  <2>2. i \in DOMAIN signals' /\ signals'[i] = "ShouldSend"
    BY <1>1, <1>2, <2>1
  <2> QED
    BY <2>2 DEF HasSignal
<1>4. ASSUME NEW i \in DOMAIN more, more[i] = "ShouldSend" PROVE HasSignal("ShouldSend")'
  <2>1. Len(signals) + i \in DOMAIN signals' /\ signals'[Len(signals) + i] = "ShouldSend"
    BY <1>1, <1>2, <1>4
  <2> QED
    BY <2>1 DEF HasSignal
<1> QED
  BY <1>3, <1>4

\* After signal_should_send the channel holds a ShouldSend.
LEMMA ShouldSendIsSignalled ==
  ASSUME signals \in Seq(Signal), SignalShouldSend
  PROVE  HasSignal("ShouldSend")'
<1> DEFINE more == <<"ShouldSend">>
<1>1. more \in Seq(Signal) /\ 1 \in DOMAIN more /\ more[1] = "ShouldSend"
  BY DEF Signal
<1>2. signals' = signals \o more
  BY AppendIsConcat DEF SignalShouldSend, Signal
<1> HIDE DEF more
<1> QED
  BY <1>1, <1>2, SignalStays

\* The invariant, for the steps of which it is not obvious.
CoordinationInv == NoLostWakeup /\ DeadlineHasTimer

\* Steps outside the handler: they either leave the coordination as it is, or are one of
\* four.
QuietStep ==
  \/ UNCHANGED coordination
  \/ \E time \in Nat : SignalShouldSendBy(time)
  \/ SignalShouldSend /\ UNCHANGED <<should_send_by, timers>>
  \/ AbortLoop

\* A step that is quiet for the coordination and does not move the handler into the wait.
LEMMA QuietStepKeeps ==
  ASSUME TypeOK, CoordinationInv, QuietStep, pc' = "recv" => pc = "recv"
  PROVE  CoordinationInv'
<1> USE DEF CoordinationInv
<1>1. signals \in Seq(Signal) /\ CoordinationTypes
  BY DEF TypeOK, CoordinationTypes
<1>2. CASE UNCHANGED coordination
  BY <1>2 DEF coordination, NoLostWakeup, DeadlineHasTimer, HasSignal
<1>3. ASSUME NEW time \in Nat, SignalShouldSendBy(time) PROVE CoordinationInv'
  <2>1. CASE UNCHANGED coordination
    BY <1>2, <2>1
  <2>2. CASE should_send_by' = NoTime /\ SignalShouldSend
    BY <1>1, <2>2, ShouldSendIsSignalled DEF NoLostWakeup, DeadlineHasTimer
  <2>3. CASE /\ should_send_by' = time /\ timers' = timers \cup {time}
             /\ UNCHANGED <<should_send, signals>>
    BY <2>3 DEF NoLostWakeup, DeadlineHasTimer, HasSignal
  <2> QED
    BY <1>3, <2>1, <2>2, <2>3 DEF SignalShouldSendBy, SpawnTimer
<1>4. CASE SignalShouldSend /\ UNCHANGED <<should_send_by, timers>>
  BY <1>1, <1>4, ShouldSendIsSignalled DEF NoLostWakeup, DeadlineHasTimer
<1>5. CASE AbortLoop
  <2> DEFINE more == <<"InvocationDone">>
  <2>1. more \in Seq(Signal)
    BY DEF Signal
  <2>2. signals' = signals \o more
    BY <1>1, <1>5, AppendIsConcat DEF AbortLoop, Signal
  <2> HIDE DEF more
  <2>3. HasSignal("ShouldSend") => HasSignal("ShouldSend")'
    BY <1>1, <2>1, <2>2, SignalStays
  <2> QED
    BY <1>5, <2>3 DEF AbortLoop, NoLostWakeup, DeadlineHasTimer
<1> QED
  BY <1>2, <1>3, <1>4, <1>5 DEF QuietStep

\* In the steps of the other actors the handler stays where it is.
LEMMA OthersAreQuiet ==
  ASSUME TypeOK, Receive \/ (ProcessingStep /\ ~FinishProcessing) \/ Tick \/ SendEnds
  PROVE  QuietStep /\ (pc' = "recv" => pc = "recv")
<1> USE DEF QuietStep
<1>1. now \in Nat
  BY DEF TypeOK
<1>2. CASE Receive
  <2>1. ASSUME NEW events \in Seq(Event), NEW age \in 0..(now + ReportingDelay),
               HandleIncomingTelemetry(events, age)
        PROVE  QuietStep /\ UNCHANGED pc
    <3>1. now + ReportingDelay - age \in Nat
      BY <1>1, ServiceAssumption
    <3> QED
      BY <2>1, <3>1 DEF HandleIncomingTelemetry, handler
  <2>2. ASSUME SignalAfterDelay PROVE QuietStep
    BY <1>1, <2>2, ServiceAssumption DEF SignalAfterDelay
  <2>3. ASSUME NEW spans \in Seq(Span), HandleOtlpSpans(spans)
        PROVE  QuietStep /\ UNCHANGED pc
    BY <2>2, <2>3 DEF HandleOtlpSpans, SpansForQueuedInvoke, SpansForNextInvoke,
       SpansForRunningInvoke, handler
  <2>4. ASSUME NEW m \in Nat, HandleOtlpMetrics(m) PROVE QuietStep /\ UNCHANGED pc
    BY <2>2, <2>4 DEF HandleOtlpMetrics, handler
  <2>5. ASSUME NEW r \in Requests, StartInvoke(r) PROVE QuietStep /\ pc' # "recv"
    BY <2>5 DEF StartInvoke
  <2>6. CASE StartShutdown
    BY <2>6 DEF StartShutdown
  <2> QED
    BY <1>2, <2>1, <2>3, <2>4, <2>5, <2>6 DEF Receive
<1>3. CASE ProcessingStep /\ ~FinishProcessing
  <2>1. UNCHANGED pc
    BY <1>3 DEF ProcessingStep, TakeInvokeEvent, RejectInvokeEvent, HandleInitStart,
       BufferInitEvent, FinishInit, ProcessEvent, RejectEvent, ReplayInitEvent, ReplayEnds,
       DegradeEvent, DegradeEnds, handler
  <2>2. UNCHANGED coordination \/ AbortLoop
    BY <1>3 DEF ProcessingStep, TakeInvokeEvent, RejectInvokeEvent, HandleInitStart,
       BufferInitEvent, FinishInit, ProcessEvent, RejectEvent, ReplayInitEvent, ReplayEnds,
       DegradeEvent, DegradeEnds
  <2> QED
    BY <2>1, <2>2
<1>4. CASE Tick \/ SendEnds
  BY <1>4 DEF Tick, SendEnds, handler
<1> QED
  BY <1>2, <1>3, <1>4

\* The end of the processing of a batch signals in the order the handler relies on.
LEMMA FinishKeeps ==
  ASSUME TypeOK, CoordinationInv, FinishProcessing
  PROVE  CoordinationInv'
<1> USE DEF CoordinationInv
<1>1. signals \in Seq(Signal) /\ UNCHANGED <<pc, should_send_by, timers>>
  BY DEF TypeOK, CoordinationTypes, FinishProcessing, handler
<1>2. CASE UNCHANGED <<should_send, signals>>
  BY <1>1, <1>2 DEF NoLostWakeup, DeadlineHasTimer, HasSignal
<1>3. CASE should_send' = TRUE /\ signals' = signals \o <<"ShouldSend", "InvocationDone">>
  <2> DEFINE more == <<"ShouldSend", "InvocationDone">>
  <2>1. more \in Seq(Signal) /\ 1 \in DOMAIN more /\ more[1] = "ShouldSend"
    BY DEF Signal
  <2>2. signals' = signals \o more
    BY <1>3
  <2> HIDE DEF more
  <2>3. HasSignal("ShouldSend")'
    BY <1>1, <2>1, <2>2, SignalStays
  <2> QED
    BY <1>1, <2>3 DEF NoLostWakeup, DeadlineHasTimer
<1>4. CASE signals' = Append(signals, "InvocationDone") /\ UNCHANGED should_send
  <2> DEFINE more == <<"InvocationDone">>
  <2>1. more \in Seq(Signal)
    BY DEF Signal
  <2>2. signals' = signals \o more
    BY <1>1, <1>4, AppendIsConcat DEF Signal
  <2> HIDE DEF more
  <2>3. HasSignal("ShouldSend") => HasSignal("ShouldSend")'
    BY <1>1, <2>1, <2>2, SignalStays
  <2> QED
    BY <1>1, <1>4, <2>3 DEF NoLostWakeup, DeadlineHasTimer
<1> QED
  BY <1>2, <1>3, <1>4 DEF FinishProcessing, DoneSignals

\* A timer that is the one of the deadline finds it due.
LEMMA TimerKeeps ==
  ASSUME TypeOK, CoordinationInv, NEW t \in timers, TimerFires(t)
  PROVE  CoordinationInv'
<1> USE DEF CoordinationInv
<1>1. signals \in Seq(Signal) /\ should_send_by \in Nat \cup {NoTime} /\ UNCHANGED pc
      /\ t \in Nat /\ now \in Nat
  BY DEF TypeOK, CoordinationTypes, TimerFires, handler
<1>2. CASE ShouldSendByNow
  <2>1. should_send_by' = NoTime /\ SignalShouldSend
    BY <1>2 DEF TimerFires, ServeDeadline
  <2> QED
    BY <1>1, <2>1, ShouldSendIsSignalled DEF NoLostWakeup, DeadlineHasTimer
<1>3. CASE ~ShouldSendByNow
  <2>1. UNCHANGED <<should_send_by, should_send, signals>> /\ timers' = timers \ {t} /\ t <= now
    BY <1>3 DEF TimerFires, ServeDeadline
  <2>2. should_send_by # t
    BY <1>1, <1>3, <2>1, ServiceAssumption DEF ShouldSendByNow
  <2> QED
    BY <1>1, <2>1, <2>2 DEF NoLostWakeup, DeadlineHasTimer, HasSignal
<1> QED
  BY <1>2, <1>3

\* The handler takes a signal only to act on it, and looks at the flag before it waits.
LEMMA HandlerKeeps ==
  ASSUME TypeOK, CoordinationInv, HandlerStep
  PROVE  CoordinationInv'
<1> USE DEF CoordinationInv
<1>1. CASE CheckShouldSend
  <2>1. CASE should_send \/ ShouldSendByNow
    BY <1>1, <2>1 DEF CheckShouldSend, SendTelemetry, NoLostWakeup, DeadlineHasTimer
  <2>2. CASE ~(should_send \/ ShouldSendByNow)
    BY <1>1, <2>2 DEF CheckShouldSend, coordination, NoLostWakeup, DeadlineHasTimer
  <2> QED
    BY <2>1, <2>2
<1>2. CASE SendFlushed
  BY <1>2 DEF SendFlushed, SendTelemetry, NoLostWakeup, DeadlineHasTimer
<1>3. CASE DrainSignals \/ ReceiveSignal
  BY <1>3 DEF DrainSignals, ReceiveSignal, NoLostWakeup, DeadlineHasTimer
<1>4. CASE \/ ObtainFunctionContext \/ FailToObtainFunctionContext \/ EnqueueInvokeEvent
           \/ ForbidOtel \/ AwaitInFlightSends \/ AwaitTimesOut \/ PermitOtel
           \/ GraceElapses \/ FlushEnqueuedTelemetry \/ FinishShutdown
  <2>1. UNCHANGED coordination /\ pc' # "recv"
    BY <1>4 DEF ObtainFunctionContext, FailToObtainFunctionContext, EnqueueInvokeEvent,
       ForbidOtel, AwaitInFlightSends, AwaitTimesOut, PermitOtel, GraceElapses,
       FlushEnqueuedTelemetry, FinishShutdown
  <2> QED
    BY <2>1, QuietStepKeeps DEF QuietStep
<1> QED
  BY <1>1, <1>2, <1>3, <1>4 DEF HandlerStep

\* No wake-up is lost and no deadline is forgotten, with any number of timers and any
\* interleaving of the handlers.
THEOREM CoordinationCorrect == Spec => [](NoLostWakeup /\ DeadlineHasTimer)
<1>1. Init => CoordinationInv
  BY DEF Init, CoordinationInv, NoLostWakeup, DeadlineHasTimer
<1>2. TypeInv /\ CoordinationInv /\ [Next]_serviceVars => CoordinationInv'
  <2> SUFFICES ASSUME TypeOK, CoordinationInv, [Next]_serviceVars PROVE CoordinationInv'
    BY DEF TypeInv
  <2>1. CASE Receive \/ (ProcessingStep /\ ~FinishProcessing) \/ Tick \/ SendEnds
    BY <2>1, OthersAreQuiet, QuietStepKeeps
  <2>2. CASE FinishProcessing
    BY <2>2, FinishKeeps
  <2>3. CASE HandlerStep
    BY <2>3, HandlerKeeps
  <2>4. CASE \E t \in timers : TimerFires(t)
    BY <2>4, TimerKeeps
  <2>5. CASE UNCHANGED serviceVars
    <3>1. QuietStep /\ UNCHANGED pc
      BY <2>5 DEF serviceVars, QuietStep, handler
    <3> QED
      BY <3>1, QuietStepKeeps
  <2> QED
    BY <2>1, <2>2, <2>3, <2>4, <2>5 DEF Next
<1>3. CoordinationInv => NoLostWakeup /\ DeadlineHasTimer
  BY DEF CoordinationInv
<1> QED
  BY <1>1, <1>2, <1>3, InitTypes, TypeStep, PTL DEF Spec

=============================================================================
