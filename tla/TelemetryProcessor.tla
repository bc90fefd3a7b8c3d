------------------------- MODULE TelemetryProcessor -------------------------
(***************************************************************************)
(* What one telemetry event, or one batch of spans sent by the function,   *)
(* does to the state of the invocation it is attributed to and to the      *)
(* output buffers: telemetry/processor/telemetry_processor.rs, with the    *)
(* parts of telemetry/mod.rs and span_processor.rs it calls.               *)
(*                                                                         *)
(* The operators are pure.  They take and return a record p with the three *)
(* things process_telemetry mutates:                                       *)
(*    p.inv      the InvocationProcessingState                             *)
(*    p.out      the OutputBuffers                                         *)
(*    p.metrics  the ids of the events counted by the platform metrics     *)
(***************************************************************************)
EXTENDS Naturals, Sequences, FiniteSets

CONSTANTS
  Requests,             \* ids of the invocations of the Lambda function
  NoRequest,            \* the request of an event that belongs to no invocation
  Degraded,             \* what logs and spans made without an invocation refer to
  SampledRequests,      \* requests whose spans the sampling mode keeps
  TracingMode, LogMode, PlatformLogSet, PlatformMetricsMode

ASSUME ProcessorAssumption ==
  /\ NoRequest \notin Requests
  /\ Degraded \notin Requests
  /\ SampledRequests \subseteq Requests
  /\ TracingMode \in {"Disabled", "TelemetryApi", "OtelInstrumentation"}
  /\ LogMode \in {"Disabled", "Structured"}
  /\ PlatformLogSet \subseteq {"PlatformStart", "PlatformRuntimeDone", "PlatformReport"}
  /\ PlatformMetricsMode \in {"Disabled", "PlatformReport", "PlatformV2"}

-----------------------------------------------------------------------------
(* Inputs. *)

\* "EpsagonTrace" is a Function event whose text carries an Epsagon trace;
\* "Other" stands for the five record types the processor ignores.
EventKinds ==
  {"Function", "EpsagonTrace", "PlatformInitStart", "PlatformInitRuntimeDone",
   "PlatformInitReport", "PlatformStart", "PlatformRuntimeDone",
   "PlatformReport", "Other"}

\* id is the position of the event in what the platform produced.  For a
\* function log, req is the invocation that wrote it: the code never sees it.
\* ok is FALSE when the event's timestamp cannot be converted.
Event == [kind : EventKinds, req : Requests \cup {NoRequest}, id : Nat, ok : BOOLEAN]

\* The spans the processor sets aside, and the ones it does not.
InvocationSpans == {"CxInvocation", "CxEarlyInvocation", "GenericInvocation"}
CapturedCategories == InvocationSpans \cup {"CxTrigger", "CxEarlyTrigger"}
SpanCategorization == CapturedCategories \cup {"CxWarmup", "Other"}

\* req is the invocation that made the span: the code never sees it.
Span == [category : SpanCategorization, req : Requests, id : Nat]

-----------------------------------------------------------------------------
(* Outputs. *)

SpanRefs == InvocationSpans \cup {"Init", "Context", "Degraded"}
LogRecord == [kind : EventKinds, id : Nat, inv : Requests \cup {Degraded}, span : SpanRefs]
PlatformSpan == [kind : {"init", "invocation", "context"}, inv : Requests \cup {Degraded}]

OutputBuffers ==
  [logs : Seq(LogRecord), spans : Seq(PlatformSpan),
   functionSpans : SUBSET Span, functionSpansCount : Nat,
   functionMetrics : SUBSET Nat, epsagonTraces : Seq(Nat)]

EmptyBuffers ==
  [logs |-> <<>>, spans |-> <<>>, functionSpans |-> {}, functionSpansCount |-> 0,
   functionMetrics |-> {}, epsagonTraces |-> <<>>]

\* What two batches, or all batches up to one and the next, contain together.
Merge(a, b) ==
  [logs |-> a.logs \o b.logs, spans |-> a.spans \o b.spans,
   functionSpans |-> a.functionSpans \cup b.functionSpans,
   functionSpansCount |-> a.functionSpansCount + b.functionSpansCount,
   functionMetrics |-> a.functionMetrics \cup b.functionMetrics,
   epsagonTraces |-> a.epsagonTraces \o b.epsagonTraces]

\* add_function_scope_spans
AddFunctionSpans(out, spans) ==
  [out EXCEPT !.functionSpans = @ \cup spans,
              !.functionSpansCount = @ + Cardinality(spans)]

-----------------------------------------------------------------------------
(* The state kept for the invocation whose telemetry is being processed.   *)
(* data holds the platform events seen so far (init_start_data ...         *)
(* report_data), captured the spans set aside by tracing_state.            *)

InvocationProcessingState ==
  [req : Requests, delaying_logs : BOOLEAN, logs : Seq(Event),
   data : SUBSET Event, captured : {S \in SUBSET Span : IsFiniteSet(S)}]

\* Mutant of NewInvocationState: logs do not wait for the invocation span.
UndelayedInvocationState(req) ==
  [req |-> req, delaying_logs |-> FALSE, logs |-> <<>>, data |-> {}, captured |-> {}]

NewInvocationState(req) ==
  [req |-> req, delaying_logs |-> TracingMode = "OtelInstrumentation",
   logs |-> <<>>, data |-> {}, captured |-> {}]

Has(inv, kind) == \E d \in inv.data : d.kind = kind

\* A later event of the same kind replaces the earlier one.
RecordData(inv, e) ==
  [inv EXCEPT !.data = {d \in @ : d.kind # e.kind} \cup {e}]

HasCaptured(inv, category) == \E s \in inv.captured : s.category = category

ShouldProduceSpans(inv) == inv.req \in SampledRequests

\* current_span_id: the span a log made now is correlated with.
CurrentSpan(inv) ==
  IF Has(inv, "PlatformInitStart") /\ ~Has(inv, "PlatformInitReport") THEN "Init"
  ELSE IF HasCaptured(inv, "CxInvocation") THEN "CxInvocation"
  ELSE IF HasCaptured(inv, "CxEarlyInvocation") THEN "CxEarlyInvocation"
  ELSE IF HasCaptured(inv, "GenericInvocation") THEN "GenericInvocation"
  ELSE "Context"

-----------------------------------------------------------------------------
(* Logs. *)

MakeLog(inv, e) ==
  [kind |-> e.kind, id |-> e.id, inv |-> inv.req, span |-> CurrentSpan(inv)]

EmitLogs(p, logs) == [p EXCEPT !.out.logs = @ \o logs]

PlatformLogEnabled(kind) == LogMode = "Structured" /\ kind \in PlatformLogSet

\* make_platform_*_log, when the configuration asks for it
EmitPlatformLog(p, e) ==
  IF PlatformLogEnabled(e.kind) THEN EmitLogs(p, <<MakeLog(p.inv, e)>>) ELSE p

\* Mutant of EmitHeldLogs: the logs are cloned instead of taken.
EmitClonedLogs(p) == EmitLogs(p, [i \in 1..Len(p.inv.logs) |-> MakeLog(p.inv, p.inv.logs[i])])

\* The function logs set aside in state.logs, emptied by take().
EmitHeldLogs(p) ==
  [EmitLogs(p, [i \in 1..Len(p.inv.logs) |-> MakeLog(p.inv, p.inv.logs[i])])
     EXCEPT !.inv.logs = <<>>]

StartLogs(inv) ==
  IF Has(inv, "PlatformStart") /\ "PlatformStart" \in PlatformLogSet
  THEN <<MakeLog(inv, CHOOSE d \in inv.data : d.kind = "PlatformStart")>>
  ELSE <<>>

\* process_delayed_logs, and the reset of delaying_logs that precedes it
ReleaseDelayedLogs(p) ==
  LET q == [p EXCEPT !.inv.delaying_logs = FALSE]
  IN  EmitHeldLogs(EmitLogs(q, StartLogs(q.inv)))

-----------------------------------------------------------------------------
(* Platform spans. *)

InitSeen(inv) ==
  \A k \in {"PlatformInitStart", "PlatformInitRuntimeDone", "PlatformInitReport"} : Has(inv, k)

SpanIf(cond, kind, owner) == IF cond THEN <<[kind |-> kind, inv |-> owner]>> ELSE <<>>

\* make_spans_after_invocation_in_otel_mode and make_spans_after_invocation
SpansAfterInvocation(inv) ==
  SpanIf(InitSeen(inv), "init", inv.req) \o
  SpanIf(TracingMode = "TelemetryApi" /\ Has(inv, "PlatformStart")
           /\ Has(inv, "PlatformRuntimeDone"), "invocation", inv.req)

SpansAfterReport(inv) ==
  SpanIf(\A k \in {"PlatformStart", "PlatformRuntimeDone", "PlatformReport"} : Has(inv, k),
         "context", inv.req)

\* Mutant of TriggerAndInvocationSpans: only the final spans are emitted.
FinalSpans(inv) ==
  {s \in inv.captured : s.category \in {"CxTrigger", "CxInvocation", "GenericInvocation"}}

\* emit_trigger_and_invocation_spans: an early span is emitted only when its
\* final version did not arrive; a generic invocation span always is.
TriggerAndInvocationSpans(inv) ==
  {s \in inv.captured :
     \/ s.category \in {"CxTrigger", "CxInvocation", "GenericInvocation"}
     \/ s.category = "CxEarlyTrigger" /\ ~HasCaptured(inv, "CxTrigger")
     \/ s.category = "CxEarlyInvocation" /\ ~HasCaptured(inv, "CxInvocation")}

-----------------------------------------------------------------------------
(* process_telemetry: one operator per arm of its match. *)

Processing(inv, out, metrics) == [inv |-> inv, out |-> out, metrics |-> metrics]

Record(p, e) == [p EXCEPT !.inv = RecordData(@, e)]

CountInMetrics(p, e, modes) ==
  IF PlatformMetricsMode \in modes THEN [p EXCEPT !.metrics = @ \cup {e.id}] ELSE p

OnFunctionLog(p, e) ==
  IF LogMode # "Structured" THEN p
  ELSE IF e.kind = "EpsagonTrace" THEN [p EXCEPT !.out.epsagonTraces = Append(@, e.id)]
  ELSE IF p.inv.delaying_logs THEN [p EXCEPT !.inv.logs = Append(@, e)]
  ELSE EmitLogs(p, <<MakeLog(p.inv, e)>>)

OnInitReport(p, e) == Record(CountInMetrics(p, e, {"PlatformV2"}), e)

OnStart(p, e) == Record(IF p.inv.delaying_logs THEN p ELSE EmitPlatformLog(p, e), e)

\* The runtime is done: no longer wait for the invocation span.
OnRuntimeDone(p, e) ==
  LET released == IF LogMode = "Structured" /\ p.inv.delaying_logs
                  THEN ReleaseDelayedLogs(p) ELSE p
      q == Record(CountInMetrics(EmitPlatformLog(released, e), e, {"PlatformV2"}), e)
      out == IF TracingMode = "OtelInstrumentation"
             THEN AddFunctionSpans(q.out, TriggerAndInvocationSpans(q.inv)) ELSE q.out
  IN  IF ShouldProduceSpans(q.inv) /\ TracingMode # "Disabled"
      THEN [q EXCEPT !.out = [out EXCEPT !.spans = @ \o SpansAfterInvocation(q.inv)]]
      ELSE q

\* Also emits the logs written after the runtime was done.
OnReport(p, e) ==
  LET flushed == IF LogMode = "Structured" THEN EmitHeldLogs(p) ELSE p
      q == Record(CountInMetrics(EmitPlatformLog(flushed, e), e,
                                 {"PlatformReport", "PlatformV2"}), e)
  IN  IF ShouldProduceSpans(q.inv) /\ TracingMode = "TelemetryApi"
      THEN [q EXCEPT !.out.spans = @ \o SpansAfterReport(q.inv)]
      ELSE q

ProcessTelemetry(p, e) ==
  CASE e.kind \in {"Function", "EpsagonTrace"}                      -> OnFunctionLog(p, e)
    [] e.kind \in {"PlatformInitStart", "PlatformInitRuntimeDone"} -> Record(p, e)
    [] e.kind = "PlatformInitReport"                               -> OnInitReport(p, e)
    [] e.kind = "PlatformStart"                                    -> OnStart(p, e)
    [] e.kind = "PlatformRuntimeDone"                              -> OnRuntimeDone(p, e)
    [] e.kind = "PlatformReport"                                   -> OnReport(p, e)
    [] e.kind = "Other"                                            -> p

-----------------------------------------------------------------------------
(* process_telemetry_in_degraded_mode: no invocation is known.  All that   *)
(* the DegradedProcessingState adds is whether the runtime finished its    *)
(* init, initDone.                                                         *)

DegradedLog(e) == [kind |-> e.kind, id |-> e.id, inv |-> Degraded, span |-> "Degraded"]

DegradedLogs(e) ==
  IF (e.kind = "Function" /\ LogMode = "Structured") \/ PlatformLogEnabled(e.kind)
  THEN <<DegradedLog(e)>> ELSE <<>>

ProcessDegraded(out, initDone, e) ==
  [out EXCEPT
     !.logs = @ \o DegradedLogs(e),
     !.spans = @ \o SpanIf(e.kind = "PlatformInitReport" /\ initDone
                             /\ TracingMode # "Disabled", "init", Degraded),
     !.epsagonTraces = IF e.kind = "EpsagonTrace" /\ LogMode = "Structured"
                       THEN Append(@, e.id) ELSE @]

\* Mutant of DegradedMetrics: what is processed in degraded mode is not counted.
DegradedMetricsOff(metrics, e) == metrics

\* In degraded mode only a report is counted, by PlatformV2 too.
DegradedMetrics(metrics, e) ==
  IF e.kind = "PlatformReport" /\ PlatformMetricsMode # "Disabled"
  THEN metrics \cup {e.id} ELSE metrics

-----------------------------------------------------------------------------
(* process_function_spans: spans is a sequence of spans in arrival order.  *)

\* try_capture_span keeps the first span of each category.
NewlyCaptured(captured, spans) ==
  {spans[i] : i \in {j \in DOMAIN spans :
     /\ spans[j].category \in CapturedCategories
     /\ \A s \in captured : s.category # spans[j].category
     /\ \A k \in 1..(j - 1) : spans[k].category # spans[j].category}}

\* Mutant of PassedOn: a span that was set aside is passed on as well.
PassedOnAll(captured, spans) ==
  {s \in {spans[i] : i \in DOMAIN spans} : s.category # "CxWarmup"}

PassedOn(captured, spans) ==
  {s \in {spans[i] : i \in DOMAIN spans} : s.category # "CxWarmup"}
    \ NewlyCaptured(captured, spans)

\* The logs that waited for the early invocation span are released when it is there.
ProcessFunctionSpans(p, spans) ==
  LET inv == [p.inv EXCEPT !.captured = @ \cup NewlyCaptured(@, spans)]
      out == IF ShouldProduceSpans(inv) /\ TracingMode = "OtelInstrumentation"
             THEN AddFunctionSpans(p.out, PassedOn(p.inv.captured, spans)) ELSE p.out
      q == [p EXCEPT !.inv = inv, !.out = out]
  IN  IF LogMode = "Structured" /\ inv.delaying_logs /\ HasCaptured(inv, "CxEarlyInvocation")
      THEN ReleaseDelayedLogs(q) ELSE q

=============================================================================
