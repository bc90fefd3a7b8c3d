-------------------------- MODULE InstanceProperties --------------------------
(***************************************************************************)
(* What the telemetry service must guarantee in a Lambda environment.      *)
(***************************************************************************)
EXTENDS LambdaInstance

Ids(events) == [i \in DOMAIN events |-> events[i].id]

IsFunctionLog(x) == x.kind = "Function"

FunctionLogs == {x \in Event \cup LogRecord : IsFunctionLog(x)}

\* The ids of the function logs in a sequence of events or of log records.
FunctionLogIds(xs) == Ids(FilterSeq(xs, FunctionLogs))

\* All log records made so far, in the order in which they are sent.
AllLogs == sent.logs \o output_buffers.logs

HeldLogs == IF invocation_state = NoInvocation THEN <<>> ELSE invocation_state.logs

AllFunctionSpans == sent.functionSpans \cup output_buffers.functionSpans

\* Handler steps between the end of an invocation and the request for the next event.
HandlerKnowsItIsDone == pc \in {"settle", "await", "finish"}

-----------------------------------------------------------------------------
(* Logs. *)

\* The service is a pipe: what it has sent, what it is about to send, the logs
\* that wait for a span, and the events that wait in one of the three buffers are
\* together, in this order, the function logs it received.  No log is lost,
\* duplicated or overtaken when an init is replayed, when events of a previous
\* instance are processed in degraded mode, when held logs are released, or when
\* telemetry arrives before its invoke event.  Up to the flush at shutdown.
LogsFlowInOrder ==
  LogMode = "Structured" /\ ~shutdown_flush_started =>
    FunctionLogIds(AllLogs) \o FunctionLogIds(HeldLogs) \o FunctionLogIds(pending_events)
      \o FunctionLogIds(half_processed_event_buffer) \o FunctionLogIds(telemetry_event_queue)
    = FunctionLogIds(SubSeq(stream, 1, delivered))

\* The same as an abstract specification, which also says what the flush at shutdown
\* may do: each step of the service is a step of LogPipe, or none, for its logs.
Pipe == INSTANCE LogPipe WITH
  Log <- Nat,
  received <- FunctionLogIds(SubSeq(stream, 1, delivered)),
  waiting <-
    IF shutdown_flush_started THEN FunctionLogIds(pending_events)
    ELSE FunctionLogIds(HeldLogs) \o FunctionLogIds(pending_events)
           \o FunctionLogIds(half_processed_event_buffer)
           \o FunctionLogIds(telemetry_event_queue),
  batch <- FunctionLogIds(output_buffers.logs),
  sent <- FunctionLogIds(sent.logs),
  closed <- shutdown_flush_started

\* The service implements the pipe (handle_incoming_telemetry, process_telemetry_events,
\* process_telemetry, process_in_degraded_mode, send_telemetry, flush_enqueued_telemetry).
LogsArePiped == Pipe!Spec

\* A log is attributed to the invocation that wrote it; what was written during
\* init goes to the first invocation.  The code pairs invoke events with telemetry
\* by order alone (process_telemetry_events), however late either comes.
LogsAttributedToOwnInvocation ==
  \A i \in DOMAIN AllLogs :
    LET log == AllLogs[i] IN
    log.inv # Degraded =>
      \/ stream[log.id].req = log.inv
      \/ stream[log.id].req = NoRequest /\ log.inv = 1

\* The platform logs keep their place among the function logs: within an
\* invocation all logs come in the order of the events, but for the start log,
\* which process_delayed_logs emits before the logs of the init phase.
LogsInOrderWithinInvocation ==
  \A i, j \in DOMAIN AllLogs :
    /\ i < j /\ AllLogs[i].inv = AllLogs[j].inv
    /\ AllLogs[i].kind # "PlatformStart"
    => AllLogs[i].id < AllLogs[j].id

\* Only what precedes the init of this instance is processed in degraded mode:
\* the buffered init events of the attempt that succeeded never are.
OnlyLeftoversDegraded ==
  ~shutdown_flush_started =>
    \A i \in DOMAIN AllLogs :
      AllLogs[i].inv = Degraded =>
        \E j \in DOMAIN stream : j > AllLogs[i].id /\ stream[j].kind = "PlatformInitStart"

\* "Emitting logs is delayed until after the invocation span is received from the
\* instrumentation code" (process_telemetry): once the early invocation span of the
\* invocation is there, none of its logs was correlated with the context span.
EarlySpanCorrelatesAllLogs ==
  TracingMode = "OtelInstrumentation" /\ invocation_state # NoInvocation
    /\ HasCaptured(invocation_state, "CxEarlyInvocation")
  => \A i \in DOMAIN AllLogs :
       AllLogs[i].inv = invocation_state.req /\ IsFunctionLog(AllLogs[i])
         => AllLogs[i].span # "Context"

-----------------------------------------------------------------------------
(* Spans. *)

\* A span set aside as trigger or invocation span was made by the invocation it
\* is used for: handle_otlp_spans guesses the invocation from what it has seen.
SpansCapturedByOwnInvocation ==
  SendAfterInvocation /\ invocation_state # NoInvocation =>
    \A s \in invocation_state.captured : s.req = invocation_state.req

WaitingSpans ==
  ToSet(function_spans_buffer)
    \cup (UNION {ToSet(invoke_event_queue[i].spans) : i \in DOMAIN invoke_event_queue})
    \cup (IF invocation_state # NoInvocation /\ ~Has(invocation_state, "PlatformRuntimeDone")
          THEN invocation_state.captured ELSE {})

Superseded(s) ==
  \E t \in AllFunctionSpans :
    t.req = s.req /\ <<s.category, t.category>> \in
      {<<"CxEarlyTrigger", "CxTrigger">>, <<"CxEarlyInvocation", "CxInvocation">>}

\* A span of a sampled invocation is waiting, or it was put in a batch, or it is an
\* early span whose final version was.  Spans that were set aside are not forgotten.
SpansNotForgotten ==
  SendAfterInvocation /\ TracingMode = "OtelInstrumentation" =>
    \A s \in ToSet(spans_sent) :
      s.req \in SampledRequests /\ s.category # "CxWarmup" =>
        s \in WaitingSpans \/ s \in AllFunctionSpans \/ Superseded(s)

\* No span goes out in two batches, and the count compared with
\* span_sending_threshold is the number of spans in the buffer.
SpansSentOnce ==
  /\ output_buffers.functionSpansCount = Cardinality(output_buffers.functionSpans)
  /\ sent.functionSpansCount = Cardinality(sent.functionSpans)
  /\ sent.functionSpans \cap output_buffers.functionSpans = {}

-----------------------------------------------------------------------------
(* Pairing the handler with the invocations. *)

\* With the strategies that report after the invocation, the extension asks for the
\* next event only once the function returned: no signal of an earlier invocation
\* ends the wait ("TODO consider adding request id", Signal::InvocationDone).
ReadyOnlyAfterRuntimeDone ==
  SendAfterInvocation /\ HandlerKnowsItIsDone => phase = "over" /\ handling = current

\* ... and no InvocationDone is left for the next invocation.
NoStaleInvocationDone ==
  SendAfterInvocation /\ pc \in {"ready", "context", "enqueue"} => ~HasSignal("InvocationDone")

\* What reporting after the invocation is for: when the handler stops waiting, all
\* that was written before the function returned is in a batch.
AllSentBeforeReady ==
  SendAfterInvocation /\ LogMode = "Structured" /\ HandlerKnowsItIsDone =>
    \A i \in DOMAIN stream :
      /\ IsFunctionLog(stream[i])
      /\ \E j \in DOMAIN stream :
           j > i /\ stream[j].kind = "PlatformRuntimeDone" /\ stream[j].req = current
      => \E k \in DOMAIN sent.logs : sent.logs[k].id = i

\* Nothing that reached the service so far fails: the timestamp of each event delivered can
\* be converted, and the ARN of each function invoked parses.
NothingFailed ==
  /\ \A i \in 1..delivered : stream[i].ok
  /\ \A r \in 1..current : r \notin UnparsableArns

\* With the strategies that send after a delay, logs and the metrics of the function do
\* not wait in the output buffers unless a send is due, or a deadline for one is set:
\* whatever another send or a timer did to the deadline since they arrived.  This holds
\* until something fails, and no longer: an error leaves the events behind it in the
\* queue, and the next invoke event may put them into the buffers after the send they
\* were delivered for ("Maybe the state should be cleared", handle_telemetry); and a
\* delivery whose oldest event has a bad timestamp sets no deadline
\* (signal_should_send_after_delay_from_event).
BufferedDataIsScheduled ==
  NothingFailed /\ SendAfterDelay /\ MutexFree
    /\ (output_buffers.logs # <<>> \/ output_buffers.functionMetrics # {})
  => should_send \/ should_send_by # NoTime

-----------------------------------------------------------------------------
(* Metrics. *)

ReportLogs == {i \in DOMAIN AllLogs : AllLogs[i].kind = "PlatformReport"}

\* The platform metrics count each report exactly when its log is made, also one that
\* is processed in degraded mode: batches do not disagree about an invocation.
ReportsCounted ==
  PlatformMetricsMode = "PlatformReport" /\ PlatformLogEnabled("PlatformReport") =>
    /\ metrics_state = {AllLogs[i].id : i \in ReportLogs}
    /\ Cardinality(metrics_state) = Cardinality(ReportLogs)

-----------------------------------------------------------------------------
(* A claim of the source that does not hold. *)

\* "We proceed to processing remaining telemetry in degraded mode"
\* (handle_shutdown_event): once the flush is over, the function logs that were
\* received before it have been sent.
FlushSendsRemainingLogs ==
  pc \in {"awaitLast", "done"} =>
    FunctionLogIds(HeldLogs) \o FunctionLogIds(half_processed_event_buffer) = <<>>

-----------------------------------------------------------------------------
(* Liveness. *)

\* The tasks of the extension make progress: tokio polls every task that is ready, its
\* mutex and its channel serve those who wait in the order they came.
ServiceFairness ==
  /\ WF_vars(ProcessingStep /\ UNCHANGED platformVars)
  /\ WF_vars(HandlerStep /\ UNCHANGED platformVars)
  /\ WF_vars(\E t \in timers : TimerFires(t) /\ UNCHANGED platformVars)

\* The platform delivers the telemetry it recorded, and a function has a time limit.
PlatformFairness == WF_vars(DeliverTelemetry) /\ WF_vars(FunctionEnds)

FairInstanceSpec == InstanceSpec /\ ServiceFairness /\ PlatformFairness

\* The clock goes on, but the function need not return and the platform may keep
\* its telemetry.
ClockFairSpec == InstanceSpec /\ ServiceFairness /\ WF_vars(AdvanceClock)

\* "Letting the lambda proceed" (handle_telemetry): each invoke event is answered,
\* whatever arrives in whatever order, a telemetry event that cannot be processed, a
\* function ARN that does not parse, and sends that take too long included.
HandlerReturns == pc = "context" ~> pc \in {"ready", "done"}

\* Reporting during the invocation: while the function runs and the handler waits for its
\* end, logs are sent once their deadline has come, even if nothing else ever happens.
\* (MaxTime bounds the clock: a later deadline does not come.  An event that cannot be
\* processed ends the wait of the handler before the function does.)
LogsSentDuringInvocation ==
  phase = "running" /\ pc = "recv" /\ output_buffers.logs # <<>> ~>
    \/ output_buffers.logs = <<>>
    \/ phase # "running"
    \/ ~NothingFailed
    \/ should_send_by # NoTime /\ should_send_by > MaxTime

=============================================================================
