--------------------------- MODULE TelemetryService ---------------------------
(***************************************************************************)
(* telemetry/telemetry_service.rs: the service that merges invoke events,  *)
(* telemetry events and the function's own spans and metrics, and decides  *)
(* when to send what it has.                                               *)
(*                                                                         *)
(* Concurrency.  The invoke and shutdown handler is one task: the runtime  *)
(* client asks for the next event only after the handler returned.  The    *)
(* telemetry and OTLP handlers, the timers and the send operations run     *)
(* beside it.  All but the send operations share `state`, a mutex.  An     *)
(* action is one critical section, or one step of the handler between two  *)
(* awaits.  The loops of process_telemetry_events run inside a critical    *)
(* section: one action per iteration, and until the loop ends `section`    *)
(* is not "free" and no action that takes the mutex is enabled.            *)
(*                                                                         *)
(* The module is open: what arrives is any event, span or metric.          *)
(* LambdaInstance restricts it to what the Lambda platform does.           *)
(***************************************************************************)
EXTENDS TelemetryProcessor

CONSTANTS
  ReportingStrategy,
  ReportingDelay,        \* reporting_delay, in ticks of the clock
  SpanSendingThreshold,  \* span_sending_threshold
  OtelMetricsMode,
  UnparsableArns,        \* requests whose function ARN does not parse
  NoInvocation, NoEvent, NoTime

ASSUME ServiceAssumption ==
  /\ ReportingStrategy \in
       {"LowOverhead", "ReportAfterInvocation", "ReportDuringAndAfterInvocation"}
  /\ ReportingDelay \in Nat
  /\ SpanSendingThreshold \in Nat
  /\ OtelMetricsMode \in {"Disabled", "Direct", "Processed"}
  /\ UnparsableArns \subseteq Requests
  /\ NoInvocation \notin InvocationProcessingState
  /\ NoEvent \notin Event
  /\ NoTime \notin Nat

LowOverhead == ReportingStrategy = "LowOverhead"
SendAfterInvocation == ~LowOverhead
SendAfterDelay == ReportingStrategy # "ReportAfterInvocation"

VARIABLES
  \* TelemetryServiceState, guarded by the mutex
  invoke_event_queue, telemetry_event_queue, function_spans_buffer,
  half_processed_event_buffer, init_handling_started, init_handled,
  shutdown_flush_started, invocation_state, metrics_state, output_buffers,
  should_send_by, should_send, received_first_invocation,
  should_not_receive_otel_now,
  \* the critical section that is running and its local variables
  section,          \* "free", or the loop that runs: "events", "replay", "degrade", "flush"
  pending_events,   \* the events the inner loop has still to process
  held_event,       \* the PlatformInitStart that waits for the "degrade" loop
  invocation_done,  \* process_telemetry_events has processed a PlatformRuntimeDone
  init_done,        \* degraded state: a PlatformInitRuntimeDone was seen
  \* the signal channel and the timers
  signals, timers, now,
  \* the handler of invoke and shutdown events
  pc, handling,
  \* send operations: what all batches handed to the sender so far contain, how
  \* many of them the handler awaits, and how many nobody awaits any more
  sent, in_flight, detached

inputs == <<invoke_event_queue, telemetry_event_queue, function_spans_buffer>>
initFlags == <<init_handling_started, init_handled>>
processing == <<invocation_state, metrics_state, output_buffers>>
loop == <<section, pending_events, held_event, invocation_done, init_done>>
coordination == <<should_send_by, should_send, signals, timers>>
flags == <<received_first_invocation, should_not_receive_otel_now, shutdown_flush_started>>
handler == <<pc, handling>>
sends == <<sent, in_flight, detached>>

serviceVars ==
  <<inputs, half_processed_event_buffer, initFlags, processing, loop,
    coordination, flags, handler, sends, now>>

InvokeEventDataWithSpans == [req : Requests, spans : Seq(Span)]
Sections == {"free", "events", "replay", "degrade", "flush"}
Signal == {"ShouldSend", "InvocationDone"}
HandlerSteps ==
  {"ready", "context", "drain", "enqueue", "check", "recv", "settle", "await", "finish",
   "grace", "flush", "flushing", "awaitLast", "done"}

InputTypes ==
  /\ invoke_event_queue \in Seq(InvokeEventDataWithSpans)
  /\ telemetry_event_queue \in Seq(Event)
  /\ function_spans_buffer \in Seq(Span)

ProcessingTypes ==
  /\ invocation_state \in InvocationProcessingState \cup {NoInvocation}
  /\ metrics_state \in SUBSET Nat
  /\ output_buffers \in OutputBuffers

LoopTypes ==
  /\ section \in Sections
  /\ pending_events \in Seq(Event)
  /\ held_event \in Event \cup {NoEvent}
  /\ invocation_done \in BOOLEAN
  /\ init_done \in BOOLEAN

CoordinationTypes ==
  /\ should_send_by \in Nat \cup {NoTime}
  /\ should_send \in BOOLEAN
  /\ signals \in Seq(Signal)
  /\ timers \in SUBSET Nat

FlagTypes ==
  /\ received_first_invocation \in BOOLEAN
  /\ should_not_receive_otel_now \in BOOLEAN
  /\ shutdown_flush_started \in BOOLEAN

InitFlagTypes == init_handling_started \in BOOLEAN /\ init_handled \in BOOLEAN

HandlerTypes == pc \in HandlerSteps /\ handling \in Requests \cup {NoRequest}

SendTypes == sent \in OutputBuffers /\ in_flight \in Nat /\ detached \in Nat

\* The type invariant, one conjunct per group of variables.
TypeOK ==
  /\ InputTypes
  /\ half_processed_event_buffer \in Seq(Event)
  /\ InitFlagTypes /\ ProcessingTypes /\ LoopTypes /\ CoordinationTypes
  /\ FlagTypes /\ HandlerTypes /\ SendTypes
  /\ now \in Nat

\* TelemetryService::new
Init ==
  /\ invoke_event_queue = <<>> /\ telemetry_event_queue = <<>>
  /\ function_spans_buffer = <<>> /\ half_processed_event_buffer = <<>>
  /\ init_handling_started = FALSE /\ init_handled = FALSE
  /\ shutdown_flush_started = FALSE
  /\ invocation_state = NoInvocation
  /\ metrics_state = {} /\ output_buffers = EmptyBuffers
  /\ should_send_by = NoTime /\ should_send = FALSE
  /\ received_first_invocation = FALSE /\ should_not_receive_otel_now = FALSE
  /\ section = "free" /\ pending_events = <<>> /\ held_event = NoEvent
  /\ invocation_done = FALSE /\ init_done = FALSE
  /\ signals = <<>> /\ timers = {} /\ now = 0
  /\ pc = "ready" /\ handling = NoRequest
  /\ sent = EmptyBuffers /\ in_flight = 0 /\ detached = 0

MutexFree == section = "free"

-----------------------------------------------------------------------------
(* Coordination: the should_send flag, the signal channel, the deadline.   *)

\* Mutant of SignalShouldSend: the flag is set, but nobody is woken up.
SignalShouldSendSilently ==
  /\ should_send' = TRUE
  /\ UNCHANGED signals

\* signal_should_send
SignalShouldSend ==
  /\ should_send' = TRUE
  /\ signals' = Append(signals, "ShouldSend")

\* should_send_by_now
ShouldSendByNow == should_send_by # NoTime /\ should_send_by <= now

\* Mutant of SpawnTimer: a timer that already runs is taken to be enough.
SpawnFirstTimer(time) == timers' = IF timers = {} THEN {time} ELSE timers

\* The task that signal_should_send_by spawns, identified with the instant it waits for.
SpawnTimer(time) == timers' = timers \cup {time}

\* signal_should_send_by: only an earlier deadline replaces the one in place.
SignalShouldSendBy(time) ==
  \/ /\ should_send_by # NoTime /\ should_send_by < time
     /\ UNCHANGED coordination
  \/ /\ should_send_by # NoTime => time <= should_send_by
     /\ time <= now
     /\ should_send_by' = NoTime
     /\ SignalShouldSend
     /\ UNCHANGED timers
  \/ /\ should_send_by # NoTime => time <= should_send_by
     /\ now < time
     /\ should_send_by' = time
     /\ SpawnTimer(time)
     /\ UNCHANGED <<should_send, signals>>

\* signal_should_send_after_delay, for spans and metrics
SignalAfterDelay ==
  IF SendAfterDelay THEN SignalShouldSendBy(now + ReportingDelay) ELSE UNCHANGED coordination

\* Mutant of ServeDeadline: the reset is outside of the condition.
ForgetDeadline ==
  /\ should_send_by' = NoTime
  /\ IF ShouldSendByNow THEN SignalShouldSend ELSE UNCHANGED <<should_send, signals>>

\* What a timer does when it fires.  A deadline it does not find due was served by
\* another send, or is a later one with a timer of its own.
ServeDeadline ==
  IF ShouldSendByNow
  THEN should_send_by' = NoTime /\ SignalShouldSend
  ELSE UNCHANGED <<should_send_by, should_send, signals>>

TimerFires(t) ==
  /\ MutexFree
  /\ t \in timers /\ t <= now
  /\ timers' = timers \ {t}
  /\ ServeDeadline
  /\ UNCHANGED <<inputs, half_processed_event_buffer, initFlags, processing, loop,
                 flags, handler, sends, now>>

\* The monotonic clock.
Tick ==
  /\ now' = now + 1
  /\ UNCHANGED <<inputs, half_processed_event_buffer, initFlags, processing, loop,
                 coordination, flags, handler, sends>>

-----------------------------------------------------------------------------
(* Sending. *)

\* send_telemetry: everything in the output buffers becomes one batch, sent by
\* a task of its own that the supervisor of the current handler tracks.
SendTelemetry ==
  /\ should_send' = FALSE
  /\ should_send_by' = NoTime
  /\ sent' = Merge(sent, output_buffers)
  /\ in_flight' = in_flight + 1
  /\ output_buffers' = EmptyBuffers
  /\ UNCHANGED <<signals, timers, detached>>

\* Mutant of SendEnds: the operation is taken off the count of the current handler,
\* also when it was started by an earlier one.
SendEndsUncounted ==
  /\ in_flight + detached > 0
  /\ in_flight' = in_flight - 1
  /\ UNCHANGED <<inputs, half_processed_event_buffer, initFlags, processing, loop,
                 coordination, flags, handler, sent, detached, now>>

\* A spawned send operation ends, delivered or not.
SendEnds ==
  /\ \/ in_flight > 0 /\ in_flight' = in_flight - 1 /\ UNCHANGED detached
     \/ detached > 0 /\ detached' = detached - 1 /\ UNCHANGED in_flight
  /\ UNCHANGED <<inputs, half_processed_event_buffer, initFlags, processing, loop,
                 coordination, flags, handler, sent, now>>

-----------------------------------------------------------------------------
(* process_telemetry_events, one action per iteration of its loops. *)

\* handle_telemetry and try_processing_telemetry up to the loop.  After the
\* shutdown flush nothing is processed any more.
EnterLoop ==
  /\ section' = IF shutdown_flush_started THEN "free" ELSE "events"
  /\ UNCHANGED <<pending_events, held_event, invocation_done, init_done>>

\* The locals go away with the critical section.
LeaveLoop ==
  /\ section' = "free"
  /\ pending_events' = <<>> /\ held_event' = NoEvent
  /\ invocation_done' = FALSE /\ init_done' = FALSE

\* Mutant of AbortLoop: the error is only logged.
AbortLoopSilently == LeaveLoop /\ UNCHANGED coordination

\* An error ends all loops; handle_telemetry lets the invocation proceed.
AbortLoop ==
  /\ LeaveLoop
  /\ signals' = Append(signals, "InvocationDone")
  /\ UNCHANGED <<should_send_by, should_send, timers>>

ProcessingState == Processing(invocation_state, output_buffers, metrics_state)

SetProcessing(p) ==
  /\ invocation_state' = p.inv
  /\ output_buffers' = p.out
  /\ metrics_state' = p.metrics

\* No invocation is being processed: take the next one, and the spans that
\* arrived before it or while it waited.
TakeInvokeEvent ==
  /\ section = "events"
  /\ invocation_state = NoInvocation /\ invoke_event_queue # <<>>
  /\ Head(invoke_event_queue).req \notin UnparsableArns
  /\ LET invoke == Head(invoke_event_queue)
         new == Processing(NewInvocationState(invoke.req), output_buffers, metrics_state)
     IN  SetProcessing(
           ProcessFunctionSpans(ProcessFunctionSpans(new, function_spans_buffer), invoke.spans))
  /\ invoke_event_queue' = Tail(invoke_event_queue)
  /\ function_spans_buffer' = <<>>
  /\ UNCHANGED <<telemetry_event_queue, half_processed_event_buffer, initFlags, loop,
                 coordination, flags, handler, sends, now>>

\* InvocationContext::try_from fails.
RejectInvokeEvent ==
  /\ section = "events"
  /\ invocation_state = NoInvocation /\ invoke_event_queue # <<>>
  /\ Head(invoke_event_queue).req \in UnparsableArns
  /\ invoke_event_queue' = Tail(invoke_event_queue)
  /\ AbortLoop
  /\ UNCHANGED <<telemetry_event_queue, function_spans_buffer, half_processed_event_buffer,
                 initFlags, processing, flags, handler, sends, now>>

HasNextEvent ==
  section = "events" /\ invocation_state # NoInvocation /\ telemetry_event_queue # <<>>

NextEvent == Head(telemetry_event_queue)

\* The PlatformStart of the invocation being processed ends the init phase.
EndsInit(e) ==
  /\ init_handling_started
  /\ e.kind = "PlatformStart" /\ e.req = invocation_state.req

\* Mutant of HandleInitStart: what was buffered is thrown away.
DropUnfinishedInit ==
  /\ HasNextEvent /\ ~init_handled
  /\ NextEvent.kind = "PlatformInitStart"
  /\ telemetry_event_queue' = Tail(telemetry_event_queue)
  /\ init_handling_started' = TRUE
  /\ half_processed_event_buffer' = <<NextEvent>>
  /\ UNCHANGED <<invoke_event_queue, function_spans_buffer, init_handled, processing, loop,
                 coordination, flags, handler, sends, now>>

\* A PlatformInitStart: what was buffered belongs to an earlier instance, or to
\* an earlier attempt, and is processed in degraded mode first.
HandleInitStart ==
  /\ HasNextEvent /\ ~init_handled
  /\ NextEvent.kind = "PlatformInitStart"
  /\ telemetry_event_queue' = Tail(telemetry_event_queue)
  /\ IF half_processed_event_buffer = <<>>
     THEN /\ init_handling_started' = TRUE
          /\ half_processed_event_buffer' = <<NextEvent>>
          /\ UNCHANGED loop
     ELSE /\ section' = "degrade"
          /\ pending_events' = half_processed_event_buffer
          /\ held_event' = NextEvent
          /\ half_processed_event_buffer' = <<>>
          /\ UNCHANGED <<init_handling_started, invocation_done, init_done>>
  /\ UNCHANGED <<invoke_event_queue, function_spans_buffer, init_handled, processing,
                 coordination, flags, handler, sends, now>>

\* Any other event that arrives before the init phase ended is set aside.
BufferInitEvent ==
  /\ HasNextEvent /\ ~init_handled
  /\ NextEvent.kind # "PlatformInitStart" /\ ~EndsInit(NextEvent)
  /\ telemetry_event_queue' = Tail(telemetry_event_queue)
  /\ half_processed_event_buffer' = Append(half_processed_event_buffer, NextEvent)
  /\ UNCHANGED <<invoke_event_queue, function_spans_buffer, initFlags, processing, loop,
                 coordination, flags, handler, sends, now>>

\* Mutant of FinishInit: the init events are processed in degraded mode.
FinishInitInDegradedMode ==
  /\ HasNextEvent /\ ~init_handled
  /\ EndsInit(NextEvent)
  /\ init_handled' = TRUE
  /\ section' = "degrade"
  /\ pending_events' = half_processed_event_buffer
  /\ held_event' = NextEvent
  /\ half_processed_event_buffer' = <<>>
  /\ UNCHANGED <<inputs, init_handling_started, processing, invocation_done,
                 init_done, coordination, flags, handler, sends, now>>

\* The event stays at the front of the queue while the init events are replayed.
FinishInit ==
  /\ HasNextEvent /\ ~init_handled
  /\ EndsInit(NextEvent)
  /\ init_handled' = TRUE
  /\ section' = "replay"
  /\ pending_events' = half_processed_event_buffer
  /\ half_processed_event_buffer' = <<>>
  /\ UNCHANGED <<inputs, init_handling_started, processing, held_event, invocation_done,
                 init_done, coordination, flags, handler, sends, now>>

\* Mutants of IsInvocationDone: a PlatformStart, or a PlatformReport, counts too.
StartIsDone(e) == e.kind \in {"PlatformStart", "PlatformRuntimeDone"}
ReportIsDone(e) == e.kind \in {"PlatformRuntimeDone", "PlatformReport"}

\* The event that ends the wait of the handler.
IsInvocationDone(e) == e.kind = "PlatformRuntimeDone"

\* Mutant of EndsInvocation: the state is gone before the report comes.
RuntimeDoneEndsInvocation(inv) == Has(inv, "PlatformRuntimeDone")

\* The event after which the state of the invocation is dropped.
EndsInvocation(inv) == Has(inv, "PlatformReport")

ProcessEvent ==
  /\ HasNextEvent /\ init_handled
  /\ NextEvent.ok
  /\ telemetry_event_queue' = Tail(telemetry_event_queue)
  /\ LET p == ProcessTelemetry(ProcessingState, NextEvent)
     IN  SetProcessing(IF EndsInvocation(p.inv)
                       THEN [p EXCEPT !.inv = NoInvocation] ELSE p)
  /\ invocation_done' = (invocation_done \/ IsInvocationDone(NextEvent))
  /\ UNCHANGED <<invoke_event_queue, function_spans_buffer, half_processed_event_buffer,
                 initFlags, section, pending_events, held_event, init_done,
                 coordination, flags, handler, sends, now>>

RejectEvent ==
  /\ HasNextEvent /\ init_handled
  /\ ~NextEvent.ok
  /\ telemetry_event_queue' = Tail(telemetry_event_queue)
  /\ AbortLoop
  /\ UNCHANGED <<invoke_event_queue, function_spans_buffer, half_processed_event_buffer,
                 initFlags, processing, flags, handler, sends, now>>

\* The buffered init events, processed under the invocation that just started.
ReplayInitEvent ==
  /\ section = "replay" /\ pending_events # <<>>
  /\ IF Head(pending_events).ok
     THEN /\ SetProcessing(ProcessTelemetry(ProcessingState, Head(pending_events)))
          /\ pending_events' = Tail(pending_events)
          /\ UNCHANGED <<section, held_event, invocation_done, init_done, coordination>>
     ELSE AbortLoop /\ UNCHANGED processing
  /\ UNCHANGED <<inputs, half_processed_event_buffer, initFlags, flags, handler, sends, now>>

ReplayEnds ==
  /\ section = "replay" /\ pending_events = <<>>
  /\ section' = "events"
  /\ UNCHANGED <<inputs, half_processed_event_buffer, initFlags, processing,
                 pending_events, held_event, invocation_done, init_done,
                 coordination, flags, handler, sends, now>>

\* process_in_degraded_mode, one event
DegradeEvent ==
  /\ section \in {"degrade", "flush"} /\ pending_events # <<>>
  /\ LET e == Head(pending_events) IN
     \/ /\ e.ok
        /\ output_buffers' = ProcessDegraded(output_buffers, init_done, e)
        /\ metrics_state' = DegradedMetrics(metrics_state, e)
        /\ init_done' = (init_done \/ e.kind = "PlatformInitRuntimeDone")
        /\ pending_events' = Tail(pending_events)
        /\ UNCHANGED <<section, held_event, invocation_done, invocation_state, coordination>>
     \/ /\ ~e.ok /\ section = "degrade"
        /\ AbortLoop
        /\ UNCHANGED processing
     \/ /\ ~e.ok /\ section = "flush"  \* logged; what is left is dropped
        /\ pending_events' = <<>>
        /\ UNCHANGED <<section, held_event, invocation_done, init_done, processing, coordination>>
  /\ UNCHANGED <<inputs, half_processed_event_buffer, initFlags, flags, handler, sends, now>>

\* Back in process_telemetry_events with the PlatformInitStart that started it.
DegradeEnds ==
  /\ section = "degrade" /\ pending_events = <<>>
  /\ init_handling_started' = TRUE
  /\ half_processed_event_buffer' = <<held_event>>
  /\ section' = "events"
  /\ held_event' = NoEvent
  /\ init_done' = FALSE
  /\ UNCHANGED <<inputs, init_handled, processing, pending_events, invocation_done,
                 coordination, flags, handler, sends, now>>

\* Mutant of DoneSignals: the handler is released before it is told to send.
DoneBeforeSend == <<"InvocationDone", "ShouldSend">>

\* What try_processing_telemetry and handle_telemetry signal for a finished invocation.
DoneSignals == <<"ShouldSend", "InvocationDone">>

\* Nothing left to process: the end of try_processing_telemetry and handle_telemetry.
FinishProcessing ==
  /\ section = "events"
  /\ IF invocation_state = NoInvocation
     THEN invoke_event_queue = <<>> ELSE telemetry_event_queue = <<>>
  /\ LeaveLoop
  /\ IF ~invocation_done THEN UNCHANGED <<should_send, signals>>
     ELSE IF SendAfterInvocation
     THEN /\ should_send' = TRUE
          /\ signals' = signals \o DoneSignals
     ELSE /\ signals' = Append(signals, "InvocationDone")
          /\ UNCHANGED should_send
  /\ UNCHANGED <<inputs, half_processed_event_buffer, initFlags, processing,
                 should_send_by, timers, flags, handler, sends, now>>

ProcessingStep ==
  \/ TakeInvokeEvent \/ RejectInvokeEvent
  \/ HandleInitStart \/ BufferInitEvent \/ FinishInit
  \/ ProcessEvent \/ RejectEvent
  \/ ReplayInitEvent \/ ReplayEnds
  \/ DegradeEvent \/ DegradeEnds
  \/ FinishProcessing

-----------------------------------------------------------------------------
(* The telemetry and OTLP handlers. *)

\* Mutant of EnqueueEvents: what arrives last is processed first.
EnqueueEventsInFront(events) == telemetry_event_queue' = events \o telemetry_event_queue

EnqueueEvents(events) == telemetry_event_queue' = telemetry_event_queue \o events

\* handle_incoming_telemetry; age is the age of the oldest event of the request.
HandleIncomingTelemetry(events, age) ==
  /\ MutexFree
  /\ IF SendAfterDelay /\ events # <<>> /\ Head(events).ok
     THEN SignalShouldSendBy(now + ReportingDelay - age)
     ELSE UNCHANGED coordination
  /\ EnqueueEvents(events)
  /\ EnterLoop
  /\ UNCHANGED <<invoke_event_queue, function_spans_buffer, half_processed_event_buffer,
                 initFlags, processing, flags, handler, sends, now>>

\* Mutant of InvocationRuns: the spans of the next invocation are not expected yet.
InvocationUnfinished == invocation_state # NoInvocation

\* The invocation whose events are processed is not known to be over.
InvocationRuns ==
  invocation_state # NoInvocation /\ ~Has(invocation_state, "PlatformRuntimeDone")

\* handle_otlp_spans: the spans belong to the latest invoke event that waits.
SpansForQueuedInvoke(spans) ==
  /\ invoke_event_queue # <<>>
  /\ invoke_event_queue' =
       [invoke_event_queue EXCEPT ![Len(invoke_event_queue)].spans = @ \o spans]
  /\ UNCHANGED <<function_spans_buffer, processing, coordination>>

\* ... or, when no invocation runs, to one whose invoke event is still to come
SpansForNextInvoke(spans) ==
  /\ invoke_event_queue = <<>>
  /\ ~InvocationRuns
  /\ function_spans_buffer' = function_spans_buffer \o spans
  /\ UNCHANGED <<invoke_event_queue, processing, coordination>>

\* ... or to the invocation that is running; too many of them are sent early.
SpansForRunningInvoke(spans) ==
  /\ invoke_event_queue = <<>>
  /\ InvocationRuns
  /\ SetProcessing(ProcessFunctionSpans(ProcessingState, spans))
  /\ IF output_buffers'.functionSpansCount >= SpanSendingThreshold
     THEN SignalShouldSend /\ UNCHANGED <<should_send_by, timers>>
     ELSE SignalAfterDelay
  /\ UNCHANGED <<invoke_event_queue, function_spans_buffer>>

HandleOtlpSpans(spans) ==
  /\ MutexFree
  /\ \/ SpansForQueuedInvoke(spans)
     \/ SpansForNextInvoke(spans)
     \/ SpansForRunningInvoke(spans)
  /\ UNCHANGED <<telemetry_event_queue, half_processed_event_buffer, initFlags, loop,
                 flags, handler, sends, now>>

\* handle_otlp_metrics and process_function_metrics: the metric is kept, by
\* itself or in the accumulator, until the next batch.
HandleOtlpMetrics(m) ==
  /\ MutexFree
  /\ SignalAfterDelay
  /\ output_buffers' = IF OtelMetricsMode = "Disabled" THEN output_buffers
                       ELSE [output_buffers EXCEPT !.functionMetrics = @ \cup {m}]
  /\ UNCHANGED <<inputs, half_processed_event_buffer, initFlags, invocation_state,
                 metrics_state, loop, flags, handler, sends, now>>

-----------------------------------------------------------------------------
(* handle_invoke_event: one action between two awaits.                     *)

\* The runtime client calls the handler with the next invoke event.
StartInvoke(r) ==
  /\ pc = "ready"
  /\ pc' = "context"
  /\ handling' = r
  /\ UNCHANGED <<inputs, half_processed_event_buffer, initFlags, processing, loop,
                 coordination, flags, sends, now>>

\* on_invoke_event: with a cached context the ARN is not parsed.
ObtainFunctionContext ==
  /\ pc = "context"
  /\ handling \notin UnparsableArns \/ received_first_invocation
  /\ pc' = IF LowOverhead THEN "drain" ELSE "enqueue"
  /\ UNCHANGED <<inputs, half_processed_event_buffer, initFlags, processing, loop,
                 coordination, flags, handling, sends, now>>

\* The handler returns the error and the invoke event is gone.
FailToObtainFunctionContext ==
  /\ pc = "context"
  /\ handling \in UnparsableArns
  /\ pc' = "ready"
  /\ UNCHANGED <<inputs, half_processed_event_buffer, initFlags, processing, loop,
                 coordination, flags, handling, sends, now>>

DrainSignals ==
  /\ pc = "drain"
  /\ signals' = <<>>
  /\ pc' = "enqueue"
  /\ UNCHANGED <<inputs, half_processed_event_buffer, initFlags, processing, loop,
                 should_send_by, should_send, timers, flags, handling, sends, now>>

\* Telemetry that waited for this invocation is processed at once.
EnqueueInvokeEvent ==
  /\ pc = "enqueue"
  /\ MutexFree
  /\ received_first_invocation' = TRUE
  /\ invoke_event_queue' = Append(invoke_event_queue, [req |-> handling, spans |-> <<>>])
  /\ EnterLoop
  /\ pc' = "check"
  /\ UNCHANGED <<telemetry_event_queue, function_spans_buffer, half_processed_event_buffer,
                 initFlags, processing, coordination, should_not_receive_otel_now,
                 shutdown_flush_started, handling, sends, now>>

\* LowOverhead sends once, in parallel to the invocation; the other strategies
\* do it in a loop, until the invocation is done.
CheckShouldSend ==
  /\ pc = "check"
  /\ MutexFree
  /\ IF should_send \/ ShouldSendByNow
     THEN SendTelemetry
     ELSE UNCHANGED <<output_buffers, coordination, sends>>
  /\ pc' = IF LowOverhead THEN "await" ELSE "recv"
  /\ UNCHANGED <<inputs, half_processed_event_buffer, initFlags, invocation_state,
                 metrics_state, loop, flags, handling, now>>

ReceiveSignal ==
  /\ pc = "recv"
  /\ signals # <<>>
  /\ signals' = Tail(signals)
  /\ pc' = IF Head(signals) = "ShouldSend" THEN "check" ELSE "settle"
  /\ UNCHANGED <<inputs, half_processed_event_buffer, initFlags, processing, loop,
                 should_send_by, should_send, timers, flags, handling, sends, now>>

ForbidOtel ==
  /\ pc = "settle"
  /\ MutexFree
  /\ should_not_receive_otel_now' = TRUE
  /\ pc' = "await"
  /\ UNCHANGED <<inputs, half_processed_event_buffer, initFlags, processing, loop,
                 coordination, received_first_invocation, shutdown_flush_started,
                 handling, sends, now>>

AwaitInFlightSends ==
  /\ pc = "await"
  /\ in_flight = 0
  /\ pc' = IF LowOverhead THEN "ready" ELSE "finish"
  /\ UNCHANGED <<inputs, half_processed_event_buffer, initFlags, processing, loop,
                 coordination, flags, handling, sends, now>>

\* Five seconds passed: the send operations go on, but nobody awaits them.
AwaitTimesOut ==
  /\ pc = "await"
  /\ in_flight > 0
  /\ detached' = detached + in_flight
  /\ in_flight' = 0
  /\ pc' = IF LowOverhead THEN "ready" ELSE "finish"
  /\ UNCHANGED <<inputs, half_processed_event_buffer, initFlags, processing, loop,
                 coordination, flags, handling, sent, now>>

PermitOtel ==
  /\ pc = "finish"
  /\ MutexFree
  /\ should_not_receive_otel_now' = FALSE
  /\ pc' = "ready"
  /\ UNCHANGED <<inputs, half_processed_event_buffer, initFlags, processing, loop,
                 coordination, received_first_invocation, shutdown_flush_started,
                 handling, sends, now>>

-----------------------------------------------------------------------------
(* handle_shutdown_event *)

StartShutdown ==
  /\ pc = "ready"
  /\ MutexFree
  /\ pc' = IF LowOverhead \/ ~received_first_invocation THEN "grace" ELSE "flush"
  /\ UNCHANGED <<inputs, half_processed_event_buffer, initFlags, processing, loop,
                 coordination, flags, handling, sends, now>>

\* max_shutdown_flush_delay elapsed
GraceElapses ==
  /\ pc = "grace"
  /\ pc' = "flush"
  /\ UNCHANGED <<inputs, half_processed_event_buffer, initFlags, processing, loop,
                 coordination, flags, handling, sends, now>>

\* flush_enqueued_telemetry, up to its loop
FlushEnqueuedTelemetry ==
  /\ pc = "flush"
  /\ MutexFree
  /\ shutdown_flush_started' = TRUE
  /\ section' = "flush"
  /\ pending_events' = telemetry_event_queue
  /\ telemetry_event_queue' = <<>>
  /\ pc' = "flushing"
  /\ UNCHANGED <<invoke_event_queue, function_spans_buffer, half_processed_event_buffer,
                 initFlags, processing, held_event, invocation_done, init_done, coordination,
                 received_first_invocation, should_not_receive_otel_now, handling, sends, now>>

\* Still in the same critical section: send what there is.
SendFlushed ==
  /\ section = "flush" /\ pending_events = <<>>
  /\ LeaveLoop
  /\ SendTelemetry
  /\ pc' = "awaitLast"
  /\ UNCHANGED <<inputs, half_processed_event_buffer, initFlags, invocation_state,
                 metrics_state, flags, handling, now>>

\* The send operations ended, or all but 50 ms of the shutdown period is over.
FinishShutdown ==
  /\ pc = "awaitLast"
  /\ detached' = detached + in_flight
  /\ in_flight' = 0
  /\ pc' = "done"
  /\ UNCHANGED <<inputs, half_processed_event_buffer, initFlags, processing, loop,
                 coordination, flags, handling, sent, now>>

-----------------------------------------------------------------------------

HandlerStep ==
  \/ ObtainFunctionContext \/ FailToObtainFunctionContext
  \/ DrainSignals \/ EnqueueInvokeEvent
  \/ CheckShouldSend \/ ReceiveSignal
  \/ ForbidOtel \/ AwaitInFlightSends \/ AwaitTimesOut \/ PermitOtel
  \/ GraceElapses \/ FlushEnqueuedTelemetry \/ SendFlushed \/ FinishShutdown

Receive ==
  \/ \E events \in Seq(Event), age \in 0..(now + ReportingDelay) :
       HandleIncomingTelemetry(events, age)
  \/ \E spans \in Seq(Span) : HandleOtlpSpans(spans)
  \/ \E m \in Nat : HandleOtlpMetrics(m)
  \/ \E r \in Requests : StartInvoke(r)
  \/ StartShutdown

Next ==
  \/ Receive
  \/ ProcessingStep
  \/ HandlerStep
  \/ \E t \in timers : TimerFires(t)
  \/ SendEnds
  \/ Tick

Spec == Init /\ [][Next]_serviceVars

-----------------------------------------------------------------------------
(* Properties. *)

HasSignal(kind) == \E i \in DOMAIN signals : signals[i] = kind

\* The handler never sleeps through work: while it waits for a signal, a send
\* that is due (should_send) has a signal in the channel that will wake it.
\* This is why spurious wake-ups are "not a problem" (the comment in the loop of
\* handle_invoke_event), and missing ones would be.
NoLostWakeup == pc = "recv" /\ should_send => HasSignal("ShouldSend")

\* A deadline always has a timer that will look at it: signal_should_send_by may
\* skip spawning one, and a timer may give up, only when that does not leave the
\* deadline in place without any.
DeadlineHasTimer == should_send_by # NoTime => should_send_by \in timers

=============================================================================
