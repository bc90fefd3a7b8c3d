# A TLA+ model of the Lambda telemetry exporter

The repository is an AWS Lambda extension.  It runs beside a function in the function's
execution environment, collects the telemetry events of the platform (which carry the
function's logs) and the spans and metrics the function exports over OTLP, and sends all of it
to Coralogix.  What makes it hard is that its three sources are not synchronised with each
other, that the environment is frozen whenever the extension has nothing to answer, and that
several tasks share one state.  This directory holds TLA+ specifications of that code, model
checked with TLC, and proofs about them, checked with TLAPS.

All paths below are relative to the repository's `src/` directory (the Rust crate).

## 1. The system

### Components

| Component | Source | State | Operations |
|---|---|---|---|
| Telemetry service | `telemetry/telemetry_service.rs` | `TelemetryServiceState` under one mutex: three queues of inputs, the half-processed init, the invocation state, output buffers, `should_send`, `should_send_by`, flags; an unbounded channel of signals | handlers of invoke and shutdown events, telemetry, spans, metrics; timers; `process_telemetry_events` |
| Telemetry processing | `telemetry/processor/`, `telemetry/mod.rs` | `InvocationProcessingState`, `OutputBuffers` (owned by the service) | one function per kind of event, spans of the function, degraded mode |
| Sending supervisor | `telemetry/sending_supervisor.rs` | handles of the send operations in flight | `send`, `await_in_flight_sends` |
| Retrying senders | `coralogix/coralogix_sender.rs`, `coralogix/combined_telemetry_sender.rs`, `firehose/firehose_telemetry_sender.rs` | `to_retry`, one slot under a mutex | `send_telemetry` |
| OTel metrics accumulator | `telemetry/otel_metrics.rs` | per metric and attribute set: the last exported point and new points | `accumulate`, `export` |
| Platform metrics | `telemetry/processor/platform_metrics/` | counters, summaries, gauges, last report time | `update_metrics_with_*`, `make_metrics_report` |
| Function context | `telemetry/function_context.rs`, `function_tags_provider.rs` | a cache of the context with a validity period, under a mutex | `on_invoke_event`, `get_function_context_even_if_degraded` |
| Composite sender | `telemetry/telemetry_sender.rs` | none | routes the parts of a batch to the senders of their pillars or to the main one |
| Start-up | `main.rs`, `error_handling.rs` | the senders, listeners and tasks made so far | `start_telemetry_exporter`, `start_dummy_telemetry_exporter`, signals |
| Configuration | `config/` | none | parsing of environment variables, checks of modes and targets |
| Event receivers, OTLP servers | `lambda_event_receiver.rs`, `telemetry_event_receiver.rs`, `otlp_server/` | none | decode a request and call a handler of the service |
| Clients | `coralogix/*_sender.rs`, `firehose/firehose_sender.rs`, `api_key.rs` | connections | requests |

### How they interact

`main.rs` loads the configuration, builds a sender for each target in it, opens the sockets of the
OTLP servers and then starts, beside each other, the runtime client (invoke and shutdown events, one at a
time), the telemetry subscription and the OTLP servers.  They call the handlers of the service.  If
any of that fails, it starts a dummy extension instead, without which the function would not run.
The invoke handler puts the invoke event in a queue and then waits for signals: `ShouldSend`
makes it take the output buffers and hand them to the sending supervisor, `InvocationDone` ends
its wait.  Handlers of telemetry append events to a queue and run `process_telemetry_events`
under the mutex, which pairs invoke events with telemetry events, gives each to the processor,
and signals.  Spans and metrics go to the buffers at once, or wait for the invocation they
belong to.  Metrics of the platform are recorded by the processor and reported into each batch.
The supervisor spawns one task per batch; it passes the batch to the composite sender, which gives
each part to a sender, which also resends one batch that failed before.

### What is hard

* Telemetry comes late, in batches of any size, and before or after the invoke event it belongs
  to; the two streams are paired by order alone.
* A stream may begin with events of an instance that crashed, and an init may be started twice.
* Spans come at once, events late: the invocation of a span has to be guessed.
* Logs are held back until a span is there; spans are held back until an event is there.
* The wake-up of the handler is a flag under the mutex and a message in a channel; timers and
  sends race for the deadline of the next send.
* An event that cannot be processed ends the loop in the middle.
* The environment is frozen when the handler returned; shutdown gives little time.
* Send operations overlap and share one slot for a retry.
* Metric points are cut into reports at any place, and dated by events that come later or earlier.
* The configuration decides in one place what is emitted and in another where it can go; the start
  may fail at any step, and must still give an extension.
* The context of the function is cached, with failures to fetch its tags.

`PROJECT.json` lists these hazards one by one, at their lines, with the properties that are about
them.

### What makes each part correct

* service: every invoke event is answered, not before the function returned (when that is the
  strategy) and not because of an older invocation; no wake-up and no deadline is lost; no log is
  lost, duplicated, reordered or attributed to another invocation; leftovers are told apart;
* processing: spans are set aside for their own invocation, put out once and not forgotten;
  logs that were held back keep their place;
* senders: a batch is sent at most twice, and a failed one is not forgotten;
* accumulator: PromQL's `rate` over the exported points is right, and nothing is lost by reducing;
* platform metrics: `rate` is right, and a point tells what had happened by its time;
* start-up and configuration: an extension is always started, with open sockets or with none at
  all, and what an accepted configuration emits has exactly one target;
* function context: what an invocation gets is recent, and is not lost later.

## 2. Modules

```
TelemetryProcessor          what an event or a span does to the data
  TelemetryService          the service: all handlers, loops, signals, timers, sends
    LambdaInstance          an execution environment around the service
      InstanceProperties    what must hold in it; an instance of LogPipe
        MCInstance          its instances for TLC
LogPipe                     abstract: what the service promises about logs, and a theorem about it
TelemetryServiceProofs      about TelemetryProcessor and TelemetryService
  InstanceProofs            what processing makes of an event; the service in its environment; pairing
                            invoke events with telemetry; extends InstanceProperties too
    InvocationProofs        whose logs and spans are whose, and what waits to be sent
SendRetry -> MCRetry, SendRetryProofs
OtelMetrics -> MCOtelMetrics, OtelMetricsProofs
PlatformMetrics -> MCPlatformMetrics, PlatformMetricsProofs
AppConfig                   which environments are accepted, and what they say
FunctionContext             the cache of the function's context
  Exporter                  extends both: start of the process, senders, errors
    MCExporter, ExporterProofs
```

**TelemetryProcessor** has no variables.  `ProcessTelemetry(p, e)` is `process_telemetry`: it takes
the triple of what the function mutates (`Processing`: invocation state, output buffers, metrics)
to the triple after it; there is one operator per arm of the `match`.  `ProcessDegraded` is
`process_telemetry_in_degraded_mode` and `ProcessFunctionSpans` the processing of the function's spans.
A record of the platform is whether it was seen; a log is the event it comes from, the invocation
it is attributed to and which span it is correlated with; a span its category and its maker.

**TelemetryService** has one action per critical section of the mutex and one per step of the handler
between two awaits (`pc`).  Handlers of telemetry run a loop inside the critical section.
The loop is not one big step: `section` says which loop runs and each iteration is an action
(`TakeInvokeEvent`; `HandleInitStart`, `BufferInitEvent`, `FinishInit`, `ProcessEvent` or `RejectEvent`
for the next event; `ReplayInitEvent`; `DegradeEvent`; `FinishProcessing`); until it ends, no action that takes the mutex is enabled (`MutexFree`), while the
handler goes on where it does not need the mutex.  `signals` is the channel.  A timer is a pending
deadline in `timers`.  The supervisor is `in_flight`, the number of send operations that will be
waited for, and `detached`, those it no longer waits for; `sent` collects all batches.  The function context is
a step of the handler that may fail.  The module is open: what arrives is any event, span or
metric of any request.

**LambdaInstance** is the environment.  Nothing of it is code of the repository: init, invocations, logs,
spans, metrics, telemetry delivered late and in batches, leftovers of a crashed instance, restarts
of the init, bad timestamps (`CorruptEvents`), events that are lost (`LossyKinds`) and shutdown are modelled from what `main.rs`
subscribes to and from what the service expects.

**LogPipe** is the abstract specification of the service for logs: they wait, are put into a batch and are
sent, in order and once; at shutdown the pipe is closed and the oldest that wait may be given up.
`InstanceProperties!Pipe` is the refinement mapping: `waiting` is what a span holds back followed by
the three buffers of events, `batch` the logs in the output buffers, `closed` the flag of the flush.
`LogsArePiped == Pipe!Spec` says that each step of the service in its environment is a step of the pipe or none.

**SendRetry** is the scheme of the three senders: an operation takes the slot, sends two batches at the same
time and then writes the slot.  A request ends with an answer or a gRPC status; `HandleServiceError` and
`IsRetryable` decide what it means.  `overlapped` is a history variable.  The combined sender keeps its
whole batch when its request, one for all three pillars, fails with an error worth a retry.

**OtelMetrics** is the accumulator of one metric, of any kind, with several series.
`received`, `observed`, `exported` and `mixed` are history variables.  `Inflate` is what one turn of the loop of
`take_and_inflate_data_points` puts out, `InflatedPoints` the whole loop, as a recursive function of the
number of points taken.

**PlatformMetrics** has every counter, summary and gauge of both versions.  Events of the platform record
(`UpdateMetricsAfterReport` of the first, `UpdateMetricsWithRuntimeDone`, `UpdateMetricsWithReport` and
`PlatformInitReport` of the second), and `MakeMetricsReport`, at any time, exports.  A summary's sum
only changes with its count, so both are the count.  Which events exist is part of the module:
a crashed instance's report, an init, and invocations of all outcomes.

**AppConfig** is a set of operators over an environment, a function from the variables that are set to
their values: `Accepts(env)` is whether `AppConfig::load` succeeds, `Load(env)` what it returns.  Settings that do not decide
where telemetry goes (delays, thresholds, limits, what platform logs and metadata contain, sampling, attributes, the validity of tags, ALPN)
are left out, and with them the errors of parsing them: `Accepts` lets through all that the code does, and more.

**FunctionContext** has the cache and one action per way a handler gets a context.  A context is
whether it is degraded, whether it has tags and when these were true.

**Exporter** composes both: `Start` has one action per step of `start_telemetry_exporter` that may fail,
and `HandleStartError`; `Run` has the tasks and the events of the running extension as far as
they concern its context.  `SendTelemetry(batch)` is the composite sender, and `Emitted` what the
processor puts out in the modes of the configuration.

The operators called mutants in comments are variants of a definition with a plausible mistake.
They are not used by any specification: each run finds its property violated when the definition
is replaced by the variant, which shows that the property depends on it.  `PROJECT.json` lists
which variant belongs to which property.

## 3. Runs

| Run | Instance | What it shows |
|---|---|---|
| `report_during` | reporting during and after it; 1 request, 1 log, 1 metric, clock 0..1, events of age 0 and 1, one event that may have a bad timestamp | wake-ups, deadlines and timers fit together, after an error too; what is buffered is scheduled until an event fails; logs are sent in time |
| `low_overhead` | LowOverhead; 2 requests, telemetry arbitrarily late, 2 inits, possibly a leftover log, flush | the service implements `LogPipe` and attributes logs rightly |
| `restarts` | 1 request, two kinds of leftovers, 2 inits, 2 events that may be bad | what is processed in degraded mode, and that metrics count what is logged |
| `otel_spans` | reporting after the invocation, OTel instrumentation; a sampled and an unsampled request, 2 spans and 1 log each, 1 log in the init, all platform logs | spans and the logs that wait for them; the handler waits for exactly its own invocation, and what was written before the function returned is in a batch by then |
| `handler_returns` | 3 requests, one ARN that does not parse, one event of each request that may be bad, any report may be lost | every invoke event is answered |
| `retry` | 4 batches, one of them empty | retries of overlapping operations |
| `otel_metrics` | 2 series, 4 points, values 0 and 1, clock 0..5, gap 3, distance 2 | the exported series, however it is cut |
| `platform_metrics` | 2 invocations of any outcome, delays 1 and 2, gap 3, distance 2, memory 1 or 2 of 2, possibly a leftover report | both versions of the exported series, however they are cut |
| `startup` | over 4000 environments, clock 0..3, validity 1, fetches of up to 1 tick | start, routing, errors, the cached context |

Three further runs are about statements of the source that the code does not keep; TLC finds a
behaviour against each:

| Run | Statement | What happens |
|---|---|---|
| `flush` | `telemetry_service.rs:254` remaining telemetry is processed in degraded mode at shutdown | only the queue is: events of an unfinished init and logs that wait for a span are left |
| `init_error` | `telemetry_service.rs:427` an error lets the lambda proceed | an error while leftovers are processed loses the init: the handler of the next invocation waits for ever |
| `retry_overwritten` | `coralogix_sender.rs:95` "Will retry." | of two overlapping operations that fail, one batch is lost |

A further comment (`telemetry_service.rs:211`, there is always a `ShouldSend` before an
`InvocationDone`) does not hold after an error either; `AllSentBeforeReady` is therefore checked for
invocations whose events can be processed.

### Bounds

* Two requests let something of one invocation reach the next one, which is all that properties
  about attribution, stale signals and captured spans need; `handler_returns` has three, so that an
  invocation without an error can follow one that failed and precede another.
* One log per request and one in the init suffice for order and loss, because
  logs of different requests, of the init and of leftovers are compared with each other.
* `BatchSizes` are the sizes of deliveries that leave events behind; a delivery of all that is
  there is always possible.
* The clock is only bounded where a strategy has delays, and the delay is one tick.  With one tick a deadline is set and comes, what is
  a tick old is due at once, and a later deadline can be set while the timer of the first is still to fire.
* `CorruptEvents` are positions of the stream at which the timestamp of an event may be bad.  In `report_during` it is the fifth: with
  events before it and possibly others behind it, which an error leaves in the queue.  Without `NothingFailed`, TLC finds
  `BufferedDataIsScheduled` violated there.
* Retries: with three batches, two operations overlap while a third begins before or after; the
  empty batch is an operation without a request.
* Retried statuses: one that is worth a retry and one that is not; the theorem is for any set of them.
* Metrics: a gap is longer than 3 ticks, a distance 2 (35 s and 30 s in the code); six instants hold
  a gap between two points that are in one report or in two.
* Platform metrics: two invocations give an instrument a first point, a second one near it and one after a gap;
  the process starts at 10, so that times before its start can be told from underflow.
* Environments: all combinations of the three main targets, the key, the three targets of pillars and five
  switches of modes; for fixed targets, each other setting in each of its ways, wrong ones included.
* The context: a validity of one tick and a clock of three let an entry be fresh, expire and be renewed.
* Batches and series are symmetric.  Requests are not: they come in order.

### Fairness

`handler_returns` and `report_during` are about liveness.  Weak fairness of the loop, the handler and the timers
(`ServiceFairness`) is what tokio provides: it polls every task that was woken, and its mutex and its
channel serve in order.  `handler_returns` also needs that the platform
delivers telemetry and that the function ends (`PlatformFairness`): functions have a time limit.  Sends
need no fairness, as the handler waits for them under a time limit.  `startup` assumes weak fairness of
`Start`: `main` is one sequential task, and what it awaits is the binding of two local ports and, for a key in
AWS Secrets Manager, a call of the AWS SDK, which has time limits for connecting and retries a bounded number of times; the
code sets none of its own.  `MaxFetchTime` bounds the other such call, for the tags, in the same way.  `report_during` assumes that
the clock goes on (`ClockFairSpec`), but neither that telemetry is delivered nor that the function returns.

## 4. Proofs

All theorems hold for every value of the constants that satisfies the named assumptions
(`ProcessorAssumption`, `ServiceAssumption`, `InstanceAssumption`, `SendRetryAssumption`, `OtelMetricsAssumption`,
`PlatformMetricsAssumption`, `ContextAssumption`): any number of requests, any strategy, mode, delay and threshold.

**The open service** (TelemetryServiceProofs): whatever arrives in whatever order.

* `ProcessTelemetryType`, `ProcessFunctionSpansType`: processing keeps the types of
  the invocation state, the buffers and the metrics.  One lemma per helper.
* `TypeCorrect`: `Spec => []TypeOK`.  The inductive invariant is
  `TypeInv == TypeOK /\ LoopInv`: the local variables of a loop are only of the type the loop
  needs while it runs (there is an event to process, an init start is held), which is why `TypeOK`
  alone is not inductive.
* `CoordinationCorrect`: `Spec => [](NoLostWakeup /\ DeadlineHasTimer)`.  A pending
  `should_send` always has a signal in the channel or a check of the handler ahead, and a deadline always
  has a timer.  Most steps are quiet: they set neither flag nor deadline and remove neither signal
  nor timer (`QuietStepKeeps`); the others, the sends, the timers and the receiving of signals, are treated one by one.

**The service in its environment** (InstanceProofs): for any number of requests, logs, spans, restarts and leftovers,
and however telemetry is delayed and cut into batches.

* `InstanceImplementsService`: `InstanceSpec => Spec`.  Each step of the environment is an input of the open service, or
  leaves it alone.  `InstanceCoordination` takes the theorems about `Spec` over.
* `ServiceIsPipe`: `LogsArePiped`, the refinement of LogPipe, step by step, and `LogsInOrder`: `LogsFlowInOrder`.
  Their hypotheses are `PipeConditions`: logs are structured, events can be processed (`CorruptEvents = {}`), and neither
  logs nor the events the init is recognised by are lost.  Without them the statement is false of the code: the run
  `init_error` shows what an error does to the init, and a lost log is not sent.  The argument has three parts.
  The first part of the module says for every operator of the processor that the logs it puts out and those it still holds are
  those it was given, and the event, in order (`FlowsTelemetry`, `FlowsFunctionSpans`, `DegradedFlows`).  `InLine` says
  that what is pending, held, half processed and queued are events of the stream, each group in the order of the stream
  and each before the next.  `InitWaits` says that until the init phase has been handled its PlatformInitStart still waits, and
  with it what follows it; so the replay runs before any log of the invocation, and `HeldInv` says that logs are held for a span only
  while they are delayed, so that releasing them does not overtake.  `FlowInv` puts these together.
* That filtering a sequence distributes over concatenation is a statement about all sequences.  It is proved
  without an induction theorem, by a shortest counterexample (`LeastNumber`, `SequenceSplits`).

**The pairing of invoke events with telemetry** (InstanceProofs): the service pairs two streams by order alone, and what
it says of an invocation is right only if the pairing is.

* `AnswersAfterRuntimeDone`: `ReadyOnlyAfterRuntimeDone`, and `ChannelIsCleared`: `NoStaleInvocationDone`.  Together: the handler's
  wait is ended by the signal of its own invocation and by no other, for any number of requests.
* Their hypotheses are `PairingConditions`.  An event that is not `ok`, or an invoke event whose ARN does not parse, is dropped with an
  error, and a lost platform.report keeps the state of its invocation: in instances with one of these (bad timestamps, a second of three ARNs,
  `LossyKinds = {"PlatformReport"}`) TLC finds an answer before the function returned or a signal that is left.  The other
  events that may not be lost are those the argument counts on; without them a handler waits until the platform ends it, and TLC finds
  no wrong answer.  Restarts of the init, leftovers of a crashed instance, and batches of any size and lateness are all allowed.
* The invariant, `AnswerInv`, has these parts.  `PairedStream`: the stream has the events of the requests in order, each request's report
  before anything of the next.  `HandlerInv` and `QueueInv`: the handler is called with each request in turn and the queue holds
  them in that order, so that `Taken`, the number of invoke events taken, can be computed from the two.  `MarksWait`: of the events by which
  the service finds its way none is skipped.  `PairInv`: when an event is taken from the queue, what was seen before tells that it belongs to
  request `Taken`, or that the invocation state is to be exchanged; until the init was handled, it belongs to no request.
  `SignalInv`: the channel holds an InvocationDone only of the invocation the handler was called with, at most one, and not before that
  invocation's platform.runtimeDone was taken.

**The logs that are made** (InvocationProofs, on `TelemetryProcessed` of InstanceProofs): which records come of an event.
`TelemetryProcessed` says it for every event and state of an invocation: the start log if the init phase or a delay ends with it,
then the logs it releases, then its own, or it is held.  `RecordSteps` says what each step adds to the records: what it makes
of one event that is next in line, what is made in degraded mode, what a span releases, or nothing.

* `LeftoversAreDegraded`: `OnlyLeftoversDegraded`, and `ReportsAreCounted`: `ReportsCounted`.  They need no hypothesis: they hold whatever is lost,
  does not parse, restarts or comes late.  The invariant, `RecordInv`, says that a record was made of an event that
  precedes everything that is still ahead (`SourceInv`), so that an event is not made a log of twice; that before the shutdown a degraded record
  is followed in the stream by a PlatformInitStart (`DegradedInv`); and that the reports counted are the sources of the report logs (`ReportInv`).
* `LogsAreAttributed`: `LogsAttributedToOwnInvocation`, `LogsInOrderWithin`: `LogsInOrderWithinInvocation`, and `LogsAreCorrelated`:
  `EarlySpanCorrelatesAllLogs`, under `PairingConditions`.  They rest on `PairInv` (an event that is processed belongs to request `Taken`,
  or to the init) and on three invariants.  `OriginInv`: records and held logs are of the invocation they are attributed to.  `OrderInv`: records of an
  invocation are in order, logs are held only while they are delayed and until they are released no record of the invocation is made, and there
  is no record under a request whose invoke event was not taken.  `Correlated`: while logs are delayed the early
  span is not there; once they are not, it is, or the runtime is done; and with it no record of the invocation refers to the context span.

**The spans of the function** (InvocationProofs, under `PairingConditions`): `SpanSteps` classifies the steps by what they do to
spans: they export one, take an invoke event with the spans buffered so far, queue one, send a batch, or keep them all where they are.

* `SpansAreOwned`: `SpansCapturedByOwnInvocation`.  `handle_otlp_spans` is not told which invocation its spans are of; it guesses from the
  queue and the state.  `WhereSpansBelong` says that the guess is right, from the parts of `AnswerInv`.  `WaitingOwn` and `CapturedOwn` say it of
  each place spans wait in: the buffer is of the request after those whose events were taken, the queued events have their own, the state has its own.
* `SpansAreSentOnce`: `SpansSentOnce`.  The places are disjoint (`SpansApart`), an exported span is in none of them
  (`SpansMadeBefore`), and the counts of the batches are their sizes (`SpansCounted`).  A span set aside could go out twice only if the end of
  its runtime were processed twice; `DoneIsNew` says that it is not.
* `SpansAreNotForgotten`: `SpansNotForgotten`.  The state of an invocation, with the spans set aside, is dropped after the report; the
  platform reports after the runtime is done (`DoneFirst`), and that puts the spans out: each that is set aside, or its final
  version, since none is of a category that is left out then (`CapturedKinds`).

**What waits to be sent** (InvocationProofs).

* `BufferedDataWaitsForASend`: `BufferedDataIsScheduled`, not under `PairingConditions`: an environment may have bad events and ARNs, and only the loss of
  milestones and of the starts of inits is excluded.  The property speaks of the time until the first failure (`NothingFailed`); until then nothing that waits
  can fail (`OrderlyUntilFailure`), and `Orderly` is all that the lemmas about the pairing need for one step.  After an error it is false, and the source
  does not promise it (see the remarks in section 5).  `WorkIsScheduled` says that events
  which wait or are processed have a send due or a deadline, not only what is in the output buffers: the deadline is set when
  a batch is received, long before its logs are made.  A send clears the deadline, and the buffers it empties are not all there could be; but
  the handler sends only while nothing is processed, and then no event waits either (`QueueRunsDry`).  That the loop runs dry (`RunsDry`) is not enough:
  it also ends with events in the queue when it has no invocation for them, and the pairing excludes that the handler is in its loop then.
* `SentBeforeReady`: `AllSentBeforeReady`, under `PairingConditions` and where no function log is lost.  `SentInv` says that while an InvocationDone is in the channel, what is due is sent, or
  the flag is set and the handler is about to check it or has a ShouldSend ahead of the InvocationDone.  That a send then has all that is due follows from the
  pipe and the pairing together (`DueLogsAreMade`): the queue ran dry, the init is over since the runtime of a request is done, and no log is held since
  the end of the runtime ends the delay (`DelayEnds`), so that by `LogsFlowInOrder` the logs of all that was received are made.

**The other components.**

* `RetrySafety` (SendRetryProofs): a batch is resent by at most one operation, after its own
  ended without an answer or a refusal.  `RetryInv` adds that the batch in the slot was not resent yet, that a batch that
  is resent failed, and that a batch whose operation did not begin is nowhere; `RetryableIsNoRefusal` is the lemma about statuses.
* `OverlapIsKnown` and `OverlapOnlyLoses`: a failed batch whose operation ran alone is never lost.  `OverlapInv`, which is
  inductive, adds that, while such a batch is in the slot, no operation runs: the first to begin takes it.
* `RatesWork` (PlatformMetricsProofs): types and `RateWorks`.  The invariant adds that what an instrument remembers of its
  last report is the last point exported, that no count is below it, and that the timestamp of the metrics is not
  before it: the only time that timestamp goes back is before anything was reported.  Hence the first
  report of an instrument always finds a gap and begins with zero, and the points rise.  `StartTime > MaxTimeBetweenData + 1`
  is used for this: the epoch is long ago.
* `PointsCount`: `PointsAreTrue`, and `OneValueEach`: `OneValuePerTime`.  `TrueInv` says that a count is the number of the occurrences
  so far, that none of them and no exported point is dated after the timestamp of the metrics, and that this is the end of the last
  invocation in the second version.  So a report counts just what happened by its time, and what comes later does not change
  what was counted for an earlier time (`CountAppend`).  `ReportLastTime > 0` is used: a point that bridges a gap is older than the one after it.  `OneValueInv`
  says that the points of an instrument go strictly forward in time, and that while it has something to report its
  last report is older than the timestamp; a gauge with a value of that timestamp still holds that very value.
* OtelMetricsProofs: `RateIsRight`, `ChangesKept`, `RepeatsBridgeGaps`, `DeltasComplete` and `AccumulatorTyped` are the properties of `otel_metrics`,
  for any number of series and points.  The invariant, `IInv`, says of each series that its previous point is the last one
  exported, that what is known of it is in the order of time and, if it is reduced, that no two neighbours in it are equal; these tie the
  points that wait to those that were exported, across any cut.  `InflatedTaken` is the argument about the loop: what it has put out after `n` points
  is right for a rate, goes through the course of these `n` values and repeats a value only over a gap (`PutOut`), and so after one more
  (`InflateExtends`).  `Course`, the values a series goes through, is a recursive function too; `CourseAppend` and `CourseLast` are all that is needed of it.
  Both inductions are over a least counterexample.  `ReportLastTime < MaxTimeBetweenData` is used: the copy of a point is dated after it.
* `PipeLosesNothing` (LogPipe): `Spec => []NothingLost`, the abstract specification keeps what it is for.
* `ExporterCorrect` (ExporterProofs): all invariants of `startup`, for every set of environments, whatever
  variables they have.  Routing is proved by cases on where a target comes from (`MissingTarget`
  excludes that there is none); the invariant adds which senders are built and which sockets are open at
  each step of `main`, and when the cached context was filled and read.

So every safety property of a passing run is a theorem, under the hypotheses named above.  Only model checked is what needs fairness, which is out of the
prover's reach: `HandlerReturns`, `LogsSentDuringInvocation` and `ExtensionStarts`.

## 5. Not modelled

* The content of logs, spans and resources, encoding and compression, requests of the clients: pure data
  and I/O.  Timestamps of logs within a millisecond (`log_processor.rs:299`): the properties are about the order in which
  logs are handed over.
* Settings that only pass a number or a text on (attributes, metadata, thresholds, time limits).
* Telemetry the platform drops, other than reports.  Without its platform.runtimeDone, or the first
  platform.start, an invocation's handler waits until the platform ends it.
* Sends while the environment is frozen: they are sends that take long.
* ARNs of one environment normally all parse or all do not; `UnparsableArns` is wider.

Remarks met while modelling, which no run is about:

* `telemetry_service.rs:222` gives up waiting for sends after 5 s, so that the environment may be frozen with requests in
  flight, which the comment at line 682 means to exclude.
* `telemetry_service.rs:278` subtracts 50 from an unsigned number before taking the maximum with 0.
* The second version of the platform metrics is dated by platform.runtimeDone: two batches may give a gauge two
  values for one time.
* After an error (`telemetry_service.rs:426`) the events behind it stay in the queue.  The handler sends, which clears the deadline they were
  delivered with, and returns; the next invoke event (line 187) puts them into the buffers with no send due and no deadline.  In the same
  way, a delivery whose first event has a bad timestamp sets no deadline (line 466).  They wait for the next telemetry or for the end of the invocation.
* Traces made by `epsagon_trace_processor.rs` reach Firehose only; other targets drop them.
* `LOG_ONLY` leaves the metrics that come by OTLP enabled: with a target for logs only, the environment is rejected.

## 6. Plan

Done: TelemetryProcessor, TelemetryService, LambdaInstance with its properties, LogPipe and its refinement, SendRetry,
OtelMetrics, PlatformMetrics, AppConfig, FunctionContext, Exporter; type correctness and coordination of the service, alone
and in its environment, its refinement of LogPipe, the pairing of its streams, whose its logs are and in which order, the counting of reports, what becomes of its spans, that what is buffered is scheduled and what is due is sent,
safety of retries, rates and counts of the platform metrics, the accumulator of OTel metrics, the start of the process.

Next, in this order:

1. **Sends.**  TelemetryService composed with SendRetry and the composite sender: overlapping operations as the service starts
   them, with a slot for each pillar.
2. **Log timestamps.**  The sub-index within a millisecond, across invocations.
