---------------------------- MODULE LambdaInstance ----------------------------
(***************************************************************************)
(* One Lambda execution environment: the telemetry service together with   *)
(* what surrounds it.  The surroundings are not code of the repository;    *)
(* they are modelled from what main.rs registers for and from how the      *)
(* service uses what it gets.                                              *)
(*                                                                         *)
(*  - The platform initialises the runtime, then invokes the function,     *)
(*    request 1, 2, ..., each only after every extension asked for its     *)
(*    next event, and at some point shuts the environment down.            *)
(*  - It records what happens as a stream of telemetry events, delivered   *)
(*    in order, in batches of any size, and arbitrarily late, except for   *)
(*    those it drops (platform.logsDropped).  The stream may begin with    *)
(*    events of a previous instance that crashed.                          *)
(*  - The function writes logs and, while it runs, exports spans and       *)
(*    metrics.  Both reach the service at once.                            *)
(***************************************************************************)
EXTENDS TelemetryService, SequencesExt

CONSTANTS
  NumRequests, MaxLogs, MaxSpans, MaxMetrics,  \* bounds: requests, and data per request
  MaxInits, MaxTime,       \* bounds: init attempts, clock
  BatchSizes,                        \* bound: sizes of a delivery that leaves events behind
  LogKinds,                          \* the kinds of logs it writes: Function, EpsagonTrace
  SpanCategories,                    \* the kinds of spans the function makes
  EventAges,                         \* ages of the oldest event of a delivery
  Leftovers,                         \* what a previous instance may leave in the stream
  CorruptEvents,                     \* positions of events that may have a bad timestamp
  LossyKinds                         \* the kinds of events the platform may drop

ASSUME InstanceAssumption ==
  /\ NumRequests \in Nat /\ Requests = 1..NumRequests
  /\ {MaxLogs, MaxSpans, MaxMetrics, MaxInits, MaxTime} \subseteq Nat
  /\ BatchSizes \subseteq Nat \ {0}
  /\ LogKinds \subseteq {"Function", "EpsagonTrace"}
  /\ SpanCategories \subseteq SpanCategorization
  /\ EventAges \subseteq Nat
  /\ Leftovers \subseteq Seq(EventKinds)
  /\ CorruptEvents \subseteq Nat
  /\ LossyKinds \subseteq EventKinds

VARIABLES
  phase,         \* of the environment: "init", "idle", "running", "over", "stopped"
  current,       \* the last request the function was invoked with, 0 before the first
  stream,        \* all telemetry events the platform recorded so far
  delivered,     \* how many of them it has delivered
  spans_sent,    \* all spans the function exported so far
  metrics_sent   \* how many metrics the function exported so far

platformVars == <<phase, current, stream, delivered, spans_sent, metrics_sent>>
vars == <<serviceVars, platformVars>>

MakeEvent(kind, req, id, bad) ==
  [kind |-> kind, req |-> req, id |-> id, ok |-> id \notin bad]

\* Events of these kinds, at the positions that follow the last one of events.
EventsAfter(events, kinds, req, bad) ==
  [i \in 1..Len(kinds) |-> MakeEvent(kinds[i], req, Len(events) + i, bad)]

\* The elements of xs that are in S, in order.
FilterSeq(xs, S) ==
  LET filtered[n \in 0..Len(xs)] ==
        IF n = 0 THEN <<>>
        ELSE IF xs[n] \in S THEN Append(filtered[n - 1], xs[n])
        ELSE filtered[n - 1]
  IN  filtered[Len(xs)]

CountOf(kind, req) ==
  Cardinality({i \in DOMAIN stream : stream[i].kind = kind /\ stream[i].req = req})

InstanceInit ==
  /\ Init
  /\ phase = "init" /\ current = 0
  /\ \E left \in Leftovers, bad \in SUBSET CorruptEvents :
       stream = EventsAfter(<<>>, Append(left, "PlatformInitStart"), NoRequest, bad)
  /\ delivered = 0 /\ spans_sent = <<>> /\ metrics_sent = 0

-----------------------------------------------------------------------------
(* The platform and the function. *)

Happens(kinds, req) ==
  /\ \E bad \in SUBSET CorruptEvents :
       stream' = stream \o EventsAfter(stream, kinds, req, bad)
  /\ UNCHANGED <<serviceVars, delivered, spans_sent, metrics_sent>>

\* The runtime is restarted before it finished its init.
InitRestarts ==
  /\ phase = "init"
  /\ CountOf("PlatformInitStart", NoRequest) < MaxInits
  /\ Happens(<<"PlatformInitStart">>, NoRequest)
  /\ UNCHANGED <<phase, current>>

InitEnds ==
  /\ phase = "init"
  /\ Happens(<<"PlatformInitRuntimeDone", "PlatformInitReport">>, NoRequest)
  /\ phase' = "idle"
  /\ UNCHANGED current

\* All extensions, this one included, asked for the next event.
InvokeFunction ==
  /\ phase = "idle" /\ pc = "ready" /\ current < NumRequests
  /\ Happens(<<"PlatformStart">>, current + 1)
  /\ current' = current + 1
  /\ phase' = "running"

\* A log line, written during init, by the function or by a background thread
\* that goes on after the function returned.
WriteLog ==
  /\ phase \in {"init", "running", "over"}
  /\ LET writer == IF phase = "init" THEN NoRequest ELSE current IN
     \E kind \in LogKinds :
       /\ CountOf(kind, writer) < MaxLogs
       /\ Happens(<<kind>>, writer)
  /\ UNCHANGED <<phase, current>>

\* The function returned, failed or timed out.
FunctionEnds ==
  /\ phase = "running"
  /\ Happens(<<"PlatformRuntimeDone">>, current)
  /\ phase' = "over"
  /\ UNCHANGED current

InvocationEnds ==
  /\ phase = "over" /\ pc = "ready" /\ handling = current
  /\ Happens(<<"PlatformReport">>, current)
  /\ phase' = "idle"
  /\ UNCHANGED current

-----------------------------------------------------------------------------
(* What reaches the service. *)

\* The extension may get its copy of the invoke event at any time.
DeliverInvoke ==
  /\ phase \in {"running", "over"} /\ handling # current
  /\ StartInvoke(current)
  /\ UNCHANGED platformVars

DeliverShutdown ==
  /\ phase \in {"init", "idle"}
  /\ StartShutdown
  /\ phase' = "stopped"
  /\ UNCHANGED <<current, stream, delivered, spans_sent, metrics_sent>>

\* An age that puts the deadline before the start of the clock is left out: any deadline
\* that has passed does the same.
DeliverTelemetry ==
  /\ pc # "done"
  /\ delivered < Len(stream)
  /\ \E n \in BatchSizes \cup {Len(stream) - delivered}, age \in EventAges :
       LET events == SubSeq(stream, delivered + 1, delivered + n) IN
       /\ delivered + n <= Len(stream)
       /\ age <= now + ReportingDelay
       /\ \E lost \in SUBSET {e \in ToSet(events) : e.kind \in LossyKinds} :
            HandleIncomingTelemetry(FilterSeq(events, ToSet(events) \ lost), age)
       /\ delivered' = delivered + n
  /\ UNCHANGED <<phase, current, stream, spans_sent, metrics_sent>>

ExportSpan ==
  /\ phase = "running"
  /\ Cardinality({i \in DOMAIN spans_sent : spans_sent[i].req = current}) < MaxSpans
  /\ \E c \in SpanCategories :
       LET s == [category |-> c, req |-> current, id |-> Len(spans_sent) + 1]
       IN  HandleOtlpSpans(<<s>>) /\ spans_sent' = Append(spans_sent, s)
  /\ UNCHANGED <<phase, current, stream, delivered, metrics_sent>>

ExportMetric ==
  /\ phase = "running"
  /\ metrics_sent < MaxMetrics * current
  /\ HandleOtlpMetrics(metrics_sent + 1)
  /\ metrics_sent' = metrics_sent + 1
  /\ UNCHANGED <<phase, current, stream, delivered, spans_sent>>

ServiceStep ==
  /\ \/ ProcessingStep
     \/ HandlerStep
     \/ \E t \in timers : TimerFires(t)
     \/ SendEnds
  /\ UNCHANGED platformVars

\* Time matters to no strategy without a delay.
AdvanceClock ==
  /\ SendAfterDelay /\ pc # "done" /\ now < MaxTime
  /\ Tick
  /\ UNCHANGED platformVars

\* The shutdown handler returned: the environment is gone.
Terminated == pc = "done" /\ MutexFree /\ UNCHANGED vars

InstanceNext ==
  \/ InitRestarts \/ InitEnds \/ InvokeFunction
  \/ WriteLog \/ FunctionEnds \/ InvocationEnds
  \/ DeliverInvoke \/ DeliverShutdown \/ DeliverTelemetry \/ ExportSpan \/ ExportMetric
  \/ ServiceStep \/ AdvanceClock
  \/ Terminated

InstanceSpec == InstanceInit /\ [][InstanceNext]_vars

=============================================================================
