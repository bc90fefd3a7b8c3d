---------------------------- MODULE InvocationProofs ----------------------------
(***************************************************************************)
(* Theorems about what the service says about an invocation: which events  *)
(* the records it makes stand for, which requests they name and in which   *)
(* order they come, and what becomes of the spans of the function, which   *)
(* say nothing of the invocation that made them.                           *)
(***************************************************************************)
EXTENDS InstanceProofs

-----------------------------------------------------------------------------
(* The log records, and the events they are made of.                       *)

Records == ToSet(AllLogs)

\* What the state of an invocation keeps of its events, and may still make records of.
Sources ==
  IF invocation_state = NoInvocation THEN {}
  ELSE ToSet(invocation_state.logs) \cup invocation_state.data

\* What will be processed.  After the flush at shutdown began that is what it took.
Ahead == IF shutdown_flush_started THEN ToSet(pending_events) ELSE Waiting

\* A record made of the event x under request r.
MadeOf(l, x, r) == l.kind = x.kind /\ l.id = x.id /\ l.inv = r

\* The records that processing e makes of what the state holds, and of e itself.
Made(p, e) == StartPart(p, e) \o (HeldPart(p, e) \o OwnPart(p, e))

\* The records that spans release.
Released(p, q) ==
  LET inv == [p.inv EXCEPT !.captured = q.inv.captured]
  IN  IF LogMode = "Structured" /\ p.inv.delaying_logs /\ HasCaptured(q.inv, "CxEarlyInvocation")
      THEN StartLogs(inv) \o HeldRecords(inv) ELSE <<>>

\* A record is added to the output buffers, or to what was sent before.
LEMMA LogsGrow ==
  ASSUME TypeOK, sent'.logs = sent.logs, NEW new \in Seq(LogRecord),
         output_buffers'.logs = output_buffers.logs \o new
  PROVE  AllLogs' = AllLogs \o new /\ AllLogs \in Seq(LogRecord)
<1> DEFINE s == sent.logs
           o == output_buffers.logs
<1>1. s \in Seq(LogRecord) /\ o \in Seq(LogRecord)
  BY DEF TypeOK, ProcessingTypes, SendTypes, OutputBuffers
<1>2. AllLogs = s \o o /\ AllLogs' = s \o (o \o new)
  BY DEF AllLogs
<1> HIDE DEF s, o
<1>3. (s \o o) \o new = s \o (o \o new) /\ s \o o \in Seq(LogRecord)
  BY ONLY <1>1, new \in Seq(LogRecord), ConcatAssociative, ConcatProperties
<1> QED
  BY <1>2, <1>3

\* The records of all batches together are those of the one that is sent and the rest.
LEMMA LogsSent ==
  ASSUME TypeOK, SendTelemetry
  PROVE  AllLogs' = AllLogs
<1> DEFINE s == sent.logs
           o == output_buffers.logs
<1>1. s \in Seq(LogRecord) /\ o \in Seq(LogRecord)
  BY DEF TypeOK, ProcessingTypes, SendTypes, OutputBuffers
<1>2. AllLogs = s \o o /\ AllLogs' = (s \o o) \o <<>>
  BY DEF AllLogs, SendTelemetry, Merge, EmptyBuffers
<1> HIDE DEF s, o
<1> QED
  BY <1>1, <1>2, ConcatProperties, NoRecords

\* The records that are added are records.
LEMMA RecordsGrow ==
  ASSUME NEW a \in Seq(LogRecord), NEW b \in Seq(LogRecord)
  PROVE  /\ ToSet(a \o b) = ToSet(a) \cup ToSet(b)
         /\ ToSet(a) \subseteq LogRecord
  BY ElementsConcat, Elements

\* The records made of the logs that are held.
LEMMA ElementsOfHeld ==
  ASSUME NEW inv \in InvocationProcessingState
  PROVE  /\ HeldRecords(inv) \in Seq(LogRecord) /\ Len(HeldRecords(inv)) = Len(inv.logs)
         /\ \A i \in 1..Len(inv.logs) : MadeOf(HeldRecords(inv)[i], inv.logs[i], inv.req)
         /\ \A l \in ToSet(HeldRecords(inv)) : \E x \in ToSet(inv.logs) : MadeOf(l, x, inv.req)
<1>1. inv.logs \in Seq(Event) /\ Len(inv.logs) \in Nat
  BY InvocationFields
<1> DEFINE h == HeldRecords(inv)
<1>2. h \in Seq(LogRecord) /\ Len(h) = Len(inv.logs)
  <2>1. \A i \in 1..Len(inv.logs) : MakeLog(inv, inv.logs[i]) \in LogRecord
    BY <1>1, MakeLogType
  <2> QED
    BY <1>1, <2>1 DEF HeldRecords
<1>3. \A i \in 1..Len(inv.logs) : MadeOf(h[i], inv.logs[i], inv.req)
  BY DEF HeldRecords, MakeLog, MadeOf
<1> HIDE DEF h
<1>4. ASSUME NEW l \in ToSet(h) PROVE \E x \in ToSet(inv.logs) : MadeOf(l, x, inv.req)
  <2>1. PICK i \in 1..Len(inv.logs) : l = h[i]
    BY <1>2, Elements
  <2>2. inv.logs[i] \in ToSet(inv.logs)
    BY <1>1, Elements
  <2> QED
    BY <1>3, <2>1, <2>2
<1> QED
  BY <1>2, <1>3, <1>4 DEF h

\* The record of a start is made of the start that the state keeps.
LEMMA ElementsOfStart ==
  ASSUME NEW inv \in InvocationProcessingState
  PROVE  /\ StartLogs(inv) \in Seq(LogRecord) /\ Len(StartLogs(inv)) <= 1
         /\ \A l \in ToSet(StartLogs(inv)) :
              l.kind = "PlatformStart" /\ \E x \in inv.data : MadeOf(l, x, inv.req)
<1>1. CASE Has(inv, "PlatformStart") /\ "PlatformStart" \in PlatformLogSet
  <2> DEFINE x == CHOOSE d \in inv.data : d.kind = "PlatformStart"
             l == MakeLog(inv, x)
  <2>1. x \in inv.data /\ x.kind = "PlatformStart"
    BY <1>1 DEF Has
  <2>2. StartLogs(inv) = <<l>>
    BY <1>1 DEF StartLogs
  <2>3. x \in Event
    BY <2>1, InvocationFields DEF InvocationProcessingState
  <2>4. l \in LogRecord
    BY <2>3, MakeLogType
  <2>5. MadeOf(l, x, inv.req)
    BY DEF MadeOf, MakeLog
  <2> HIDE DEF x, l
  <2>6. ToSet(<<l>>) = {l} /\ <<l>> \in Seq(LogRecord) /\ Len(<<l>>) = 1
    BY <2>4 DEF ToSet
  <2>7. l.kind = "PlatformStart"
    BY <2>1, <2>5 DEF MadeOf
  <2> QED
    BY <2>1, <2>2, <2>5, <2>6, <2>7
<1>2. CASE ~(Has(inv, "PlatformStart") /\ "PlatformStart" \in PlatformLogSet)
  <2>1. StartLogs(inv) = <<>> /\ <<>> \in Seq(LogRecord) /\ Len(<<>>) = 0
    BY <1>2, EmptySeq DEF StartLogs
  <2>2. ToSet(<<>>) = {}
    BY DEF ToSet
  <2> QED
    BY <2>1, <2>2
<1> QED
  BY <1>1, <1>2

\* Three sequences, one after the other, the last of at most one element.
LEMMA ThreeParts ==
  ASSUME NEW a \in Seq(LogRecord), NEW b \in Seq(LogRecord), NEW c \in Seq(LogRecord),
         Len(c) \in {0, 1}
  PROVE  LET s == a \o (b \o c)
         IN  /\ s \in Seq(LogRecord) /\ Len(s) = Len(a) + (Len(b) + Len(c))
             /\ ToSet(s) = ToSet(a) \cup ToSet(b) \cup ToSet(c)
             /\ \A k \in 1..Len(s) :
                  \/ k \in 1..Len(a) /\ s[k] = a[k]
                  \/ k > Len(a) /\ k - Len(a) \in 1..Len(b) /\ s[k] = b[k - Len(a)]
                  \/ Len(c) = 1 /\ k = Len(s) /\ s[k] = c[1]
             /\ Len(c) = 1 => Len(s) > 0 /\ s[Len(s)] = c[1]
<1> DEFINE d == b \o c
           s == a \o d
<1>1. Len(a) \in Nat /\ Len(b) \in Nat /\ Len(c) \in {0, 1}
  BY LenProperties
<1>2. /\ d \in Seq(LogRecord) /\ Len(d) = Len(b) + Len(c)
      /\ \A k \in 1..(Len(b) + Len(c)) : d[k] = IF k <= Len(b) THEN b[k] ELSE c[k - Len(b)]
  BY ConcatProperties
<1>3. ToSet(d) = ToSet(b) \cup ToSet(c)
  BY RecordsGrow
<1> HIDE DEF d
<1>4. /\ s \in Seq(LogRecord) /\ Len(s) = Len(a) + Len(d)
      /\ \A k \in 1..(Len(a) + Len(d)) : s[k] = IF k <= Len(a) THEN a[k] ELSE d[k - Len(a)]
  BY <1>2, ConcatProperties
<1>5. ToSet(s) = ToSet(a) \cup ToSet(b) \cup ToSet(c)
  <2>1. ToSet(s) = ToSet(a) \cup ToSet(d)
    BY <1>2, RecordsGrow
  <2> QED
    BY <1>3, <2>1
<1> HIDE DEF s
<1>6. ASSUME NEW k \in 1..Len(s)
      PROVE  \/ k \in 1..Len(a) /\ s[k] = a[k]
             \/ k > Len(a) /\ k - Len(a) \in 1..Len(b) /\ s[k] = b[k - Len(a)]
             \/ Len(c) = 1 /\ k = Len(s) /\ s[k] = c[1]
  <2>1. CASE k <= Len(a)
    <3>1. s[k] = a[k]
      BY <1>1, <1>2, <1>4, <2>1
    <3> QED
      BY <1>1, <2>1, <3>1
  <2>2. CASE ~(k <= Len(a))
    <3> DEFINE j == k - Len(a)
    <3>1. j \in 1..(Len(b) + Len(c)) /\ s[k] = d[j] /\ k > Len(a)
      BY <1>1, <1>2, <1>4, <2>2
    <3>4. Len(c) = 1 /\ j = Len(b) + 1 => k = Len(s)
      BY <1>1, <1>2, <1>4
    <3> HIDE DEF j
    <3>2. j <= Len(b) => j \in 1..Len(b) /\ d[j] = b[j]
      BY <1>1, <1>2, <3>1
    <3>3. ~(j <= Len(b)) => Len(c) = 1 /\ j = Len(b) + 1 /\ d[j] = c[1]
      <4>1. ASSUME ~(j <= Len(b)) PROVE Len(c) = 1 /\ j = Len(b) + 1 /\ j - Len(b) = 1
        <5> DEFINE n == Len(b)
                   m == Len(c)
        <5>1. n \in Nat /\ m \in {0, 1} /\ j \in 1..(n + m) /\ ~(j <= n)
          BY <1>1, <3>1, <4>1
        <5> HIDE DEF n, m
        <5>2. m = 1 /\ j = n + 1 /\ j - n = 1
          BY ONLY <5>1
        <5> QED
          BY <5>2 DEF n, m
      <4> QED
        BY <1>2, <3>1, <4>1
    <3> QED
      BY <3>1, <3>2, <3>3, <3>4 DEF j
  <2> QED
    BY <2>1, <2>2
<1>7. ASSUME Len(c) = 1 PROVE Len(s) > 0 /\ s[Len(s)] = c[1]
  <2>1. /\ Len(s) = Len(a) + Len(d) /\ Len(d) = Len(b) + 1 /\ Len(s) \in 1..(Len(a) + Len(d))
        /\ Len(s) > 0
        /\ ~(Len(s) <= Len(a)) /\ Len(s) - Len(a) = Len(b) + 1 /\ ~(Len(b) + 1 <= Len(b))
        /\ Len(b) + 1 \in 1..(Len(b) + Len(c)) /\ (Len(b) + 1) - Len(b) = 1
    BY <1>1, <1>2, <1>4, <1>7
  <2>2. s[Len(s)] = d[Len(b) + 1]
    BY <1>4, <2>1
  <2>3. d[Len(b) + 1] = c[1]
    BY <1>2, <2>1
  <2> QED
    BY <2>1, <2>2, <2>3
<1> QED
  BY <1>2, <1>4, <1>5, <1>6, <1>7 DEF s, d

\* What processing an event makes: records of what the state held, and of the event.
LEMMA PartsMade ==
  ASSUME NEW p \in ProcessingType, NEW e \in Event
  PROVE  /\ StartPart(p, e) \in Seq(LogRecord) /\ Len(StartPart(p, e)) <= 1
         /\ HeldPart(p, e) \in Seq(LogRecord)
         /\ OwnPart(p, e) \in Seq(LogRecord) /\ Len(OwnPart(p, e)) \in {0, 1}
         /\ Made(p, e) \in Seq(LogRecord)
         /\ \A l \in ToSet(StartPart(p, e)) :
              l.kind = "PlatformStart" /\ \E x \in p.inv.data : MadeOf(l, x, p.inv.req)
         /\ \A l \in ToSet(HeldPart(p, e)) : \E x \in ToSet(p.inv.logs) : MadeOf(l, x, p.inv.req)
         /\ \A l \in ToSet(OwnPart(p, e)) : MadeOf(l, e, p.inv.req)
         /\ MakesOwn(p, e) <=> Len(OwnPart(p, e)) = 1
         /\ MakesOwn(p, e) => MadeOf(OwnPart(p, e)[1], e, p.inv.req)
<1>1. p.inv \in InvocationProcessingState
  BY ProcessingFields
<1>2. /\ <<>> \in Seq(LogRecord) /\ Len(<<>>) = 0
      /\ ToSet(<<>>) = {}
  <2>1. ToSet(<<>>) = {}
    BY DEF ToSet
  <2> QED
    BY <2>1, EmptySeq
<1>3. /\ StartPart(p, e) \in Seq(LogRecord) /\ Len(StartPart(p, e)) <= 1
      /\ \A l \in ToSet(StartPart(p, e)) :
           l.kind = "PlatformStart" /\ \E x \in p.inv.data : MadeOf(l, x, p.inv.req)
  <2>1. CASE Releases(p, e)
    BY <1>1, <2>1, ElementsOfStart DEF StartPart
  <2>2. CASE ~Releases(p, e)
    <3>1. StartPart(p, e) = <<>>
      BY <2>2 DEF StartPart
    <3> QED
      BY <1>2, <3>1
  <2> QED
    BY <2>1, <2>2
<1>4. /\ HeldPart(p, e) \in Seq(LogRecord)
      /\ \A l \in ToSet(HeldPart(p, e)) : \E x \in ToSet(p.inv.logs) : MadeOf(l, x, p.inv.req)
  <2>1. CASE LetsGo(p, e)
    BY <1>1, <2>1, ElementsOfHeld DEF HeldPart
  <2>2. CASE ~LetsGo(p, e)
    <3>1. HeldPart(p, e) = <<>>
      BY <2>2 DEF HeldPart
    <3> QED
      BY <1>2, <3>1
  <2> QED
    BY <2>1, <2>2
<1>5. /\ OwnPart(p, e) \in Seq(LogRecord) /\ Len(OwnPart(p, e)) \in {0, 1}
      /\ \A l \in ToSet(OwnPart(p, e)) : MadeOf(l, e, p.inv.req)
      /\ MakesOwn(p, e) <=> Len(OwnPart(p, e)) = 1
      /\ MakesOwn(p, e) => MadeOf(OwnPart(p, e)[1], e, p.inv.req)
  <2> DEFINE l == MakeLog(p.inv, e)
  <2>1. l \in LogRecord /\ MadeOf(l, e, p.inv.req)
    BY <1>1, MakeLogType DEF MadeOf, MakeLog
  <2>2. OwnPart(p, e) = IF MakesOwn(p, e) THEN <<l>> ELSE <<>>
    BY DEF OwnPart
  <2> HIDE DEF l
  <2>3. /\ <<l>> \in Seq(LogRecord) /\ Len(<<l>>) = 1 /\ <<l>>[1] = l
        /\ ToSet(<<l>>) = {l}
    BY <2>1 DEF ToSet
  <2> QED
    BY <1>2, <2>1, <2>2, <2>3
<1>6. Made(p, e) \in Seq(LogRecord)
  BY <1>3, <1>4, <1>5, ConcatProperties DEF Made
<1> QED
  BY <1>3, <1>4, <1>5, <1>6

\* Every record that is made is made of an event that the state kept, or of the one that is
\* processed.
LEMMA ElementsOfMade ==
  ASSUME NEW p \in ProcessingType, NEW e \in Event
  PROVE  \A l \in ToSet(Made(p, e)) :
           \E x \in ToSet(p.inv.logs) \cup p.inv.data \cup {e} : MadeOf(l, x, p.inv.req)
<1>1. ToSet(Made(p, e)) = ToSet(StartPart(p, e)) \cup ToSet(HeldPart(p, e)) \cup ToSet(OwnPart(p, e))
  BY PartsMade, ThreeParts DEF Made
<1> QED
  BY <1>1, PartsMade

-----------------------------------------------------------------------------
(* The steps of the instance, by the records they make.                    *)

\* The next event of the queue, and one that was set aside during the init.
IsNext(e) ==
  /\ HasNextEvent /\ init_handled /\ e = NextEvent
  /\ e.kind = "PlatformReport" => invocation_state' = NoInvocation

IsReplayed(e) == section = "replay" /\ e \in ToSet(pending_events)

\* An event is processed under the current invocation.
HandlesEvent(e) ==
  LET q == ProcessTelemetry(ProcessingState, e)
  IN  /\ e \in Event /\ e \in Ahead /\ Before({e}, Ahead')
      /\ invocation_state # NoInvocation
      /\ ~shutdown_flush_started /\ ~shutdown_flush_started'
      /\ AllLogs' = AllLogs \o Made(ProcessingState, e)
      /\ metrics_state' = q.metrics
      /\ invocation_state' \in {q.inv, NoInvocation}
      /\ IsNext(e) \/ IsReplayed(e)

\* An event is processed without an invocation: before the init, or by the flush.
DegradesEvent(e) ==
  /\ e \in Event /\ e \in Ahead /\ Before({e}, Ahead')
  /\ AllLogs' = AllLogs \o DegradedLogs(e)
  /\ metrics_state' = DegradedMetrics(metrics_state, e)
  /\ UNCHANGED <<invocation_state, shutdown_flush_started>>
  /\ ~shutdown_flush_started => held_event \in Ahead' /\ held_event.kind = "PlatformInitStart"

\* Spans come for the current invocation.
GetsSpans(spans) ==
  LET q == ProcessFunctionSpans(ProcessingState, spans)
  IN  /\ ExportSpan /\ spans \in Seq(Span)
      /\ invocation_state # NoInvocation /\ ~Has(invocation_state, "PlatformRuntimeDone")
      /\ AllLogs' = AllLogs \o Released(ProcessingState, q)
      /\ invocation_state' = q.inv
      /\ UNCHANGED <<metrics_state, shutdown_flush_started>>

\* The next invocation becomes the current one.
StartsInvocation ==
  /\ TakeInvokeEvent /\ invocation_state = NoInvocation
  /\ invocation_state' \in InvocationProcessingState
  /\ invocation_state'.data = {} /\ invocation_state'.logs = <<>>
  /\ invocation_state'.delaying_logs =
       (TracingMode = "OtelInstrumentation"
          /\ ~(LogMode = "Structured" /\ HasCaptured(invocation_state', "CxEarlyInvocation")))
  /\ ~shutdown_flush_started
  /\ UNCHANGED <<AllLogs, metrics_state, shutdown_flush_started>>

\* No event is processed and no span is used.
KeepsRecords == UNCHANGED <<AllLogs, metrics_state, invocation_state>>

\* An event of the queue.
LEMMA ProcessRecords ==
  ASSUME TypeOK, LoopShape, InLine, ProcessEvent, UNCHANGED platformVars
  PROVE  HandlesEvent(NextEvent)
<1> DEFINE q == ProcessTelemetry(ProcessingState, NextEvent)
<1>1. /\ invocation_state # NoInvocation /\ NextEvent \in Event /\ section = "events" /\ init_handled
      /\ telemetry_event_queue # <<>> /\ telemetry_event_queue' = Tail(telemetry_event_queue)
      /\ UNCHANGED <<half_processed_event_buffer, pending_events, sent, shutdown_flush_started, section>>
      /\ ~shutdown_flush_started
  BY LoopFacts DEF ProcessEvent, HasNextEvent, flags, sends, LoopShape
<1>2. pending_events = <<>> /\ half_processed_event_buffer = <<>> /\ ToSet(<<>>) = {}
  <2>1. ToSet(<<>>) = {}
    BY DEF ToSet
  <2> QED
    BY <1>1, <2>1 DEF LoopShape
<1>3. Ahead = ToSet(telemetry_event_queue) /\ Ahead' = ToSet(Tail(telemetry_event_queue))
  BY <1>1, <1>2 DEF Ahead, Waiting, Held
<1>4. NextEvent \in Ahead /\ Before({NextEvent}, Ahead')
  BY <1>1, <1>3, SequenceFacts, ElementsTail, OrderTail DEF InLine, NextEvent
<1>5. /\ ProcessingState \in ProcessingType /\ ProcessingState.out = output_buffers
      /\ Processes(ProcessingState, q, NextEvent)
  BY <1>1, ProcessingStateType, TelemetryProcessed DEF ProcessingState, Processing
<1>6. /\ output_buffers' = q.out /\ metrics_state' = q.metrics
      /\ invocation_state' = IF EndsInvocation(q.inv) THEN NoInvocation ELSE q.inv
  <2>1. q \in ProcessingType
    BY <1>5 DEF Processes, Emits
  <2>2. SetProcessing(IF EndsInvocation(q.inv) THEN [q EXCEPT !.inv = NoInvocation] ELSE q)
    BY DEF ProcessEvent
  <2> HIDE DEF q
  <2> QED
    BY <2>1, <2>2 DEF SetProcessing, ProcessingType
<1> HIDE DEF q
<1>7. output_buffers'.logs = output_buffers.logs \o Made(ProcessingState, NextEvent)
  BY <1>5, <1>6 DEF Processes, Emits, Made
<1>8. AllLogs' = AllLogs \o Made(ProcessingState, NextEvent)
  BY <1>1, <1>5, <1>7, LogsGrow, PartsMade
<1>9. IsNext(NextEvent)
  <2>1. HasNextEvent /\ init_handled
    BY DEF ProcessEvent
  <2>2. NextEvent.kind = "PlatformReport" => EndsInvocation(q.inv)
    BY <1>5 DEF Processes, Ignored, EndsInvocation, Has
  <2> QED
    BY <1>6, <2>1, <2>2 DEF IsNext
<1> QED
  BY <1>1, <1>4, <1>6, <1>8, <1>9 DEF HandlesEvent, q

\* An event that was set aside during the init.
LEMMA ReplayRecords ==
  ASSUME TypeInv, LoopShape, InLine, ReplayInitEvent, Head(pending_events).ok,
         UNCHANGED platformVars
  PROVE  HandlesEvent(Head(pending_events))
<1> USE DEF TypeInv
<1> DEFINE e == Head(pending_events)
           q == ProcessTelemetry(ProcessingState, e)
<1>1. /\ e \in Event /\ section = "replay" /\ pending_events # <<>> /\ pending_events' = Tail(pending_events)
      /\ UNCHANGED <<half_processed_event_buffer, telemetry_event_queue, sent, shutdown_flush_started,
                     section>>
      /\ ~shutdown_flush_started /\ invocation_state # NoInvocation
      /\ SetProcessing(q)
  BY LoopFacts DEF ReplayInitEvent, inputs, flags, sends, LoopShape, LoopInv
<1>2. half_processed_event_buffer = <<>> /\ ToSet(<<>>) = {}
  <2>1. ToSet(<<>>) = {}
    BY DEF ToSet
  <2> QED
    BY <1>1, <2>1 DEF LoopShape
<1>3. /\ Ahead = ToSet(pending_events) \cup ToSet(telemetry_event_queue)
      /\ Ahead' = ToSet(Tail(pending_events)) \cup ToSet(telemetry_event_queue)
  BY <1>1, <1>2 DEF Ahead, Waiting, Held
<1>4. /\ e \in Ahead
      /\ Before({e}, Ahead')
  <2>1. e \in ToSet(pending_events) /\ Before({e}, ToSet(Tail(pending_events)))
    BY <1>1, SequenceFacts, ElementsTail, OrderTail DEF InLine
  <2>2. Before({e}, ToSet(telemetry_event_queue))
    BY <2>1 DEF InLine, Before
  <2> HIDE DEF e
  <2> QED
    BY <1>3, <2>1, <2>2 DEF Before
<1>9. IsReplayed(e)
  BY <1>1, SequenceFacts, ElementsTail DEF IsReplayed
<1> HIDE DEF e
<1>5. /\ ProcessingState \in ProcessingType /\ ProcessingState.out = output_buffers
      /\ Processes(ProcessingState, q, e)
  BY <1>1, ProcessingStateType, TelemetryProcessed DEF ProcessingState, Processing
<1>6. output_buffers' = q.out /\ metrics_state' = q.metrics /\ invocation_state' = q.inv
  BY <1>1 DEF SetProcessing
<1> HIDE DEF q
<1>7. output_buffers'.logs = output_buffers.logs \o Made(ProcessingState, e)
  BY <1>5, <1>6 DEF Processes, Emits, Made
<1>8. AllLogs' = AllLogs \o Made(ProcessingState, e)
  BY <1>1, <1>5, <1>7, LogsGrow, PartsMade
<1> QED
  BY <1>1, <1>4, <1>6, <1>8, <1>9 DEF HandlesEvent, q, e

\* An event that is processed without an invocation makes at most one record.
LEMMA DegradedMade ==
  ASSUME NEW e \in Event
  PROVE  /\ DegradedLogs(e) \in Seq(LogRecord) /\ Len(DegradedLogs(e)) \in {0, 1}
         /\ \A l \in ToSet(DegradedLogs(e)) : MadeOf(l, e, Degraded)
         /\ PlatformLogEnabled(e.kind) =>
              Len(DegradedLogs(e)) = 1 /\ MadeOf(DegradedLogs(e)[1], e, Degraded)
<1> DEFINE l == DegradedLog(e)
           made == (e.kind = "Function" /\ LogMode = "Structured") \/ PlatformLogEnabled(e.kind)
<1>1. l \in LogRecord /\ MadeOf(l, e, Degraded)
  BY DEF DegradedLog, MadeOf, LogRecord, Event, SpanRefs
<1>2. DegradedLogs(e) = IF made THEN <<l>> ELSE <<>>
  BY DEF DegradedLogs
<1> HIDE DEF l
<1>3. /\ <<l>> \in Seq(LogRecord) /\ Len(<<l>>) = 1 /\ <<l>>[1] = l
      /\ ToSet(<<l>>) = {l}
  BY <1>1 DEF ToSet
<1>4. /\ <<>> \in Seq(LogRecord) /\ Len(<<>>) = 0
      /\ ToSet(<<>>) = {}
  <2>1. ToSet(<<>>) = {}
    BY DEF ToSet
  <2> QED
    BY <2>1, EmptySeq
<1> QED
  BY <1>1, <1>2, <1>3, <1>4

\* An event from before the init, or one that the flush took.
LEMMA DegradeRecords ==
  ASSUME TypeInv, LoopShape, InLine, DegradeEvent, Head(pending_events).ok,
         UNCHANGED platformVars
  PROVE  DegradesEvent(Head(pending_events))
<1> USE DEF TypeInv
<1> DEFINE e == Head(pending_events)
<1>1. /\ e \in Event /\ section \in {"degrade", "flush"} /\ pending_events # <<>>
      /\ pending_events' = Tail(pending_events)
      /\ output_buffers' = ProcessDegraded(output_buffers, init_done, e)
      /\ metrics_state' = DegradedMetrics(metrics_state, e)
      /\ UNCHANGED <<half_processed_event_buffer, telemetry_event_queue, sent, shutdown_flush_started,
                     section, held_event, invocation_state>>
  BY LoopFacts, SequenceFacts, LogIdsHead DEF DegradeEvent, inputs, flags, sends
<1>2. /\ ToSet(pending_events) = {e} \cup ToSet(Tail(pending_events))
      /\ Before({e}, ToSet(Tail(pending_events)))
  BY <1>1, SequenceFacts, ElementsTail, OrderTail DEF InLine
<1>3. /\ e \in Ahead
      /\ Before({e}, Ahead')
      /\ ~shutdown_flush_started => held_event \in Ahead' /\ held_event.kind = "PlatformInitStart"
  <2>1. CASE shutdown_flush_started
    BY <1>1, <1>2, <2>1 DEF Ahead
  <2>2. CASE ~shutdown_flush_started
    <3>1. section = "degrade" /\ half_processed_event_buffer = <<>> /\ held_event.kind = "PlatformInitStart"
      BY <1>1, <2>2 DEF LoopShape
    <3>2. ToSet(<<>>) = {}
      BY DEF ToSet
    <3>3. /\ Ahead = ToSet(pending_events) \cup {held_event} \cup ToSet(telemetry_event_queue)
          /\ Ahead' = ToSet(Tail(pending_events)) \cup {held_event} \cup ToSet(telemetry_event_queue)
      BY <1>1, <2>2, <3>1, <3>2 DEF Ahead, Waiting, Held
    <3>4. Before({e}, {held_event} \cup ToSet(telemetry_event_queue))
      <4>1. /\ Before(ToSet(pending_events), ToSet(telemetry_event_queue))
            /\ Before(ToSet(pending_events), {held_event})
        BY <3>1 DEF InLine, Before, Held
      <4> HIDE DEF e
      <4> QED
        BY <1>2, <4>1 DEF Before
    <3> HIDE DEF e
    <3> QED
      BY <1>2, <2>2, <3>1, <3>3, <3>4 DEF Before
  <2> QED
    BY <2>1, <2>2
<1> HIDE DEF e
<1>4. output_buffers'.logs = output_buffers.logs \o DegradedLogs(e)
  <2>1. output_buffers \in OutputBuffers
    BY DEF TypeOK, ProcessingTypes
  <2> QED
    BY <1>1, <2>1 DEF ProcessDegraded, OutputBuffers
<1>5. AllLogs' = AllLogs \o DegradedLogs(e)
  BY <1>1, <1>4, DegradedMade, LogsGrow
<1> QED
  BY <1>1, <1>3, <1>5 DEF DegradesEvent, e

\* Spans of the function.
LEMMA SpanRecords ==
  ASSUME TypeOK, PlatformInv, ExportSpan
  PROVE  KeepsRecords \/ \E spans : GetsSpans(spans)
<1>1. PICK c \in SpanCategories :
        HandleOtlpSpans(<<[category |-> c, req |-> current, id |-> Len(spans_sent) + 1]>>)
  BY DEF ExportSpan
<1> DEFINE spans == <<[category |-> c, req |-> current, id |-> Len(spans_sent) + 1]>>
<1>2. spans \in Seq(Span)
  <2>1. c \in SpanCategorization /\ current \in Requests /\ Len(spans_sent) + 1 \in Nat
    BY InstanceAssumption DEF ExportSpan, PlatformInv
  <2>2. [category |-> c, req |-> current, id |-> Len(spans_sent) + 1] \in Span
    BY <2>1 DEF Span
  <2> QED
    BY <2>2
<1>3. HandleOtlpSpans(spans)
  BY <1>1
<1> HIDE DEF spans
<1>4. sent' = sent /\ shutdown_flush_started' = shutdown_flush_started
  BY <1>3 DEF HandleOtlpSpans, sends, flags
<1>5. CASE UNCHANGED processing
  BY <1>4, <1>5 DEF processing, KeepsRecords, AllLogs
<1>6. CASE SpansForRunningInvoke(spans)
  <2> DEFINE q == ProcessFunctionSpans(ProcessingState, spans)
  <2>1. /\ invocation_state # NoInvocation /\ ~Has(invocation_state, "PlatformRuntimeDone")
        /\ invocation_state' = q.inv /\ output_buffers' = q.out /\ metrics_state' = q.metrics
    BY <1>6 DEF SpansForRunningInvoke, InvocationRuns, SetProcessing
  <2>2. /\ ProcessingState \in ProcessingType /\ ProcessingState.out = output_buffers
        /\ ProcessingState.metrics = metrics_state
    BY <2>1, ProcessingStateType DEF ProcessingState, Processing
  <2>3. SpansProcessed(ProcessingState, q)
    BY <1>2, <2>2, FunctionSpansProcessed
  <2> HIDE DEF q
  <2> DEFINE new == Released(ProcessingState, q)
  <2>4. Emits(ProcessingState, q, new) /\ q.metrics = metrics_state
    BY <2>2, <2>3 DEF SpansProcessed, Released
  <2> HIDE DEF new
  <2>5. AllLogs' = AllLogs \o new
    BY <1>4, <2>1, <2>2, <2>4, LogsGrow DEF Emits
  <2> QED
    BY <1>2, <1>4, <2>1, <2>4, <2>5 DEF GetsSpans, q, new
<1> QED
  BY <1>3, <1>5, <1>6 DEF HandleOtlpSpans, SpansForQueuedInvoke, SpansForNextInvoke

\* A state that has kept nothing yet has nothing to release.
LEMMA NothingReleased ==
  ASSUME NEW p \in ProcessingType, p.inv.data = {}, p.inv.logs = <<>>, NEW spans \in Seq(Span)
  PROVE  LET q == ProcessFunctionSpans(p, spans)
         IN  /\ q \in ProcessingType /\ q.out.logs = p.out.logs /\ q.metrics = p.metrics
             /\ q.inv.data = {} /\ q.inv.logs = <<>>
             /\ q.inv.delaying_logs =
                  (p.inv.delaying_logs /\ ~(LogMode = "Structured" /\ HasCaptured(q.inv, "CxEarlyInvocation")))
             /\ HasCaptured(p.inv, "CxEarlyInvocation") => HasCaptured(q.inv, "CxEarlyInvocation")
<1> DEFINE q == ProcessFunctionSpans(p, spans)
           inv == [p.inv EXCEPT !.captured = q.inv.captured]
           new == Released(p, q)
<1>1. /\ SpansProcessed(p, q)
      /\ q.inv.captured = p.inv.captured \cup NewlyCaptured(p.inv.captured, spans)
  BY FunctionSpansProcessed
<1> HIDE DEF q
<1>2. /\ Emits(p, q, new)
      /\ q.inv.data = {} /\ q.inv.logs = <<>> /\ q.metrics = p.metrics
  BY <1>1 DEF SpansProcessed, Released
<1>3. p.inv \in InvocationProcessingState /\ p.inv.delaying_logs \in BOOLEAN
  BY ProcessingFields, InvocationFields
<1>4. inv.data = {} /\ inv.logs = <<>>
  BY <1>3 DEF InvocationProcessingState
<1>5. Released(p, q) = <<>>
  <2>1. StartLogs(inv) = <<>>
    BY <1>4 DEF StartLogs, Has
  <2>2. HeldRecords(inv) = <<>>
    <3>1. HeldRecords(inv) = [i \in 1..0 |-> MakeLog(inv, inv.logs[i])]
      BY <1>4 DEF HeldRecords
    <3>2. 1..0 = {}
      OBVIOUS
    <3> QED
      BY <3>1, <3>2
  <2>3. StartLogs(inv) \o HeldRecords(inv) = <<>>
    BY <2>1, <2>2, ConcatEmptySeq, EmptySeq
  <2> QED
    BY <2>3 DEF Released
<1>6. q \in ProcessingType /\ q.out.logs = p.out.logs
  <2> DEFINE o == p.out.logs
  <2>1. q \in ProcessingType /\ q.out.logs = o \o <<>> /\ o \in Seq(LogRecord)
    BY <1>2, <1>5 DEF Emits, ProcessingType, OutputBuffers
  <2> HIDE DEF o
  <2>2. q.out.logs = o
    BY <2>1, NoRecords
  <2> QED
    BY <2>1, <2>2 DEF o
<1>7. q.inv.delaying_logs =
        (p.inv.delaying_logs /\ ~(LogMode = "Structured" /\ HasCaptured(q.inv, "CxEarlyInvocation")))
  BY <1>1, <1>3 DEF SpansProcessed
<1>8. HasCaptured(p.inv, "CxEarlyInvocation") => HasCaptured(q.inv, "CxEarlyInvocation")
  BY <1>1 DEF HasCaptured
<1> QED
  BY <1>2, <1>6, <1>7, <1>8 DEF q

\* An invoke event is taken.
LEMMA InvokeRecords ==
  ASSUME TypeOK, LoopShape, TakeInvokeEvent
  PROVE  StartsInvocation
<1> DEFINE invoke == Head(invoke_event_queue)
           new == NewInvocationState(invoke.req)
           p == Processing(new, output_buffers, metrics_state)
           once == ProcessFunctionSpans(p, function_spans_buffer)
           twice == ProcessFunctionSpans(once, invoke.spans)
           Early(q) == LogMode = "Structured" /\ HasCaptured(q.inv, "CxEarlyInvocation")
<1>1. InputTypes /\ ProcessingTypes
  BY DEF TypeOK
<1>2. invoke \in InvokeEventDataWithSpans
  BY <1>1, HeadTailProperties DEF TakeInvokeEvent, InputTypes
<1>3. invoke.req \in Requests /\ invoke.spans \in Seq(Span) /\ function_spans_buffer \in Seq(Span)
  BY <1>1, <1>2 DEF InvokeEventDataWithSpans, InputTypes
<1>4. /\ new \in InvocationProcessingState /\ new.data = {} /\ new.logs = <<>>
      /\ new.delaying_logs = (TracingMode = "OtelInstrumentation")
  BY <1>3, NewInvocationStateType DEF NewInvocationState
<1>5. p \in ProcessingType /\ p.inv = new /\ p.out = output_buffers /\ p.metrics = metrics_state
  BY <1>1, <1>4 DEF Processing, ProcessingType, ProcessingTypes
<1>6. invocation_state' = twice.inv /\ output_buffers' = twice.out /\ metrics_state' = twice.metrics
  BY DEF TakeInvokeEvent, SetProcessing
<1> HIDE DEF invoke, new, p
<1>7. /\ once \in ProcessingType /\ once.out.logs = output_buffers.logs
      /\ once.metrics = metrics_state /\ once.inv.data = {} /\ once.inv.logs = <<>>
      /\ once.inv.delaying_logs = (new.delaying_logs /\ ~Early(once))
  BY <1>3, <1>4, <1>5, NothingReleased
<1> HIDE DEF once
<1>8. /\ twice \in ProcessingType /\ twice.out.logs = output_buffers.logs
      /\ twice.metrics = metrics_state /\ twice.inv.data = {} /\ twice.inv.logs = <<>>
      /\ twice.inv.delaying_logs = (once.inv.delaying_logs /\ ~Early(twice))
      /\ Early(once) => Early(twice)
  BY <1>3, <1>7, NothingReleased
<1>9. twice.inv \in InvocationProcessingState
  BY <1>8, ProcessingFields
<1> HIDE DEF twice
<1>10. invocation_state'.delaying_logs = (TracingMode = "OtelInstrumentation" /\ ~Early(twice))
  <2> HIDE DEF Early
  <2> QED
    BY <1>4, <1>6, <1>7, <1>8
<1>11. /\ sent' = sent /\ shutdown_flush_started' = shutdown_flush_started
       /\ ~shutdown_flush_started /\ invocation_state = NoInvocation
  BY DEF TakeInvokeEvent, LoopShape, flags, sends
<1>12. AllLogs' = AllLogs /\ metrics_state' = metrics_state
  BY <1>6, <1>8, <1>11 DEF AllLogs
<1> QED
  BY <1>6, <1>8, <1>9, <1>10, <1>11, <1>12 DEF StartsInvocation

\* The kinds of steps that make records, or change what they are made of.
RecordStep ==
  \/ KeepsRecords
  \/ StartsInvocation
  \/ \E e : HandlesEvent(e)
  \/ \E e : DegradesEvent(e)
  \/ \E spans : GetsSpans(spans)

\* Each step of the instance is one of them.
LEMMA RecordSteps ==
  ASSUME TypeInv, PlatformInv, LoopShape, InLine, [InstanceNext]_vars
  PROVE  RecordStep
<1> USE DEF TypeInv
<1>1. CASE Quiet
  BY <1>1 DEF Quiet, AllLogs, KeepsRecords, RecordStep
<1>2. CASE Recording
  BY <1>2, RecordingGrows DEF serviceVars, processing, sends, AllLogs, KeepsRecords, RecordStep
<1>3. CASE DeliverTelemetry
  <2>1. PICK n, lost, age : Delivers(n, lost, age)
    BY <1>3, TelemetryDelivered
  <2> QED
    BY <2>1 DEF Delivers, HandleIncomingTelemetry, processing, sends, AllLogs, KeepsRecords, RecordStep
<1>4. CASE ExportSpan
  BY <1>4, SpanRecords DEF RecordStep
<1>5. CASE Moving /\ UNCHANGED platformVars
  <2>1. CASE TakeInvokeEvent
    BY <2>1, InvokeRecords DEF RecordStep
  <2>2. CASE ProcessEvent
    BY <1>5, <2>2, ProcessRecords DEF RecordStep
  <2>3. CASE ReplayInitEvent
    <3>1. CASE Head(pending_events).ok
      BY <1>5, <2>3, <3>1, ReplayRecords DEF RecordStep
    <3>2. CASE ~Head(pending_events).ok
      BY <2>3, <3>2 DEF ReplayInitEvent, processing, sends, AllLogs, KeepsRecords, RecordStep
    <3> QED
      BY <3>1, <3>2
  <2>4. CASE DegradeEvent
    <3>1. CASE Head(pending_events).ok
      BY <1>5, <2>4, <3>1, DegradeRecords DEF RecordStep
    <3>2. CASE ~Head(pending_events).ok
      BY <2>4, <3>2 DEF DegradeEvent, processing, sends, AllLogs, KeepsRecords, RecordStep
    <3> QED
      BY <3>1, <3>2
  <2>5. CASE CheckShouldSend \/ SendFlushed
    <3>1. AllLogs' = AllLogs
      BY <2>5, LogsSent DEF CheckShouldSend, SendFlushed, sends, AllLogs
    <3> QED
      BY <2>5, <3>1 DEF CheckShouldSend, SendFlushed, KeepsRecords, RecordStep
  <2>6. CASE \/ RejectInvokeEvent \/ HandleInitStart \/ BufferInitEvent \/ FinishInit
             \/ RejectEvent \/ ReplayEnds \/ DegradeEnds \/ FinishProcessing
             \/ EnqueueInvokeEvent \/ FlushEnqueuedTelemetry
    BY <2>6 DEF RejectInvokeEvent, HandleInitStart, BufferInitEvent, FinishInit, RejectEvent,
                ReplayEnds, DegradeEnds, FinishProcessing, EnqueueInvokeEvent, FlushEnqueuedTelemetry,
                processing, sends, AllLogs, KeepsRecords, RecordStep
  <2> QED
    BY <1>5, <2>1, <2>2, <2>3, <2>4, <2>5, <2>6 DEF Moving, ProcessingStep
<1> QED
  BY <1>1, <1>2, <1>3, <1>4, <1>5, StepsOfTheInstance

-----------------------------------------------------------------------------
(* What was processed comes before what will be.                           *)

RecordBase == TypeInv /\ PlatformInv /\ StreamInv /\ LoopShape /\ InLine /\ FlushOnce

\* Initially.
LEMMA RecordBaseInit == ASSUME InstanceInit PROVE RecordBase
  BY FlowInit DEF FlowInv, InstanceTypeInv, RecordBase

\* And after each step.
LEMMA RecordBaseStep ==
  ASSUME RecordBase, [InstanceNext]_vars
  PROVE  RecordBase'
<1> USE DEF RecordBase
<1>1. TypeOK /\ InstanceTypeInv
  BY DEF TypeInv, InstanceTypeInv
<1>2. InstanceTypeInv'
  BY <1>1, InstanceStepTypes
<1>3. TypeInv' /\ PlatformInv'
  BY <1>2 DEF InstanceTypeInv
<1>4. StreamInv'
  BY <1>1, StreamStep
<1>5. LoopShape'
  BY <1>1, LoopShapeStep
<1>6. InLine'
  BY <1>1, InLineStep
<1>7. FlushOnce'
  BY <1>1, FlushOnceStep
<1> QED
  BY <1>3, <1>4, <1>5, <1>6, <1>7

\* Once the flush at shutdown began there is no way back.
LEMMA FlushStays ==
  ASSUME TypeOK, PlatformInv, shutdown_flush_started, [InstanceNext]_vars
  PROVE  shutdown_flush_started'
<1>1. CASE \/ \E events, age : HandleIncomingTelemetry(events, age)
           \/ \E spans : HandleOtlpSpans(spans)
           \/ \E m : HandleOtlpMetrics(m)
  BY <1>1 DEF HandleIncomingTelemetry, HandleOtlpSpans, HandleOtlpMetrics, flags
<1>2. CASE (\E r : StartInvoke(r)) \/ StartShutdown
  BY <1>2 DEF StartInvoke, StartShutdown, flags
<1>3. CASE ProcessingStep
  BY <1>3 DEF ProcessingStep, TakeInvokeEvent, RejectInvokeEvent, HandleInitStart, BufferInitEvent,
              FinishInit, ProcessEvent, RejectEvent, ReplayInitEvent, ReplayEnds, DegradeEvent,
              DegradeEnds, FinishProcessing, flags
<1>4. CASE HandlerStep
  BY <1>4
  DEF HandlerStep, ObtainFunctionContext, FailToObtainFunctionContext, DrainSignals, ReceiveSignal,
      ForbidOtel, AwaitInFlightSends, AwaitTimesOut, PermitOtel, GraceElapses, FinishShutdown,
      EnqueueInvokeEvent, CheckShouldSend, FlushEnqueuedTelemetry, SendFlushed, flags
<1>5. CASE (\E t \in timers : TimerFires(t)) \/ SendEnds \/ Tick
  BY <1>5 DEF TimerFires, SendEnds, Tick, flags
<1>6. CASE UNCHANGED serviceVars
  BY <1>6 DEF serviceVars, flags
<1>7. [Next]_serviceVars
  BY InstanceStepIsServiceStep
<1> QED
  BY <1>1, <1>2, <1>3, <1>4, <1>5, <1>6, <1>7 DEF Next, Receive

\* Taking events away leaves the others ahead.
LEMMA FewerAhead ==
  ASSUME TypeOK, InLine, shutdown_flush_started' = shutdown_flush_started,
         pending_events' \in {pending_events, <<>>}
           \/ (pending_events # <<>> /\ pending_events' = Tail(pending_events)),
         telemetry_event_queue' = telemetry_event_queue
           \/ (telemetry_event_queue # <<>> /\ telemetry_event_queue' = Tail(telemetry_event_queue)),
         section' # "degrade" \/ (section' = section /\ held_event' = held_event),
         half_processed_event_buffer' = half_processed_event_buffer
  PROVE  Ahead' \subseteq Ahead
<1>1. ToSet(pending_events') \subseteq ToSet(pending_events)
  BY SequenceFacts, FewerEvents DEF InLine
<1>2. ToSet(telemetry_event_queue') \subseteq ToSet(telemetry_event_queue)
  BY SequenceFacts, FewerEvents DEF InLine
<1>3. Held' \subseteq Held
  BY DEF Held
<1> QED
  BY <1>1, <1>2, <1>3 DEF Ahead, Waiting

\* Moving events from one buffer to the next leaves them ahead.
LEMMA MovedAhead ==
  ASSUME TypeOK, LoopShape, InLine, FlushOnce, UNCHANGED platformVars,
         \/ HandleInitStart \/ BufferInitEvent \/ FinishInit \/ DegradeEnds \/ FlushEnqueuedTelemetry
  PROVE  Ahead' \subseteq Ahead
<1> DEFINE P == ToSet(pending_events)
           B == ToSet(half_processed_event_buffer)
           Q == ToSet(telemetry_event_queue)
           e == NextEvent
           tail == Tail(telemetry_event_queue)
<1>1. ~shutdown_flush_started
  BY DEF LoopShape, FlushOnce, HandleInitStart, BufferInitEvent, FinishInit, DegradeEnds, HasNextEvent,
         FlushEnqueuedTelemetry
<1>2. telemetry_event_queue # <<>> => e \in Event /\ Q = {e} \cup ToSet(tail)
  BY SequenceFacts, LoopFacts, ElementsTail DEF NextEvent
<1>3. Ahead = P \cup Held \cup B \cup Q
  BY <1>1 DEF Ahead, Waiting
<1>4. ToSet(<<>>) = {}
  BY DEF ToSet
<1>5. CASE FlushEnqueuedTelemetry
  <2>1. shutdown_flush_started' /\ ToSet(pending_events') = Q
    BY <1>5 DEF FlushEnqueuedTelemetry
  <2> QED
    BY <1>3, <2>1 DEF Ahead
<1>6. CASE HandleInitStart
  <2>1. /\ telemetry_event_queue # <<>> /\ telemetry_event_queue' = tail /\ section = "events"
        /\ pending_events = <<>> /\ shutdown_flush_started' = shutdown_flush_started
    BY <1>6 DEF HandleInitStart, HasNextEvent, LoopShape, flags
  <2>2. CASE half_processed_event_buffer = <<>>
    <3>1. half_processed_event_buffer' = <<e>> /\ pending_events' = <<>> /\ Held' = {}
      BY <1>6, <2>1, <2>2 DEF HandleInitStart, loop, Held
    <3>2. ToSet(<<e>>) = {e}
      BY <1>2, <2>1, OrderOne
    <3> HIDE DEF e, tail
    <3> QED
      BY <1>1, <1>2, <1>3, <1>4, <2>1, <3>1, <3>2 DEF Ahead, Waiting
  <2>3. CASE half_processed_event_buffer # <<>>
    <3>1. /\ half_processed_event_buffer' = <<>> /\ Held' = {e}
          /\ pending_events' = half_processed_event_buffer
      BY <1>6, <2>1, <2>3 DEF HandleInitStart, loop, Held
    <3> HIDE DEF e, tail
    <3> QED
      BY <1>1, <1>2, <1>3, <1>4, <2>1, <3>1 DEF Ahead, Waiting
  <2> QED
    BY <2>2, <2>3
<1>7. CASE BufferInitEvent
  <2>1. /\ telemetry_event_queue # <<>> /\ telemetry_event_queue' = tail
        /\ half_processed_event_buffer' = Append(half_processed_event_buffer, e)
        /\ pending_events' = pending_events /\ Held' = {}
        /\ shutdown_flush_started' = shutdown_flush_started
    BY <1>7 DEF BufferInitEvent, HasNextEvent, loop, Held, flags
  <2>2. ToSet(half_processed_event_buffer') = B \cup {e}
    BY <1>2, <2>1, SequenceFacts, ElementsAppend
  <2> HIDE DEF e, tail, B
  <2> QED
    BY <1>1, <1>2, <1>3, <2>1, <2>2 DEF Ahead, Waiting
<1>8. CASE FinishInit
  <2>1. /\ pending_events' = half_processed_event_buffer /\ half_processed_event_buffer' = <<>>
        /\ telemetry_event_queue' = telemetry_event_queue /\ Held' = {}
        /\ shutdown_flush_started' = shutdown_flush_started
    BY <1>8 DEF FinishInit, inputs, Held, flags
  <2> QED
    BY <1>1, <1>3, <1>4, <2>1 DEF Ahead, Waiting
<1>9. CASE DegradeEnds
  <2>1. /\ pending_events' = pending_events
        /\ half_processed_event_buffer' = <<held_event>>
        /\ telemetry_event_queue' = telemetry_event_queue /\ Held' = {} /\ Held = {held_event}
        /\ held_event \in Event /\ shutdown_flush_started' = shutdown_flush_started
    BY <1>9 DEF DegradeEnds, inputs, Held, LoopShape, flags
  <2>2. ToSet(<<held_event>>) = {held_event}
    BY <2>1, OrderOne
  <2> QED
    BY <1>1, <1>3, <1>4, <2>1, <2>2 DEF Ahead, Waiting
<1> QED
  BY <1>5, <1>6, <1>7, <1>8, <1>9

\* What comes ahead was ahead before, or was delivered just now.
LEMMA AheadStep ==
  ASSUME RecordBase, [InstanceNext]_vars
  PROVE  /\ delivered \in Nat /\ delivered' \in Nat /\ delivered <= delivered'
         /\ \A i \in 1..delivered : stream'[i] = stream[i]
         /\ \A x \in Ahead' : x \in Ahead \/ x.id > delivered
<1> USE DEF RecordBase
<1>0. TypeOK /\ delivered \in Nat /\ delivered' \in Nat
  <2>1. TypeOK
    BY DEF TypeInv
  <2>2. PlatformInv'
    BY <2>1, PlatformStep
  <2> QED
    BY <2>1, <2>2 DEF PlatformInv
<1>1. CASE Quiet
  <2>1. Ahead' = Ahead
    BY <1>1 DEF Quiet, loop, Ahead, Waiting, Held
  <2> QED
    BY <1>0, <1>1, <2>1 DEF Quiet
<1>2. CASE Recording
  <2>1. UNCHANGED <<serviceVars, delivered>>
    BY <1>2, RecordingGrows
  <2>2. \A i \in 1..delivered : stream'[i] = stream[i]
    BY <1>2, RecordingAdds DEF Adds, PlatformInv, Recording
  <2>3. Ahead' = Ahead
    BY <2>1 DEF serviceVars, inputs, loop, flags, Ahead, Waiting, Held
  <2> QED
    BY <1>0, <2>1, <2>2, <2>3
<1>3. CASE DeliverTelemetry
  <2>1. PICK n \in 1..(Len(stream) - delivered), lost \in SUBSET {e \in Event : e.kind \in LossyKinds},
              age \in 0..(now + ReportingDelay) : Delivers(n, lost, age)
    BY <1>0, <1>3, TelemetryDelivered
  <2>2. Len(stream) \in Nat /\ n \in Nat /\ delivered + n <= Len(stream)
    BY <1>0 DEF PlatformInv
  <2> DEFINE kept == Kept(n, lost)
  <2>3. /\ kept \in Seq(Event)
        /\ \A x \in ToSet(kept) : x.id \in (delivered + 1)..(delivered + n)
    BY <2>2, BatchInLine DEF Kept
  <2>4. /\ telemetry_event_queue' = telemetry_event_queue \o kept
        /\ pending_events' = pending_events /\ Held' = {} /\ Held = {}
        /\ half_processed_event_buffer' = half_processed_event_buffer
        /\ delivered' = delivered + n /\ stream' = stream
        /\ shutdown_flush_started' = shutdown_flush_started
    BY <2>1 DEF Delivers, HandleIncomingTelemetry, EnqueueEvents, MutexFree, EnterLoop, Held, flags
  <2> HIDE DEF kept
  <2>5. ToSet(telemetry_event_queue') = ToSet(telemetry_event_queue) \cup ToSet(kept)
    BY <1>0, <2>3, <2>4, SequenceFacts, ElementsConcat
  <2>6. Ahead' \subseteq Ahead \cup ToSet(kept)
    BY <2>4, <2>5 DEF Ahead, Waiting
  <2>7. \A x \in ToSet(kept) : x.id > delivered
    BY <1>0, <2>2, <2>3
  <2> QED
    BY <1>0, <2>2, <2>4, <2>6, <2>7
<1>4. CASE ExportSpan
  <2>1. Ahead' = Ahead
    BY <1>4 DEF ExportSpan, HandleOtlpSpans, loop, flags, Ahead, Waiting, Held
  <2> QED
    BY <1>0, <1>4, <2>1 DEF ExportSpan
<1>5. CASE Moving /\ UNCHANGED platformVars
  <2>1. delivered' = delivered /\ stream' = stream
    BY <1>5 DEF platformVars
  <2>2. CASE HandleInitStart \/ BufferInitEvent \/ FinishInit \/ DegradeEnds \/ FlushEnqueuedTelemetry
    BY <1>0, <1>5, <2>1, <2>2, MovedAhead
  <2>3. CASE \/ TakeInvokeEvent \/ ProcessEvent \/ RejectInvokeEvent \/ RejectEvent \/ FinishProcessing
             \/ ReplayInitEvent \/ ReplayEnds \/ DegradeEvent
             \/ EnqueueInvokeEvent \/ CheckShouldSend \/ SendFlushed
    <3>1. /\ shutdown_flush_started' = shutdown_flush_started
          /\ half_processed_event_buffer' = half_processed_event_buffer
          /\ section' # "degrade" \/ (section' = section /\ held_event' = held_event)
      BY <2>3
      DEF TakeInvokeEvent, ProcessEvent, RejectInvokeEvent, RejectEvent, FinishProcessing,
          ReplayInitEvent, ReplayEnds, DegradeEvent, EnqueueInvokeEvent, CheckShouldSend, SendFlushed,
          AbortLoop, LeaveLoop, EnterLoop, loop, flags
    <3>2. \/ pending_events' \in {pending_events, <<>>}
          \/ pending_events # <<>> /\ pending_events' = Tail(pending_events)
      BY <2>3
      DEF TakeInvokeEvent, ProcessEvent, RejectInvokeEvent, RejectEvent, FinishProcessing,
          ReplayInitEvent, ReplayEnds, DegradeEvent, EnqueueInvokeEvent, CheckShouldSend, SendFlushed,
          AbortLoop, LeaveLoop, EnterLoop, loop
    <3>3. \/ telemetry_event_queue' = telemetry_event_queue
          \/ telemetry_event_queue # <<>> /\ telemetry_event_queue' = Tail(telemetry_event_queue)
      BY <2>3
      DEF TakeInvokeEvent, ProcessEvent, RejectInvokeEvent, RejectEvent, FinishProcessing,
          ReplayInitEvent, ReplayEnds, DegradeEvent, EnqueueInvokeEvent, CheckShouldSend, SendFlushed,
          HasNextEvent, inputs
    <3>4. Ahead' \subseteq Ahead
      BY <1>0, <3>1, <3>2, <3>3, FewerAhead
    <3> QED
      BY <1>0, <2>1, <3>4
  <2> QED
    BY <1>5, <2>2, <2>3 DEF Moving, ProcessingStep
<1> QED
  BY <1>0, <1>1, <1>2, <1>3, <1>4, <1>5, StepsOfTheInstance

\* The records that spans release: the start, and the logs that were held.
LEMMA ElementsOfReleased ==
  ASSUME NEW p \in ProcessingType, NEW spans \in Seq(Span)
  PROVE  LET q == ProcessFunctionSpans(p, spans)
         IN  /\ q \in ProcessingType /\ Released(p, q) \in Seq(LogRecord)
             /\ \A l \in ToSet(Released(p, q)) :
                  \/ l.kind = "PlatformStart" /\ \E x \in p.inv.data : MadeOf(l, x, p.inv.req)
                  \/ \E x \in ToSet(p.inv.logs) : MadeOf(l, x, p.inv.req)
             /\ q.inv.req = p.inv.req /\ q.inv.data = p.inv.data
             /\ q.inv.logs \in {<<>>, p.inv.logs}
<1> DEFINE q == ProcessFunctionSpans(p, spans)
           inv == [p.inv EXCEPT !.captured = q.inv.captured]
<1>1. SpansProcessed(p, q)
  BY FunctionSpansProcessed
<1> HIDE DEF q
<1>2. /\ q \in ProcessingType
      /\ q.inv.req = p.inv.req /\ q.inv.data = p.inv.data
      /\ q.inv.logs \in {<<>>, p.inv.logs}
  BY <1>1 DEF SpansProcessed, Emits
<1>3. /\ p.inv \in InvocationProcessingState
      /\ q.inv.captured \in {S \in SUBSET Span : IsFiniteSet(S)}
  BY <1>2, ProcessingFields, InvocationFields
<1>4. /\ inv \in InvocationProcessingState
      /\ inv.req = p.inv.req /\ inv.data = p.inv.data /\ inv.logs = p.inv.logs
  BY <1>3 DEF InvocationProcessingState
<1>5. Released(p, q) = <<>> \/ Released(p, q) = StartLogs(inv) \o HeldRecords(inv)
  BY DEF Released
<1> HIDE DEF inv
<1>6. /\ StartLogs(inv) \in Seq(LogRecord) /\ HeldRecords(inv) \in Seq(LogRecord)
      /\ \A l \in ToSet(StartLogs(inv)) :
           l.kind = "PlatformStart" /\ \E x \in p.inv.data : MadeOf(l, x, p.inv.req)
      /\ \A l \in ToSet(HeldRecords(inv)) : \E x \in ToSet(p.inv.logs) : MadeOf(l, x, p.inv.req)
  BY <1>4, ElementsOfStart, ElementsOfHeld
<1>7. /\ StartLogs(inv) \o HeldRecords(inv) \in Seq(LogRecord)
      /\ ToSet(StartLogs(inv) \o HeldRecords(inv)) = ToSet(StartLogs(inv)) \cup ToSet(HeldRecords(inv))
  BY <1>6, ConcatProperties, RecordsGrow
<1>8. /\ <<>> \in Seq(LogRecord)
      /\ ToSet(<<>>) = {}
  <2>1. ToSet(<<>>) = {}
    BY DEF ToSet
  <2> QED
    BY <2>1, EmptySeq
<1>9. /\ Released(p, q) \in Seq(LogRecord)
      /\ \A l \in ToSet(Released(p, q)) :
           \/ l.kind = "PlatformStart" /\ \E x \in p.inv.data : MadeOf(l, x, p.inv.req)
           \/ \E x \in ToSet(p.inv.logs) : MadeOf(l, x, p.inv.req)
  BY <1>5, <1>6, <1>7, <1>8
<1> QED
  BY <1>2, <1>9 DEF q

\* The state and the records after a step come from the state before it and from the
\* events U that were processed.
ComeFrom(U) ==
  /\ U \subseteq Ahead /\ Before(U, Ahead')
  /\ Sources' \subseteq Sources \cup U
  /\ \A l \in Records' \ Records : \E x \in Sources \cup U : l.kind = x.kind /\ l.id = x.id
  /\ invocation_state' # NoInvocation =>
       \A x \in ToSet(invocation_state'.logs) :
         \/ invocation_state # NoInvocation /\ x \in ToSet(invocation_state.logs)
         \/ x.kind = "Function"

\* The records are a set of records.
LEMMA RecordsType ==
  ASSUME TypeOK
  PROVE  AllLogs \in Seq(LogRecord) /\ Records \subseteq LogRecord
<1>1. sent.logs \in Seq(LogRecord) /\ output_buffers.logs \in Seq(LogRecord)
  BY DEF TypeOK, ProcessingTypes, SendTypes, OutputBuffers
<1>2. AllLogs \in Seq(LogRecord)
  BY <1>1, ConcatProperties DEF AllLogs
<1> QED
  BY <1>2, Elements DEF Records

\* An event that is processed.
LEMMA HandledFrom ==
  ASSUME TypeOK, NEW e, HandlesEvent(e)
  PROVE  ComeFrom({e})
<1> DEFINE p == ProcessingState
           q == ProcessTelemetry(p, e)
<1>1. /\ e \in Event /\ e \in Ahead /\ Before({e}, Ahead')
      /\ invocation_state # NoInvocation
      /\ AllLogs' = AllLogs \o Made(p, e)
      /\ invocation_state' \in {q.inv, NoInvocation}
  BY DEF HandlesEvent
<1>2. p \in ProcessingType /\ p.inv = invocation_state
  BY <1>1, ProcessingStateType DEF ProcessingState, Processing
<1>3. Processes(p, q, e)
  BY <1>1, <1>2, TelemetryProcessed
<1> HIDE DEF p, q
<1>4. /\ q.inv.logs \in {<<>>, p.inv.logs}
           \/ (q.inv.logs = Append(p.inv.logs, e) /\ e.kind = "Function")
      /\ q.inv.data \subseteq p.inv.data \cup {e}
  BY <1>3 DEF Processes, SetsAside
<1>5. p.inv.logs \in Seq(Event)
  BY <1>2, ProcessingFields, InvocationFields
<1>6. \A x \in ToSet(q.inv.logs) : x \in ToSet(p.inv.logs) \/ (x = e /\ e.kind = "Function")
  <2>1. ToSet(<<>>) = {}
    BY DEF ToSet
  <2> DEFINE a == p.inv.logs
             b == q.inv.logs
  <2>2. a \in Seq(Event) /\ (b \in {<<>>, a} \/ (b = Append(a, e) /\ e.kind = "Function"))
    BY <1>4, <1>5
  <2> HIDE DEF a, b
  <2>3. ToSet(Append(a, e)) = ToSet(a) \cup {e}
    BY <1>1, <2>2, ElementsAppend
  <2>4. \A x \in ToSet(b) : x \in ToSet(a) \/ (x = e /\ e.kind = "Function")
    <3>1. CASE b = <<>>
      BY <2>1, <3>1
    <3>2. CASE b = a
      BY <3>2
    <3>3. CASE b = Append(a, e) /\ e.kind = "Function"
      BY <2>3, <3>3
    <3> QED
      BY <2>2, <3>1, <3>2, <3>3
  <2> QED
    BY <2>4 DEF a, b
<1>7. Sources = ToSet(p.inv.logs) \cup p.inv.data
  BY <1>1, <1>2 DEF Sources
<1>8. Sources' \subseteq Sources \cup {e}
  BY <1>1, <1>4, <1>6, <1>7 DEF Sources
<1>9. Records' = Records \cup ToSet(Made(p, e))
  <2> DEFINE made == Made(p, e)
             all == AllLogs
  <2>1. made \in Seq(LogRecord) /\ all \in Seq(LogRecord) /\ AllLogs' = all \o made
    BY <1>1, <1>2, PartsMade, RecordsType
  <2> HIDE DEF made, all
  <2>2. ToSet(all \o made) = ToSet(all) \cup ToSet(made)
    BY <2>1, RecordsGrow
  <2> QED
    BY <2>1, <2>2 DEF Records, made, all
<1>10. \A l \in Records' \ Records : \E x \in Sources \cup {e} : l.kind = x.kind /\ l.id = x.id
  <2> SUFFICES ASSUME NEW l \in ToSet(Made(p, e))
               PROVE  \E x \in Sources \cup {e} : l.kind = x.kind /\ l.id = x.id
    BY <1>9
  <2>1. PICK x \in ToSet(p.inv.logs) \cup p.inv.data \cup {e} : MadeOf(l, x, p.inv.req)
    BY <1>1, <1>2, ElementsOfMade
  <2> QED
    BY <1>7, <2>1 DEF MadeOf
<1>11. ASSUME invocation_state' # NoInvocation, NEW x \in ToSet(invocation_state'.logs)
       PROVE  \/ invocation_state # NoInvocation /\ x \in ToSet(invocation_state.logs)
              \/ x.kind = "Function"
  <2>1. invocation_state' = q.inv
    BY <1>1, <1>11
  <2>2. x \in ToSet(q.inv.logs)
    BY <1>11, <2>1
  <2> QED
    BY <1>1, <1>2, <1>6, <2>2
<1> QED
  BY <1>1, <1>8, <1>10, <1>11 DEF ComeFrom

\* An event that is processed without an invocation.
LEMMA DegradedFrom ==
  ASSUME TypeOK, NEW e, DegradesEvent(e)
  PROVE  ComeFrom({e})
<1>1. /\ e \in Event /\ e \in Ahead /\ Before({e}, Ahead')
      /\ invocation_state' = invocation_state
      /\ AllLogs' = AllLogs \o DegradedLogs(e)
  BY DEF DegradesEvent
<1>2. Records' = Records \cup ToSet(DegradedLogs(e))
  <2> DEFINE made == DegradedLogs(e)
             all == AllLogs
  <2>1. made \in Seq(LogRecord) /\ all \in Seq(LogRecord) /\ AllLogs' = all \o made
    BY <1>1, DegradedMade, RecordsType
  <2> HIDE DEF made, all
  <2>2. ToSet(all \o made) = ToSet(all) \cup ToSet(made)
    BY <2>1, RecordsGrow
  <2> QED
    BY <2>1, <2>2 DEF Records, made, all
<1>3. \A l \in Records' \ Records : l.kind = e.kind /\ l.id = e.id
  BY <1>1, <1>2, DegradedMade DEF MadeOf
<1> QED
  BY <1>1, <1>3 DEF ComeFrom, Sources

\* Spans of the function.
LEMMA SpansFrom ==
  ASSUME TypeOK, NEW spans, GetsSpans(spans)
  PROVE  ComeFrom({})
<1> DEFINE p == ProcessingState
           q == ProcessFunctionSpans(p, spans)
<1>1. /\ spans \in Seq(Span) /\ invocation_state # NoInvocation
      /\ AllLogs' = AllLogs \o Released(p, q) /\ invocation_state' = q.inv
  BY DEF GetsSpans
<1>2. p \in ProcessingType /\ p.inv = invocation_state
  BY <1>1, ProcessingStateType DEF ProcessingState, Processing
<1> HIDE DEF p
<1>3. /\ Released(p, q) \in Seq(LogRecord)
      /\ \A l \in ToSet(Released(p, q)) :
           \E x \in ToSet(p.inv.logs) \cup p.inv.data : MadeOf(l, x, p.inv.req)
      /\ q.inv.data = p.inv.data /\ q.inv.logs \in {<<>>, p.inv.logs}
  BY <1>1, <1>2, ElementsOfReleased
<1> HIDE DEF q
<1>4. Records' = Records \cup ToSet(Released(p, q))
  <2> DEFINE made == Released(p, q)
             all == AllLogs
  <2>1. made \in Seq(LogRecord) /\ all \in Seq(LogRecord) /\ AllLogs' = all \o made
    BY <1>1, <1>3, RecordsType
  <2> HIDE DEF made, all
  <2>2. ToSet(all \o made) = ToSet(all) \cup ToSet(made)
    BY <2>1, RecordsGrow
  <2> QED
    BY <2>1, <2>2 DEF Records, made, all
<1>5. Sources = ToSet(p.inv.logs) \cup p.inv.data
  BY <1>1, <1>2 DEF Sources
<1>6. \A l \in Records' \ Records : \E x \in Sources : l.kind = x.kind /\ l.id = x.id
  BY <1>3, <1>4, <1>5 DEF MadeOf
<1>7. ToSet(<<>>) = {}
  BY DEF ToSet
<1>8. Sources' \subseteq Sources
  BY <1>1, <1>3, <1>5, <1>7 DEF Sources
<1> QED
  BY <1>1, <1>2, <1>3, <1>6, <1>7, <1>8 DEF ComeFrom, Before

\* Each step.
LEMMA RecordsComeFrom ==
  ASSUME RecordBase, [InstanceNext]_vars
  PROVE  \E U : ComeFrom(U)
<1>0. TypeOK /\ RecordStep
  BY RecordSteps DEF RecordBase, TypeInv
<1>1. CASE KeepsRecords
  <2>1. ComeFrom({})
    BY <1>1 DEF KeepsRecords, ComeFrom, Sources, Records, Before
  <2> QED
    BY <2>1
<1>2. CASE StartsInvocation
  <2>1. ToSet(<<>>) = {}
    BY DEF ToSet
  <2>2. Sources' = {}
    BY <1>2, <2>1 DEF StartsInvocation, Sources
  <2>3. ComeFrom({})
    BY <1>2, <2>1, <2>2 DEF StartsInvocation, ComeFrom, Records, Before
  <2> QED
    BY <2>3
<1> QED
  BY <1>0, <1>1, <1>2, HandledFrom, DegradedFrom, SpansFrom DEF RecordStep

\* Each event that the state holds, or that a record was made of, is an event that was
\* delivered and comes before all that are still to be processed.
SourceInv ==
  /\ \A x \in Sources : x.id \in 1..delivered /\ stream[x.id] = x
  /\ \A l \in Records : l.id \in 1..delivered /\ stream[l.id].kind = l.kind
  /\ \A x \in Sources \cup Records : \A y \in Ahead : x.id < y.id
  /\ invocation_state # NoInvocation =>
       \A x \in ToSet(invocation_state.logs) : x.kind = "Function"

\* What comes ahead waits.
LEMMA AheadWaits ==
  ASSUME InLine
  PROVE  \A x \in Ahead : x.id \in 1..delivered /\ stream[x.id] = x
  BY DEF Ahead, Waiting, InLine

\* What was passed stays passed.
LEMMA BehindStays ==
  ASSUME RecordBase, [InstanceNext]_vars, NEW k \in 1..delivered, \A y \in Ahead : k < y.id
  PROVE  k \in 1..delivered' /\ stream'[k] = stream[k] /\ \A y \in Ahead' : k < y.id
<1>1. /\ delivered \in Nat /\ delivered' \in Nat /\ delivered <= delivered'
      /\ \A i \in 1..delivered : stream'[i] = stream[i]
      /\ \A x \in Ahead' : x \in Ahead \/ x.id > delivered
  BY AheadStep
<1>2. \A y \in Ahead' : y.id \in 1..delivered'
  <2>1. RecordBase'
    BY RecordBaseStep
  <2> QED
    BY <2>1, AheadWaits DEF RecordBase, InLine, Ahead, Waiting
<1>3. ASSUME NEW y \in Ahead' PROVE k < y.id
  <2>1. y.id \in Nat
    BY <1>1, <1>2
  <2>2. CASE y \in Ahead
    BY <2>2
  <2>3. CASE y.id > delivered
    BY <1>1, <2>1, <2>3
  <2> QED
    BY <1>1, <2>2, <2>3
<1> QED
  BY <1>1, <1>3

\* Initially nothing was processed.
LEMMA NoRecordsYet ==
  ASSUME InstanceInit
  PROVE  AllLogs = <<>> /\ Records = {} /\ Sources = {} /\ metrics_state = {}
<1>1. sent.logs = <<>> /\ output_buffers.logs = <<>> /\ invocation_state = NoInvocation
      /\ metrics_state = {}
  BY DEF InstanceInit, Init, EmptyBuffers
<1>2. <<>> \o <<>> = <<>>
  BY ConcatEmptySeq, EmptySeq
<1>3. ToSet(<<>>) = {}
  BY DEF ToSet
<1> QED
  BY <1>1, <1>2, <1>3 DEF AllLogs, Records, Sources

\* Each step keeps what is known of the sources of the records.
LEMMA SourceStep ==
  ASSUME RecordBase, SourceInv, [InstanceNext]_vars
  PROVE  SourceInv'
<1>1. PICK U : ComeFrom(U)
  BY RecordsComeFrom
<1>2. \A x \in U : x.id \in 1..delivered /\ stream[x.id] = x
  BY <1>1, AheadWaits DEF ComeFrom, RecordBase
<1>3. ASSUME NEW x \in U
      PROVE  x.id \in 1..delivered' /\ stream'[x.id] = x /\ \A y \in Ahead' : x.id < y.id
  <2>1. /\ delivered \in Nat /\ delivered' \in Nat /\ delivered <= delivered'
        /\ \A i \in 1..delivered : stream'[i] = stream[i]
    BY AheadStep
  <2>2. \A y \in Ahead' : x.id < y.id
    BY <1>1 DEF ComeFrom, Before
  <2> QED
    BY <1>2, <2>1, <2>2
<1>4. ASSUME NEW x \in Sources
      PROVE  x.id \in 1..delivered' /\ stream'[x.id] = x /\ \A y \in Ahead' : x.id < y.id
  <2>1. x.id \in 1..delivered /\ stream[x.id] = x /\ \A y \in Ahead : x.id < y.id
    BY DEF SourceInv
  <2> QED
    BY <2>1, BehindStays
<1>5. ASSUME NEW l \in Records
      PROVE  l.id \in 1..delivered' /\ stream'[l.id].kind = l.kind /\ \A y \in Ahead' : l.id < y.id
  <2>1. l.id \in 1..delivered /\ stream[l.id].kind = l.kind /\ \A y \in Ahead : l.id < y.id
    BY DEF SourceInv
  <2> QED
    BY <2>1, BehindStays
<1>6. ASSUME NEW l \in Records'
      PROVE  l.id \in 1..delivered' /\ stream'[l.id].kind = l.kind /\ \A y \in Ahead' : l.id < y.id
  <2>1. CASE l \in Records
    BY <1>5, <2>1
  <2>2. CASE l \notin Records
    <3>1. PICK x \in Sources \cup U : l.kind = x.kind /\ l.id = x.id
      BY <1>1, <2>2 DEF ComeFrom
    <3> QED
      BY <1>3, <1>4, <3>1
  <2> QED
    BY <2>1, <2>2
<1>7. Sources' \subseteq Sources \cup U
  BY <1>1 DEF ComeFrom
<1>8. invocation_state' # NoInvocation => \A x \in ToSet(invocation_state'.logs) : x.kind = "Function"
  BY <1>1 DEF ComeFrom, SourceInv
<1> QED
  BY <1>3, <1>4, <1>6, <1>7, <1>8 DEF SourceInv

-----------------------------------------------------------------------------
(* What is processed in degraded mode.                                     *)

DegradedInv ==
  ~shutdown_flush_started =>
    \A l \in Records : l.inv = Degraded =>
      \E j \in 1..Len(stream) : j > l.id /\ stream[j].kind = "PlatformInitStart"

\* Each step: what is degraded precedes the init that is held meanwhile.
LEMMA DegradedStep ==
  ASSUME RecordBase, SourceInv, DegradedInv, [InstanceNext]_vars
  PROVE  DegradedInv'
<1>1. TypeOK /\ PlatformInv /\ PlatformInv' /\ InLine' /\ RecordStep
  BY RecordBaseStep, RecordSteps DEF RecordBase, TypeInv
<1>2. SUFFICES ASSUME ~shutdown_flush_started', NEW l \in Records', l.inv = Degraded
               PROVE  \E j \in 1..Len(stream') : j > l.id /\ stream'[j].kind = "PlatformInitStart"
  BY DEF DegradedInv
<1>3. ~shutdown_flush_started
  BY <1>1, <1>2, FlushStays
<1>4. \A i \in 1..Len(stream) : i \in 1..Len(stream') /\ stream'[i] = stream[i]
  <2>1. CASE Recording
    BY <1>1, <2>1, RecordingAdds DEF Adds, Recording
  <2>2. CASE ~Recording
    BY <1>1, <2>2, StepsOfTheInstance, TelemetryDelivered
    DEF Quiet, Delivers, DeliverTelemetry, ExportSpan, platformVars
  <2> QED
    BY <2>1, <2>2
<1>5. CASE l \in Records
  <2>1. PICK j \in 1..Len(stream) : j > l.id /\ stream[j].kind = "PlatformInitStart"
    BY <1>2, <1>3, <1>5 DEF DegradedInv
  <2> QED
    BY <1>4, <2>1
<1>6. CASE l \notin Records
  <2>1. ~KeepsRecords /\ ~StartsInvocation
    BY <1>2, <1>6 DEF KeepsRecords, StartsInvocation, Records
  <2>2. ASSUME NEW e, HandlesEvent(e) PROVE FALSE
    <3> DEFINE p == ProcessingState
               made == Made(p, e)
               all == AllLogs
    <3>1. /\ e \in Event /\ invocation_state # NoInvocation /\ AllLogs' = all \o made
      BY <2>2 DEF HandlesEvent
    <3>2. p \in ProcessingType
      BY <1>1, <3>1, ProcessingStateType
    <3>3. p.inv.req \in Requests
      BY <3>2, ProcessingFields, InvocationFields
    <3> HIDE DEF p
    <3>4. /\ made \in Seq(LogRecord) /\ all \in Seq(LogRecord)
          /\ \A m \in ToSet(made) : m.inv = p.inv.req
      BY <1>1, <3>1, <3>2, PartsMade, ElementsOfMade, RecordsType DEF MadeOf
    <3> HIDE DEF made, all
    <3>5. ToSet(all \o made) = ToSet(all) \cup ToSet(made)
      BY <3>4, RecordsGrow
    <3>6. l \in ToSet(made)
      BY <1>2, <1>6, <3>1, <3>5 DEF Records, all
    <3> QED
      BY <1>2, <3>3, <3>4, <3>6, ProcessorAssumption
  <2>3. ASSUME NEW spans, GetsSpans(spans) PROVE FALSE
    <3> DEFINE p == ProcessingState
               made == Released(p, ProcessFunctionSpans(p, spans))
               all == AllLogs
    <3>1. spans \in Seq(Span) /\ invocation_state # NoInvocation /\ AllLogs' = all \o made
      BY <2>3 DEF GetsSpans
    <3>2. p \in ProcessingType
      BY <1>1, <3>1, ProcessingStateType
    <3>3. p.inv.req \in Requests
      BY <3>2, ProcessingFields, InvocationFields
    <3> HIDE DEF p
    <3>4. /\ made \in Seq(LogRecord) /\ all \in Seq(LogRecord)
          /\ \A m \in ToSet(made) : m.inv = p.inv.req
      BY <1>1, <3>1, <3>2, ElementsOfReleased, RecordsType DEF MadeOf
    <3> HIDE DEF made, all
    <3>5. ToSet(all \o made) = ToSet(all) \cup ToSet(made)
      BY <3>4, RecordsGrow
    <3>6. l \in ToSet(made)
      BY <1>2, <1>6, <3>1, <3>5 DEF Records, all
    <3> QED
      BY <1>2, <3>3, <3>4, <3>6, ProcessorAssumption
  <2>4. PICK e : DegradesEvent(e)
    BY <1>1, <2>1, <2>2, <2>3 DEF RecordStep
  <2> DEFINE made == DegradedLogs(e)
             all == AllLogs
  <2>5. /\ e \in Event /\ AllLogs' = all \o made /\ Before({e}, Ahead')
        /\ held_event \in Ahead' /\ held_event.kind = "PlatformInitStart"
    BY <1>3, <2>4 DEF DegradesEvent
  <2>6. /\ made \in Seq(LogRecord) /\ all \in Seq(LogRecord)
        /\ \A m \in ToSet(made) : m.id = e.id
    BY <1>1, <2>5, DegradedMade, RecordsType DEF MadeOf
  <2> HIDE DEF made, all
  <2>7. ToSet(all \o made) = ToSet(all) \cup ToSet(made)
    BY <2>6, RecordsGrow
  <2>8. l.id = e.id
    BY <1>2, <1>6, <2>5, <2>6, <2>7 DEF Records, all
  <2>9. /\ held_event.id \in 1..delivered' /\ stream'[held_event.id] = held_event
        /\ e.id < held_event.id
    BY <1>1, <2>5 DEF InLine, Ahead, Waiting, Before
  <2>10. delivered' \in Nat /\ Len(stream') \in Nat /\ delivered' <= Len(stream')
    BY <1>1 DEF PlatformInv
  <2>11. e.id \in Nat
    BY <2>5 DEF Event
  <2> QED
    BY <2>5, <2>8, <2>9, <2>10, <2>11
<1> QED
  BY <1>5, <1>6

-----------------------------------------------------------------------------
(* The reports that the platform metrics count.                            *)

\* The reports in a sequence of records, by their positions.
Reports(logs) == {i \in 1..Len(logs) : logs[i].kind = "PlatformReport"}

\* Each report is counted once, when its record is made.
ReportInv ==
  /\ metrics_state = {AllLogs[i].id : i \in Reports(AllLogs)}
  /\ \A i, j \in Reports(AllLogs) : AllLogs[i].id = AllLogs[j].id => i = j

ReportsAreLogged == PlatformMetricsMode = "PlatformReport" /\ PlatformLogEnabled("PlatformReport")

\* Records with at most one report, and that one new.
OneReport(new, ids) ==
  /\ ids = {new[i].id : i \in Reports(new)}
  /\ \A i, j \in Reports(new) : i = j
  /\ \A l \in Records : l.kind = "PlatformReport" => l.id \notin ids

\* A step that counts the reports among the records it makes.
LEMMA ReportsGrow ==
  ASSUME ReportInv, AllLogs \in Seq(LogRecord), NEW new \in Seq(LogRecord), NEW ids,
         OneReport(new, ids), AllLogs' = AllLogs \o new, metrics_state' = metrics_state \cup ids
  PROVE  ReportInv'
<1> DEFINE a == AllLogs
           all == a \o new
<1>1. /\ a \in Seq(LogRecord) /\ Len(a) \in Nat /\ Len(new) \in Nat
      /\ metrics_state = {a[i].id : i \in Reports(a)}
      /\ \A i, j \in Reports(a) : a[i].id = a[j].id => i = j
      /\ AllLogs' = all
  BY DEF ReportInv
<1>2. \A i \in Reports(a) : a[i].id \notin ids
  <2>1. \A i \in 1..Len(a) : a[i] \in Records
    BY Elements DEF Records
  <2> QED
    BY <2>1 DEF Reports, OneReport
<1> HIDE DEF a
<1>3. /\ all \in Seq(LogRecord) /\ Len(all) = Len(a) + Len(new)
      /\ \A i \in 1..(Len(a) + Len(new)) :
           all[i] = IF i <= Len(a) THEN a[i] ELSE new[i - Len(a)]
  BY <1>1, ConcatProperties
<1> HIDE DEF all
<1>4. \A i \in 1..Len(a) : i \in 1..Len(all) /\ all[i] = a[i]
  <2> SUFFICES ASSUME NEW i \in 1..Len(a) PROVE i \in 1..Len(all) /\ all[i] = a[i]
    OBVIOUS
  <2>1. i \in 1..(Len(a) + Len(new)) /\ i <= Len(a)
    BY <1>1
  <2> QED
    BY <1>3, <2>1
<1>5. \A i \in 1..Len(new) : Len(a) + i \in 1..Len(all) /\ all[Len(a) + i] = new[i]
  <2> SUFFICES ASSUME NEW i \in 1..Len(new)
               PROVE  Len(a) + i \in 1..Len(all) /\ all[Len(a) + i] = new[i]
    OBVIOUS
  <2>1. /\ Len(a) + i \in 1..(Len(a) + Len(new)) /\ ~(Len(a) + i <= Len(a))
        /\ (Len(a) + i) - Len(a) = i
    BY <1>1
  <2> QED
    BY <1>3, <2>1
<1>6. ASSUME NEW k \in Reports(all)
      PROVE  \/ k \in Reports(a) /\ all[k] = a[k]
             \/ \E i \in Reports(new) : k = Len(a) + i /\ all[k] = new[i]
  <2>1. k \in 1..Len(all) /\ all[k].kind = "PlatformReport"
    BY DEF Reports
  <2>2. CASE k <= Len(a)
    <3>1. k \in 1..Len(a)
      BY <1>1, <1>3, <2>1, <2>2
    <3> QED
      BY <1>4, <2>1, <3>1 DEF Reports
  <2>3. CASE ~(k <= Len(a))
    <3> DEFINE i == k - Len(a)
    <3>1. i \in 1..Len(new) /\ k = Len(a) + i
      BY <1>1, <1>3, <2>1, <2>3
    <3> HIDE DEF i
    <3>2. all[k] = new[i]
      BY <1>5, <3>1
    <3> QED
      BY <2>1, <3>1, <3>2 DEF Reports
  <2> QED
    BY <2>2, <2>3
<1>7. /\ \A i \in Reports(a) : i \in Reports(all) /\ all[i] = a[i]
      /\ \A i \in Reports(new) : Len(a) + i \in Reports(all) /\ all[Len(a) + i] = new[i]
  BY <1>4, <1>5 DEF Reports
<1>8. metrics_state' = {all[i].id : i \in Reports(all)}
  <2>1. metrics_state' = {a[i].id : i \in Reports(a)} \cup {new[i].id : i \in Reports(new)}
    BY <1>1 DEF OneReport
  <2>2. \A x \in {all[i].id : i \in Reports(all)} :
          x \in {a[i].id : i \in Reports(a)} \cup {new[i].id : i \in Reports(new)}
    BY <1>6
  <2>3. \A x \in {a[i].id : i \in Reports(a)} : x \in {all[i].id : i \in Reports(all)}
    BY <1>7
  <2>4. \A x \in {new[i].id : i \in Reports(new)} : x \in {all[i].id : i \in Reports(all)}
    BY <1>7
  <2> QED
    BY <2>1, <2>2, <2>3, <2>4
<1>9. ASSUME NEW i \in Reports(all), NEW j \in Reports(all), all[i].id = all[j].id
      PROVE  i = j
  <2>1. CASE i \in Reports(a) /\ all[i] = a[i] /\ j \in Reports(a) /\ all[j] = a[j]
    BY <1>1, <1>9, <2>1
  <2>2. CASE \E m \in Reports(new) : i = Len(a) + m /\ all[i] = new[m]
    <3>1. all[i].id \in ids
      BY <2>2 DEF OneReport
    <3>2. PICK n \in Reports(new) : j = Len(a) + n
      BY <1>2, <1>6, <1>9, <3>1
    <3> QED
      BY <2>2, <3>2 DEF OneReport
  <2>3. CASE \E n \in Reports(new) : j = Len(a) + n /\ all[j] = new[n]
    <3>1. all[j].id \in ids
      BY <2>3 DEF OneReport
    <3>2. PICK m \in Reports(new) : i = Len(a) + m
      BY <1>2, <1>6, <1>9, <3>1
    <3> QED
      BY <2>3, <3>2 DEF OneReport
  <2> QED
    BY <1>6, <2>1, <2>2, <2>3
<1>10. Reports(AllLogs)' = Reports(all)
  BY <1>1 DEF Reports
<1>11. metrics_state' = {AllLogs'[i].id : i \in Reports(AllLogs)'}
  BY <1>1, <1>8, <1>10
<1>12. \A i, j \in Reports(AllLogs)' : AllLogs'[i].id = AllLogs'[j].id => i = j
  BY <1>1, <1>9, <1>10
<1> QED
  BY <1>11, <1>12 DEF ReportInv

\* Of the records that an event makes only its own can be a report.
LEMMA ReportsMade ==
  ASSUME NEW p \in ProcessingType, NEW e \in Event, ReportsAreLogged,
         \A x \in ToSet(p.inv.logs) : x.kind = "Function"
  PROVE  /\ \A i, j \in Reports(Made(p, e)) : i = j
         /\ {Made(p, e)[i].id : i \in Reports(Made(p, e))} = IF Counted(e) THEN {e.id} ELSE {}
<1> DEFINE a == StartPart(p, e)
           b == HeldPart(p, e)
           c == OwnPart(p, e)
           s == Made(p, e)
<1>1. /\ a \in Seq(LogRecord) /\ b \in Seq(LogRecord) /\ c \in Seq(LogRecord) /\ Len(c) \in {0, 1}
      /\ \A l \in ToSet(a) : l.kind = "PlatformStart"
      /\ \A l \in ToSet(b) : \E x \in ToSet(p.inv.logs) : MadeOf(l, x, p.inv.req)
      /\ MakesOwn(p, e) <=> Len(c) = 1
      /\ MakesOwn(p, e) => MadeOf(c[1], e, p.inv.req)
  BY PartsMade
<1>2. s = a \o (b \o c)
  BY DEF Made
<1>3. \A l \in ToSet(b) : l.kind = "Function"
  BY <1>1 DEF MadeOf
<1>4. /\ \A k \in 1..Len(a) : a[k].kind = "PlatformStart"
      /\ \A k \in 1..Len(b) : b[k].kind = "Function"
  <2>1. /\ \A k \in 1..Len(a) : a[k] \in ToSet(a)
        /\ \A k \in 1..Len(b) : b[k] \in ToSet(b)
    BY <1>1, Elements
  <2> QED
    BY <1>1, <1>3, <2>1
<1>5. /\ Counted(e) <=> e.kind = "PlatformReport"
      /\ e.kind = "PlatformReport" => MakesOwn(p, e)
  BY DEF Counted, MakesOwn, ReportsAreLogged
<1> HIDE DEF a, b, c, s
<1>6. /\ s \in Seq(LogRecord)
      /\ \A k \in 1..Len(s) :
           \/ k \in 1..Len(a) /\ s[k] = a[k]
           \/ k > Len(a) /\ k - Len(a) \in 1..Len(b) /\ s[k] = b[k - Len(a)]
           \/ Len(c) = 1 /\ k = Len(s) /\ s[k] = c[1]
      /\ Len(c) = 1 => Len(s) > 0 /\ s[Len(s)] = c[1]
  BY <1>1, <1>2, ThreeParts
<1>7. ASSUME NEW k \in Reports(s)
      PROVE  k = Len(s) /\ s[k].id = e.id /\ e.kind = "PlatformReport"
  <2>1. k \in 1..Len(s) /\ s[k].kind = "PlatformReport"
    BY DEF Reports
  <2>2. Len(c) = 1 /\ k = Len(s) /\ s[k] = c[1]
    BY <1>4, <1>6, <2>1
  <2> QED
    BY <1>1, <2>1, <2>2 DEF MadeOf
<1>8. ASSUME e.kind = "PlatformReport"
      PROVE  Len(s) \in Reports(s) /\ s[Len(s)].id = e.id
  <2>1. Len(c) = 1 /\ MadeOf(c[1], e, p.inv.req)
    BY <1>1, <1>5, <1>8
  <2>2. Len(s) \in 1..Len(s) /\ s[Len(s)] = c[1]
    BY <1>6, <2>1
  <2> QED
    BY <1>8, <2>1, <2>2 DEF Reports, MadeOf
<1>9. {s[i].id : i \in Reports(s)} = IF Counted(e) THEN {e.id} ELSE {}
  <2>1. CASE e.kind = "PlatformReport"
    BY <1>5, <1>7, <1>8, <2>1
  <2>2. CASE e.kind # "PlatformReport"
    BY <1>5, <1>7, <2>2
  <2> QED
    BY <2>1, <2>2
<1> QED
  BY <1>7, <1>9 DEF s

\* The same in degraded mode.
LEMMA ReportsDegraded ==
  ASSUME NEW e \in Event, ReportsAreLogged
  PROVE  /\ \A i, j \in Reports(DegradedLogs(e)) : i = j
         /\ {DegradedLogs(e)[i].id : i \in Reports(DegradedLogs(e))} =
              IF e.kind = "PlatformReport" THEN {e.id} ELSE {}
<1> DEFINE s == DegradedLogs(e)
<1>1. /\ s \in Seq(LogRecord) /\ Len(s) \in {0, 1}
      /\ \A l \in ToSet(s) : MadeOf(l, e, Degraded)
      /\ PlatformLogEnabled(e.kind) => Len(s) = 1
  BY DegradedMade
<1> HIDE DEF s
<1>2. \A k \in 1..Len(s) : s[k] \in ToSet(s)
  BY <1>1, Elements
<1>3. \A k \in 1..Len(s) : k = 1 /\ s[k].id = e.id /\ s[k].kind = e.kind
  BY <1>1, <1>2 DEF MadeOf
<1>4. e.kind = "PlatformReport" => 1 \in 1..Len(s)
  BY <1>1 DEF ReportsAreLogged
<1>5. \A i, j \in Reports(s) : i = j
  BY <1>3 DEF Reports
<1>6. {s[i].id : i \in Reports(s)} = IF e.kind = "PlatformReport" THEN {e.id} ELSE {}
  <2>1. CASE e.kind = "PlatformReport"
    <3>1. 1 \in Reports(s) /\ s[1].id = e.id
      BY <1>3, <1>4, <2>1 DEF Reports
    <3>2. \A i \in Reports(s) : s[i].id = e.id
      BY <1>3 DEF Reports
    <3> QED
      BY <2>1, <3>1, <3>2
  <2>2. CASE e.kind # "PlatformReport"
    <3>1. Reports(s) = {}
      BY <1>3, <2>2 DEF Reports
    <3> QED
      BY <2>2, <3>1
  <2> QED
    BY <2>1, <2>2
<1> QED
  BY <1>5, <1>6 DEF s

\* Each step: reports are counted as their records are made.
LEMMA ReportStep ==
  ASSUME RecordBase, SourceInv, ReportInv, ReportsAreLogged, [InstanceNext]_vars
  PROVE  ReportInv'
<1>1. TypeOK /\ InLine /\ RecordStep
  BY RecordSteps DEF RecordBase, TypeInv
<1>2. AllLogs \in Seq(LogRecord)
  BY <1>1, RecordsType
<1>3. CASE KeepsRecords \/ StartsInvocation
  <2>1. AllLogs' = AllLogs /\ metrics_state' = metrics_state
    BY <1>3 DEF KeepsRecords, StartsInvocation
  <2>2. Reports(AllLogs)' = Reports(AllLogs)
    BY <2>1 DEF Reports
  <2> QED
    BY <2>1, <2>2 DEF ReportInv
<1>4. ASSUME NEW e, HandlesEvent(e) PROVE ReportInv'
  <2> DEFINE p == ProcessingState
             q == ProcessTelemetry(p, e)
             new == Made(p, e)
             ids == IF Counted(e) THEN {e.id} ELSE {}
  <2>1. /\ e \in Event /\ e \in Ahead /\ invocation_state # NoInvocation
        /\ AllLogs' = AllLogs \o new /\ metrics_state' = q.metrics
    BY <1>4 DEF HandlesEvent
  <2>2. p \in ProcessingType /\ p.inv = invocation_state /\ p.metrics = metrics_state
    BY <1>1, <2>1, ProcessingStateType DEF ProcessingState, Processing
  <2> HIDE DEF p
  <2>3. Processes(p, q, e)
    BY <2>1, <2>2, TelemetryProcessed
  <2> HIDE DEF q
  <2>4. metrics_state' = metrics_state \cup ids
    BY <2>1, <2>2, <2>3 DEF Processes
  <2>5. \A x \in ToSet(p.inv.logs) : x.kind = "Function"
    BY <2>1, <2>2 DEF SourceInv
  <2>6. new \in Seq(LogRecord)
    BY <2>1, <2>2, PartsMade
  <2>7. ids = {new[i].id : i \in Reports(new)} /\ \A i, j \in Reports(new) : i = j
    BY <2>1, <2>2, <2>5, ReportsMade
  <2>8. \A l \in Records : l.id \notin ids
    <3>1. \A l \in Records : l.id < e.id
      BY <2>1 DEF SourceInv
    <3>2. e.id \in Nat
      BY <2>1 DEF Event
    <3> QED
      BY <3>1, <3>2
  <2> HIDE DEF new, ids
  <2>9. OneReport(new, ids)
    BY <2>7, <2>8 DEF OneReport
  <2> QED
    BY <1>2, <2>1, <2>4, <2>6, <2>9, ReportsGrow
<1>5. ASSUME NEW e, DegradesEvent(e) PROVE ReportInv'
  <2> DEFINE new == DegradedLogs(e)
             ids == IF e.kind = "PlatformReport" THEN {e.id} ELSE {}
  <2>1. /\ e \in Event /\ e \in Ahead
        /\ AllLogs' = AllLogs \o new /\ metrics_state' = DegradedMetrics(metrics_state, e)
    BY <1>5 DEF DegradesEvent
  <2>2. metrics_state' = metrics_state \cup ids
    BY <2>1 DEF DegradedMetrics, ReportsAreLogged
  <2>3. new \in Seq(LogRecord)
    BY <2>1, DegradedMade
  <2>4. ids = {new[i].id : i \in Reports(new)} /\ \A i, j \in Reports(new) : i = j
    BY <2>1, ReportsDegraded
  <2>5. \A l \in Records : l.id \notin ids
    <3>1. \A l \in Records : l.id < e.id
      BY <2>1 DEF SourceInv
    <3>2. e.id \in Nat
      BY <2>1 DEF Event
    <3> QED
      BY <3>1, <3>2
  <2> HIDE DEF new, ids
  <2>6. OneReport(new, ids)
    BY <2>4, <2>5 DEF OneReport
  <2> QED
    BY <1>2, <2>1, <2>2, <2>3, <2>6, ReportsGrow
<1>6. ASSUME NEW spans, GetsSpans(spans) PROVE ReportInv'
  <2> DEFINE p == ProcessingState
             new == Released(p, ProcessFunctionSpans(p, spans))
  <2>1. /\ spans \in Seq(Span) /\ invocation_state # NoInvocation
        /\ AllLogs' = AllLogs \o new /\ metrics_state' = metrics_state
    BY <1>6 DEF GetsSpans
  <2>2. p \in ProcessingType /\ p.inv = invocation_state
    BY <1>1, <2>1, ProcessingStateType DEF ProcessingState, Processing
  <2> HIDE DEF p
  <2>3. \A x \in ToSet(p.inv.logs) : x.kind = "Function"
    BY <2>1, <2>2 DEF SourceInv
  <2>4. /\ new \in Seq(LogRecord)
        /\ \A l \in ToSet(new) : l.kind # "PlatformReport"
    BY <2>1, <2>2, <2>3, ElementsOfReleased DEF MadeOf
  <2> HIDE DEF new
  <2>5. Reports(new) = {}
    BY <2>4, Elements DEF Reports
  <2>6. OneReport(new, {})
    BY <2>5 DEF OneReport
  <2> QED
    BY <1>2, <2>1, <2>4, <2>6, ReportsGrow
<1> QED
  BY <1>1, <1>3, <1>4, <1>5, <1>6 DEF RecordStep

\* What holds of the records in every state, whatever is lost, corrupt or late.
RecordInv == RecordBase /\ SourceInv /\ DegradedInv /\ (ReportsAreLogged => ReportInv)

\* Initially there are none.
LEMMA RecordInit == ASSUME InstanceInit PROVE RecordInv
<1>1. AllLogs = <<>> /\ Records = {} /\ Sources = {} /\ metrics_state = {}
  BY NoRecordsYet
<1>2. RecordBase
  BY RecordBaseInit
<1>3. invocation_state = NoInvocation
  BY DEF InstanceInit, Init
<1>4. Reports(AllLogs) = {}
  <2>1. Len(<<>>) = 0 /\ 1..0 = {}
    OBVIOUS
  <2> QED
    BY <1>1, <2>1 DEF Reports
<1> QED
  BY <1>1, <1>2, <1>3, <1>4 DEF RecordInv, SourceInv, DegradedInv, ReportInv

\* Each step keeps what is known of the records.
LEMMA RecordInvStep ==
  ASSUME RecordInv, [InstanceNext]_vars
  PROVE  RecordInv'
<1>1. RecordBase'
  BY RecordBaseStep DEF RecordInv
<1>2. SourceInv'
  BY SourceStep DEF RecordInv
<1>3. DegradedInv'
  BY DegradedStep DEF RecordInv
<1>4. ReportsAreLogged => ReportInv'
  BY ReportStep DEF RecordInv
<1>5. ReportsAreLogged' <=> ReportsAreLogged
  BY DEF ReportsAreLogged, PlatformLogEnabled
<1> QED
  BY <1>1, <1>2, <1>3, <1>4, <1>5 DEF RecordInv

\* The invariant of the records.
LEMMA RecordsAreTrue == InstanceSpec => []RecordInv
<1>1. InstanceInit => RecordInv
  BY RecordInit
<1>2. RecordInv /\ [InstanceNext]_vars => RecordInv'
  BY RecordInvStep
<1> QED
  BY <1>1, <1>2, PTL DEF InstanceSpec

\* What process_in_degraded_mode makes a log of precedes the init of an instance: the init
\* events of the attempt that succeeded are never degraded, and no log of an invocation is.
THEOREM LeftoversAreDegraded == InstanceSpec => []OnlyLeftoversDegraded
<1>1. RecordInv => OnlyLeftoversDegraded
  <2> SUFFICES ASSUME RecordInv, ~shutdown_flush_started, NEW i \in DOMAIN AllLogs,
                      AllLogs[i].inv = Degraded
               PROVE  \E j \in DOMAIN stream :
                        j > AllLogs[i].id /\ stream[j].kind = "PlatformInitStart"
    BY DEF OnlyLeftoversDegraded
  <2>1. AllLogs \in Seq(LogRecord) /\ stream \in Seq(Event)
    BY RecordsType DEF RecordInv, RecordBase, TypeInv, PlatformInv
  <2>2. AllLogs[i] \in Records
    BY <2>1, Elements DEF Records
  <2> QED
    BY <2>1, <2>2 DEF RecordInv, DegradedInv
<1> QED
  BY <1>1, RecordsAreTrue, PTL

\* The platform metrics count a report exactly when its log is made, whether under an
\* invocation (process_telemetry) or without one (process_telemetry_in_degraded_mode), and
\* once each: it is proved for every order and loss of events, and every restart of the init.
THEOREM ReportsAreCounted == InstanceSpec => []ReportsCounted
<1>1. RecordInv => ReportsCounted
  <2> SUFFICES ASSUME RecordInv, ReportsAreLogged
               PROVE  /\ metrics_state = {AllLogs[i].id : i \in ReportLogs}
                      /\ Cardinality(metrics_state) = Cardinality(ReportLogs)
    BY DEF ReportsCounted, ReportsAreLogged
  <2>1. AllLogs \in Seq(LogRecord) /\ Len(AllLogs) \in Nat
    BY RecordsType DEF RecordInv, RecordBase, TypeInv
  <2>2. ReportLogs = Reports(AllLogs)
    BY <2>1 DEF ReportLogs, Reports
  <2>3. metrics_state = {AllLogs[i].id : i \in ReportLogs}
    BY <2>2 DEF RecordInv, ReportInv
  <2>4. IsFiniteSet(ReportLogs)
    <3>1. IsFiniteSet(1..Len(AllLogs)) /\ ReportLogs \subseteq 1..Len(AllLogs)
      BY <2>1, <2>2, FS_Interval DEF Reports
    <3> QED
      BY <3>1, FS_Subset
  <2>5. ExistsBijection(ReportLogs, metrics_state)
    <3> DEFINE f == [i \in ReportLogs |-> AllLogs[i].id]
    <3>1. f \in [ReportLogs -> metrics_state]
      BY <2>3
    <3>2. \A i, j \in ReportLogs : f[i] = f[j] => i = j
      BY <2>2 DEF RecordInv, ReportInv
    <3>3. \A t \in metrics_state : \E i \in ReportLogs : f[i] = t
      BY <2>3
    <3>4. DOMAIN f = ReportLogs
      OBVIOUS
    <3> HIDE DEF f
    <3>5. f \in Bijection(ReportLogs, metrics_state)
      BY <3>1, <3>2, <3>3, <3>4 DEF Bijection, Injection, Surjection, IsInjective
    <3> QED
      BY <3>5 DEF ExistsBijection
  <2> QED
    BY <2>3, <2>4, <2>5, FS_Bijection
<1> QED
  BY <1>1, RecordsAreTrue, PTL

-----------------------------------------------------------------------------
(* Whose records they are.                                                 *)

\* An event belongs to an invocation, or comes before the first.
Owns(r, x) == x.req = r \/ (x.req = NoRequest /\ r = 1)

\* All that the state keeps, and all that its records were made of, belongs to the invocation.
OriginInv ==
  /\ invocation_state # NoInvocation => \A x \in Sources : Owns(invocation_state.req, x)
  /\ \A l \in Records : l.inv # Degraded => Owns(l.inv, stream[l.id])

\* An event is processed under its own invocation, which is the last that was taken.
LEMMA HandledUnderOwn ==
  ASSUME AnswerInv, NEW e, HandlesEvent(e)
  PROVE  /\ invocation_state.req = Taken /\ Taken \in Nat \ {0}
         /\ Owns(invocation_state.req, e)
<1> USE DEF AnswerInv, PairingBase
<1>1. /\ ~shutdown_flush_started /\ invocation_state # NoInvocation /\ e \in Event
      /\ IsNext(e) \/ IsReplayed(e)
  BY DEF HandlesEvent
<1>2. invocation_state.req = Taken
  BY <1>1 DEF PairInv, OwnState
<1>3. CASE IsNext(e)
  <2>1. HasNextEvent /\ init_handled /\ e = NextEvent
    BY <1>3 DEF IsNext
  <2>2. ReqAt(Pos + 1) = Taken /\ stream[Pos + 1] = e
    BY <1>1, <2>1, HeadPaired
  <2>3. Taken \in Nat \ {0}
    BY <1>1, <2>1 DEF PairInv, AfterInit
  <2>4. e.req = Taken
    BY <2>2, <2>3 DEF ReqAt
  <2> QED
    BY <1>2, <2>3, <2>4 DEF Owns
<1>4. CASE IsReplayed(e)
  <2>1. Taken = 1 /\ e.req \notin Requests
    BY <1>1, <1>4 DEF IsReplayed, PairInv, InitEvents
  <2>2. e.req = NoRequest
    BY <1>1, <2>1 DEF Event
  <2> QED
    BY <1>2, <2>1, <2>2 DEF Owns
<1> QED
  BY <1>1, <1>3, <1>4

\* What the records were made of: what the state held, under the request of the state, the
\* event that was processed, or an event without an invocation.
LEMMA NewRecords ==
  ASSUME AnswerInv, [InstanceNext]_vars
  PROVE  /\ \A l \in Records' \ Records :
              \/ l.inv = Degraded
              \/ \E x \in Sources : invocation_state # NoInvocation /\ MadeOf(l, x, invocation_state.req)
              \/ \E x : HandlesEvent(x) /\ MadeOf(l, x, invocation_state.req)
         /\ \A x \in Sources' : x \in Sources \/ HandlesEvent(x)
         /\ invocation_state' # NoInvocation =>
              \/ Sources' = {}
              \/ invocation_state # NoInvocation /\ invocation_state'.req = invocation_state.req
<1>0. TypeOK /\ RecordStep
  BY RecordSteps DEF AnswerInv, PairingBase, TypeInv
<1>1. CASE KeepsRecords
  BY <1>1 DEF KeepsRecords, Sources, Records
<1>2. CASE StartsInvocation
  <2>1. ToSet(<<>>) = {}
    BY DEF ToSet
  <2>2. Sources' = {}
    BY <1>2, <2>1 DEF StartsInvocation, Sources
  <2> QED
    BY <1>2, <2>2 DEF StartsInvocation, Records
<1>3. ASSUME NEW e, HandlesEvent(e)
      PROVE  /\ \A l \in Records' \ Records :
                  \/ \E x \in Sources : MadeOf(l, x, invocation_state.req)
                  \/ MadeOf(l, e, invocation_state.req)
             /\ \A x \in Sources' : x \in Sources \/ x = e
             /\ invocation_state # NoInvocation
             /\ invocation_state' # NoInvocation => invocation_state'.req = invocation_state.req
  <2> DEFINE p == ProcessingState
             q == ProcessTelemetry(p, e)
  <2>1. /\ e \in Event /\ invocation_state # NoInvocation
        /\ AllLogs' = AllLogs \o Made(p, e)
        /\ invocation_state' \in {q.inv, NoInvocation}
    BY <1>3 DEF HandlesEvent
  <2>2. p \in ProcessingType /\ p.inv = invocation_state
    BY <1>0, <2>1, ProcessingStateType DEF ProcessingState, Processing
  <2>3. Processes(p, q, e)
    BY <2>1, <2>2, TelemetryProcessed
  <2> HIDE DEF p, q
  <2>4. q.inv.req = p.inv.req
    BY <2>3 DEF Processes
  <2>5. Sources' \subseteq Sources \cup {e}
    BY <1>0, <1>3, HandledFrom DEF ComeFrom
  <2>6. Records' = Records \cup ToSet(Made(p, e))
    <3> DEFINE made == Made(p, e)
               all == AllLogs
    <3>1. made \in Seq(LogRecord) /\ all \in Seq(LogRecord) /\ AllLogs' = all \o made
      BY <1>0, <2>1, <2>2, PartsMade, RecordsType
    <3> HIDE DEF made, all
    <3>2. ToSet(all \o made) = ToSet(all) \cup ToSet(made)
      BY <3>1, RecordsGrow
    <3> QED
      BY <3>1, <3>2 DEF Records, made, all
  <2>7. Sources = ToSet(p.inv.logs) \cup p.inv.data
    BY <2>1, <2>2 DEF Sources
  <2>8. \A l \in ToSet(Made(p, e)) : \E x \in Sources \cup {e} : MadeOf(l, x, invocation_state.req)
    BY <2>1, <2>2, <2>7, ElementsOfMade
  <2> QED
    BY <2>1, <2>2, <2>4, <2>5, <2>6, <2>8
<1>4. ASSUME NEW e, DegradesEvent(e)
      PROVE  /\ \A l \in Records' \ Records : l.inv = Degraded
             /\ Sources' = Sources /\ invocation_state' = invocation_state
  <2>1. /\ e \in Event /\ invocation_state' = invocation_state
        /\ AllLogs' = AllLogs \o DegradedLogs(e)
    BY <1>4 DEF DegradesEvent
  <2>2. Records' = Records \cup ToSet(DegradedLogs(e))
    <3> DEFINE made == DegradedLogs(e)
               all == AllLogs
    <3>1. made \in Seq(LogRecord) /\ all \in Seq(LogRecord) /\ AllLogs' = all \o made
      BY <1>0, <2>1, DegradedMade, RecordsType
    <3> HIDE DEF made, all
    <3>2. ToSet(all \o made) = ToSet(all) \cup ToSet(made)
      BY <3>1, RecordsGrow
    <3> QED
      BY <3>1, <3>2 DEF Records, made, all
  <2> QED
    BY <2>1, <2>2, DegradedMade DEF MadeOf, Sources
<1>5. ASSUME NEW spans, GetsSpans(spans)
      PROVE  /\ \A l \in Records' \ Records : \E x \in Sources : MadeOf(l, x, invocation_state.req)
             /\ Sources' \subseteq Sources
             /\ invocation_state # NoInvocation /\ invocation_state'.req = invocation_state.req
  <2> DEFINE p == ProcessingState
             q == ProcessFunctionSpans(p, spans)
  <2>1. /\ spans \in Seq(Span) /\ invocation_state # NoInvocation
        /\ AllLogs' = AllLogs \o Released(p, q) /\ invocation_state' = q.inv
    BY <1>5 DEF GetsSpans
  <2>2. p \in ProcessingType /\ p.inv = invocation_state
    BY <1>0, <2>1, ProcessingStateType DEF ProcessingState, Processing
  <2> HIDE DEF p
  <2>3. /\ Released(p, q) \in Seq(LogRecord)
        /\ \A l \in ToSet(Released(p, q)) :
             \E x \in ToSet(p.inv.logs) \cup p.inv.data : MadeOf(l, x, p.inv.req)
        /\ q.inv.req = p.inv.req
    BY <2>1, <2>2, ElementsOfReleased
  <2> HIDE DEF q
  <2>4. Records' = Records \cup ToSet(Released(p, q))
    <3> DEFINE made == Released(p, q)
               all == AllLogs
    <3>1. made \in Seq(LogRecord) /\ all \in Seq(LogRecord) /\ AllLogs' = all \o made
      BY <1>0, <2>1, <2>3, RecordsType
    <3> HIDE DEF made, all
    <3>2. ToSet(all \o made) = ToSet(all) \cup ToSet(made)
      BY <3>1, RecordsGrow
    <3> QED
      BY <3>1, <3>2 DEF Records, made, all
  <2>5. Sources = ToSet(p.inv.logs) \cup p.inv.data
    BY <2>1, <2>2 DEF Sources
  <2>6. Sources' \subseteq Sources
    BY <1>0, <1>5, SpansFrom DEF ComeFrom
  <2> QED
    BY <2>1, <2>2, <2>3, <2>4, <2>5, <2>6
<1>6. CASE \E e : HandlesEvent(e)
  <2>1. PICK e : HandlesEvent(e)
    BY <1>6
  <2>2. /\ \A l \in Records' \ Records :
             \/ \E x \in Sources : MadeOf(l, x, invocation_state.req)
             \/ MadeOf(l, e, invocation_state.req)
        /\ \A x \in Sources' : x \in Sources \/ x = e
        /\ invocation_state # NoInvocation
        /\ invocation_state' # NoInvocation => invocation_state'.req = invocation_state.req
    BY <1>3, <2>1
  <2> QED
    BY <2>1, <2>2
<1>7. CASE \E e : DegradesEvent(e)
  BY <1>4, <1>7
<1>8. CASE \E spans : GetsSpans(spans)
  BY <1>5, <1>8
<1> QED
  BY <1>0, <1>1, <1>2, <1>6, <1>7, <1>8 DEF RecordStep

\* Each step keeps the events and the records with the invocations they belong to.
LEMMA OriginStep ==
  ASSUME AnswerInv, SourceInv, OriginInv, [InstanceNext]_vars
  PROVE  OriginInv'
<1>0. RecordBase
  BY DEF AnswerInv, PairingBase, RecordBase
<1>1. /\ delivered \in Nat
      /\ \A i \in 1..delivered : stream'[i] = stream[i]
  BY <1>0, AheadStep
<1>2. ASSUME NEW x, HandlesEvent(x)
      PROVE  /\ x.id \in 1..delivered /\ stream[x.id] = x
             /\ invocation_state # NoInvocation /\ Owns(invocation_state.req, x)
  <2>1. x \in Ahead /\ invocation_state # NoInvocation
    BY <1>2 DEF HandlesEvent
  <2> QED
    BY <1>0, <1>2, <2>1, AheadWaits, HandledUnderOwn DEF RecordBase
<1>3. ASSUME NEW x \in Sources
      PROVE  x.id \in 1..delivered /\ stream[x.id] = x
  BY DEF SourceInv
<1>4. ASSUME invocation_state' # NoInvocation, NEW x \in Sources'
      PROVE  Owns(invocation_state'.req, x)
  <2>1. /\ x \in Sources \/ HandlesEvent(x)
        /\ invocation_state # NoInvocation /\ invocation_state'.req = invocation_state.req
    BY <1>4, NewRecords
  <2>2. Owns(invocation_state.req, x)
    BY <1>2, <2>1 DEF OriginInv
  <2> QED
    BY <2>1, <2>2
<1>5. ASSUME NEW l \in Records', l.inv # Degraded
      PROVE  Owns(l.inv, stream'[l.id])
  <2>1. CASE l \in Records
    <3>1. l.id \in 1..delivered /\ Owns(l.inv, stream[l.id])
      BY <1>5, <2>1 DEF SourceInv, OriginInv
    <3> QED
      BY <1>1, <3>1
  <2>2. CASE l \notin Records
    <3>1. PICK x : /\ x.id \in 1..delivered /\ stream[x.id] = x
                   /\ Owns(invocation_state.req, x) /\ MadeOf(l, x, invocation_state.req)
      <4>1. \/ \E x \in Sources : invocation_state # NoInvocation /\ MadeOf(l, x, invocation_state.req)
            \/ \E x : HandlesEvent(x) /\ MadeOf(l, x, invocation_state.req)
        BY <1>5, <2>2, NewRecords
      <4> QED
        BY <1>2, <1>3, <4>1 DEF OriginInv
    <3>2. l.inv = invocation_state.req /\ stream'[l.id] = x
      BY <1>1, <3>1 DEF MadeOf
    <3> QED
      BY <3>1, <3>2
  <2> QED
    BY <2>1, <2>2
<1> QED
  BY <1>4, <1>5 DEF OriginInv

-----------------------------------------------------------------------------
(* The order of the records of an invocation.                              *)

\* Within an invocation all records but that of the start come in the order of the events.
OrderedWithin(s) ==
  \A i, j \in 1..Len(s) :
    i < j /\ s[i].inv = s[j].inv /\ s[i].kind # "PlatformStart" => s[i].id < s[j].id

\* Records are added to ordered ones.
LEMMA OrderedAppended ==
  ASSUME NEW all \in Seq(LogRecord), NEW new \in Seq(LogRecord),
         OrderedWithin(all), OrderedWithin(new),
         \A l \in ToSet(all), m \in ToSet(new) :
           l.inv = m.inv /\ l.kind # "PlatformStart" => l.id < m.id
  PROVE  OrderedWithin(all \o new)
<1> DEFINE s == all \o new
<1>1. Len(all) \in Nat /\ Len(new) \in Nat
  BY LenProperties
<1>2. /\ Len(s) = Len(all) + Len(new)
      /\ \A k \in 1..(Len(all) + Len(new)) : s[k] = IF k <= Len(all) THEN all[k] ELSE new[k - Len(all)]
  BY ConcatProperties
<1> HIDE DEF s
<1>3. SUFFICES ASSUME NEW i \in 1..Len(s), NEW j \in 1..Len(s), i < j,
                      s[i].inv = s[j].inv, s[i].kind # "PlatformStart"
               PROVE  s[i].id < s[j].id
  BY DEF OrderedWithin, s
<1>4. /\ \A k \in 1..Len(all) : all[k] \in ToSet(all)
      /\ \A k \in 1..Len(new) : new[k] \in ToSet(new)
  BY Elements
<1>5. CASE j <= Len(all)
  <2>1. s[i] = all[i] /\ s[j] = all[j] /\ i \in 1..Len(all) /\ j \in 1..Len(all)
    BY <1>1, <1>2, <1>3, <1>5
  <2> QED
    BY <1>3, <2>1 DEF OrderedWithin
<1>6. CASE i <= Len(all) /\ ~(j <= Len(all))
  <2>1. /\ s[i] = all[i] /\ i \in 1..Len(all)
        /\ s[j] = new[j - Len(all)] /\ j - Len(all) \in 1..Len(new)
    BY <1>1, <1>2, <1>3, <1>6
  <2> QED
    BY <1>3, <1>4, <2>1
<1>7. CASE ~(i <= Len(all)) /\ ~(j <= Len(all))
  <2> DEFINE m == i - Len(all)
             n == j - Len(all)
  <2>1. /\ s[i] = new[m] /\ m \in 1..Len(new)
        /\ s[j] = new[n] /\ n \in 1..Len(new) /\ m < n
    BY <1>1, <1>2, <1>3, <1>7
  <2> HIDE DEF m, n
  <2> QED
    BY <1>3, <2>1 DEF OrderedWithin
<1> QED
  BY <1>1, <1>3, <1>5, <1>6, <1>7

\* The record of a start, records in order, and one that comes after them.
LEMMA PartsOrdered ==
  ASSUME NEW a \in Seq(LogRecord), NEW b \in Seq(LogRecord), NEW c \in Seq(LogRecord),
         \A l \in ToSet(a) : l.kind = "PlatformStart", Len(a) <= 1, Len(c) \in {0, 1},
         \A i, j \in 1..Len(b) : i < j => b[i].id < b[j].id,
         \A i \in 1..Len(b) : Len(c) = 1 => b[i].id < c[1].id
  PROVE  OrderedWithin(a \o (b \o c))
<1> DEFINE s == a \o (b \o c)
<1>1. Len(a) \in Nat /\ Len(b) \in Nat
  BY LenProperties
<1>2. /\ Len(s) = Len(a) + (Len(b) + Len(c))
      /\ \A k \in 1..Len(s) :
           \/ k \in 1..Len(a) /\ s[k] = a[k]
           \/ k > Len(a) /\ k - Len(a) \in 1..Len(b) /\ s[k] = b[k - Len(a)]
           \/ Len(c) = 1 /\ k = Len(s) /\ s[k] = c[1]
  BY ThreeParts
<1> HIDE DEF s
<1>3. \A k \in 1..Len(a) : a[k] \in ToSet(a)
  BY Elements
<1>4. SUFFICES ASSUME NEW i \in 1..Len(s), NEW j \in 1..Len(s), i < j, s[i].kind # "PlatformStart"
               PROVE  s[i].id < s[j].id
  BY DEF OrderedWithin, s
<1>5. ~(i \in 1..Len(a) /\ s[i] = a[i])
  BY <1>3, <1>4
<1>6. i # Len(s) /\ Len(s) \in Nat
  BY <1>1, <1>2, <1>4
<1> DEFINE m == i - Len(a)
           n == j - Len(a)
<1>7. i > Len(a) /\ m \in 1..Len(b) /\ s[i] = b[m]
  BY <1>2, <1>5, <1>6
<1>8. CASE j > Len(a) /\ n \in 1..Len(b) /\ s[j] = b[n]
  <2>1. m < n
    BY <1>1, <1>4
  <2> HIDE DEF m, n
  <2> QED
    BY <1>7, <1>8, <2>1
<1>9. CASE Len(c) = 1 /\ j = Len(s) /\ s[j] = c[1]
  <2> HIDE DEF m, n
  <2> QED
    BY <1>7, <1>9
<1>10. ~(j \in 1..Len(a))
  BY <1>1, <1>4, <1>7
<1> QED
  BY <1>2, <1>8, <1>9, <1>10

\* The records of the logs that were held come in the order of the logs.
LEMMA HeldInOrder ==
  ASSUME NEW inv \in InvocationProcessingState, Ordered(inv.logs)
  PROVE  LET h == HeldRecords(inv)
         IN  \A i, j \in 1..Len(h) : i < j => h[i].id < h[j].id
<1> DEFINE h == HeldRecords(inv)
<1>1. /\ Len(h) = Len(inv.logs)
      /\ \A i \in 1..Len(inv.logs) : h[i].id = inv.logs[i].id
  BY ElementsOfHeld DEF MadeOf
<1> HIDE DEF h
<1>2. \A i, j \in 1..Len(h) : i < j => h[i].id < h[j].id
  BY <1>1 DEF Ordered
<1> QED
  BY <1>2 DEF h

\* Logs are held only as long as they are delayed, in their order, and until they are
\* released no log of the invocation was made.
HeldApart ==
  invocation_state # NoInvocation =>
    /\ Ordered(invocation_state.logs)
    /\ invocation_state.logs # <<>> => invocation_state.delaying_logs
    /\ invocation_state.delaying_logs => \A l \in Records : l.inv # invocation_state.req

\* No record is made under a request before it is taken.
RecordsOfTaken ==
  ~shutdown_flush_started => \A l \in Records : l.inv = Degraded \/ l.inv <= Taken

OrderInv == OrderedWithin(AllLogs) /\ HeldApart /\ RecordsOfTaken

\* An event that comes after all others keeps them in order.
LEMMA OrderAppend ==
  ASSUME NEW xs \in Seq(Event), NEW e \in Event, Ordered(xs), Before(ToSet(xs), {e})
  PROVE  Ordered(Append(xs, e))
<1>1. <<e>> \in Seq(Event) /\ Ordered(<<e>>) /\ ToSet(<<e>>) = {e}
  BY OrderOne
<1>2. Ordered(xs \o <<e>>)
  BY <1>1, OrderConcat
<1>3. Append(xs, e) = xs \o <<e>>
  BY AppendIsConcat
<1> QED
  BY <1>2, <1>3

\* An event that is processed makes records that come after all others of the invocation.
LEMMA HandledInOrder ==
  ASSUME AnswerInv, SourceInv, OrderInv, NEW e, HandlesEvent(e)
  PROVE  OrderedWithin(AllLogs') /\ HeldApart'
<1> DEFINE p == ProcessingState
           q == ProcessTelemetry(p, e)
           made == Made(p, e)
           all == AllLogs
<1>0. TypeOK /\ InLine /\ PairInv
  BY DEF AnswerInv, PairingBase, TypeInv
<1>1. /\ e \in Event /\ e \in Ahead /\ invocation_state # NoInvocation /\ ~shutdown_flush_started
      /\ AllLogs' = all \o made
      /\ invocation_state' \in {q.inv, NoInvocation}
      /\ IsNext(e) \/ IsReplayed(e)
  BY DEF HandlesEvent
<1>2. p \in ProcessingType /\ p.inv = invocation_state
  BY <1>0, <1>1, ProcessingStateType DEF ProcessingState, Processing
<1>3. Processes(p, q, e)
  BY <1>1, <1>2, TelemetryProcessed
<1>4. made \in Seq(LogRecord) /\ all \in Seq(LogRecord)
  BY <1>0, <1>1, <1>2, PartsMade, RecordsType
<1>5. /\ p.inv \in InvocationProcessingState /\ p.inv.logs \in Seq(Event)
      /\ p.inv.delaying_logs \in BOOLEAN /\ p.inv.req \in Requests
  BY <1>2, ProcessingFields, InvocationFields
<1>6. /\ Ordered(p.inv.logs)
      /\ p.inv.logs # <<>> => p.inv.delaying_logs
      /\ p.inv.delaying_logs => \A l \in Records : l.inv # p.inv.req
  BY <1>1, <1>2 DEF OrderInv, HeldApart
<1>7. /\ \A x \in ToSet(p.inv.logs) : x.id < e.id
      /\ \A l \in Records : l.id < e.id
  BY <1>1, <1>2 DEF SourceInv, Sources
<1> HIDE DEF p, q
<1>8. OrderedWithin(made)
  <2> DEFINE a == StartPart(p, e)
             b == HeldPart(p, e)
             c == OwnPart(p, e)
  <2>1. /\ a \in Seq(LogRecord) /\ b \in Seq(LogRecord) /\ c \in Seq(LogRecord)
        /\ Len(a) <= 1 /\ Len(c) \in {0, 1}
        /\ \A l \in ToSet(a) : l.kind = "PlatformStart"
        /\ \A l \in ToSet(b) : \E x \in ToSet(p.inv.logs) : MadeOf(l, x, p.inv.req)
        /\ Len(c) = 1 => MadeOf(c[1], e, p.inv.req)
    BY <1>1, <1>2, PartsMade
  <2>2. \A i, j \in 1..Len(b) : i < j => b[i].id < b[j].id
    <3>1. CASE LetsGo(p, e)
      BY <1>5, <1>6, <3>1, HeldInOrder DEF HeldPart
    <3>2. CASE ~LetsGo(p, e)
      <4>1. b = <<>>
        BY <3>2 DEF HeldPart
      <4>2. Len(<<>>) = 0 /\ 1..0 = {}
        OBVIOUS
      <4> QED
        BY <4>1, <4>2
    <3> QED
      BY <3>1, <3>2
  <2>3. ASSUME NEW i \in 1..Len(b), Len(c) = 1 PROVE b[i].id < c[1].id
    <3>1. b[i] \in ToSet(b)
      BY <2>1, Elements
    <3>2. PICK x \in ToSet(p.inv.logs) : b[i].id = x.id
      BY <2>1, <3>1 DEF MadeOf
    <3>3. c[1].id = e.id
      BY <2>1, <2>3 DEF MadeOf
    <3> QED
      BY <1>7, <3>2, <3>3
  <2>4. made = a \o (b \o c)
    BY DEF Made
  <2> HIDE DEF a, b, c, made
  <2>5. OrderedWithin(a \o (b \o c))
    BY <2>1, <2>2, <2>3, PartsOrdered
  <2> QED
    BY <2>4, <2>5
<1>9. \A m \in ToSet(made) : m.inv = p.inv.req
  BY <1>1, <1>2, ElementsOfMade DEF MadeOf
<1>10. ASSUME ~p.inv.delaying_logs
       PROVE  \A m \in ToSet(made) : m.id = e.id
  <2>1. p.inv.logs = <<>> /\ ToSet(p.inv.logs) = {}
    <3>1. ToSet(<<>>) = {}
      BY DEF ToSet
    <3> QED
      BY <1>6, <1>10, <3>1
  <2>2. StartPart(p, e) = <<>>
    BY <1>10 DEF StartPart, Releases
  <2>3. ToSet(StartPart(p, e)) = {}
    BY <2>2 DEF ToSet
  <2>4. ToSet(HeldPart(p, e)) = {}
    BY <1>1, <1>2, <2>1, PartsMade
  <2>5. ToSet(made) = ToSet(StartPart(p, e)) \cup ToSet(HeldPart(p, e)) \cup ToSet(OwnPart(p, e))
    BY <1>1, <1>2, PartsMade, ThreeParts DEF Made
  <2>6. \A m \in ToSet(OwnPart(p, e)) : m.id = e.id
    BY <1>1, <1>2, PartsMade DEF MadeOf
  <2> QED
    BY <2>3, <2>4, <2>5, <2>6
<1>11. OrderedWithin(all \o made)
  <2>1. ASSUME NEW l \in ToSet(all), NEW m \in ToSet(made), l.inv = m.inv
        PROVE  l.id < m.id
    <3>1. l \in Records /\ l.inv = p.inv.req
      BY <1>9, <2>1 DEF Records
    <3>2. ~p.inv.delaying_logs
      BY <1>6, <3>1
    <3> QED
      BY <1>7, <1>10, <3>1, <3>2
  <2>2. OrderedWithin(all)
    BY DEF OrderInv
  <2> HIDE DEF all, made
  <2> QED
    BY <1>4, <1>8, <2>1, <2>2, OrderedAppended
<1>12. Records' = Records \cup ToSet(made)
  <2>1. AllLogs' = all \o made
    BY <1>1
  <2> HIDE DEF all, made
  <2>2. ToSet(all \o made) = ToSet(all) \cup ToSet(made)
    BY <1>4, RecordsGrow
  <2> QED
    BY <2>1, <2>2 DEF Records, all, made
<1>13. CASE invocation_state' = NoInvocation
  BY <1>1, <1>11, <1>13 DEF HeldApart
<1>14. CASE invocation_state' # NoInvocation
  <2>1. /\ invocation_state' = q.inv /\ q.inv.req = p.inv.req
        /\ q.inv.delaying_logs = (p.inv.delaying_logs /\ ~Releases(p, e))
        /\ q.inv.logs = IF LetsGo(p, e) THEN <<>>
                        ELSE IF SetsAside(p, e) THEN Append(p.inv.logs, e) ELSE p.inv.logs
    BY <1>1, <1>3, <1>14 DEF Processes
  <2>2. Ordered(q.inv.logs)
    <3>1. Ordered(<<>>)
      BY <1>1, OrderOne
    <3>2. Before(ToSet(p.inv.logs), {e})
      BY <1>7 DEF Before
    <3>3. Ordered(Append(p.inv.logs, e))
      BY <1>1, <1>5, <1>6, <3>2, OrderAppend
    <3> QED
      BY <1>6, <2>1, <3>1, <3>3
  <2>3. q.inv.logs # <<>> => q.inv.delaying_logs
    BY <1>6, <2>1 DEF SetsAside, LetsGo, Releases
  <2>4. ASSUME q.inv.delaying_logs
        PROVE  \A l \in Records' : l.inv # q.inv.req
    <3>1. p.inv.delaying_logs /\ ~Releases(p, e)
      BY <1>5, <2>1, <2>4
    <3>2. e.kind # "PlatformReport"
      <4>1. CASE IsNext(e)
        BY <1>14, <4>1 DEF IsNext
      <4>2. CASE IsReplayed(e)
        BY <1>0, <1>1, <4>2 DEF IsReplayed, PairInv, InitEvents, Milestones
      <4> QED
        BY <1>1, <4>1, <4>2
    <3>3. ~LetsGo(p, e) /\ ~MakesOwn(p, e)
      BY <3>1, <3>2, ProcessorAssumption DEF LetsGo, MakesOwn, Releases, PlatformLogEnabled
    <3>4. StartPart(p, e) = <<>> /\ HeldPart(p, e) = <<>> /\ OwnPart(p, e) = <<>>
      BY <3>1, <3>3 DEF StartPart, HeldPart, OwnPart
    <3>5. ToSet(<<>>) = {}
      BY DEF ToSet
    <3>6. ToSet(made) = ToSet(StartPart(p, e)) \cup ToSet(HeldPart(p, e)) \cup ToSet(OwnPart(p, e))
      BY <1>1, <1>2, PartsMade, ThreeParts DEF Made
    <3>7. Records' = Records
      BY <1>12, <3>4, <3>5, <3>6
    <3> QED
      BY <1>6, <2>1, <3>1, <3>7
  <2> QED
    BY <1>1, <1>11, <2>1, <2>2, <2>3, <2>4 DEF HeldApart
<1> QED
  BY <1>13, <1>14

\* Spans release all that was held, or nothing.
LEMMA ReleasedInOrder ==
  ASSUME AnswerInv, SourceInv, OrderInv, NEW spans, GetsSpans(spans)
  PROVE  OrderedWithin(AllLogs') /\ HeldApart'
<1> DEFINE p == ProcessingState
           q == ProcessFunctionSpans(p, spans)
           inv == [p.inv EXCEPT !.captured = q.inv.captured]
           released == /\ LogMode = "Structured" /\ p.inv.delaying_logs
                       /\ HasCaptured(q.inv, "CxEarlyInvocation")
           new == Released(p, q)
           all == AllLogs
<1>0. TypeOK
  BY DEF AnswerInv, PairingBase, TypeInv
<1>1. /\ spans \in Seq(Span) /\ invocation_state # NoInvocation
      /\ AllLogs' = all \o new
      /\ invocation_state' = q.inv
  BY DEF GetsSpans
<1>2. p \in ProcessingType /\ p.inv = invocation_state
  BY <1>0, <1>1, ProcessingStateType DEF ProcessingState, Processing
<1> HIDE DEF p
<1>3. SpansProcessed(p, q)
  BY <1>1, <1>2, FunctionSpansProcessed
<1>4. /\ new \in Seq(LogRecord) /\ q \in ProcessingType
      /\ \A m \in ToSet(new) : \E x \in ToSet(p.inv.logs) \cup p.inv.data : MadeOf(m, x, p.inv.req)
  BY <1>1, <1>2, ElementsOfReleased
<1> HIDE DEF q
<1>5. all \in Seq(LogRecord)
  BY <1>0, RecordsType
<1>6. /\ p.inv \in InvocationProcessingState /\ p.inv.delaying_logs \in BOOLEAN
      /\ q.inv.captured \in {S \in SUBSET Span : IsFiniteSet(S)}
  BY <1>2, <1>4, ProcessingFields, InvocationFields
<1>7. /\ Ordered(p.inv.logs)
      /\ p.inv.logs # <<>> => p.inv.delaying_logs
      /\ p.inv.delaying_logs => \A l \in Records : l.inv # p.inv.req
      /\ OrderedWithin(all)
  BY <1>1, <1>2 DEF OrderInv, HeldApart
<1>8. /\ inv \in InvocationProcessingState /\ inv.logs = p.inv.logs
  BY <1>6 DEF InvocationProcessingState
<1>9. /\ q.inv.req = p.inv.req
      /\ q.inv.delaying_logs = (p.inv.delaying_logs /\ ~released)
      /\ q.inv.logs = IF released THEN <<>> ELSE p.inv.logs
  BY <1>3 DEF SpansProcessed
<1>10. new = IF released THEN StartLogs(inv) \o HeldRecords(inv) ELSE <<>>
  BY DEF Released
<1> HIDE DEF inv, new, all, released
<1>11. CASE released
  <2> DEFINE a == StartLogs(inv)
             b == HeldRecords(inv)
  <2>1. /\ a \in Seq(LogRecord) /\ b \in Seq(LogRecord) /\ Len(a) <= 1
        /\ \A l \in ToSet(a) : l.kind = "PlatformStart"
    BY <1>8, ElementsOfStart, ElementsOfHeld
  <2>2. \A i, j \in 1..Len(b) : i < j => b[i].id < b[j].id
    BY <1>7, <1>8, HeldInOrder
  <2>3. new = a \o b
    BY <1>10, <1>11
  <2> HIDE DEF a, b
  <2>4. <<>> \in Seq(LogRecord) /\ Len(<<>>) = 0 /\ b \o <<>> = b
    BY <2>1, NoRecords, EmptySeq
  <2>5. OrderedWithin(a \o (b \o <<>>))
    <3> DEFINE c == <<>>
    <3>1. c \in Seq(LogRecord) /\ Len(c) = 0 /\ Len(c) \in {0, 1} /\ Len(c) # 1
      BY <2>4
    <3> HIDE DEF c
    <3>2. OrderedWithin(a \o (b \o c))
      BY <2>1, <2>2, <3>1, PartsOrdered
    <3> QED
      BY <3>2 DEF c
  <2>6. OrderedWithin(new)
    BY <2>3, <2>4, <2>5
  <2>7. \A l \in ToSet(all), m \in ToSet(new) : l.inv # m.inv
    BY <1>4, <1>7, <1>11 DEF Records, all, MadeOf, released
  <2>8. OrderedWithin(all \o new)
    BY <1>4, <1>5, <1>7, <2>6, <2>7, OrderedAppended
  <2>9. HeldApart'
    <3>1. Ordered(<<>>)
      <4>1. Len(<<>>) = 0 /\ 1..0 = {}
        OBVIOUS
      <4> QED
        BY <4>1 DEF Ordered
    <3> QED
      BY <1>1, <1>9, <1>11, <3>1 DEF HeldApart
  <2> QED
    BY <1>1, <2>8, <2>9
<1>12. CASE ~released
  <2>1. new = <<>>
    BY <1>10, <1>12
  <2>2. AllLogs' = all
    BY <1>1, <1>5, <2>1, NoRecords
  <2>3. Records' = Records
    BY <2>2 DEF Records, all
  <2>4. q.inv.logs = p.inv.logs /\ q.inv.delaying_logs = p.inv.delaying_logs
    BY <1>6, <1>9, <1>12
  <2>5. HeldApart'
    BY <1>1, <1>7, <1>9, <2>3, <2>4 DEF HeldApart
  <2> QED
    BY <1>7, <2>2, <2>5
<1> QED
  BY <1>11, <1>12

\* What is processed without an invocation is added in its order.
LEMMA DegradedInOrder ==
  ASSUME AnswerInv, SourceInv, OrderInv, NEW e, DegradesEvent(e)
  PROVE  OrderedWithin(AllLogs') /\ HeldApart'
<1> DEFINE new == DegradedLogs(e)
           all == AllLogs
<1>0. TypeOK
  BY DEF AnswerInv, PairingBase, TypeInv
<1>1. /\ e \in Event /\ e \in Ahead
      /\ AllLogs' = all \o new
      /\ invocation_state' = invocation_state
  BY DEF DegradesEvent
<1>2. /\ new \in Seq(LogRecord) /\ all \in Seq(LogRecord) /\ Len(new) \in {0, 1}
      /\ \A m \in ToSet(new) : m.inv = Degraded /\ m.id = e.id
  BY <1>0, <1>1, DegradedMade, RecordsType DEF MadeOf
<1>3. \A l \in ToSet(all) : l.id < e.id
  BY <1>1 DEF SourceInv, Records
<1>4. OrderedWithin(all) /\ HeldApart
  BY DEF OrderInv
<1> HIDE DEF new, all
<1>5. OrderedWithin(new)
  <2>1. \A i, j \in 1..Len(new) : ~(i < j)
    <3>1. Len(new) = 0 \/ Len(new) = 1
      BY <1>2
    <3> QED
      BY <3>1
  <2> QED
    BY <2>1 DEF OrderedWithin
<1>6. OrderedWithin(all \o new)
  BY <1>2, <1>3, <1>4, <1>5, OrderedAppended
<1>7. Records' = Records \cup ToSet(new)
  <2>1. ToSet(all \o new) = ToSet(all) \cup ToSet(new)
    BY <1>2, RecordsGrow
  <2> QED
    BY <1>1, <2>1 DEF Records, all
<1>8. invocation_state # NoInvocation => invocation_state.req # Degraded
  <2>1. invocation_state # NoInvocation => invocation_state \in InvocationProcessingState
    BY <1>0 DEF TypeOK, ProcessingTypes
  <2> QED
    BY <2>1, InvocationFields, ProcessorAssumption
<1>9. HeldApart'
  BY <1>1, <1>2, <1>4, <1>7, <1>8 DEF HeldApart
<1> QED
  BY <1>1, <1>6, <1>9

\* When an invoke event is taken no record was made under its request.
LEMMA NoRecordOfNext ==
  ASSUME AnswerInv, AnswerInv', OrderInv, PairingConditions, [InstanceNext]_vars, StartsInvocation
  PROVE  invocation_state' # NoInvocation => \A l \in Records : l.inv # invocation_state'.req
<1> USE DEF AnswerInv, PairingBase
<1>0. TypeOK /\ TypeOK' /\ PlatformInv' /\ InLine' /\ PairedStream'
  BY DEF TypeInv
<1>1. /\ TakeInvokeEvent /\ ~shutdown_flush_started /\ ~shutdown_flush_started'
      /\ invocation_state' \in InvocationProcessingState
  BY DEF StartsInvocation
<1>2. Taken' = Taken + 1 /\ Taken \in Nat
  BY <1>0, <1>1, AlwaysOrderly, MovesOn DEF FrontMovesOn
<1>3. invocation_state' # NoInvocation => invocation_state'.req = Taken'
  BY <1>1 DEF PairInv, OwnState
<1>4. invocation_state'.req # Degraded
  BY <1>1, InvocationFields, ProcessorAssumption
<1>5. ASSUME invocation_state' # NoInvocation, NEW l \in Records
      PROVE  l.inv # invocation_state'.req
  <2>1. l.inv = Degraded \/ l.inv <= Taken
    BY <1>1 DEF OrderInv, RecordsOfTaken
  <2>2. CASE l.inv = Degraded
    BY <1>4, <2>2
  <2>3. CASE l.inv <= Taken
    BY <1>2, <1>3, <1>5, <2>3
  <2> QED
    BY <2>1, <2>2, <2>3
<1> QED
  BY <1>5

\* And nothing is held.
LEMMA StartInOrder ==
  ASSUME AnswerInv, AnswerInv', OrderInv, PairingConditions, [InstanceNext]_vars, StartsInvocation
  PROVE  OrderedWithin(AllLogs') /\ HeldApart'
<1>1. /\ AllLogs' = AllLogs /\ Records' = Records
      /\ invocation_state'.logs = <<>>
  BY DEF StartsInvocation, Records
<1>2. Ordered(<<>>)
  <2>1. Len(<<>>) = 0 /\ 1..0 = {}
    OBVIOUS
  <2> QED
    BY <2>1 DEF Ordered
<1>3. invocation_state' # NoInvocation => \A l \in Records : l.inv # invocation_state'.req
  BY NoRecordOfNext
<1>4. HeldApart'
  BY <1>1, <1>2, <1>3 DEF HeldApart
<1> QED
  BY <1>1, <1>4 DEF OrderInv

\* The request of a new record was taken.
LEMMA RecordsOfTakenStep ==
  ASSUME AnswerInv, AnswerInv', RecordsOfTaken, PairingConditions, [InstanceNext]_vars
  PROVE  RecordsOfTaken'
<1> USE DEF AnswerInv, PairingBase
<1>1. SUFFICES ASSUME ~shutdown_flush_started', NEW l \in Records', l.inv # Degraded
               PROVE  l.inv <= Taken'
  BY DEF RecordsOfTaken
<1>2. TypeOK' /\ PlatformInv' /\ InLine' /\ PairedStream' /\ TypeOK
  BY DEF TypeInv
<1>3. ~shutdown_flush_started /\ Taken \in Nat /\ Taken' \in {Taken, Taken + 1}
  BY <1>1, <1>2, AlwaysOrderly, MovesOn DEF FrontMovesOn
<1>4. CASE l \in Records
  <2>1. l.inv <= Taken /\ l.inv \in Requests
    BY <1>1, <1>2, <1>3, <1>4, RecordsType DEF RecordsOfTaken, LogRecord
  <2>2. l.inv \in Nat
    BY <2>1, InstanceAssumption
  <2> QED
    BY <1>3, <2>1, <2>2
<1>5. CASE l \notin Records
  <2>1. l.inv = invocation_state.req /\ invocation_state # NoInvocation
    BY <1>1, <1>5, NewRecords DEF MadeOf, HandlesEvent
  <2>2. l.inv = Taken
    BY <1>3, <2>1 DEF PairInv, OwnState
  <2> QED
    BY <1>3, <2>2
<1> QED
  BY <1>4, <1>5

\* Each step keeps the order.
LEMMA OrderStep ==
  ASSUME AnswerInv, AnswerInv', SourceInv, OrderInv, PairingConditions, [InstanceNext]_vars
  PROVE  OrderInv'
<1>1. RecordStep
  BY RecordSteps DEF AnswerInv, PairingBase
<1>2. RecordsOfTaken'
  BY RecordsOfTakenStep DEF OrderInv
<1>3. CASE KeepsRecords
  BY <1>2, <1>3 DEF KeepsRecords, OrderInv, HeldApart, Records
<1>4. CASE StartsInvocation
  BY <1>2, <1>4, StartInOrder DEF OrderInv
<1> QED
  BY <1>1, <1>2, <1>3, <1>4, HandledInOrder, DegradedInOrder, ReleasedInOrder DEF RecordStep, OrderInv

\* Everything that is known of the records under the pairing.
OwnInv == AnswerInv /\ SourceInv /\ OriginInv /\ OrderInv

\* Initially there are no records.
LEMMA OwnInit == ASSUME InstanceInit PROVE OwnInv
<1>1. AllLogs = <<>> /\ Records = {} /\ Sources = {}
  BY NoRecordsYet
<1>2. invocation_state = NoInvocation
  BY DEF InstanceInit, Init
<1>3. OrderedWithin(<<>>)
  <2>1. Len(<<>>) = 0 /\ 1..0 = {}
    OBVIOUS
  <2> QED
    BY <2>1 DEF OrderedWithin
<1>4. SourceInv
  BY RecordInit DEF RecordInv
<1> QED
  BY <1>1, <1>2, <1>3, <1>4, AnswerInit
  DEF OwnInv, OriginInv, OrderInv, HeldApart, RecordsOfTaken

\* The invariant of the records under the pairing.
LEMMA RecordsAreOwned == PairingConditions /\ InstanceSpec => []OwnInv
<1> SUFFICES ASSUME PairingConditions PROVE InstanceSpec => []OwnInv
  OBVIOUS
<1>1. InstanceInit => OwnInv
  BY OwnInit
<1>2. ASSUME OwnInv, [InstanceNext]_vars PROVE OwnInv'
  <2>1. AnswerInv'
    BY <1>2, AlwaysOrderly, AnswerStep DEF OwnInv, AnswerInv
  <2>2. SourceInv'
    <3>1. RecordBase
      BY <1>2 DEF OwnInv, AnswerInv, PairingBase, RecordBase
    <3> QED
      BY <1>2, <3>1, SourceStep DEF OwnInv
  <2> QED
    BY <1>2, <2>1, <2>2, OriginStep, OrderStep DEF OwnInv
<1>3. OwnInv /\ [InstanceNext]_vars => OwnInv'
  BY <1>2
<1> QED
  BY <1>1, <1>3, PTL DEF InstanceSpec

\* A log is attributed to the invocation that wrote it, and what was written during the init to
\* the first: process_telemetry_events pairs the two streams by their order alone, however late
\* either comes, whatever is delayed, replayed or restarted.
THEOREM LogsAreAttributed ==
  PairingConditions /\ InstanceSpec => []LogsAttributedToOwnInvocation
<1>1. OwnInv => LogsAttributedToOwnInvocation
  <2> SUFFICES ASSUME OwnInv, NEW i \in DOMAIN AllLogs, AllLogs[i].inv # Degraded
               PROVE  \/ stream[AllLogs[i].id].req = AllLogs[i].inv
                      \/ stream[AllLogs[i].id].req = NoRequest /\ AllLogs[i].inv = 1
    BY DEF LogsAttributedToOwnInvocation
  <2>1. AllLogs \in Seq(LogRecord)
    BY RecordsType DEF OwnInv, AnswerInv, PairingBase, TypeInv
  <2>2. AllLogs[i] \in Records
    BY <2>1, Elements DEF Records
  <2> QED
    BY <2>2 DEF OwnInv, OriginInv, Owns
<1> QED
  BY <1>1, RecordsAreOwned, PTL

\* Within an invocation all logs, platform logs too, come in the order of the events, but for
\* the start log that process_delayed_logs puts first: logs that are held, replayed or made at
\* the report never overtake one another.
THEOREM LogsInOrderWithin ==
  PairingConditions /\ InstanceSpec => []LogsInOrderWithinInvocation
<1>1. OwnInv => LogsInOrderWithinInvocation
  <2> SUFFICES ASSUME OwnInv PROVE LogsInOrderWithinInvocation
    OBVIOUS
  <2>1. AllLogs \in Seq(LogRecord)
    BY RecordsType DEF OwnInv, AnswerInv, PairingBase, TypeInv
  <2>2. DOMAIN AllLogs = 1..Len(AllLogs)
    BY <2>1
  <2> QED
    BY <2>2 DEF OwnInv, OrderInv, OrderedWithin, LogsInOrderWithinInvocation
<1> QED
  BY <1>1, RecordsAreOwned, PTL

-----------------------------------------------------------------------------
(* The spans that the records of an invocation are correlated with.        *)

\* Records that are made at one time refer to one span.
LEMMA SpanOfLogs ==
  ASSUME NEW inv \in InvocationProcessingState
  PROVE  \A l \in ToSet(StartLogs(inv)) \cup ToSet(HeldRecords(inv)) : l.span = CurrentSpan(inv)
<1>1. \A x : MakeLog(inv, x).span = CurrentSpan(inv)
  BY DEF MakeLog
<1>2. \A l \in ToSet(StartLogs(inv)) : l.span = CurrentSpan(inv)
  <2> DEFINE l == MakeLog(inv, CHOOSE d \in inv.data : d.kind = "PlatformStart")
  <2>1. l.span = CurrentSpan(inv)
    BY <1>1
  <2>2. StartLogs(inv) = <<l>> \/ StartLogs(inv) = <<>>
    BY DEF StartLogs
  <2> HIDE DEF l
  <2>3. ToSet(<<l>>) = {l}
    BY DEF ToSet
  <2>4. ToSet(<<>>) = {}
    BY DEF ToSet
  <2> QED
    BY <2>1, <2>2, <2>3, <2>4
<1>3. \A l \in ToSet(HeldRecords(inv)) : l.span = CurrentSpan(inv)
  <2>1. DOMAIN HeldRecords(inv) = 1..Len(inv.logs)
    BY DEF HeldRecords
  <2>2. \A i \in 1..Len(inv.logs) : HeldRecords(inv)[i].span = CurrentSpan(inv)
    BY <1>1 DEF HeldRecords
  <2> QED
    BY <2>1, <2>2 DEF ToSet
<1> QED
  BY <1>2, <1>3

\* The records that processing an event makes.
LEMMA SpanOfMade ==
  ASSUME NEW p \in ProcessingType, NEW e \in Event
  PROVE  /\ \A l \in ToSet(Made(p, e)) : l.span = CurrentSpan(p.inv)
         /\ LogMode # "Structured" => ToSet(Made(p, e)) = {}
<1>1. p.inv \in InvocationProcessingState
  BY ProcessingFields
<1>2. ToSet(Made(p, e)) = ToSet(StartPart(p, e)) \cup ToSet(HeldPart(p, e)) \cup ToSet(OwnPart(p, e))
  BY PartsMade, ThreeParts DEF Made
<1>3. ToSet(<<>>) = {}
  BY DEF ToSet
<1>4. \A l \in ToSet(StartPart(p, e)) \cup ToSet(HeldPart(p, e)) : l.span = CurrentSpan(p.inv)
  <2>1. StartPart(p, e) \in {StartLogs(p.inv), <<>>} /\ HeldPart(p, e) \in {HeldRecords(p.inv), <<>>}
    BY DEF StartPart, HeldPart
  <2>2. \A l \in ToSet(StartLogs(p.inv)) \cup ToSet(HeldRecords(p.inv)) : l.span = CurrentSpan(p.inv)
    BY <1>1, SpanOfLogs
  <2>3. ToSet(StartPart(p, e)) \subseteq ToSet(StartLogs(p.inv))
    BY <1>3, <2>1
  <2>4. ToSet(HeldPart(p, e)) \subseteq ToSet(HeldRecords(p.inv))
    BY <1>3, <2>1
  <2> QED
    BY <2>2, <2>3, <2>4
<1>5. \A l \in ToSet(OwnPart(p, e)) : l.span = CurrentSpan(p.inv)
  <2> DEFINE l == MakeLog(p.inv, e)
  <2>1. l.span = CurrentSpan(p.inv)
    BY DEF MakeLog
  <2>2. OwnPart(p, e) \in {<<l>>, <<>>}
    BY DEF OwnPart
  <2> HIDE DEF l
  <2>3. ToSet(<<l>>) = {l}
    BY DEF ToSet
  <2> QED
    BY <1>3, <2>1, <2>2, <2>3
<1>6. ASSUME LogMode # "Structured" PROVE ToSet(Made(p, e)) = {}
  <2>1. ~Releases(p, e) /\ ~LetsGo(p, e) /\ ~MakesOwn(p, e)
    BY <1>6 DEF Releases, LetsGo, MakesOwn, PlatformLogEnabled
  <2>2. StartPart(p, e) = <<>> /\ HeldPart(p, e) = <<>> /\ OwnPart(p, e) = <<>>
    BY <2>1 DEF StartPart, HeldPart, OwnPart
  <2> QED
    BY <1>2, <1>3, <2>2
<1> QED
  BY <1>2, <1>4, <1>5, <1>6

\* A state that has the early invocation span correlates its logs with a span of the function.
LEMMA EarlySpanKnown ==
  ASSUME NEW inv, HasCaptured(inv, "CxEarlyInvocation")
  PROVE  CurrentSpan(inv) # "Context"
  BY DEF CurrentSpan

\* While the logs are delayed the early span is not there; once they are not it is, or the
\* runtime is done.  With the early span no log refers to the context span.
Correlated ==
  /\ LogMode # "Structured" => Records = {}
  /\ invocation_state # NoInvocation =>
       /\ LogMode = "Structured" /\ invocation_state.delaying_logs =>
            ~HasCaptured(invocation_state, "CxEarlyInvocation")
       /\ LogMode = "Structured" /\ ~invocation_state.delaying_logs =>
            \/ HasCaptured(invocation_state, "CxEarlyInvocation")
            \/ Has(invocation_state, "PlatformRuntimeDone")
       /\ HasCaptured(invocation_state, "CxEarlyInvocation") =>
            \A l \in Records : l.inv = invocation_state.req => l.span # "Context"

\* An event.
LEMMA HandledCorrelated ==
  ASSUME TypeOK, Correlated, NEW e, HandlesEvent(e)
  PROVE  Correlated'
<1> DEFINE p == ProcessingState
           q == ProcessTelemetry(p, e)
           made == Made(p, e)
<1>1. /\ e \in Event /\ invocation_state # NoInvocation
      /\ AllLogs' = AllLogs \o made
      /\ invocation_state' \in {q.inv, NoInvocation}
  BY DEF HandlesEvent
<1>2. p \in ProcessingType /\ p.inv = invocation_state
  BY <1>1, ProcessingStateType DEF ProcessingState, Processing
<1>3. Processes(p, q, e)
  BY <1>1, <1>2, TelemetryProcessed
<1> HIDE DEF p, q
<1>4. /\ \A l \in ToSet(made) : l.span = CurrentSpan(p.inv)
      /\ LogMode # "Structured" => ToSet(made) = {}
  BY <1>1, <1>2, SpanOfMade
<1>5. Records' = Records \cup ToSet(made)
  <2> DEFINE all == AllLogs
  <2>1. made \in Seq(LogRecord) /\ all \in Seq(LogRecord) /\ AllLogs' = all \o made
    BY <1>1, <1>2, PartsMade, RecordsType
  <2> HIDE DEF made, all
  <2>2. ToSet(all \o made) = ToSet(all) \cup ToSet(made)
    BY <2>1, RecordsGrow
  <2> QED
    BY <2>1, <2>2 DEF Records, all
<1> HIDE DEF made
<1>6. LogMode # "Structured" => Records' = {}
  BY <1>4, <1>5 DEF Correlated
<1>7. ASSUME invocation_state' # NoInvocation
      PROVE  /\ LogMode = "Structured" /\ q.inv.delaying_logs =>
                  ~HasCaptured(q.inv, "CxEarlyInvocation")
             /\ LogMode = "Structured" /\ ~q.inv.delaying_logs =>
                  \/ HasCaptured(q.inv, "CxEarlyInvocation")
                  \/ Has(q.inv, "PlatformRuntimeDone")
             /\ HasCaptured(q.inv, "CxEarlyInvocation") =>
                  \A l \in Records' : l.inv = q.inv.req => l.span # "Context"
  <2>1. /\ q.inv.req = p.inv.req /\ q.inv.captured = p.inv.captured
        /\ q.inv.delaying_logs = (p.inv.delaying_logs /\ ~Releases(p, e))
        /\ q.inv.data = IF e.kind \in Ignored THEN p.inv.data
                        ELSE {d \in p.inv.data : d.kind # e.kind} \cup {e}
        /\ p.inv.delaying_logs \in BOOLEAN
    BY <1>2, <1>3, ProcessingFields, InvocationFields DEF Processes
  <2>2. HasCaptured(q.inv, "CxEarlyInvocation") <=> HasCaptured(p.inv, "CxEarlyInvocation")
    BY <2>1 DEF HasCaptured
  <2>3. Has(p.inv, "PlatformRuntimeDone") => Has(q.inv, "PlatformRuntimeDone")
    BY <2>1 DEF Has
  <2>4. Releases(p, e) => Has(q.inv, "PlatformRuntimeDone")
    <3>1. Releases(p, e) => e.kind = "PlatformRuntimeDone" /\ e \in q.inv.data
      BY <2>1 DEF Releases, Ignored
    <3> QED
      BY <3>1 DEF Has
  <2>5. /\ LogMode = "Structured" /\ p.inv.delaying_logs => ~HasCaptured(p.inv, "CxEarlyInvocation")
        /\ LogMode = "Structured" /\ ~p.inv.delaying_logs =>
             \/ HasCaptured(p.inv, "CxEarlyInvocation")
             \/ Has(p.inv, "PlatformRuntimeDone")
        /\ HasCaptured(p.inv, "CxEarlyInvocation") =>
             \A l \in Records : l.inv = p.inv.req => l.span # "Context"
    BY <1>1, <1>2 DEF Correlated
  <2>6. HasCaptured(p.inv, "CxEarlyInvocation") =>
          \A l \in Records' : l.inv = p.inv.req => l.span # "Context"
    BY <1>4, <1>5, <2>5, EarlySpanKnown
  <2>7. LogMode = "Structured" /\ q.inv.delaying_logs => ~HasCaptured(q.inv, "CxEarlyInvocation")
    BY <2>1, <2>2, <2>5
  <2>8. LogMode = "Structured" /\ ~q.inv.delaying_logs =>
          \/ HasCaptured(q.inv, "CxEarlyInvocation")
          \/ Has(q.inv, "PlatformRuntimeDone")
    BY <2>1, <2>2, <2>3, <2>4, <2>5
  <2> QED
    BY <2>1, <2>2, <2>6, <2>7, <2>8
<1>8. invocation_state' # NoInvocation => invocation_state' = q.inv
  BY <1>1
<1> QED
  BY <1>6, <1>7, <1>8 DEF Correlated

\* Spans: the early span releases all logs of the invocation that were made so far.
LEMMA ReleasedCorrelated ==
  ASSUME TypeOK, HeldApart, Correlated, TracingMode = "OtelInstrumentation",
         NEW spans, GetsSpans(spans)
  PROVE  Correlated'
<1> DEFINE p == ProcessingState
           q == ProcessFunctionSpans(p, spans)
           inv == [p.inv EXCEPT !.captured = q.inv.captured]
           released == /\ LogMode = "Structured" /\ p.inv.delaying_logs
                       /\ HasCaptured(q.inv, "CxEarlyInvocation")
           new == Released(p, q)
           Early(i) == HasCaptured(i, "CxEarlyInvocation")
<1>1. /\ spans \in Seq(Span) /\ invocation_state # NoInvocation
      /\ ~Has(invocation_state, "PlatformRuntimeDone")
      /\ AllLogs' = AllLogs \o new
      /\ invocation_state' = q.inv
  BY DEF GetsSpans
<1>2. p \in ProcessingType /\ p.inv = invocation_state
  BY <1>1, ProcessingStateType DEF ProcessingState, Processing
<1> HIDE DEF p
<1>3. SpansProcessed(p, q) /\ p.inv.captured \subseteq q.inv.captured
  BY <1>1, <1>2, FunctionSpansProcessed
<1>4. new \in Seq(LogRecord) /\ q \in ProcessingType
  BY <1>1, <1>2, ElementsOfReleased
<1> HIDE DEF q
<1>5. /\ p.inv \in InvocationProcessingState /\ p.inv.delaying_logs \in BOOLEAN
      /\ q.inv.captured \in {S \in SUBSET Span : IsFiniteSet(S)}
  BY <1>2, <1>4, ProcessingFields, InvocationFields
<1>6. /\ q.inv.req = p.inv.req /\ q.inv.data = p.inv.data
      /\ q.inv.delaying_logs = (p.inv.delaying_logs /\ ~released)
  BY <1>3 DEF SpansProcessed
<1>7. /\ inv \in InvocationProcessingState
      /\ Early(inv) <=> Early(q.inv)
  <2>1. inv \in InvocationProcessingState /\ inv.captured = q.inv.captured
    BY <1>5 DEF InvocationProcessingState
  <2> QED
    BY <2>1 DEF HasCaptured
<1>8. new = IF released THEN StartLogs(inv) \o HeldRecords(inv) ELSE <<>>
  BY DEF Released
<1>9. Records' = Records \cup ToSet(new)
  <2> DEFINE all == AllLogs
  <2>1. new \in Seq(LogRecord) /\ all \in Seq(LogRecord) /\ AllLogs' = all \o new
    BY <1>1, <1>4, RecordsType
  <2> HIDE DEF new, all
  <2>2. ToSet(all \o new) = ToSet(all) \cup ToSet(new)
    BY <2>1, RecordsGrow
  <2> QED
    BY <2>1, <2>2 DEF Records, all
<1>10. Early(p.inv) => Early(q.inv)
  BY <1>3 DEF HasCaptured
<1>11. ~Has(p.inv, "PlatformRuntimeDone")
  BY <1>1, <1>2
<1>12. /\ LogMode # "Structured" => Records = {}
       /\ LogMode = "Structured" /\ p.inv.delaying_logs => ~Early(p.inv)
       /\ LogMode = "Structured" /\ ~p.inv.delaying_logs => Early(p.inv)
       /\ Early(p.inv) => \A l \in Records : l.inv = p.inv.req => l.span # "Context"
       /\ p.inv.delaying_logs => \A l \in Records : l.inv # p.inv.req
  BY <1>1, <1>2, <1>11 DEF Correlated, HeldApart
<1>13. released <=> LogMode = "Structured" /\ p.inv.delaying_logs /\ Early(q.inv)
  OBVIOUS
<1> HIDE DEF inv, new, released, Early
<1>14. CASE released
  <2> DEFINE a == StartLogs(inv)
             b == HeldRecords(inv)
  <2>1. a \in Seq(LogRecord) /\ b \in Seq(LogRecord) /\ new = a \o b
    BY <1>7, <1>8, <1>14, ElementsOfStart, ElementsOfHeld
  <2>2. \A l \in ToSet(a) \cup ToSet(b) : l.span = CurrentSpan(inv)
    BY <1>7, SpanOfLogs
  <2> HIDE DEF a, b
  <2>3. ToSet(new) = ToSet(a) \cup ToSet(b)
    BY <2>1, RecordsGrow
  <2>4. CurrentSpan(inv) # "Context"
    BY <1>7, <1>13, <1>14, EarlySpanKnown DEF Early
  <2>5. \A l \in Records' : l.inv = p.inv.req => l.span # "Context"
    BY <1>9, <1>12, <1>13, <1>14, <2>2, <2>3, <2>4
  <2>6. ~q.inv.delaying_logs /\ Early(q.inv) /\ LogMode = "Structured"
    BY <1>6, <1>13, <1>14
  <2> QED
    BY <1>1, <1>6, <2>5, <2>6 DEF Correlated, Early
<1>15. CASE ~released
  <2>1. new = <<>> /\ ToSet(new) = {}
    <3>1. ToSet(<<>>) = {}
      BY DEF ToSet
    <3> QED
      BY <1>8, <1>15, <3>1
  <2>2. Records' = Records
    BY <1>9, <2>1
  <2>3. q.inv.delaying_logs = p.inv.delaying_logs
    BY <1>5, <1>6, <1>15
  <2>4. LogMode = "Structured" => (Early(q.inv) <=> Early(p.inv))
    BY <1>10, <1>12, <1>13, <1>15, <1>5
  <2>5. Early(q.inv) => \A l \in Records' : l.inv = p.inv.req => l.span # "Context"
    BY <1>12, <2>2, <2>4
  <2> QED
    BY <1>1, <1>6, <1>12, <2>2, <2>3, <2>4, <2>5 DEF Correlated, Early
<1> QED
  BY <1>14, <1>15

\* An event without an invocation.
LEMMA DegradedCorrelated ==
  ASSUME TypeOK, Correlated, NEW e, DegradesEvent(e)
  PROVE  Correlated'
<1> DEFINE new == DegradedLogs(e)
           all == AllLogs
<1>1. /\ e \in Event /\ AllLogs' = all \o new
      /\ invocation_state' = invocation_state
  BY DEF DegradesEvent
<1>2. /\ new \in Seq(LogRecord) /\ all \in Seq(LogRecord)
      /\ \A m \in ToSet(new) : m.inv = Degraded
  BY <1>1, DegradedMade, RecordsType DEF MadeOf
<1>3. LogMode # "Structured" => ToSet(new) = {}
  <2>1. ToSet(<<>>) = {}
    BY DEF ToSet
  <2>2. LogMode # "Structured" => new = <<>>
    BY DEF DegradedLogs, PlatformLogEnabled
  <2> QED
    BY <2>1, <2>2
<1> HIDE DEF new, all
<1>4. Records' = Records \cup ToSet(new)
  <2>1. ToSet(all \o new) = ToSet(all) \cup ToSet(new)
    BY <1>2, RecordsGrow
  <2> QED
    BY <1>1, <2>1 DEF Records, all
<1>5. invocation_state # NoInvocation => invocation_state.req # Degraded
  <2>1. invocation_state # NoInvocation => invocation_state \in InvocationProcessingState
    BY DEF TypeOK, ProcessingTypes
  <2> QED
    BY <2>1, InvocationFields, ProcessorAssumption
<1>6. LogMode # "Structured" => Records' = {}
  BY <1>3, <1>4 DEF Correlated
<1> QED
  BY <1>1, <1>2, <1>4, <1>5, <1>6 DEF Correlated

\* The next invocation.
LEMMA StartCorrelated ==
  ASSUME AnswerInv, AnswerInv', OrderInv, Correlated, TracingMode = "OtelInstrumentation",
         PairingConditions, [InstanceNext]_vars, StartsInvocation
  PROVE  Correlated'
<1>1. /\ Records' = Records
      /\ invocation_state'.delaying_logs =
           (TracingMode = "OtelInstrumentation"
              /\ ~(LogMode = "Structured" /\ HasCaptured(invocation_state', "CxEarlyInvocation")))
  BY DEF StartsInvocation, Records
<1>2. invocation_state' # NoInvocation => \A l \in Records : l.inv # invocation_state'.req
  BY NoRecordOfNext
<1>3. LogMode = "Structured" /\ invocation_state'.delaying_logs =>
        ~HasCaptured(invocation_state', "CxEarlyInvocation")
  BY <1>1
<1>4. LogMode = "Structured" /\ ~invocation_state'.delaying_logs =>
        HasCaptured(invocation_state', "CxEarlyInvocation")
  BY <1>1
<1> QED
  BY <1>1, <1>2, <1>3, <1>4 DEF Correlated

\* Each step.
LEMMA CorrelatedStep ==
  ASSUME OwnInv, OwnInv', Correlated, TracingMode = "OtelInstrumentation",
         PairingConditions, [InstanceNext]_vars
  PROVE  Correlated'
<1>1. RecordStep /\ TypeOK /\ HeldApart
  BY RecordSteps DEF OwnInv, OrderInv, AnswerInv, PairingBase, TypeInv
<1>2. CASE KeepsRecords
  BY <1>2 DEF KeepsRecords, Correlated, Records
<1>3. CASE StartsInvocation
  BY <1>3, StartCorrelated DEF OwnInv
<1> QED
  BY <1>1, <1>2, <1>3, HandledCorrelated, DegradedCorrelated, ReleasedCorrelated DEF RecordStep

\* "Emitting logs is delayed until after the invocation span is received from the
\* instrumentation code": once it is received, none of the invocation's logs refers to the
\* context span, also of those that waited or were made before (process_delayed_logs).
THEOREM LogsAreCorrelated ==
  PairingConditions /\ InstanceSpec => []EarlySpanCorrelatesAllLogs
<1>1. CASE TracingMode # "OtelInstrumentation"
  <2>1. EarlySpanCorrelatesAllLogs
    BY <1>1 DEF EarlySpanCorrelatesAllLogs
  <2> QED
    BY <2>1, PTL
<1>2. CASE TracingMode = "OtelInstrumentation"
  <2> SUFFICES ASSUME PairingConditions PROVE InstanceSpec => []EarlySpanCorrelatesAllLogs
    OBVIOUS
  <2>1. InstanceInit => Correlated
    <3>1. ASSUME InstanceInit PROVE Records = {} /\ invocation_state = NoInvocation
      BY <3>1, NoRecordsYet DEF InstanceInit, Init
    <3> QED
      BY <3>1 DEF Correlated
  <2>2. OwnInv /\ OwnInv' /\ Correlated /\ [InstanceNext]_vars => Correlated'
    BY <1>2, CorrelatedStep
  <2>3. OwnInv /\ Correlated => EarlySpanCorrelatesAllLogs
    <3> SUFFICES ASSUME OwnInv, Correlated, invocation_state # NoInvocation,
                        HasCaptured(invocation_state, "CxEarlyInvocation"),
                        NEW i \in DOMAIN AllLogs, AllLogs[i].inv = invocation_state.req
                 PROVE  AllLogs[i].span # "Context"
      BY DEF EarlySpanCorrelatesAllLogs
    <3>1. AllLogs \in Seq(LogRecord)
      BY RecordsType DEF OwnInv, AnswerInv, PairingBase, TypeInv
    <3>2. AllLogs[i] \in Records
      BY <3>1, Elements DEF Records
    <3> QED
      BY <3>2 DEF Correlated
  <2> QED
    BY <2>1, <2>2, <2>3, RecordsAreOwned, PTL DEF InstanceSpec
<1> QED
  BY <1>1, <1>2

-----------------------------------------------------------------------------
(* The spans of the function.                                              *)

\* The spans and their count in the output buffers stay as they are.
SameSpans(p, q) ==
  /\ q.out.functionSpans = p.out.functionSpans
  /\ q.out.functionSpansCount = p.out.functionSpansCount

\* Spans are added to the output buffers, and to the count.
AddsSpans(p, q, spans) ==
  /\ q.out.functionSpans = p.out.functionSpans \cup spans
  /\ q.out.functionSpansCount = p.out.functionSpansCount + Cardinality(spans)

\* The spans set aside that the event of the end of the runtime puts out.
SpansOut(p, e) ==
  IF e.kind = "PlatformRuntimeDone" /\ ShouldProduceSpans(p.inv)
       /\ TracingMode = "OtelInstrumentation"
  THEN TriggerAndInvocationSpans(p.inv) ELSE {}

\* Nothing that is done about logs, data, counts and the spans of the platform is done
\* about the spans of the function.
LEMMA SpansUntouched ==
  ASSUME NEW p \in ProcessingType, NEW e \in Event, NEW logs \in Seq(LogRecord), NEW modes,
         NEW spans \in Seq(PlatformSpan)
  PROVE  /\ SameSpans(p, EmitLogs(p, logs))
         /\ SameSpans(p, [p EXCEPT !.inv.logs = Append(@, e)])
         /\ SameSpans(p, [p EXCEPT !.inv.logs = <<>>])
         /\ SameSpans(p, [p EXCEPT !.inv.delaying_logs = FALSE])
         /\ SameSpans(p, [p EXCEPT !.out.epsagonTraces = Append(@, e.id)])
         /\ SameSpans(p, [p EXCEPT !.out.spans = @ \o spans])
         /\ SameSpans(p, Record(p, e))
         /\ SameSpans(p, CountInMetrics(p, e, modes))
         /\ SameSpans(p, p)
<1>1. p.out \in OutputBuffers
  BY ProcessingFields
<1>2. SameSpans(p, EmitLogs(p, logs))
  BY <1>1 DEF SameSpans, EmitLogs, ProcessingType, OutputBuffers
<1>3. SameSpans(p, [p EXCEPT !.inv.logs = Append(@, e)])
  BY <1>1 DEF SameSpans, ProcessingType
<1>4. SameSpans(p, [p EXCEPT !.inv.logs = <<>>]) /\ SameSpans(p, [p EXCEPT !.inv.delaying_logs = FALSE])
  BY <1>1 DEF SameSpans, ProcessingType
<1>5. SameSpans(p, [p EXCEPT !.out.epsagonTraces = Append(@, e.id)])
  BY <1>1 DEF SameSpans, ProcessingType, OutputBuffers
<1>6. SameSpans(p, [p EXCEPT !.out.spans = @ \o spans])
  BY <1>1 DEF SameSpans, ProcessingType, OutputBuffers
<1>7. SameSpans(p, Record(p, e))
  BY <1>1 DEF SameSpans, Record, ProcessingType
<1>8. SameSpans(p, CountInMetrics(p, e, modes)) /\ SameSpans(p, p)
  BY <1>1 DEF SameSpans, CountInMetrics, ProcessingType
<1> QED
  BY <1>2, <1>3, <1>4, <1>5, <1>6, <1>7, <1>8

\* A platform log that is made or not, held logs that are put out, and delayed ones.
LEMMA LogsLeaveSpans ==
  ASSUME NEW p \in ProcessingType, NEW e \in Event
  PROVE  /\ SameSpans(p, EmitPlatformLog(p, e))
         /\ SameSpans(p, EmitHeldLogs(p))
         /\ SameSpans(p, ReleaseDelayedLogs(p))
<1>1. ASSUME NEW a \in ProcessingType PROVE SameSpans(a, EmitPlatformLog(a, e))
  <2>1. <<MakeLog(a.inv, e)>> \in Seq(LogRecord)
    BY MakeLogType DEF ProcessingType
  <2> QED
    BY <2>1, EmptySeq, SpansUntouched DEF EmitPlatformLog
<1>2. ASSUME NEW a \in ProcessingType PROVE SameSpans(a, EmitHeldLogs(a))
  <2> DEFINE held == [i \in 1..Len(a.inv.logs) |-> MakeLog(a.inv, a.inv.logs[i])]
             b == EmitLogs(a, held)
  <2>1. held \in Seq(LogRecord)
    BY ElementsOfHeld, ProcessingFields DEF HeldRecords
  <2> HIDE DEF held
  <2>2. SameSpans(a, b) /\ b \in ProcessingType
    BY <2>1, EmptySeq, SpansUntouched, EmitLogsType
  <2>3. EmitHeldLogs(a) = [b EXCEPT !.inv.logs = <<>>]
    BY DEF EmitHeldLogs, held
  <2> HIDE DEF b
  <2>4. SameSpans(b, [b EXCEPT !.inv.logs = <<>>])
    BY <2>2, EmptySeq, SpansUntouched
  <2> QED
    BY <2>2, <2>3, <2>4 DEF SameSpans
<1>3. SameSpans(p, ReleaseDelayedLogs(p))
  <2> DEFINE q == [p EXCEPT !.inv.delaying_logs = FALSE]
             r == EmitLogs(q, StartLogs(q.inv))
  <2>1. SameSpans(p, q)
    BY EmptySeq, SpansUntouched
  <2>2. q \in ProcessingType
    BY DEF ProcessingType, InvocationProcessingState
  <2> HIDE DEF q
  <2>3. StartLogs(q.inv) \in Seq(LogRecord)
    BY <2>2, ElementsOfStart, ProcessingFields
  <2>4. SameSpans(q, r) /\ r \in ProcessingType
    BY <2>2, <2>3, EmptySeq, SpansUntouched, EmitLogsType
  <2>5. ReleaseDelayedLogs(p) = EmitHeldLogs(r)
    BY DEF ReleaseDelayedLogs, q, r
  <2> HIDE DEF r
  <2> QED
    BY <1>2, <2>1, <2>4, <2>5 DEF SameSpans
<1> QED
  BY <1>1, <1>2, <1>3

\* process_telemetry puts spans out only when the runtime is done.
LEMMA SpansOfEvent ==
  ASSUME NEW p \in ProcessingType, NEW e \in Event
  PROVE  AddsSpans(p, ProcessTelemetry(p, e), SpansOut(p, e))
<1> DEFINE q == ProcessTelemetry(p, e)
<1>0. /\ e.kind \in EventKinds /\ p.out \in OutputBuffers /\ Cardinality({}) = 0
      /\ p.out.functionSpansCount \in Nat
  BY ProcessingFields, FS_EmptySet DEF Event, OutputBuffers
<1>1. ASSUME SameSpans(p, q), e.kind # "PlatformRuntimeDone" PROVE AddsSpans(p, q, SpansOut(p, e))
  <2> HIDE DEF q
  <2> QED
    BY <1>0, <1>1 DEF SameSpans, AddsSpans, SpansOut
<1>2. CASE e.kind \in {"Function", "EpsagonTrace"}
  <2>1. q = OnFunctionLog(p, e) /\ <<MakeLog(p.inv, e)>> \in Seq(LogRecord)
    BY <1>2, MakeLogType, ProcessingFields DEF ProcessTelemetry
  <2>2. SameSpans(p, OnFunctionLog(p, e))
    BY <2>1, SpansUntouched, EmptySeq DEF OnFunctionLog
  <2> QED
    BY <1>1, <1>2, <2>1, <2>2
<1>3. ASSUME NEW modes, NEW a \in ProcessingType
      PROVE  /\ SameSpans(a, Record(CountInMetrics(a, e, modes), e))
             /\ SameSpans(a, Record(a, e))
             /\ Record(CountInMetrics(a, e, modes), e) \in ProcessingType
  <2> DEFINE b == CountInMetrics(a, e, modes)
  <2>1. SameSpans(a, b) /\ SameSpans(a, Record(a, e)) /\ b \in ProcessingType
    BY SpansUntouched, EmptySeq, CountInMetricsType
  <2> HIDE DEF b
  <2>2. SameSpans(b, Record(b, e)) /\ Record(b, e) \in ProcessingType
    BY <2>1, SpansUntouched, EmptySeq, RecordType
  <2> QED
    BY <2>1, <2>2 DEF SameSpans, b
<1>4. CASE e.kind \in {"PlatformInitStart", "PlatformInitRuntimeDone", "PlatformInitReport"}
  <2>1. q = Record(p, e) \/ q = Record(CountInMetrics(p, e, {"PlatformV2"}), e)
    BY <1>4 DEF ProcessTelemetry, OnInitReport
  <2> QED
    BY <1>1, <1>3, <1>4, <2>1
<1>5. ASSUME NEW a \in ProcessingType
      PROVE  EmitPlatformLog(a, e) \in ProcessingType /\ SameSpans(a, EmitPlatformLog(a, e))
  BY LogsLeaveSpans, EmitPlatformLogType
<1>6. CASE e.kind = "PlatformStart"
  <2> DEFINE a == IF p.inv.delaying_logs THEN p ELSE EmitPlatformLog(p, e)
  <2>1. q = Record(a, e)
    BY <1>6 DEF ProcessTelemetry, OnStart
  <2>2. a \in ProcessingType /\ SameSpans(p, a)
    BY <1>5 DEF SameSpans
  <2> HIDE DEF a
  <2>3. SameSpans(a, Record(a, e))
    BY <1>3, <2>2
  <2> QED
    BY <1>1, <1>6, <2>1, <2>2, <2>3 DEF SameSpans
<1>7. CASE e.kind = "PlatformRuntimeDone"
  <2> DEFINE released == IF LogMode = "Structured" /\ p.inv.delaying_logs
                         THEN ReleaseDelayedLogs(p) ELSE p
             a == EmitPlatformLog(released, e)
             b == Record(CountInMetrics(a, e, {"PlatformV2"}), e)
             spans == TriggerAndInvocationSpans(b.inv)
             out == IF TracingMode = "OtelInstrumentation"
                    THEN AddFunctionSpans(b.out, spans) ELSE b.out
             done == [out EXCEPT !.spans = @ \o SpansAfterInvocation(b.inv)]
             r == [b EXCEPT !.out = done]
  <2>1. q = IF ShouldProduceSpans(b.inv) /\ TracingMode # "Disabled" THEN r ELSE b
    BY <1>7 DEF ProcessTelemetry, OnRuntimeDone
  <2>2. /\ released \in ProcessingType /\ SameSpans(p, released)
        /\ released.inv.captured = p.inv.captured /\ released.inv.req = p.inv.req
    BY InvocationFields, ProcessingFields, FlowsRelease, ReleaseDelayedLogsType, LogsLeaveSpans
    DEF InvocationProcessingState, SameSpans
  <2> HIDE DEF released
  <2>3. a \in ProcessingType /\ SameSpans(released, a)
    BY <1>5, <2>2
  <2>4. b.inv = RecordData(released.inv, e)
    BY <2>2, PlatformEventRecorded
  <2> HIDE DEF a
  <2>5. b \in ProcessingType /\ SameSpans(a, b)
    BY <1>3, <2>3
  <2> HIDE DEF b
  <2>6. b.inv.captured = p.inv.captured /\ b.inv.req = p.inv.req
    BY <2>2, <2>4, ProcessingFields DEF RecordData, InvocationProcessingState
  <2>7. /\ spans = TriggerAndInvocationSpans(p.inv) /\ ShouldProduceSpans(b.inv) = ShouldProduceSpans(p.inv)
        /\ SameSpans(p, b) /\ spans \in SUBSET Span /\ IsFiniteSet(spans)
    BY <2>2, <2>3, <2>5, <2>6, TriggerSpansType, ProcessingFields
    DEF TriggerAndInvocationSpans, HasCaptured, ShouldProduceSpans, SameSpans
  <2> HIDE DEF spans
  <2>8. /\ out \in OutputBuffers
        /\ out.functionSpans = IF TracingMode = "OtelInstrumentation"
                               THEN b.out.functionSpans \cup spans ELSE b.out.functionSpans
        /\ out.functionSpansCount = IF TracingMode = "OtelInstrumentation"
                                    THEN b.out.functionSpansCount + Cardinality(spans)
                                    ELSE b.out.functionSpansCount
    <3>1. b.out \in OutputBuffers
      BY <2>5, ProcessingFields
    <3>2. AddFunctionSpans(b.out, spans) \in OutputBuffers
      BY <2>7, <3>1, AddFunctionSpansType
    <3> QED
      BY <3>1, <3>2 DEF AddFunctionSpans, OutputBuffers
  <2> HIDE DEF out
  <2>9. /\ done.functionSpans = out.functionSpans
        /\ done.functionSpansCount = out.functionSpansCount
    BY <2>8 DEF OutputBuffers
  <2> HIDE DEF done
  <2>10. r.out = done
    BY <2>5 DEF ProcessingType
  <2> HIDE DEF r
  <2> HIDE DEF q
  <2>11. ASSUME ShouldProduceSpans(b.inv), TracingMode # "Disabled"
         PROVE  AddsSpans(p, q, SpansOut(p, e))
    <3>1. q = r
      BY <2>1, <2>11
    <3>2. CASE TracingMode = "OtelInstrumentation"
      <4>1. SpansOut(p, e) = spans
        BY <1>7, <2>7, <2>11, <3>2 DEF SpansOut
      <4> QED
        BY <2>7, <2>8, <2>9, <2>10, <3>1, <3>2, <4>1 DEF SameSpans, AddsSpans
    <3>3. CASE TracingMode # "OtelInstrumentation"
      <4>1. SpansOut(p, e) = {}
        BY <3>3 DEF SpansOut
      <4> QED
        BY <1>0, <2>7, <2>8, <2>9, <2>10, <3>1, <3>3, <4>1 DEF SameSpans, AddsSpans
    <3> QED
      BY <3>2, <3>3
  <2>12. ASSUME ~(ShouldProduceSpans(b.inv) /\ TracingMode # "Disabled")
         PROVE  AddsSpans(p, q, SpansOut(p, e))
    <3>1. q = b
      BY <2>1, <2>12
    <3>2. SpansOut(p, e) = {}
      BY <2>7, <2>12 DEF SpansOut
    <3> QED
      BY <1>0, <2>7, <3>1, <3>2 DEF SameSpans, AddsSpans
  <2> QED
    BY <2>11, <2>12 DEF q
<1>8. CASE e.kind = "PlatformReport"
  <2> DEFINE flushed == IF LogMode = "Structured" THEN EmitHeldLogs(p) ELSE p
             a == EmitPlatformLog(flushed, e)
             b == Record(CountInMetrics(a, e, {"PlatformReport", "PlatformV2"}), e)
             after == SpansAfterReport(b.inv)
             r == [b EXCEPT !.out.spans = @ \o after]
  <2>1. q = IF ShouldProduceSpans(b.inv) /\ TracingMode = "TelemetryApi" THEN r ELSE b
    BY <1>8 DEF ProcessTelemetry, OnReport
  <2>2. flushed \in ProcessingType /\ SameSpans(p, flushed)
    BY EmitHeldLogsType, LogsLeaveSpans DEF SameSpans
  <2> HIDE DEF flushed
  <2>3. a \in ProcessingType /\ SameSpans(flushed, a)
    BY <1>5, <2>2
  <2> HIDE DEF a
  <2>4. b \in ProcessingType /\ SameSpans(a, b)
    BY <1>3, <2>3
  <2> HIDE DEF b
  <2>5. after \in Seq(PlatformSpan)
    BY <2>4, PlatformSpansType, ProcessingFields
  <2> HIDE DEF after
  <2>6. SameSpans(b, r)
    BY <2>4, <2>5, SpansUntouched, EmptySeq
  <2> HIDE DEF r
  <2>7. SameSpans(p, q)
    BY <2>1, <2>2, <2>3, <2>4, <2>6 DEF SameSpans
  <2> QED
    BY <1>1, <1>8, <2>7
<1>9. CASE e.kind = "Other"
  <2>1. q = p
    BY <1>9 DEF ProcessTelemetry
  <2> QED
    BY <1>1, <1>9, <2>1 DEF SameSpans
<1> QED
  BY <1>0, <1>2, <1>4, <1>6, <1>7, <1>8, <1>9 DEF EventKinds

\* While the function runs the handler is at its invocation or at the one before, and where the
\* spans of the function are put is where those of this invocation belong: the latest invoke
\* event is its own, or the state of the invocation is, or its invoke event comes next.
LEMMA WhereSpansBelong ==
  ASSUME AnswerInv, SendAfterInvocation, phase = "running"
  PROVE  /\ current \in Requests /\ ~shutdown_flush_started
         /\ invoke_event_queue # <<>> => Taken + Len(invoke_event_queue) = current
         /\ invoke_event_queue = <<>> /\ InvocationRuns => invocation_state.req = current
         /\ invoke_event_queue = <<>> /\ ~InvocationRuns => Taken + 1 = current
<1> DEFINE n == Len(invoke_event_queue)
<1>1. /\ TypeOK /\ PlatformInv /\ HandlerInv /\ QueueInv /\ PairInv /\ SignalInv /\ InLine
      /\ LoopShape /\ PairedStream
  BY DEF AnswerInv, PairingBase, TypeInv
<1>2. current \in Requests /\ ~shutdown_flush_started /\ pc \notin ShutdownSteps
  BY <1>1 DEF PlatformInv, LoopShape, ShutdownSteps
<1>3. /\ current \in Nat /\ current > 0 /\ Handled \in Nat /\ Enqueued \in Nat
      /\ n \in Nat /\ n <= Enqueued /\ Taken = Enqueued - n
      /\ n = 0 <=> invoke_event_queue = <<>>
  BY <1>1, RequestNumbers, HandlerNumbers DEF QueueInv, Taken, TypeOK, InputTypes
<1> HIDE DEF n
<1>4. \/ Enqueued = current
      \/ Enqueued = current - 1 /\ Answered = current - 1
  <2>1. CASE pc \in {"context", "drain", "enqueue"}
    <3>1. pc \notin {"ready"} \cup ShutdownSteps
      BY <2>1 DEF ShutdownSteps
    <3>2. Handled = current
      BY <1>1, <3>1, HandlerNumbers
    <3> QED
      BY <1>3, <2>1, <3>2 DEF Enqueued, Answered
  <2>2. CASE pc \notin {"context", "drain", "enqueue"}
    <3>1. /\ Enqueued = Handled
          /\ Handled # current => Handled = current - 1 /\ pc = "ready"
      BY <1>1, <1>3, <2>2 DEF Enqueued, HandlerInv
    <3>2. pc = "ready" => Answered = Handled
      BY DEF Answered
    <3> QED
      BY <3>1, <3>2
  <2> QED
    BY <2>1, <2>2
<1>5. Pos \in Nat /\ \A k \in 1..Pos : k \in 1..Len(stream)
  BY <1>1, PosFacts
<1>6. ~Seen("PlatformRuntimeDone", current) /\ ~Seen("PlatformReport", current)
  BY <1>1, <1>5 DEF PairedStream, PhaseRecorded, Seen
<1>7. ASSUME Enqueued = current - 1
      PROVE  Taken = Enqueued /\ (Taken > 0 => Seen("PlatformRuntimeDone", Taken))
  <2>1. CASE Enqueued = 0
    BY <1>3, <2>1
  <2>2. CASE Enqueued > 0
    <3>1. Answered = Enqueued /\ Enqueued \in 1..Answered
      BY <1>3, <1>4, <1>7, <2>2
    <3>2. Seen("PlatformRuntimeDone", Enqueued)
      BY <1>1, <1>2, <3>1 DEF SignalInv
    <3>3. PICK k \in 1..Pos : Is(k, "PlatformRuntimeDone", Enqueued)
      BY <3>2 DEF Seen
    <3>4. stream[k].kind \in Milestones /\ ReqAt(k) = Enqueued
      BY <3>3 DEF Is, Milestones
    <3>5. init_handled
      BY <1>1, <1>2, <2>2, <3>4 DEF PairInv, BeforeInit
    <3>6. Enqueued <= Taken
      BY <1>1, <1>2, <3>4, <3>5 DEF PairInv, AfterInit
    <3> QED
      BY <1>3, <3>2, <3>6
  <2> QED
    BY <1>3, <2>1, <2>2
<1>8. invoke_event_queue # <<>> => Taken + Len(invoke_event_queue) = current
  BY <1>3, <1>4, <1>7 DEF n
<1>9. ASSUME invoke_event_queue = <<>>, InvocationRuns PROVE invocation_state.req = current
  <2>1. Taken = Enqueued
    BY <1>3, <1>9
  <2>2. /\ invocation_state # NoInvocation /\ ~Has(invocation_state, "PlatformRuntimeDone")
        /\ invocation_state.req = Taken
        /\ ~Seen("PlatformRuntimeDone", Taken)
    BY <1>1, <1>2, <1>9 DEF InvocationRuns, PairInv, OwnState
  <2>3. Taken > 0
    BY <1>1, <2>2, InvocationFields, InstanceAssumption DEF TypeOK, ProcessingTypes
  <2> QED
    BY <1>4, <1>7, <2>1, <2>2, <2>3
<1>10. ASSUME invoke_event_queue = <<>>, ~InvocationRuns PROVE Taken + 1 = current
  <2>1. Taken = Enqueued
    BY <1>3, <1>10
  <2>2. ASSUME Enqueued = current PROVE FALSE
    <3>1. CASE invocation_state = NoInvocation
      <4>1. CASE init_handled
        BY <1>1, <1>2, <1>6, <2>1, <2>2, <3>1, <4>1 DEF PairInv, AfterInit
      <4>2. CASE ~init_handled
        BY <1>1, <1>2, <1>3, <2>1, <2>2, <3>1, <4>2 DEF PairInv, BeforeInit
      <4> QED
        BY <4>1, <4>2
    <3>2. CASE invocation_state # NoInvocation
      BY <1>1, <1>2, <1>6, <1>10, <2>1, <2>2, <3>2 DEF InvocationRuns, PairInv, OwnState
    <3> QED
      BY <3>1, <3>2
  <2> QED
    BY <1>3, <1>4, <2>1, <2>2
<1> QED
  BY <1>2, <1>8, <1>9, <1>10

\* Where spans wait for their invocation.
waitingSpans == <<invoke_event_queue, function_spans_buffer, spans_sent>>

\* The spans of the function that the output buffers hold are the same.
SameOutput ==
  /\ output_buffers'.functionSpans = output_buffers.functionSpans
  /\ output_buffers'.functionSpansCount = output_buffers.functionSpansCount

\* The function makes a span.
Exports(s) ==
  /\ ExportSpan /\ phase = "running"
  /\ s \in Span /\ s.req = current /\ s.id = Len(spans_sent) + 1
  /\ spans_sent' = Append(spans_sent, s)
  /\ HandleOtlpSpans(<<s>>)

\* An event is processed under the current invocation.
HandlesSpans(e) ==
  LET q == ProcessTelemetry(ProcessingState, e)
  IN  /\ HandlesEvent(e) /\ UNCHANGED <<waitingSpans, sent>> /\ UNCHANGED platformVars
      /\ output_buffers' = q.out
      /\ \/ ProcessEvent /\ e = NextEvent
         \/ ReplayInitEvent /\ invocation_state' = q.inv
      /\ \/ invocation_state' = q.inv
         \/ invocation_state' = NoInvocation /\ EndsInvocation(q.inv)

\* A batch is sent.
SendsSpans ==
  /\ SendTelemetry /\ UNCHANGED <<waitingSpans, invocation_state, shutdown_flush_started>>

\* An invoke event is put in the queue.
EnqueuesSpans ==
  /\ EnqueueInvokeEvent
  /\ UNCHANGED <<function_spans_buffer, spans_sent, invocation_state, output_buffers, sent,
                 shutdown_flush_started>>

\* No span is moved.
KeepsSpans ==
  /\ UNCHANGED <<waitingSpans, invocation_state, sent>> /\ SameOutput

\* The kinds of steps that move spans.
SpanStep ==
  \/ KeepsSpans
  \/ \E s : Exports(s)
  \/ TakeInvokeEvent /\ UNCHANGED platformVars
  \/ EnqueuesSpans
  \/ \E e : HandlesSpans(e)
  \/ SendsSpans

\* A span of the function.
LEMMA SpanExported == ASSUME TypeOK, PlatformInv, ExportSpan PROVE \E s : Exports(s)
<1>1. PICK c \in SpanCategories :
        LET s == [category |-> c, req |-> current, id |-> Len(spans_sent) + 1]
        IN  HandleOtlpSpans(<<s>>) /\ spans_sent' = Append(spans_sent, s)
  BY DEF ExportSpan
<1> DEFINE s == [category |-> c, req |-> current, id |-> Len(spans_sent) + 1]
<1>2. c \in SpanCategorization /\ current \in Requests /\ Len(spans_sent) + 1 \in Nat
  BY InstanceAssumption DEF ExportSpan, PlatformInv
<1>3. s \in Span
  BY <1>2 DEF Span
<1>4. Exports(s)
  BY <1>1, <1>3 DEF Exports, ExportSpan
<1> QED
  BY <1>4

\* The events.
LEMMA SpansHandled ==
  ASSUME TypeInv, LoopShape, InLine, UNCHANGED platformVars,
         ProcessEvent \/ (ReplayInitEvent /\ Head(pending_events).ok)
  PROVE  \E e : HandlesSpans(e)
<1> USE DEF TypeInv
<1>1. CASE ProcessEvent
  <2> DEFINE e == NextEvent
             q == ProcessTelemetry(ProcessingState, e)
  <2>1. HandlesEvent(e)
    BY <1>1, ProcessRecords
  <2>2. q \in ProcessingType
    <3>1. ProcessingState \in ProcessingType /\ e \in Event
      BY <2>1, ProcessingStateType DEF HandlesEvent
    <3> QED
      BY <3>1, ProcessTelemetryType
  <2>3. SetProcessing(IF EndsInvocation(q.inv) THEN [q EXCEPT !.inv = NoInvocation] ELSE q)
    BY <1>1 DEF ProcessEvent
  <2> HIDE DEF q
  <2>4. /\ output_buffers' = q.out
        /\ invocation_state' = IF EndsInvocation(q.inv) THEN NoInvocation ELSE q.inv
    BY <2>2, <2>3 DEF SetProcessing, ProcessingType
  <2>5. UNCHANGED <<waitingSpans, sent>>
    BY <1>1 DEF ProcessEvent, sends, platformVars, waitingSpans
  <2>6. HandlesSpans(e)
    <3> HIDE DEF e
    <3> QED
      BY <1>1, <2>1, <2>4, <2>5 DEF HandlesSpans, q, e
  <2> QED
    BY <2>6
<1>2. CASE ReplayInitEvent /\ Head(pending_events).ok
  <2> DEFINE e == Head(pending_events)
             q == ProcessTelemetry(ProcessingState, e)
  <2>1. HandlesEvent(e)
    BY <1>2, ReplayRecords
  <2>2. SetProcessing(q)
    BY <1>2 DEF ReplayInitEvent
  <2>3. UNCHANGED <<waitingSpans, sent>>
    BY <1>2 DEF ReplayInitEvent, inputs, sends, platformVars, waitingSpans
  <2>4. HandlesSpans(e)
    BY <1>2, <2>1, <2>2, <2>3 DEF HandlesSpans, SetProcessing
  <2> QED
    BY <2>4
<1> QED
  BY <1>1, <1>2

\* Each step of the instance is one of them.
LEMMA SpanSteps ==
  ASSUME TypeInv, PlatformInv, LoopShape, InLine, PairingConditions, [InstanceNext]_vars
  PROVE  SpanStep
<1> USE DEF TypeInv
<1>0. output_buffers \in OutputBuffers
  BY DEF TypeOK, ProcessingTypes
<1>1. CASE ExportSpan
  BY <1>1, SpanExported DEF SpanStep
<1>2. CASE Recording \/ AdvanceClock \/ Terminated \/ UNCHANGED vars
  <2>1. UNCHANGED <<waitingSpans, invocation_state, sent, output_buffers>>
    BY <1>2, RecordingGrows
    DEF AdvanceClock, Tick, Terminated, vars, platformVars, serviceVars, waitingSpans, inputs, sends,
        processing
  <2> QED
    BY <2>1 DEF KeepsSpans, SameOutput, SpanStep
<1>3. CASE DeliverInvoke \/ DeliverShutdown \/ DeliverTelemetry \/ ExportMetric
  <2>1. UNCHANGED <<waitingSpans, invocation_state, sent>>
    BY <1>3
    DEF DeliverInvoke, StartInvoke, DeliverShutdown, StartShutdown, DeliverTelemetry,
        HandleIncomingTelemetry, ExportMetric, HandleOtlpMetrics, platformVars, waitingSpans, inputs,
        sends, processing
  <2>2. SameOutput
    BY <1>0, <1>3
    DEF DeliverInvoke, StartInvoke, DeliverShutdown, StartShutdown, DeliverTelemetry,
        HandleIncomingTelemetry, ExportMetric, HandleOtlpMetrics, processing, SameOutput,
        OutputBuffers
  <2> QED
    BY <2>1, <2>2 DEF KeepsSpans, SpanStep
<1>4. CASE ServiceStep
  <2>0. UNCHANGED platformVars
    BY <1>4 DEF ServiceStep
  <2>1. CASE TakeInvokeEvent
    BY <2>0, <2>1 DEF SpanStep
  <2>2. CASE ProcessEvent \/ (ReplayInitEvent /\ Head(pending_events).ok)
    BY <2>0, <2>2, SpansHandled DEF SpanStep
  <2>3. CASE EnqueueInvokeEvent
    BY <2>0, <2>3
    DEF EnqueueInvokeEvent, platformVars, processing, sends, EnqueuesSpans, SpanStep
  <2>4. CASE CheckShouldSend \/ SendFlushed
    <3>1. UNCHANGED <<waitingSpans, invocation_state, shutdown_flush_started>>
      BY <2>0, <2>4 DEF CheckShouldSend, SendFlushed, platformVars, inputs, flags, waitingSpans
    <3>2. SendTelemetry \/ UNCHANGED <<output_buffers, sends>>
      BY <2>4 DEF CheckShouldSend, SendFlushed
    <3> QED
      BY <3>1, <3>2 DEF SendsSpans, KeepsSpans, SameOutput, sends, SpanStep
  <2>5. CASE DegradeEvent
    <3>1. UNCHANGED <<waitingSpans, invocation_state, sent>>
      BY <2>0, <2>5 DEF DegradeEvent, platformVars, inputs, sends, processing, waitingSpans
    <3>2. SameOutput
      BY <1>0, <2>5 DEF DegradeEvent, ProcessDegraded, processing, SameOutput, OutputBuffers
    <3> QED
      BY <3>1, <3>2 DEF KeepsSpans, SpanStep
  <2>6. CASE ReplayInitEvent /\ ~Head(pending_events).ok
    BY <2>0, <2>6
    DEF ReplayInitEvent, platformVars, inputs, sends, processing, waitingSpans, KeepsSpans, SameOutput,
        SpanStep
  <2>7. CASE \/ HandleInitStart \/ BufferInitEvent \/ FinishInit \/ RejectEvent
             \/ ReplayEnds \/ DegradeEnds \/ FinishProcessing
    BY <2>0, <2>7
    DEF HandleInitStart, BufferInitEvent, FinishInit, RejectEvent, ReplayEnds, DegradeEnds,
        FinishProcessing, platformVars, inputs, sends, processing, waitingSpans, KeepsSpans, SameOutput,
        SpanStep
  <2>8. CASE \/ ObtainFunctionContext \/ FailToObtainFunctionContext \/ DrainSignals \/ ReceiveSignal
             \/ ForbidOtel \/ AwaitInFlightSends \/ AwaitTimesOut \/ PermitOtel \/ GraceElapses
             \/ FlushEnqueuedTelemetry \/ FinishShutdown
    BY <2>0, <2>8
    DEF ObtainFunctionContext, FailToObtainFunctionContext, DrainSignals, ReceiveSignal,
        ForbidOtel, AwaitInFlightSends, AwaitTimesOut, PermitOtel, GraceElapses,
        FlushEnqueuedTelemetry, FinishShutdown, platformVars, inputs, sends, processing,
        waitingSpans, KeepsSpans, SameOutput, SpanStep
  <2>9. CASE SendEnds \/ \E t \in timers : TimerFires(t)
    BY <2>0, <2>9
    DEF SendEnds, TimerFires, platformVars, inputs, sends, processing,
        waitingSpans, KeepsSpans, SameOutput, SpanStep
  <2>10. ~RejectInvokeEvent
    BY DEF RejectInvokeEvent, PairingConditions
  <2> QED
    BY <1>4, <2>1, <2>2, <2>3, <2>4, <2>5, <2>6, <2>7, <2>8, <2>9, <2>10
    DEF ServiceStep, ProcessingStep, HandlerStep
<1> QED
  BY <1>1, <1>2, <1>3, <1>4 DEF InstanceNext, Recording

\* The queue of invoke events changes when one is put in or taken.
LEMMA QueueUnchanged ==
  ASSUME TypeOK, UNCHANGED invoke_event_queue
  PROVE  ~TakeInvokeEvent /\ ~EnqueueInvokeEvent
<1> DEFINE q == invoke_event_queue
<1>1. q \in Seq(InvokeEventDataWithSpans) /\ Len(q) \in Nat
  BY DEF TypeOK, InputTypes
<1>2. ASSUME TakeInvokeEvent PROVE FALSE
  <2>1. q # <<>> /\ q' = Tail(q)
    BY <1>2 DEF TakeInvokeEvent
  <2>2. Len(Tail(q)) = Len(q) - 1
    BY <1>1, <2>1
  <2> QED
    BY <1>1, <2>1, <2>2
<1>3. ASSUME EnqueueInvokeEvent PROVE FALSE
  <2> DEFINE x == [req |-> handling, spans |-> <<>>]
  <2>1. q' = Append(q, x)
    BY <1>3 DEF EnqueueInvokeEvent
  <2> HIDE DEF x
  <2>2. Len(Append(q, x)) = Len(q) + 1
    BY <1>1
  <2> QED
    BY <1>1, <2>1, <2>2
<1> QED
  BY <1>2, <1>3

\* The spans of a batch that are put out at once.
PutOut(inv, spans) ==
  IF ShouldProduceSpans(inv) /\ TracingMode = "OtelInstrumentation"
  THEN PassedOn(inv.captured, spans) ELSE {}

\* Each span of a batch is set aside, passed on, or for the warm-up only; none is both.
LEMMA SpansOfBatch ==
  ASSUME NEW spans \in Seq(Span), NEW captured
  PROVE  LET new == NewlyCaptured(captured, spans)
             passed == PassedOn(captured, spans)
         IN  /\ new \subseteq ToSet(spans) /\ passed \subseteq ToSet(spans)
             /\ new \cap passed = {} /\ IsFiniteSet(passed)
             /\ \A s \in ToSet(spans) : s \in new \/ s \in passed \/ s.category = "CxWarmup"
             /\ \A s \in new : s.category \in CapturedCategories
<1>1. IsFiniteSet(PassedOn(captured, spans))
  BY CapturedType
<1> QED
  BY <1>1 DEF NewlyCaptured, PassedOn, ToSet

\* process_function_spans sets spans aside or puts them out.
LEMMA BatchProcessed ==
  ASSUME NEW p \in ProcessingType, NEW spans \in Seq(Span)
  PROVE  LET q == ProcessFunctionSpans(p, spans)
         IN  /\ q \in ProcessingType
             /\ q.inv.req = p.inv.req /\ q.inv.data = p.inv.data
             /\ q.inv.captured = p.inv.captured \cup NewlyCaptured(p.inv.captured, spans)
             /\ AddsSpans(p, q, PutOut(p.inv, spans))
<1> DEFINE captured == p.inv.captured \cup NewlyCaptured(p.inv.captured, spans)
           inv == [p.inv EXCEPT !.captured = @ \cup NewlyCaptured(@, spans)]
           passed == PassedOn(p.inv.captured, spans)
           out == IF ShouldProduceSpans(inv) /\ TracingMode = "OtelInstrumentation"
                  THEN AddFunctionSpans(p.out, passed) ELSE p.out
           a == [p EXCEPT !.inv = inv, !.out = out]
           q == ProcessFunctionSpans(p, spans)
<1>1. p.inv \in InvocationProcessingState /\ p.out \in OutputBuffers
  BY ProcessingFields
<1>2. inv \in InvocationProcessingState /\ inv.req = p.inv.req
  <2>1. captured \in SUBSET Span /\ IsFiniteSet(captured)
    BY <1>1, CapturedType, InvocationFields, FS_Union
  <2>2. inv = [p.inv EXCEPT !.captured = captured]
    OBVIOUS
  <2> HIDE DEF captured, inv
  <2> QED
    BY <1>1, <2>1, <2>2 DEF InvocationProcessingState
<1>3. passed \in SUBSET Span /\ IsFiniteSet(passed)
  BY CapturedType
<1>4. AddFunctionSpans(p.out, passed) \in OutputBuffers
  BY <1>1, <1>3, AddFunctionSpansType
<1>5. PutOut(p.inv, spans) = IF ShouldProduceSpans(inv) /\ TracingMode = "OtelInstrumentation"
                             THEN passed ELSE {}
  BY <1>2 DEF PutOut, ShouldProduceSpans
<1> HIDE DEF passed
<1>6. /\ out \in OutputBuffers
      /\ out.functionSpans = p.out.functionSpans \cup PutOut(p.inv, spans)
      /\ out.functionSpansCount = p.out.functionSpansCount + Cardinality(PutOut(p.inv, spans))
  <2>1. Cardinality({}) = 0 /\ p.out.functionSpansCount \in Nat
    BY <1>1, FS_EmptySet DEF OutputBuffers
  <2> QED
    BY <1>1, <1>4, <1>5, <2>1 DEF AddFunctionSpans, OutputBuffers
<1>7. q = IF LogMode = "Structured" /\ inv.delaying_logs /\ HasCaptured(inv, "CxEarlyInvocation")
          THEN ReleaseDelayedLogs(a) ELSE a
  BY DEF ProcessFunctionSpans, passed
<1>8. a \in ProcessingType /\ a.out = out
  <2> HIDE DEF inv, out
  <2> QED
    BY <1>2, <1>6 DEF ProcessingType
<1> HIDE DEF inv, out, captured, a
<1>9. SameSpans(a, q)
  <2>1. SameSpans(a, ReleaseDelayedLogs(a))
    <3> DEFINE e == [kind |-> "Other", req |-> NoRequest, id |-> 0, ok |-> TRUE]
    <3>1. e \in Event
      BY DEF Event, EventKinds
    <3> HIDE DEF e
    <3> QED
      BY <1>8, <3>1, LogsLeaveSpans
  <2> HIDE DEF q
  <2> QED
    BY <1>7, <2>1 DEF SameSpans
<1>10. AddsSpans(p, q, PutOut(p.inv, spans))
  <2> HIDE DEF q
  <2> QED
    BY <1>6, <1>8, <1>9 DEF AddsSpans, SameSpans
<1>11. q \in ProcessingType
  BY ProcessFunctionSpansType
<1> QED
  BY <1>10, <1>11, FunctionSpansRecorded

\* An invocation begins: the spans that were there before it become its own.
LEMMA InvokeSpans ==
  ASSUME TypeOK, TakeInvokeEvent
  PROVE  LET invoke == Head(invoke_event_queue)
             early == function_spans_buffer
             first == NewlyCaptured({}, early)
             then == NewlyCaptured(first, invoke.spans)
             Out(spans) == IF invoke.req \in SampledRequests /\ TracingMode = "OtelInstrumentation"
                           THEN spans ELSE {}
             out1 == Out(PassedOn({}, early))
             out2 == Out(PassedOn(first, invoke.spans))
         IN  /\ early \in Seq(Span) /\ invoke.spans \in Seq(Span)
             /\ invocation_state = NoInvocation
             /\ invocation_state' \in InvocationProcessingState
             /\ invocation_state'.req = invoke.req /\ invocation_state'.data = {}
             /\ invocation_state'.captured = first \cup then
             /\ output_buffers'.functionSpans = (output_buffers.functionSpans \cup out1) \cup out2
             /\ output_buffers'.functionSpansCount =
                  (output_buffers.functionSpansCount + Cardinality(out1)) + Cardinality(out2)
             /\ function_spans_buffer' = <<>> /\ invoke_event_queue' = Tail(invoke_event_queue)
             /\ UNCHANGED sent
<1> DEFINE invoke == Head(invoke_event_queue)
           new == NewInvocationState(invoke.req)
           early == function_spans_buffer
           late == invoke.spans
           p == Processing(new, output_buffers, metrics_state)
           once == ProcessFunctionSpans(p, early)
           twice == ProcessFunctionSpans(once, late)
           first == NewlyCaptured({}, early)
<1>1. InputTypes /\ ProcessingTypes
  BY DEF TypeOK
<1>2. invoke \in InvokeEventDataWithSpans
  BY <1>1, HeadTailProperties DEF TakeInvokeEvent, InputTypes
<1>3. invoke.req \in Requests /\ late \in Seq(Span) /\ early \in Seq(Span)
  BY <1>1, <1>2 DEF InvokeEventDataWithSpans, InputTypes
<1>4. /\ new \in InvocationProcessingState /\ new.req = invoke.req /\ new.data = {}
      /\ new.captured = {}
  BY <1>3, NewInvocationStateType DEF NewInvocationState
<1>5. p \in ProcessingType /\ p.inv = new /\ p.out = output_buffers
  BY <1>1, <1>4 DEF Processing, ProcessingType, ProcessingTypes
<1>6. invocation_state' = twice.inv /\ output_buffers' = twice.out
  BY DEF TakeInvokeEvent, SetProcessing
<1> HIDE DEF new, p, late, early
<1>7. /\ once \in ProcessingType /\ once.inv.req = invoke.req /\ once.inv.data = {}
      /\ once.inv.captured = {} \cup NewlyCaptured({}, early)
      /\ AddsSpans(p, once, PutOut(new, early))
  BY <1>3, <1>4, <1>5, BatchProcessed
<1>8. once.inv.captured = first
  BY <1>7
<1> HIDE DEF once, first
<1>9. /\ twice \in ProcessingType /\ twice.inv.req = invoke.req /\ twice.inv.data = {}
      /\ twice.inv.captured = first \cup NewlyCaptured(first, late)
      /\ AddsSpans(once, twice, PutOut(once.inv, late))
  BY <1>3, <1>7, <1>8, BatchProcessed
<1> HIDE DEF twice
<1>10. twice.inv \in InvocationProcessingState
  BY <1>9, ProcessingFields
<1>11. /\ invocation_state = NoInvocation /\ UNCHANGED sent
       /\ function_spans_buffer' = <<>> /\ invoke_event_queue' = Tail(invoke_event_queue)
  BY DEF TakeInvokeEvent, sends
<1> QED
  BY <1>3, <1>4, <1>5, <1>6, <1>7, <1>8, <1>9, <1>10, <1>11
  DEF AddsSpans, PutOut, ShouldProduceSpans, first, early, late
-----------------------------------------------------------------------------
(* Where the spans are.                                                    *)

\* Where spans are before they are put out: at an invoke event that waits, in the buffer
\* for the next invocation, or set aside until the runtime of their invocation is done.
SpansAt(i) == ToSet(invoke_event_queue[i].spans)

EarlySpans == ToSet(function_spans_buffer)

SpansSetAside == IF InvocationRuns THEN invocation_state.captured ELSE {}

\* A span for an invoke event that waits.
LEMMA SpansQueued ==
  ASSUME TypeOK, NEW s \in Span, SpansForQueuedInvoke(<<s>>)
  PROVE  LET n == Len(invoke_event_queue)
         IN  /\ invoke_event_queue # <<>> /\ n \in 1..n /\ Len(invoke_event_queue') = n
             /\ UNCHANGED <<function_spans_buffer, invocation_state, output_buffers>>
             /\ \A i \in 1..n : SpansAt(i)' = IF i = n THEN SpansAt(i) \cup {s} ELSE SpansAt(i)
<1> DEFINE Q == invoke_event_queue
           n == Len(Q)
           one == <<s>>
           x == [Q[n] EXCEPT !.spans = @ \o one]
<1>1. one \in Seq(Span) /\ ToSet(one) = {s}
  BY DEF ToSet
<1>2. /\ Q # <<>> /\ Q' = [Q EXCEPT ![n] = x]
      /\ UNCHANGED <<function_spans_buffer, invocation_state, output_buffers>>
  BY DEF SpansForQueuedInvoke, processing
<1>3. Q \in Seq(InvokeEventDataWithSpans) /\ n \in 1..n
  BY <1>2 DEF TypeOK, InputTypes
<1>4. \A i \in 1..n : Q[i] \in InvokeEventDataWithSpans
  BY <1>3
<1> HIDE DEF one
<1>5. x.spans = Q[n].spans \o one
  BY <1>3, <1>4 DEF InvokeEventDataWithSpans
<1> HIDE DEF x
<1>6. Len(Q') = n /\ \A i \in 1..n : Q'[i] = IF i = n THEN x ELSE Q[i]
  BY <1>2, <1>3
<1>7. ASSUME NEW i \in 1..n
      PROVE  SpansAt(i)' = IF i = n THEN SpansAt(i) \cup {s} ELSE SpansAt(i)
  <2> DEFINE old == Q[i].spans
  <2>1. old \in Seq(Span)
    BY <1>4 DEF InvokeEventDataWithSpans
  <2>2. Q'[i].spans = IF i = n THEN old \o one ELSE old
    BY <1>5, <1>6
  <2>3. SpansAt(i) = ToSet(old) /\ SpansAt(i)' = ToSet(Q'[i].spans)
    BY DEF SpansAt
  <2> HIDE DEF old
  <2>4. ToSet(old \o one) = ToSet(old) \cup {s}
    BY <1>1, <2>1, ElementsConcat
  <2> QED
    BY <2>2, <2>3, <2>4
<1> QED
  BY <1>2, <1>3, <1>6, <1>7

\* A span for an invoke event that is still to come.
LEMMA SpansBuffered ==
  ASSUME TypeOK, NEW s \in Span, SpansForNextInvoke(<<s>>)
  PROVE  /\ invoke_event_queue = <<>> /\ ~InvocationRuns
         /\ UNCHANGED <<invoke_event_queue, invocation_state, output_buffers>>
         /\ EarlySpans' = EarlySpans \cup {s}
<1> DEFINE one == <<s>>
<1>1. one \in Seq(Span) /\ ToSet(one) = {s} /\ function_spans_buffer \in Seq(Span)
  BY DEF ToSet, TypeOK, InputTypes
<1>2. /\ invoke_event_queue = <<>> /\ ~InvocationRuns
      /\ function_spans_buffer' = function_spans_buffer \o one
      /\ UNCHANGED <<invoke_event_queue, invocation_state, output_buffers>>
  BY DEF SpansForNextInvoke, processing
<1> HIDE DEF one
<1> QED
  BY <1>1, <1>2, ElementsConcat DEF EarlySpans

\* A span for the invocation that runs.
LEMMA SpansRun ==
  ASSUME TypeOK, NEW s \in Span, SpansForRunningInvoke(<<s>>)
  PROVE  \E new \in SUBSET {s}, put \in SUBSET {s} :
           /\ invoke_event_queue = <<>> /\ InvocationRuns
           /\ UNCHANGED <<invoke_event_queue, function_spans_buffer>>
           /\ invocation_state' # NoInvocation
           /\ invocation_state'.req = invocation_state.req
           /\ invocation_state'.data = invocation_state.data
           /\ invocation_state'.captured = invocation_state.captured \cup new
           /\ output_buffers'.functionSpans = output_buffers.functionSpans \cup put
           /\ output_buffers'.functionSpansCount =
                output_buffers.functionSpansCount + Cardinality(put)
           /\ new \cap put = {} /\ IsFiniteSet(put)
           /\ \A t \in new : t.category \in CapturedCategories
           /\ /\ s.category # "CxWarmup" /\ invocation_state.req \in SampledRequests
              /\ TracingMode = "OtelInstrumentation"
              => s \in new \cup put
<1> DEFINE one == <<s>>
           q == ProcessFunctionSpans(ProcessingState, one)
           new == NewlyCaptured(invocation_state.captured, one)
           passed == PassedOn(invocation_state.captured, one)
           put == PutOut(invocation_state, one)
<1>1. one \in Seq(Span) /\ ToSet(one) = {s}
  BY DEF ToSet
<1> HIDE DEF one
<1>2. /\ invoke_event_queue = <<>> /\ InvocationRuns /\ invocation_state # NoInvocation
      /\ UNCHANGED <<invoke_event_queue, function_spans_buffer>>
      /\ invocation_state' = q.inv /\ output_buffers' = q.out
  BY DEF SpansForRunningInvoke, InvocationRuns, SetProcessing, one
<1>3. /\ ProcessingState \in ProcessingType /\ ProcessingState.inv = invocation_state
      /\ ProcessingState.out = output_buffers
  BY <1>2, ProcessingStateType DEF ProcessingState, Processing
<1>4. /\ q \in ProcessingType
      /\ q.inv.req = invocation_state.req /\ q.inv.data = invocation_state.data
      /\ q.inv.captured = invocation_state.captured \cup new
      /\ q.out.functionSpans = output_buffers.functionSpans \cup put
      /\ q.out.functionSpansCount = output_buffers.functionSpansCount + Cardinality(put)
  BY <1>1, <1>3, BatchProcessed DEF AddsSpans
<1>5. /\ new \subseteq {s} /\ passed \subseteq {s} /\ new \cap passed = {} /\ IsFiniteSet(passed)
      /\ s \in new \/ s \in passed \/ s.category = "CxWarmup"
      /\ \A t \in new : t.category \in CapturedCategories
  BY <1>1, SpansOfBatch
<1>6. q.inv # NoInvocation
  BY <1>4, ServiceAssumption DEF ProcessingType
<1>7. /\ put \subseteq {s} /\ new \cap put = {} /\ IsFiniteSet(put)
      /\ /\ s.category # "CxWarmup" /\ invocation_state.req \in SampledRequests
         /\ TracingMode = "OtelInstrumentation"
         => s \in new \cup put
  <2>1. IsFiniteSet({})
    BY FS_EmptySet
  <2> HIDE DEF new, passed
  <2>2. put = IF ShouldProduceSpans(invocation_state) /\ TracingMode = "OtelInstrumentation"
              THEN passed ELSE {}
    BY DEF PutOut, passed
  <2> HIDE DEF put
  <2> QED
    BY <1>5, <2>1, <2>2 DEF ShouldProduceSpans
<1> HIDE DEF q, new, put
<1> QED
  BY <1>2, <1>4, <1>5, <1>6, <1>7

-----------------------------------------------------------------------------
(* Whose spans the spans are.                                              *)

\* The spans that wait were made by the invocation they wait for ...
WaitingOwn ==
  ~shutdown_flush_started =>
    /\ \A s \in ToSet(function_spans_buffer) : s.req = Taken + 1
    /\ \A i \in 1..Len(invoke_event_queue) :
         \A s \in ToSet(invoke_event_queue[i].spans) : s.req = Taken + i

\* ... and those set aside by the one whose state they are in.
CapturedOwn ==
  invocation_state # NoInvocation =>
    \A s \in invocation_state.captured : s.req = invocation_state.req

SpanOwner == SendAfterInvocation => WaitingOwn /\ CapturedOwn

\* A span that comes.
LEMMA OwnExported ==
  ASSUME AnswerInv, PairingConditions, SendAfterInvocation, WaitingOwn, CapturedOwn,
         [InstanceNext]_vars, NEW s, Exports(s)
  PROVE  WaitingOwn' /\ CapturedOwn'
<1> DEFINE Q == invoke_event_queue
           n == Len(Q)
<1>1. TypeOK /\ PlatformInv /\ LoopShape /\ HandlerInv /\ QueueInv
  BY DEF AnswerInv, PairingBase, TypeInv
<1>2. /\ current \in Requests /\ ~shutdown_flush_started
      /\ Q # <<>> => Taken + n = current
      /\ Q = <<>> /\ InvocationRuns => invocation_state.req = current
      /\ Q = <<>> /\ ~InvocationRuns => Taken + 1 = current
  BY WhereSpansBelong DEF Exports
<1>3. HandleOtlpSpans(<<s>>) /\ s \in Span /\ s.req = current /\ MutexFree
  BY DEF Exports, HandleOtlpSpans
<1>4. ~TakeInvokeEvent
  BY <1>3 DEF TakeInvokeEvent, MutexFree
<1>5. Taken' = Taken
  BY <1>1, <1>4, AlwaysOrderly, QueueStep DEF AnswerInv
<1>6. Len(<<>>) = 0
  OBVIOUS
<1>7. CASE SpansForQueuedInvoke(<<s>>)
  <2>1. /\ Q # <<>> /\ Len(Q') = n /\ UNCHANGED <<function_spans_buffer, invocation_state>>
        /\ \A i \in 1..n : SpansAt(i)' = IF i = n THEN SpansAt(i) \cup {s} ELSE SpansAt(i)
    BY <1>1, <1>3, <1>7, SpansQueued
  <2>2. ASSUME NEW i \in 1..n, NEW t \in SpansAt(i)' PROVE t.req = Taken + i
    BY <1>2, <1>3, <2>1, <2>2 DEF WaitingOwn, SpansAt
  <2> QED
    BY <1>2, <1>5, <2>1, <2>2 DEF WaitingOwn, CapturedOwn, SpansAt
<1>8. CASE SpansForNextInvoke(<<s>>)
  <2>1. /\ Q = <<>> /\ ~InvocationRuns /\ UNCHANGED <<invoke_event_queue, invocation_state>>
        /\ EarlySpans' = EarlySpans \cup {s}
    BY <1>1, <1>3, <1>8, SpansBuffered
  <2> QED
    BY <1>2, <1>3, <1>5, <2>1 DEF WaitingOwn, CapturedOwn, EarlySpans
<1>9. CASE SpansForRunningInvoke(<<s>>)
  <2>1. PICK new \in SUBSET {s}, put \in SUBSET {s} :
          /\ Q = <<>> /\ InvocationRuns
          /\ UNCHANGED <<invoke_event_queue, function_spans_buffer>>
          /\ invocation_state'.req = invocation_state.req
          /\ invocation_state'.captured = invocation_state.captured \cup new
    BY <1>1, <1>3, <1>9, SpansRun
  <2>2. CapturedOwn'
    BY <1>2, <1>3, <2>1 DEF CapturedOwn, InvocationRuns
  <2> QED
    BY <1>2, <1>5, <2>1, <2>2 DEF WaitingOwn
<1> QED
  BY <1>3, <1>7, <1>8, <1>9 DEF HandleOtlpSpans

\* An invocation that begins.
LEMMA OwnTaken ==
  ASSUME AnswerInv, PairingConditions, WaitingOwn, [InstanceNext]_vars,
         TakeInvokeEvent
  PROVE  WaitingOwn' /\ CapturedOwn'
<1> DEFINE Q == invoke_event_queue
           invoke == Head(Q)
           early == function_spans_buffer
           first == NewlyCaptured({}, early)
           then == NewlyCaptured(first, invoke.spans)
<1>1. TypeOK /\ PlatformInv /\ LoopShape /\ HandlerInv /\ QueueInv
  BY DEF AnswerInv, PairingBase, TypeInv
<1>2. Taken' = Taken + 1 /\ invoke.req = Taken + 1 /\ Taken \in Int
  BY <1>1, AlwaysOrderly, QueueStep, HandlerNumbers DEF AnswerInv
<1>3. /\ early \in Seq(Span) /\ invoke.spans \in Seq(Span)
      /\ invocation_state'.req = invoke.req /\ invocation_state'.captured = first \cup then
      /\ function_spans_buffer' = <<>> /\ Q' = Tail(Q)
  BY <1>1, InvokeSpans
<1>4. ~shutdown_flush_started /\ ~shutdown_flush_started' /\ Q # <<>>
  BY <1>1 DEF TakeInvokeEvent, LoopShape, flags
<1>5. Q \in Seq(InvokeEventDataWithSpans) /\ Len(Q) \in Nat /\ 1 \in 1..Len(Q) /\ invoke = Q[1]
  BY <1>1, <1>4 DEF TypeOK, InputTypes
<1>6. first \subseteq ToSet(early) /\ then \subseteq ToSet(invoke.spans)
  BY <1>3, SpansOfBatch
<1>7. (\A s \in ToSet(early) : s.req = Taken + 1) /\ \A s \in ToSet(invoke.spans) : s.req = Taken + 1
  BY <1>4, <1>5 DEF WaitingOwn
<1> HIDE DEF first, then
<1>8. CapturedOwn'
  BY <1>2, <1>3, <1>6, <1>7 DEF CapturedOwn
<1>9. ASSUME NEW i \in 1..Len(Q'), NEW s \in ToSet(Q'[i].spans) PROVE s.req = (Taken + 1) + i
  <2>1. i + 1 \in 1..Len(Q) /\ Q'[i] = Q[i + 1]
    BY <1>3, <1>4, <1>5
  <2>2. s.req = Taken + (i + 1)
    BY <1>4, <1>9, <2>1 DEF WaitingOwn
  <2> QED
    BY <1>2, <2>1, <2>2
<1>10. ToSet(<<>>) = {}
  BY DEF ToSet
<1> QED
  BY <1>2, <1>3, <1>8, <1>9, <1>10 DEF WaitingOwn

\* An invoke event waits without spans at first.
LEMMA OwnEnqueued ==
  ASSUME AnswerInv, PairingConditions, WaitingOwn, CapturedOwn, [InstanceNext]_vars, EnqueuesSpans
  PROVE  WaitingOwn' /\ CapturedOwn'
<1> DEFINE Q == invoke_event_queue
           x == [req |-> handling, spans |-> <<>>]
<1>1. TypeOK /\ PlatformInv /\ LoopShape /\ HandlerInv /\ QueueInv
  BY DEF AnswerInv, PairingBase, TypeInv
<1>2. /\ Q' = Append(Q, x) /\ section = "free" /\ x.spans = <<>> /\ ToSet(<<>>) = {}
      /\ UNCHANGED <<function_spans_buffer, invocation_state, shutdown_flush_started>>
  BY DEF EnqueuesSpans, EnqueueInvokeEvent, MutexFree, ToSet
<1>3. ~TakeInvokeEvent
  BY <1>2 DEF TakeInvokeEvent
<1>4. Taken' = Taken
  BY <1>1, <1>3, AlwaysOrderly, QueueStep DEF AnswerInv
<1>5. Q \in Seq(InvokeEventDataWithSpans) /\ Len(Q) \in Nat
  BY <1>1 DEF TypeOK, InputTypes
<1> HIDE DEF x
<1>6. \A i \in 1..Len(Q') : Q'[i] = x \/ (i \in 1..Len(Q) /\ Q'[i] = Q[i])
  BY <1>2, <1>5
<1> QED
  BY <1>2, <1>4, <1>6 DEF WaitingOwn, CapturedOwn

\* Processing an event keeps the request and what was set aside, or ends the invocation.
LEMMA HandledState ==
  ASSUME TypeOK, NEW e, HandlesSpans(e)
  PROVE  LET q == ProcessTelemetry(ProcessingState, e)
         IN  /\ ProcessingState \in ProcessingType /\ ProcessingState.inv = invocation_state
             /\ ProcessingState.out = output_buffers
             /\ e \in Event /\ q \in ProcessingType /\ invocation_state # NoInvocation
             /\ q.inv.req = invocation_state.req /\ q.inv.captured = invocation_state.captured
             /\ \A kind \in Milestones :
                  Has(q.inv, kind) <=> Has(invocation_state, kind) \/ e.kind = kind
             /\ AddsSpans(ProcessingState, q, SpansOut(ProcessingState, e))
<1>1. e \in Event /\ invocation_state # NoInvocation
  BY DEF HandlesSpans, HandlesEvent
<1>2. /\ ProcessingState \in ProcessingType /\ ProcessingState.inv = invocation_state
      /\ ProcessingState.out = output_buffers
  BY <1>1, ProcessingStateType DEF ProcessingState, Processing
<1>3. /\ AddsSpans(ProcessingState, ProcessTelemetry(ProcessingState, e), SpansOut(ProcessingState, e))
      /\ RecordsEvent(ProcessingState, ProcessTelemetry(ProcessingState, e), e)
      /\ ProcessTelemetry(ProcessingState, e) \in ProcessingType
  BY <1>1, <1>2, SpansOfEvent, TelemetryRecorded, ProcessTelemetryType
<1>4. \A kind \in Milestones :
        Has(ProcessTelemetry(ProcessingState, e).inv, kind)
          <=> Has(invocation_state, kind) \/ e.kind = kind
  BY <1>1, ProcessedState
<1> QED
  BY <1>1, <1>2, <1>3, <1>4 DEF RecordsEvent

\* All other steps.
LEMMA OwnKept ==
  ASSUME AnswerInv, PairingConditions, WaitingOwn, CapturedOwn, [InstanceNext]_vars,
         KeepsSpans \/ SendsSpans \/ \E e : HandlesSpans(e)
  PROVE  WaitingOwn' /\ CapturedOwn'
<1>1. TypeOK /\ PlatformInv /\ LoopShape /\ HandlerInv /\ QueueInv
  BY DEF AnswerInv, PairingBase, TypeInv
<1>2. UNCHANGED <<invoke_event_queue, function_spans_buffer>>
  BY DEF KeepsSpans, SendsSpans, HandlesSpans, waitingSpans
<1>3. ~TakeInvokeEvent
  BY <1>1, <1>2, QueueUnchanged
<1>4. Taken' = Taken
  BY <1>1, <1>3, AlwaysOrderly, QueueStep DEF AnswerInv
<1>5. shutdown_flush_started => shutdown_flush_started'
  BY <1>1, FlushStays
<1>6. WaitingOwn'
  BY <1>2, <1>4, <1>5 DEF WaitingOwn
<1>7. CASE KeepsSpans \/ SendsSpans
  BY <1>6, <1>7 DEF KeepsSpans, SendsSpans, CapturedOwn
<1>8. CASE \E e : HandlesSpans(e)
  <2>1. PICK e : HandlesSpans(e)
    BY <1>8
  <2> DEFINE q == ProcessTelemetry(ProcessingState, e)
  <2>2. /\ q.inv.req = invocation_state.req /\ q.inv.captured = invocation_state.captured
        /\ invocation_state # NoInvocation
    BY <1>1, <2>1, HandledState
  <2>3. invocation_state' \in {q.inv, NoInvocation}
    BY <2>1 DEF HandlesSpans
  <2> HIDE DEF q
  <2> QED
    BY <1>6, <2>2, <2>3 DEF CapturedOwn
<1> QED
  BY <1>7, <1>8

\* Each step keeps the spans with their invocations.
LEMMA SpanOwnerStep ==
  ASSUME AnswerInv, PairingConditions, SpanOwner, [InstanceNext]_vars
  PROVE  SpanOwner'
<1> SUFFICES ASSUME SendAfterInvocation PROVE WaitingOwn' /\ CapturedOwn'
  BY DEF SpanOwner
<1>1. TypeInv /\ PlatformInv /\ LoopShape /\ InLine /\ WaitingOwn /\ CapturedOwn
  BY DEF AnswerInv, PairingBase, SpanOwner
<1>2. SpanStep
  BY <1>1, SpanSteps
<1> QED
  BY <1>1, <1>2, OwnExported, OwnTaken, OwnEnqueued, OwnKept DEF SpanStep

\* A span that is set aside as trigger or invocation span of an invocation was made by it,
\* although handle_otlp_spans guesses the invocation from what it has seen: however late the
\* invoke event and the telemetry come.
THEOREM SpansAreOwned ==
  PairingConditions /\ InstanceSpec => []SpansCapturedByOwnInvocation
<1> SUFFICES ASSUME PairingConditions PROVE InstanceSpec => []SpansCapturedByOwnInvocation
  OBVIOUS
<1>1. InstanceInit => AnswerInv /\ SpanOwner
  <2> SUFFICES ASSUME InstanceInit PROVE AnswerInv /\ SpanOwner
    OBVIOUS
  <2>1. function_spans_buffer = <<>> /\ invoke_event_queue = <<>> /\ invocation_state = NoInvocation
    BY DEF InstanceInit, Init
  <2>2. ToSet(<<>>) = {}
    BY DEF ToSet
  <2> QED
    BY <2>1, <2>2, AnswerInit DEF SpanOwner, WaitingOwn, CapturedOwn
<1>2. (AnswerInv /\ SpanOwner) /\ [InstanceNext]_vars => (AnswerInv /\ SpanOwner)'
  BY AlwaysOrderly, AnswerStep, SpanOwnerStep DEF AnswerInv
<1>3. AnswerInv /\ SpanOwner => SpansCapturedByOwnInvocation
  BY DEF SpanOwner, CapturedOwn, SpansCapturedByOwnInvocation
<1> QED
  BY <1>1, <1>2, <1>3, PTL DEF InstanceSpec

-----------------------------------------------------------------------------
(* No span is in two places.                                               *)

\* The places have no span in common, and none with the batches.
SpansApart ==
  /\ \A i, j \in 1..Len(invoke_event_queue) : i # j => SpansAt(i) \cap SpansAt(j) = {}
  /\ \A i \in 1..Len(invoke_event_queue) :
       /\ SpansAt(i) \cap EarlySpans = {}
       /\ SpansAt(i) \cap SpansSetAside = {}
       /\ SpansAt(i) \cap AllFunctionSpans = {}
  /\ EarlySpans \cap SpansSetAside = {}
  /\ EarlySpans \cap AllFunctionSpans = {}
  /\ SpansSetAside \cap AllFunctionSpans = {}

\* All of them were made before.
MadeBefore(spans) == \A s \in spans : s.id <= Len(spans_sent)

SpansMadeBefore ==
  /\ \A i \in 1..Len(invoke_event_queue) : MadeBefore(SpansAt(i))
  /\ MadeBefore(EarlySpans) /\ MadeBefore(SpansSetAside) /\ MadeBefore(AllFunctionSpans)

\* The counts of the batches are right, and a span is in one of them.
SpansCounted ==
  /\ IsFiniteSet(output_buffers.functionSpans) /\ IsFiniteSet(sent.functionSpans)
  /\ SpansSentOnce

SpansInv == SpansApart /\ SpansMadeBefore /\ SpansCounted

\* Two sets with nothing in common.
LEMMA DisjointSets ==
  ASSUME NEW S, IsFiniteSet(S), NEW T, IsFiniteSet(T), S \cap T = {}
  PROVE  /\ IsFiniteSet(S \cup T)
         /\ Cardinality(S \cup T) = Cardinality(S) + Cardinality(T)
<1>1. /\ IsFiniteSet(S \cup T)
      /\ Cardinality(S \cup T) = Cardinality(S) + Cardinality(T) - Cardinality(S \cap T)
  BY FS_Union
<1>2. Cardinality(S \cap T) = 0 /\ Cardinality(S) \in Nat /\ Cardinality(T) \in Nat
  BY FS_EmptySet, FS_CardinalityType
<1> QED
  BY <1>1, <1>2

\* Spans that were in no batch are put out.
LEMMA CountGrows ==
  ASSUME TypeOK, SpansCounted, UNCHANGED sent, NEW new, IsFiniteSet(new),
         new \cap AllFunctionSpans = {},
         output_buffers'.functionSpans = output_buffers.functionSpans \cup new,
         output_buffers'.functionSpansCount = output_buffers.functionSpansCount + Cardinality(new)
  PROVE  SpansCounted' /\ AllFunctionSpans' = AllFunctionSpans \cup new
<1> DEFINE old == output_buffers.functionSpans
<1>1. IsFiniteSet(old) /\ old \cap new = {} /\ new \cap sent.functionSpans = {}
  BY DEF SpansCounted, AllFunctionSpans
<1>2. IsFiniteSet(old \cup new) /\ Cardinality(old \cup new) = Cardinality(old) + Cardinality(new)
  BY <1>1, DisjointSets
<1> QED
  BY <1>1, <1>2 DEF SpansCounted, SpansSentOnce, AllFunctionSpans

\* A batch is sent: all that was put out was sent.
LEMMA CountSent ==
  ASSUME TypeOK, SpansCounted, SendTelemetry
  PROVE  SpansCounted' /\ AllFunctionSpans' = AllFunctionSpans
<1> DEFINE old == output_buffers.functionSpans
           all == sent.functionSpans
<1>1. /\ sent'.functionSpans = all \cup old /\ output_buffers'.functionSpans = {}
      /\ sent'.functionSpansCount = sent.functionSpansCount + output_buffers.functionSpansCount
      /\ output_buffers'.functionSpansCount = 0
  BY DEF SendTelemetry, Merge, EmptyBuffers
<1>2. IsFiniteSet(old) /\ IsFiniteSet(all) /\ all \cap old = {}
  BY DEF SpansCounted, SpansSentOnce
<1>3. IsFiniteSet(all \cup old) /\ Cardinality(all \cup old) = Cardinality(all) + Cardinality(old)
  BY <1>2, DisjointSets
<1>4. Cardinality({}) = 0 /\ IsFiniteSet({})
  BY FS_EmptySet
<1> QED
  BY <1>1, <1>3, <1>4 DEF SpansCounted, SpansSentOnce, AllFunctionSpans

\* The end of a runtime is processed once.
LEMMA DoneIsNew ==
  ASSUME AnswerInv, NEW e, HandlesSpans(e), e.kind = "PlatformRuntimeDone"
  PROVE  ~Has(invocation_state, "PlatformRuntimeDone")
<1>1. /\ PairingBase /\ PairInv /\ TypeOK /\ PlatformInv /\ InLine /\ ~shutdown_flush_started
      /\ invocation_state # NoInvocation
      /\ IsNext(e) \/ IsReplayed(e)
  BY DEF AnswerInv, PairingBase, TypeInv, HandlesSpans, HandlesEvent
<1>2. ~IsReplayed(e)
  BY <1>1 DEF IsReplayed, PairInv, InitEvents, Milestones
<1>3. HasNextEvent /\ init_handled /\ e = NextEvent
  BY <1>1, <1>2 DEF IsNext
<1> DEFINE p == Pos + 1
<1>4. p \in 1..Len(stream) /\ stream[p].kind = "PlatformRuntimeDone" /\ ReqAt(p) = Taken
  BY <1>1, <1>3, HeadPaired
<1>5. Pos \in Nat /\ Len(stream) \in Nat /\ Taken \in Nat \ {0}
  BY <1>1, <1>3, PosFacts DEF PairInv, AfterInit
<1>6. ASSUME NEW k \in 1..Pos, Is(k, "PlatformRuntimeDone", Taken) PROVE FALSE
  <2>1. k \in 1..Len(stream) /\ k # p
    BY <1>4, <1>5
  <2> QED
    BY <1>1, <1>4, <1>5, <1>6, <2>1 DEF Is, PairingBase, PairedStream, DoneOnce
<1>7. ~Seen("PlatformRuntimeDone", Taken)
  BY <1>6 DEF Seen
<1> QED
  BY <1>1, <1>7 DEF PairInv, OwnState

\* A span that comes was nowhere before.
LEMMA ApartExported ==
  ASSUME TypeOK, SpansInv, NEW s, Exports(s)
  PROVE  SpansInv'
<1> DEFINE Q == invoke_event_queue
           n == Len(Q)
           m == Len(spans_sent)
<1>1. /\ HandleOtlpSpans(<<s>>) /\ s \in Span /\ s.id = m + 1 /\ UNCHANGED sent
      /\ spans_sent' = Append(spans_sent, s)
  BY DEF Exports, HandleOtlpSpans, sends
<1>2. m \in Nat /\ Len(spans_sent') = m + 1
  BY <1>1
<1>3. AllFunctionSpans \subseteq Span /\ SpansSetAside \subseteq Span
  BY InvocationFields
  DEF TypeOK, ProcessingTypes, SendTypes, OutputBuffers, AllFunctionSpans, SpansSetAside, InvocationRuns
<1>4. EarlySpans \subseteq Span /\ \A i \in 1..n : SpansAt(i) \subseteq Span
  <2>1. ASSUME NEW xs \in Seq(Span) PROVE ToSet(xs) \subseteq Span
    BY DEF ToSet
  <2>2. ASSUME NEW i \in 1..n PROVE Q[i].spans \in Seq(Span)
    <3>1. Q[i] \in InvokeEventDataWithSpans
      BY DEF TypeOK, InputTypes
    <3> QED
      BY <3>1 DEF InvokeEventDataWithSpans
  <2> QED
    BY <2>1, <2>2 DEF SpansAt, EarlySpans, TypeOK, InputTypes
<1>5. /\ \A i \in 1..n : s \notin SpansAt(i)
      /\ s \notin EarlySpans /\ s \notin SpansSetAside /\ s \notin AllFunctionSpans
  BY <1>1, <1>2 DEF SpansInv, SpansMadeBefore, MadeBefore
<1>6. /\ \A i \in 1..n : \A t \in SpansAt(i) \cup {s} : t.id <= m + 1
      /\ \A t \in EarlySpans \cup {s} : t.id <= m + 1
      /\ \A t \in SpansSetAside \cup {s} : t.id <= m + 1
      /\ \A t \in AllFunctionSpans \cup {s} : t.id <= m + 1
  <2>1. ASSUME NEW old, old \subseteq Span, MadeBefore(old) PROVE \A t \in old \cup {s} : t.id <= m + 1
    <3>1. \A t \in old : t.id \in Nat /\ t.id <= m
      BY <2>1 DEF MadeBefore, Span
    <3> QED
      BY <1>1, <1>2, <3>1
  <2> QED
    BY <1>3, <1>4, <2>1 DEF SpansInv, SpansMadeBefore
<1> HIDE DEF m
<1>7. CASE SpansForQueuedInvoke(<<s>>)
  <2> DEFINE At(i) == SpansAt(i)'
  <2>1. /\ Len(Q') = n /\ UNCHANGED <<function_spans_buffer, invocation_state, output_buffers>>
        /\ \A i \in 1..n : At(i) = IF i = n THEN SpansAt(i) \cup {s} ELSE SpansAt(i)
    BY <1>1, <1>7, SpansQueued
  <2>2. /\ EarlySpans' = EarlySpans /\ SpansSetAside' = SpansSetAside
        /\ AllFunctionSpans' = AllFunctionSpans /\ SpansCounted'
    BY <1>1, <2>1 DEF EarlySpans, SpansSetAside, InvocationRuns, AllFunctionSpans, SpansInv, SpansCounted,
       SpansSentOnce
  <2> HIDE DEF At
  <2>3. ASSUME NEW i \in 1..n, NEW j \in 1..n, i # j PROVE At(i) \cap At(j) = {}
    BY <1>5, <2>1, <2>3 DEF SpansInv, SpansApart
  <2>4. ASSUME NEW i \in 1..n
        PROVE  /\ At(i) \cap EarlySpans = {} /\ At(i) \cap SpansSetAside = {}
               /\ At(i) \cap AllFunctionSpans = {}
    BY <1>5, <2>1 DEF SpansInv, SpansApart
  <2>5. /\ EarlySpans \cap SpansSetAside = {} /\ EarlySpans \cap AllFunctionSpans = {}
        /\ SpansSetAside \cap AllFunctionSpans = {}
    BY DEF SpansInv, SpansApart
  <2>6. SpansApart'
    BY <2>1, <2>2, <2>3, <2>4, <2>5 DEF SpansApart, At
  <2>7. SpansMadeBefore'
    BY <1>2, <1>6, <2>1, <2>2 DEF SpansMadeBefore, MadeBefore, At
  <2> QED
    BY <2>2, <2>6, <2>7 DEF SpansInv
<1>8. CASE SpansForNextInvoke(<<s>>)
  <2>1. /\ Q = <<>> /\ UNCHANGED <<invoke_event_queue, invocation_state, output_buffers>>
        /\ EarlySpans' = EarlySpans \cup {s}
    BY <1>1, <1>8, SpansBuffered
  <2>2. /\ SpansSetAside' = SpansSetAside /\ Len(Q') = 0
        /\ AllFunctionSpans' = AllFunctionSpans /\ SpansCounted'
    BY <1>1, <2>1 DEF SpansSetAside, InvocationRuns, AllFunctionSpans, SpansInv, SpansCounted, SpansSentOnce
  <2>3. SpansApart'
    BY <1>5, <2>1, <2>2 DEF SpansInv, SpansApart
  <2>4. SpansMadeBefore'
    BY <1>2, <1>6, <2>1, <2>2 DEF SpansMadeBefore, MadeBefore
  <2> QED
    BY <2>2, <2>3, <2>4 DEF SpansInv
<1>9. CASE SpansForRunningInvoke(<<s>>)
  <2>1. PICK new \in SUBSET {s}, put \in SUBSET {s} :
          /\ Q = <<>> /\ InvocationRuns
          /\ UNCHANGED <<invoke_event_queue, function_spans_buffer>>
          /\ invocation_state'.captured = invocation_state.captured \cup new
          /\ output_buffers'.functionSpans = output_buffers.functionSpans \cup put
          /\ output_buffers'.functionSpansCount = output_buffers.functionSpansCount + Cardinality(put)
          /\ new \cap put = {} /\ IsFiniteSet(put)
    BY <1>1, <1>9, SpansRun
  <2>2. put \cap AllFunctionSpans = {}
    BY <1>5
  <2>3. SpansCounted' /\ AllFunctionSpans' = AllFunctionSpans \cup put
    BY <1>1, <2>1, <2>2, CountGrows DEF SpansInv
  <2>4. SpansSetAside' \subseteq SpansSetAside \cup new
    BY <2>1 DEF SpansSetAside
  <2>5. EarlySpans' = EarlySpans /\ Len(Q') = 0
    BY <2>1 DEF EarlySpans
  <2>6. SpansApart'
    BY <1>5, <2>1, <2>3, <2>4, <2>5 DEF SpansInv, SpansApart
  <2>7. SpansMadeBefore'
    BY <1>2, <1>6, <2>3, <2>4, <2>5 DEF SpansMadeBefore, MadeBefore
  <2> QED
    BY <2>3, <2>6, <2>7 DEF SpansInv
<1> QED
  BY <1>1, <1>7, <1>8, <1>9 DEF HandleOtlpSpans

\* An invocation that begins: its spans are set aside or put out, and wait no more.
LEMMA ApartTaken ==
  ASSUME TypeOK, SpansInv, TakeInvokeEvent, UNCHANGED platformVars
  PROVE  SpansInv'
<1> DEFINE Q == invoke_event_queue
           n == Len(Q)
           invoke == Head(Q)
           early == function_spans_buffer
           first == NewlyCaptured({}, early)
           then == NewlyCaptured(first, invoke.spans)
           passed1 == PassedOn({}, early)
           passed2 == PassedOn(first, invoke.spans)
           Out(spans) == IF invoke.req \in SampledRequests /\ TracingMode = "OtelInstrumentation"
                         THEN spans ELSE {}
           out1 == Out(passed1)
           out2 == Out(passed2)
<1>1. /\ early \in Seq(Span) /\ invoke.spans \in Seq(Span)
      /\ invocation_state = NoInvocation /\ invocation_state'.captured = first \cup then
      /\ output_buffers'.functionSpans = (output_buffers.functionSpans \cup out1) \cup out2
      /\ output_buffers'.functionSpansCount =
           (output_buffers.functionSpansCount + Cardinality(out1)) + Cardinality(out2)
      /\ function_spans_buffer' = <<>> /\ Q' = Tail(Q)
      /\ UNCHANGED <<sent, spans_sent>>
  BY InvokeSpans DEF platformVars
<1>2. Q \in Seq(InvokeEventDataWithSpans) /\ n \in Nat /\ 1 \in 1..n /\ invoke = Q[1]
  BY DEF TakeInvokeEvent, TypeOK, InputTypes
<1>3. Len(Q') = n - 1 /\ \A i \in 1..(n - 1) : Q'[i] = Q[i + 1] /\ i + 1 \in 1..n
  BY <1>1, <1>2
<1>4. /\ first \subseteq EarlySpans /\ passed1 \subseteq EarlySpans /\ first \cap passed1 = {}
      /\ IsFiniteSet(passed1)
  BY <1>1, SpansOfBatch DEF EarlySpans
<1>5. /\ then \subseteq SpansAt(1) /\ passed2 \subseteq SpansAt(1) /\ then \cap passed2 = {}
      /\ IsFiniteSet(passed2)
  BY <1>1, <1>2, SpansOfBatch DEF SpansAt
<1>6. IsFiniteSet({}) /\ Cardinality({}) = 0
  BY FS_EmptySet
<1> HIDE DEF first, then, passed1, passed2
<1>7. /\ IsFiniteSet(out1) /\ out1 \subseteq passed1 /\ IsFiniteSet(out2) /\ out2 \subseteq passed2
      /\ Cardinality(out1) \in Nat /\ Cardinality(out2) \in Nat
  BY <1>4, <1>5, <1>6, FS_CardinalityType
<1> HIDE DEF Out
<1>8. SpansAt(1) \cap EarlySpans = {} /\ EarlySpans \cap AllFunctionSpans = {}
      /\ SpansAt(1) \cap AllFunctionSpans = {}
  BY <1>2 DEF SpansInv, SpansApart
<1>9. /\ out1 \cap out2 = {} /\ (out1 \cup out2) \cap AllFunctionSpans = {}
      /\ IsFiniteSet(out1 \cup out2)
  BY <1>4, <1>5, <1>7, <1>8, FS_Union
<1>10. Cardinality(out1 \cup out2) = Cardinality(out1) + Cardinality(out2)
  BY <1>7, <1>9, DisjointSets
<1>11. output_buffers.functionSpansCount \in Nat
  BY DEF TypeOK, ProcessingTypes, OutputBuffers
<1>12. SpansCounted' /\ AllFunctionSpans' = AllFunctionSpans \cup (out1 \cup out2)
  <2> DEFINE new == out1 \cup out2
  <2>1. output_buffers'.functionSpans = output_buffers.functionSpans \cup new
    BY <1>1
  <2>2. output_buffers'.functionSpansCount = output_buffers.functionSpansCount + Cardinality(new)
    BY <1>1, <1>7, <1>10, <1>11
  <2>3. IsFiniteSet(new) /\ new \cap AllFunctionSpans = {}
    BY <1>9
  <2> HIDE DEF new
  <2>4. SpansCounted' /\ AllFunctionSpans' = AllFunctionSpans \cup new
    BY <1>1, <2>1, <2>2, <2>3, CountGrows DEF SpansInv
  <2> QED
    BY <2>4 DEF new
<1> HIDE DEF out1, out2
<1>13. SpansSetAside' \subseteq first \cup then
  BY <1>1 DEF SpansSetAside
<1>14. EarlySpans' = {}
  BY <1>1 DEF EarlySpans, ToSet
<1>15. \A i \in 1..(n - 1) : SpansAt(i)' = SpansAt(i + 1) /\ i + 1 \in 1..n /\ i + 1 # 1
  BY <1>2, <1>3 DEF SpansAt
<1>16. SpansApart'
  <2> DEFINE At(i) == ToSet(Q'[i].spans)
  <2>1. \A i \in 1..(n - 1) : SpansAt(i)' = At(i) /\ At(i) = SpansAt(i + 1)
    BY <1>15 DEF SpansAt
  <2> HIDE DEF At
  <2>2. ASSUME NEW i \in 1..(n - 1), NEW j \in 1..(n - 1), i # j PROVE At(i) \cap At(j) = {}
    <3>1. i + 1 # j + 1 /\ i + 1 \in 1..n /\ j + 1 \in 1..n
      BY <1>2, <2>2
    <3> QED
      BY <2>1, <3>1 DEF SpansInv, SpansApart
  <2>3. ASSUME NEW i \in 1..(n - 1)
        PROVE  /\ At(i) \cap (first \cup then) = {}
               /\ At(i) \cap (AllFunctionSpans \cup (out1 \cup out2)) = {}
    <3>1. SpansAt(i + 1) \cap SpansAt(1) = {}
      BY <1>2, <1>15 DEF SpansInv, SpansApart
    <3>2. SpansAt(i + 1) \cap EarlySpans = {} /\ SpansAt(i + 1) \cap AllFunctionSpans = {}
      BY <1>15 DEF SpansInv, SpansApart
    <3> QED
      BY <1>4, <1>5, <1>7, <2>1, <3>1, <3>2
  <2>4. (first \cup then) \cap (AllFunctionSpans \cup (out1 \cup out2)) = {}
    BY <1>4, <1>5, <1>7, <1>8
  <2> QED
    BY <1>3, <1>12, <1>13, <1>14, <2>1, <2>2, <2>3, <2>4 DEF SpansApart
<1>17. SpansMadeBefore'
  <2>1. /\ \A i \in 1..n : MadeBefore(SpansAt(i))
        /\ MadeBefore(EarlySpans) /\ MadeBefore(AllFunctionSpans)
    BY DEF SpansInv, SpansMadeBefore
  <2>2. MadeBefore(SpansSetAside') /\ MadeBefore(AllFunctionSpans')
    BY <1>2, <1>4, <1>5, <1>7, <1>12, <1>13, <2>1 DEF MadeBefore
  <2>3. \A i \in 1..(n - 1) : MadeBefore(SpansAt(i)')
    BY <1>15, <2>1 DEF MadeBefore
  <2> QED
    BY <1>1, <1>3, <1>14, <2>2, <2>3 DEF SpansMadeBefore, MadeBefore
<1> QED
  BY <1>12, <1>16, <1>17 DEF SpansInv

\* An invoke event waits without spans at first.
LEMMA ApartEnqueued ==
  ASSUME TypeOK, SpansInv, EnqueuesSpans
  PROVE  SpansInv'
<1> DEFINE Q == invoke_event_queue
           x == [req |-> handling, spans |-> <<>>]
<1>1. /\ Q' = Append(Q, x) /\ x.spans = <<>> /\ ToSet(<<>>) = {}
      /\ UNCHANGED <<function_spans_buffer, invocation_state, output_buffers, sent, spans_sent>>
  BY DEF EnqueuesSpans, EnqueueInvokeEvent, ToSet
<1>2. Q \in Seq(InvokeEventDataWithSpans) /\ Len(Q) \in Nat
  BY DEF TypeOK, InputTypes
<1> HIDE DEF x
<1>3. \A i \in 1..Len(Q') : Q'[i] = x \/ (i \in 1..Len(Q) /\ Q'[i] = Q[i])
  BY <1>1, <1>2
<1> DEFINE At(i) == ToSet(Q'[i].spans)
<1>4. \A i \in 1..Len(Q') : /\ SpansAt(i)' = At(i)
                            /\ At(i) = {} \/ (i \in 1..Len(Q) /\ At(i) = SpansAt(i))
  BY <1>1, <1>3 DEF SpansAt
<1> HIDE DEF At
<1>5. /\ EarlySpans' = EarlySpans /\ SpansSetAside' = SpansSetAside
      /\ AllFunctionSpans' = AllFunctionSpans /\ SpansCounted'
  BY <1>1 DEF EarlySpans, SpansSetAside, InvocationRuns, AllFunctionSpans, SpansInv, SpansCounted,
     SpansSentOnce
<1>6. SpansApart'
  <2>1. ASSUME NEW i \in 1..Len(Q'), NEW j \in 1..Len(Q'), i # j PROVE At(i) \cap At(j) = {}
    BY <1>4, <2>1 DEF SpansInv, SpansApart
  <2>2. ASSUME NEW i \in 1..Len(Q')
        PROVE  /\ At(i) \cap EarlySpans = {} /\ At(i) \cap SpansSetAside = {}
               /\ At(i) \cap AllFunctionSpans = {}
    BY <1>4 DEF SpansInv, SpansApart
  <2>3. /\ EarlySpans \cap SpansSetAside = {} /\ EarlySpans \cap AllFunctionSpans = {}
        /\ SpansSetAside \cap AllFunctionSpans = {}
    BY DEF SpansInv, SpansApart
  <2> QED
    BY <1>4, <1>5, <2>1, <2>2, <2>3 DEF SpansApart
<1>7. SpansMadeBefore'
  BY <1>1, <1>4, <1>5 DEF SpansInv, SpansMadeBefore, MadeBefore
<1> QED
  BY <1>5, <1>6, <1>7 DEF SpansInv

\* What is set aside is put out when the runtime is done, and is not set aside any more.
LEMMA ApartHandled ==
  ASSUME AnswerInv, SpansInv, NEW e, HandlesSpans(e)
  PROVE  SpansInv'
<1> DEFINE q == ProcessTelemetry(ProcessingState, e)
           put == SpansOut(ProcessingState, e)
<1>1. TypeOK /\ PairingBase
  BY DEF AnswerInv, PairingBase, TypeInv
<1>2. /\ ProcessingState \in ProcessingType /\ ProcessingState.inv = invocation_state
      /\ e \in Event /\ invocation_state # NoInvocation
      /\ q.inv.captured = invocation_state.captured
      /\ \A kind \in Milestones : Has(q.inv, kind) <=> Has(invocation_state, kind) \/ e.kind = kind
      /\ q.out.functionSpans = output_buffers.functionSpans \cup put
      /\ q.out.functionSpansCount = output_buffers.functionSpansCount + Cardinality(put)
  BY <1>1, HandledState DEF AddsSpans
<1>3. /\ UNCHANGED <<invoke_event_queue, function_spans_buffer, spans_sent, sent>>
      /\ output_buffers' = q.out /\ invocation_state' \in {q.inv, NoInvocation}
  BY DEF HandlesSpans, waitingSpans
<1>4. invocation_state \in InvocationProcessingState
  BY <1>1, <1>2 DEF TypeOK, ProcessingTypes
<1>5. put \subseteq invocation_state.captured /\ IsFiniteSet(put)
  <2>1. /\ TriggerAndInvocationSpans(invocation_state) \subseteq invocation_state.captured
        /\ IsFiniteSet(TriggerAndInvocationSpans(invocation_state)) /\ IsFiniteSet({})
    BY <1>4, TriggerSpansType, FS_EmptySet DEF TriggerAndInvocationSpans
  <2> QED
    BY <1>2, <2>1 DEF SpansOut
<1>6. put # {} => e.kind = "PlatformRuntimeDone"
  BY DEF SpansOut
<1>7. Has(q.inv, "PlatformRuntimeDone")
        <=> Has(invocation_state, "PlatformRuntimeDone") \/ e.kind = "PlatformRuntimeDone"
  BY <1>2 DEF Milestones
<1> HIDE DEF q, put
<1>8. put \subseteq SpansSetAside
  <2>1. CASE e.kind = "PlatformRuntimeDone"
    <3>1. InvocationRuns
      BY <1>2, <2>1, DoneIsNew DEF InvocationRuns
    <3> QED
      BY <1>5, <3>1 DEF SpansSetAside
  <2> QED
    BY <1>6, <2>1
<1>9. SpansSetAside' \subseteq SpansSetAside /\ SpansSetAside' \cap put = {}
  <2>1. CASE invocation_state' = NoInvocation
    BY <2>1 DEF SpansSetAside, InvocationRuns
  <2>2. CASE invocation_state' = q.inv
    BY <1>2, <1>6, <1>7, <2>2 DEF SpansSetAside, InvocationRuns
  <2> QED
    BY <1>3, <2>1, <2>2
<1>10. SpansCounted' /\ AllFunctionSpans' = AllFunctionSpans \cup put
  <2>1. put \cap AllFunctionSpans = {}
    BY <1>8 DEF SpansInv, SpansApart
  <2> QED
    BY <1>1, <1>2, <1>3, <1>5, <2>1, CountGrows DEF SpansInv
<1>11. /\ EarlySpans' = EarlySpans
       /\ \A i \in 1..Len(invoke_event_queue) : SpansAt(i)' = SpansAt(i)
  BY <1>3 DEF EarlySpans, SpansAt
<1>12. SpansApart'
  BY <1>3, <1>8, <1>9, <1>10, <1>11 DEF SpansInv, SpansApart
<1>13. SpansMadeBefore'
  BY <1>3, <1>8, <1>9, <1>10, <1>11 DEF SpansInv, SpansMadeBefore, MadeBefore
<1> QED
  BY <1>10, <1>12, <1>13 DEF SpansInv

\* All other steps.
LEMMA ApartKept ==
  ASSUME TypeOK, SpansInv, KeepsSpans \/ (SendsSpans /\ UNCHANGED spans_sent)
  PROVE  SpansInv'
<1>1. UNCHANGED <<invoke_event_queue, function_spans_buffer, spans_sent, invocation_state>>
  BY DEF KeepsSpans, SendsSpans, waitingSpans
<1>2. SpansCounted' /\ AllFunctionSpans' = AllFunctionSpans
  <2>1. CASE SendsSpans
    BY <2>1, CountSent DEF SendsSpans, SpansInv
  <2>2. CASE KeepsSpans
    BY <2>2 DEF KeepsSpans, SameOutput, SpansInv, SpansCounted, SpansSentOnce, AllFunctionSpans
  <2> QED
    BY <2>1, <2>2
<1>3. /\ EarlySpans' = EarlySpans /\ SpansSetAside' = SpansSetAside
      /\ \A i \in 1..Len(invoke_event_queue) : SpansAt(i)' = SpansAt(i)
  BY <1>1 DEF EarlySpans, SpansAt, SpansSetAside, InvocationRuns
<1> QED
  BY <1>1, <1>2, <1>3 DEF SpansInv, SpansApart, SpansMadeBefore, MadeBefore

\* No span goes out in two batches, and the counts that are compared with
\* span_sending_threshold are the numbers of the spans: a span is set aside, waits or is put out
\* (process_function_spans, handle_otlp_spans), and what is set aside is put out once, when the
\* runtime is done.
THEOREM SpansAreSentOnce ==
  PairingConditions /\ InstanceSpec => []SpansSentOnce
<1> SUFFICES ASSUME PairingConditions PROVE InstanceSpec => []SpansSentOnce
  OBVIOUS
<1>1. InstanceInit => AnswerInv /\ SpansInv
  <2> SUFFICES ASSUME InstanceInit PROVE AnswerInv /\ SpansInv
    OBVIOUS
  <2>1. /\ function_spans_buffer = <<>> /\ invoke_event_queue = <<>>
        /\ invocation_state = NoInvocation /\ output_buffers = EmptyBuffers /\ sent = EmptyBuffers
    BY DEF InstanceInit, Init
  <2>2. IsFiniteSet({}) /\ Cardinality({}) = 0 /\ ToSet(<<>>) = {}
    BY FS_EmptySet DEF ToSet
  <2>3. /\ EarlySpans = {} /\ SpansSetAside = {} /\ AllFunctionSpans = {}
        /\ Len(invoke_event_queue) = 0
    BY <2>1, <2>2 DEF EarlySpans, SpansSetAside, InvocationRuns, AllFunctionSpans, EmptyBuffers
  <2>4. SpansCounted
    BY <2>1, <2>2 DEF SpansCounted, SpansSentOnce, EmptyBuffers
  <2> QED
    BY <2>3, <2>4, AnswerInit DEF SpansInv, SpansApart, SpansMadeBefore, MadeBefore
<1>2. (AnswerInv /\ SpansInv) /\ [InstanceNext]_vars => (AnswerInv /\ SpansInv)'
  <2> SUFFICES ASSUME AnswerInv, SpansInv, [InstanceNext]_vars PROVE AnswerInv' /\ SpansInv'
    OBVIOUS
  <2>1. TypeOK /\ TypeInv /\ PlatformInv /\ LoopShape /\ InLine
    BY DEF AnswerInv, PairingBase, TypeInv
  <2>2. SpanStep
    BY <2>1, SpanSteps
  <2>3. SendsSpans => UNCHANGED spans_sent
    BY DEF SendsSpans, waitingSpans
  <2> QED
    BY <2>1, <2>2, <2>3, AlwaysOrderly, AnswerStep, ApartExported, ApartTaken, ApartEnqueued,
       ApartHandled, ApartKept
    DEF SpanStep, AnswerInv
<1>3. AnswerInv /\ SpansInv => SpansSentOnce
  BY DEF SpansInv, SpansCounted
<1> QED
  BY <1>1, <1>2, <1>3, PTL DEF InstanceSpec

-----------------------------------------------------------------------------
(* No span is forgotten.                                                   *)

\* An invocation is reported after its runtime is done.
DoneFirst ==
  /\ \A j \in 1..Len(stream) : stream[j].kind = "PlatformReport" /\ ReqAt(j) > 0 =>
       \E i \in 1..(j - 1) : Is(i, "PlatformRuntimeDone", ReqAt(j))
  /\ phase = "over" => \E i \in 1..Len(stream) : Is(i, "PlatformRuntimeDone", current)

\* What was recorded before stays where it is.
LEMMA DoneStays ==
  ASSUME PlatformInv, DoneFirst, NEW K, NEW req \in Requests \cup {NoRequest}, Adds(K, req),
         NEW j \in 1..Len(stream), stream'[j].kind = "PlatformReport", ReqAt(j)' > 0
  PROVE  \E i \in 1..(j - 1) : Is(i, "PlatformRuntimeDone", ReqAt(j))'
<1>1. /\ Len(stream) \in Nat
      /\ \A k \in 1..Len(stream) : stream'[k] = stream[k] /\ ReqAt(k)' = ReqAt(k)
  BY RecordedRequests
<1>2. PICK i \in 1..(j - 1) : Is(i, "PlatformRuntimeDone", ReqAt(j))
  BY <1>1 DEF DoneFirst
<1>3. i \in 1..Len(stream)
  BY <1>1
<1>4. Is(i, "PlatformRuntimeDone", ReqAt(j))'
  BY <1>1, <1>2, <1>3 DEF Is
<1> QED
  BY <1>4

\* Each step of the platform keeps this order.
LEMMA DoneFirstStep ==
  ASSUME PlatformInv, PairedStream, DoneFirst, [InstanceNext]_vars
  PROVE  DoneFirst'
<1> DEFINE m == Len(stream)
<1>1. CASE InvocationEnds
  <2>1. /\ Adds({"PlatformReport"}, current) /\ Len(<<"PlatformReport">>) = 1
        /\ Grows(<<"PlatformReport">>, current)
        /\ phase = "over" /\ phase' = "idle" /\ current \in Requests
    BY <1>1, RecordingAdds, RecordingGrows DEF Recording, InvocationEnds, PlatformInv
  <2>2. /\ m \in Nat /\ Len(stream') = m + 1
        /\ \A k \in 1..m : stream'[k] = stream[k] /\ ReqAt(k)' = ReqAt(k)
        /\ \A k \in 1..Len(stream') : k \notin 1..m => ReqAt(k)' = current
    BY <2>1, RecordedRequests DEF Grows
  <2>3. PICK i \in 1..m : Is(i, "PlatformRuntimeDone", current)
    BY <2>1 DEF DoneFirst
  <2>4. ASSUME NEW j \in 1..Len(stream'), stream'[j].kind = "PlatformReport", ReqAt(j)' > 0
        PROVE  \E k \in 1..(j - 1) : Is(k, "PlatformRuntimeDone", ReqAt(j))'
    <3>1. CASE j \in 1..m
      BY <2>1, <2>4, <3>1, DoneStays
    <3>2. CASE j \notin 1..m
      <4>1. j = m + 1 /\ ReqAt(j)' = current /\ i \in 1..(j - 1)
        BY <2>2, <3>2
      <4>2. Is(i, "PlatformRuntimeDone", ReqAt(j))'
        BY <2>2, <2>3, <4>1 DEF Is
      <4> QED
        BY <4>1, <4>2
    <3> QED
      BY <3>1, <3>2
  <2> QED
    BY <2>1, <2>4 DEF DoneFirst, Is
<1>2. ASSUME NEW K, NEW req \in Requests \cup {NoRequest}, Adds(K, req),
             "PlatformReport" \notin K,
             phase' = "over" => phase = "over" /\ current' = current
      PROVE  DoneFirst'
  <2>1. /\ m \in Nat /\ m <= Len(stream')
        /\ \A k \in 1..m : k \in 1..Len(stream') /\ stream'[k] = stream[k] /\ ReqAt(k)' = ReqAt(k)
        /\ \A k \in 1..Len(stream') : k \notin 1..m => stream'[k].kind \in K
    BY <1>2, RecordedRequests
  <2>2. ASSUME NEW j \in 1..Len(stream'), stream'[j].kind = "PlatformReport", ReqAt(j)' > 0
        PROVE  \E k \in 1..(j - 1) : Is(k, "PlatformRuntimeDone", ReqAt(j))'
    <3>1. j \in 1..m
      BY <1>2, <2>1, <2>2
    <3> QED
      BY <1>2, <2>2, <3>1, DoneStays
  <2>3. ASSUME phase' = "over"
        PROVE  \E i \in 1..Len(stream') : Is(i, "PlatformRuntimeDone", current)'
    <3>1. PICK i \in 1..m : Is(i, "PlatformRuntimeDone", current)
      BY <1>2, <2>3 DEF DoneFirst
    <3> QED
      BY <1>2, <2>1, <2>3, <3>1 DEF Is
  <2> QED
    BY <2>2, <2>3 DEF DoneFirst, Is
<1>3. CASE FunctionEnds
  <2>1. /\ Adds({"PlatformRuntimeDone"}, current) /\ Len(<<"PlatformRuntimeDone">>) = 1
        /\ Grows(<<"PlatformRuntimeDone">>, current)
        /\ current \in Requests /\ current' = current
    BY <1>3, RecordingAdds, RecordingGrows DEF Recording, FunctionEnds, PlatformInv
  <2>2. /\ m \in Nat /\ Len(stream') = m + 1
        /\ \A k \in 1..m : stream'[k] = stream[k] /\ ReqAt(k)' = ReqAt(k)
        /\ \A k \in 1..Len(stream') : k \notin 1..m =>
             ReqAt(k)' = current /\ stream'[k].kind = "PlatformRuntimeDone"
    BY <2>1, RecordedRequests DEF Grows
  <2>3. m + 1 \in 1..Len(stream') /\ m + 1 \notin 1..m
    BY <2>2
  <2>4. \E i \in 1..Len(stream') : Is(i, "PlatformRuntimeDone", current)'
    BY <2>1, <2>2, <2>3 DEF Is
  <2>5. ASSUME NEW j \in 1..Len(stream'), stream'[j].kind = "PlatformReport", ReqAt(j)' > 0
        PROVE  \E k \in 1..(j - 1) : Is(k, "PlatformRuntimeDone", ReqAt(j))'
    <3>1. j \in 1..m
      BY <2>2, <2>5
    <3> QED
      BY <2>1, <2>5, <3>1, DoneStays
  <2> QED
    BY <2>4, <2>5 DEF DoneFirst, Is
<1>4. CASE InitRestarts \/ InitEnds \/ InvokeFunction \/ WriteLog
  <2>1. /\ phase' = "over" => phase = "over" /\ current' = current
        /\ current + 1 \in Requests \/ ~InvokeFunction
        /\ (IF phase = "init" THEN NoRequest ELSE current) \in Requests \cup {NoRequest} \/ ~WriteLog
    BY <1>4, RecordingAdds DEF Recording, InitRestarts, InitEnds, InvokeFunction, WriteLog, PlatformInv
  <2>2. /\ InitRestarts => Adds({"PlatformInitStart"}, NoRequest)
        /\ InitEnds => Adds({"PlatformInitRuntimeDone", "PlatformInitReport"}, NoRequest)
        /\ InvokeFunction => Adds({"PlatformStart"}, current + 1)
        /\ WriteLog =>
             Adds({"Function", "EpsagonTrace"}, IF phase = "init" THEN NoRequest ELSE current)
    BY <1>4, RecordingAdds DEF Recording
  <2> QED
    BY <1>2, <1>4, <2>1, <2>2
<1>5. CASE ~Recording
  <2>1. stream' = stream /\ current' = current /\ (phase' = phase \/ phase' = "stopped")
    BY <1>5 DEF InstanceNext, Recording, DeliverInvoke, DeliverShutdown, DeliverTelemetry, ExportSpan,
                ExportMetric, ServiceStep, AdvanceClock, Terminated, vars, platformVars
  <2>2. \A k : ReqAt(k)' = ReqAt(k)
    BY <2>1 DEF ReqAt
  <2> QED
    BY <2>1, <2>2 DEF DoneFirst, Is
<1> QED
  BY <1>1, <1>3, <1>4, <1>5 DEF Recording

\* A span that must be put out, unless a final version of it is.
Wanted(s) == s.req \in SampledRequests /\ s.category # "CxWarmup"

Found(s) == s \in WaitingSpans \/ s \in AllFunctionSpans \/ Superseded(s)

\* What is set aside is of the categories of the trigger and of the invocation.
CapturedKinds ==
  invocation_state # NoInvocation =>
    \A s \in invocation_state.captured : s.category \in CapturedCategories

\* What was put out stays so.
LEMMA FoundOut ==
  ASSUME AllFunctionSpans \subseteq AllFunctionSpans', NEW s,
         s \in AllFunctionSpans \/ Superseded(s)
  PROVE  Found(s)'
<1>1. CASE s \in AllFunctionSpans
  BY <1>1 DEF Found
<1>2. CASE Superseded(s)
  <2>1. PICK t \in AllFunctionSpans : t.req = s.req /\ <<s.category, t.category>> \in
          {<<"CxEarlyTrigger", "CxTrigger">>, <<"CxEarlyInvocation", "CxInvocation">>}
    BY <1>2 DEF Superseded
  <2>2. t \in AllFunctionSpans'
    BY <2>1
  <2>3. Superseded(s)'
    BY <2>1, <2>2 DEF Superseded
  <2> QED
    BY <2>3 DEF Found
<1> QED
  BY <1>1, <1>2

\* The spans that wait, place by place.
LEMMA WaitingPlaces ==
  ASSUME TypeOK
  PROVE  WaitingSpans =
           EarlySpans \cup (UNION {SpansAt(i) : i \in 1..Len(invoke_event_queue)}) \cup SpansSetAside
<1>1. DOMAIN invoke_event_queue = 1..Len(invoke_event_queue)
  BY DEF TypeOK, InputTypes
<1> QED
  BY <1>1 DEF WaitingSpans, EarlySpans, SpansAt, SpansSetAside, InvocationRuns

\* A span that comes waits or is put out, and no other is lost.
LEMMA FoundExported ==
  ASSUME AnswerInv, SpanOwner, SendAfterInvocation, TracingMode = "OtelInstrumentation",
         CapturedKinds, NEW s, Exports(s), TypeOK'
  PROVE  /\ AllFunctionSpans \subseteq AllFunctionSpans' /\ WaitingSpans \subseteq WaitingSpans'
         /\ Wanted(s) => Found(s)'
         /\ CapturedKinds'
<1> DEFINE Q == invoke_event_queue
           n == Len(Q)
<1>1. TypeOK
  BY DEF AnswerInv, PairingBase, TypeInv
<1>2. HandleOtlpSpans(<<s>>) /\ s \in Span /\ s.req = current /\ UNCHANGED sent
  BY DEF Exports, HandleOtlpSpans, sends
<1>3. CASE SpansForQueuedInvoke(<<s>>)
  <2>1. /\ n \in 1..n /\ Len(Q') = n
        /\ UNCHANGED <<function_spans_buffer, invocation_state, output_buffers>>
        /\ \A i \in 1..n : SpansAt(i)' = IF i = n THEN SpansAt(i) \cup {s} ELSE SpansAt(i)
    BY <1>1, <1>2, <1>3, SpansQueued
  <2>2. /\ EarlySpans' = EarlySpans /\ SpansSetAside' = SpansSetAside
        /\ AllFunctionSpans' = AllFunctionSpans
    BY <1>2, <2>1 DEF EarlySpans, SpansSetAside, InvocationRuns, AllFunctionSpans
  <2> DEFINE At(i) == SpansAt(i)'
  <2>3. WaitingSpans' = EarlySpans \cup (UNION {At(i) : i \in 1..n}) \cup SpansSetAside
    <3>1. DOMAIN Q' = 1..n
      BY <2>1 DEF TypeOK, InputTypes
    <3>2. WaitingSpans' = EarlySpans' \cup (UNION {SpansAt(i)' : i \in 1..n}) \cup SpansSetAside'
      BY <3>1 DEF WaitingSpans, EarlySpans, SpansAt, SpansSetAside, InvocationRuns
    <3> QED
      BY <2>2, <3>2
  <2>4. \A i \in 1..n : At(i) = IF i = n THEN SpansAt(i) \cup {s} ELSE SpansAt(i)
    BY <2>1
  <2> HIDE DEF At
  <2>5. WaitingSpans \subseteq WaitingSpans' /\ s \in WaitingSpans'
    BY <1>1, <2>1, <2>3, <2>4, WaitingPlaces
  <2> QED
    BY <2>1, <2>2, <2>5 DEF Found, CapturedKinds
<1>4. CASE SpansForNextInvoke(<<s>>)
  <2>1. /\ UNCHANGED <<invoke_event_queue, invocation_state, output_buffers>>
        /\ EarlySpans' = EarlySpans \cup {s}
    BY <1>1, <1>2, <1>4, SpansBuffered
  <2>2. WaitingSpans \subseteq WaitingSpans' /\ s \in WaitingSpans'
    BY <2>1 DEF WaitingSpans, EarlySpans
  <2> QED
    BY <1>2, <2>1, <2>2 DEF Found, CapturedKinds, AllFunctionSpans
<1>5. CASE SpansForRunningInvoke(<<s>>)
  <2>1. PICK new \in SUBSET {s}, put \in SUBSET {s} :
          /\ Q = <<>> /\ InvocationRuns
          /\ UNCHANGED <<invoke_event_queue, function_spans_buffer>>
          /\ invocation_state' # NoInvocation
          /\ invocation_state'.req = invocation_state.req
          /\ invocation_state'.data = invocation_state.data
          /\ invocation_state'.captured = invocation_state.captured \cup new
          /\ output_buffers'.functionSpans = output_buffers.functionSpans \cup put
          /\ \A t \in new : t.category \in CapturedCategories
          /\ /\ s.category # "CxWarmup" /\ invocation_state.req \in SampledRequests
             => s \in new \cup put
    BY <1>1, <1>2, <1>5, SpansRun
  <2>2. invocation_state.req = s.req
    BY <1>2, <2>1, WhereSpansBelong DEF Exports
  <2>3. AllFunctionSpans' = AllFunctionSpans \cup put
    BY <1>2, <2>1 DEF AllFunctionSpans
  <2>4. InvocationRuns' /\ SpansSetAside' = SpansSetAside \cup new
    BY <2>1 DEF SpansSetAside, InvocationRuns, Has
  <2>5. EarlySpans' = EarlySpans /\ Len(Q') = 0 /\ Len(Q) = 0
    BY <2>1 DEF EarlySpans
  <2>6. WaitingSpans' = WaitingSpans \cup new
    <3>1. WaitingSpans = EarlySpans \cup SpansSetAside
      BY <1>1, <2>5, WaitingPlaces
    <3>2. WaitingSpans' = EarlySpans' \cup SpansSetAside'
      BY <2>1 DEF WaitingSpans, EarlySpans, SpansSetAside, InvocationRuns
    <3> QED
      BY <2>4, <2>5, <3>1, <3>2
  <2>7. CapturedKinds'
    BY <2>1 DEF CapturedKinds, InvocationRuns
  <2> QED
    BY <2>1, <2>2, <2>3, <2>6, <2>7 DEF Wanted, Found
<1> QED
  BY <1>2, <1>3, <1>4, <1>5 DEF HandleOtlpSpans

\* What waits for an invocation that begins is set aside or put out.
LEMMA FoundTaken ==
  ASSUME AnswerInv, PairingConditions, SpanOwner, SendAfterInvocation,
         TracingMode = "OtelInstrumentation", [InstanceNext]_vars, TakeInvokeEvent
  PROVE  /\ AllFunctionSpans \subseteq AllFunctionSpans'
         /\ \A t \in WaitingSpans : Wanted(t) => Found(t)'
         /\ CapturedKinds'
<1> DEFINE Q == invoke_event_queue
           n == Len(Q)
           invoke == Head(Q)
           early == function_spans_buffer
           first == NewlyCaptured({}, early)
           then == NewlyCaptured(first, invoke.spans)
           passed1 == PassedOn({}, early)
           passed2 == PassedOn(first, invoke.spans)
           Out(spans) == IF invoke.req \in SampledRequests /\ TracingMode = "OtelInstrumentation"
                         THEN spans ELSE {}
           out1 == Out(passed1)
           out2 == Out(passed2)
<1>1. TypeOK /\ PlatformInv /\ LoopShape /\ HandlerInv /\ QueueInv
  BY DEF AnswerInv, PairingBase, TypeInv
<1>2. invoke.req = Taken + 1
  BY <1>1, AlwaysOrderly, QueueStep DEF AnswerInv
<1>3. ~shutdown_flush_started /\ Q # <<>>
  BY <1>1 DEF TakeInvokeEvent, LoopShape
<1>4. Q \in Seq(InvokeEventDataWithSpans) /\ n \in Nat /\ 1 \in 1..n /\ invoke = Q[1]
  BY <1>1, <1>3 DEF TypeOK, InputTypes
<1>5. /\ early \in Seq(Span) /\ invoke.spans \in Seq(Span) /\ invocation_state = NoInvocation
      /\ invocation_state' \in InvocationProcessingState
      /\ invocation_state'.data = {} /\ invocation_state'.captured = first \cup then
      /\ output_buffers'.functionSpans = (output_buffers.functionSpans \cup out1) \cup out2
      /\ Q' = Tail(Q) /\ UNCHANGED sent
  BY <1>1, InvokeSpans
<1>6. /\ first \subseteq EarlySpans
      /\ \A s \in EarlySpans : s \in first \/ s \in passed1 \/ s.category = "CxWarmup"
      /\ \A s \in first : s.category \in CapturedCategories
  BY <1>5, SpansOfBatch DEF EarlySpans
<1>7. /\ then \subseteq SpansAt(1)
      /\ \A s \in SpansAt(1) : s \in then \/ s \in passed2 \/ s.category = "CxWarmup"
      /\ \A s \in then : s.category \in CapturedCategories
  BY <1>4, <1>5, SpansOfBatch DEF SpansAt
<1>8. (\A s \in EarlySpans : s.req = invoke.req) /\ \A s \in SpansAt(1) : s.req = invoke.req
  BY <1>2, <1>3, <1>4 DEF SpanOwner, WaitingOwn, EarlySpans, SpansAt
<1> HIDE DEF first, then, passed1, passed2
<1>9. InvocationRuns' /\ SpansSetAside' = first \cup then
  <2>1. invocation_state' # NoInvocation
    BY <1>5, ServiceAssumption
  <2> QED
    BY <1>5, <2>1 DEF InvocationRuns, SpansSetAside, Has
<1>10. AllFunctionSpans' = AllFunctionSpans \cup (out1 \cup out2)
  BY <1>5 DEF AllFunctionSpans
<1>11. \A i \in 2..n : i - 1 \in DOMAIN Q' /\ SpansAt(i - 1)' = SpansAt(i)
  <2>1. \A i \in 2..n : i - 1 \in DOMAIN Q' /\ Q'[i - 1] = Q[i]
    BY <1>4, <1>5
  <2> QED
    BY <2>1 DEF SpansAt
<1>12. ASSUME NEW t \in WaitingSpans, Wanted(t) PROVE Found(t)'
  <2>1. PICK place \in {EarlySpans, SpansSetAside} \cup {SpansAt(i) : i \in 1..n} : t \in place
    BY <1>1, <1>12, WaitingPlaces
  <2>2. SpansSetAside = {}
    BY <1>5 DEF SpansSetAside, InvocationRuns
  <2>3. \A s \in SpansSetAside' : s \in WaitingSpans'
    BY DEF WaitingSpans, SpansSetAside, InvocationRuns
  <2>4. CASE t \in EarlySpans \/ t \in SpansAt(1)
    <3>1. t.req = invoke.req /\ t.req \in SampledRequests /\ t.category # "CxWarmup"
      BY <1>8, <1>12, <2>4 DEF Wanted
    <3>2. t \in first \cup then \/ t \in passed1 \cup passed2
      BY <1>6, <1>7, <2>4, <3>1
    <3>3. t \in SpansSetAside' \/ t \in AllFunctionSpans'
      BY <1>9, <1>10, <3>1, <3>2
    <3> QED
      BY <2>3, <3>3 DEF Found
  <2>5. CASE \E i \in 2..n : t \in SpansAt(i)
    <3>1. PICK i \in 2..n : t \in SpansAt(i)
      BY <2>5
    <3>2. i - 1 \in DOMAIN Q' /\ t \in ToSet(Q'[i - 1].spans)
      BY <1>11, <3>1 DEF SpansAt
    <3> QED
      BY <3>2 DEF Found, WaitingSpans
  <2> QED
    BY <1>4, <2>1, <2>2, <2>4, <2>5
<1>13. CapturedKinds'
  BY <1>5, <1>6, <1>7 DEF CapturedKinds
<1> QED
  BY <1>10, <1>12, <1>13

\* What is set aside is forgotten only when it was put out, or a final version of it.
LEMMA FoundHandled ==
  ASSUME AnswerInv, SpanOwner, SendAfterInvocation, TracingMode = "OtelInstrumentation",
         CapturedKinds, DoneFirst, NEW e, HandlesSpans(e)
  PROVE  /\ AllFunctionSpans \subseteq AllFunctionSpans'
         /\ \A t \in WaitingSpans : Wanted(t) => Found(t)'
         /\ CapturedKinds'
<1> DEFINE q == ProcessTelemetry(ProcessingState, e)
           put == SpansOut(ProcessingState, e)
           captured == invocation_state.captured
<1>1. /\ TypeOK /\ PairingBase /\ PlatformInv /\ InLine /\ PairInv
  BY DEF AnswerInv, PairingBase, TypeInv
<1>2. /\ ProcessingState.inv = invocation_state /\ q \in ProcessingType
      /\ e \in Event /\ invocation_state # NoInvocation
      /\ q.inv.captured = captured
      /\ \A kind \in Milestones : Has(q.inv, kind) <=> Has(invocation_state, kind) \/ e.kind = kind
      /\ q.out.functionSpans = output_buffers.functionSpans \cup put
  BY <1>1, HandledState DEF AddsSpans
<1>3. /\ UNCHANGED <<invoke_event_queue, function_spans_buffer, sent>>
      /\ output_buffers' = q.out
      /\ \/ invocation_state' = q.inv
         \/ invocation_state' = NoInvocation /\ EndsInvocation(q.inv)
      /\ ~shutdown_flush_started /\ (IsNext(e) \/ IsReplayed(e))
  BY DEF HandlesSpans, HandlesEvent, waitingSpans
<1>4. /\ Has(q.inv, "PlatformRuntimeDone")
           <=> Has(invocation_state, "PlatformRuntimeDone") \/ e.kind = "PlatformRuntimeDone"
      /\ Has(q.inv, "PlatformReport")
           <=> Has(invocation_state, "PlatformReport") \/ e.kind = "PlatformReport"
  BY <1>2 DEF Milestones
<1>5. put = IF e.kind = "PlatformRuntimeDone" /\ invocation_state.req \in SampledRequests
            THEN TriggerAndInvocationSpans(invocation_state) ELSE {}
  BY <1>2 DEF SpansOut, ShouldProduceSpans
<1>6. q.inv # NoInvocation
  BY <1>2, ServiceAssumption DEF ProcessingType
<1> HIDE DEF q, put
<1>7. AllFunctionSpans' = AllFunctionSpans \cup put
  BY <1>2, <1>3 DEF AllFunctionSpans
<1>8. CapturedKinds'
  BY <1>2, <1>3 DEF CapturedKinds
<1>9. ASSUME invocation_state' = NoInvocation PROVE Has(invocation_state, "PlatformRuntimeDone")
  <2>1. e.kind = "PlatformReport"
    BY <1>1, <1>2, <1>3, <1>4, <1>6, <1>9 DEF EndsInvocation, PairInv, OwnState
  <2>2. HasNextEvent /\ init_handled /\ e = NextEvent
    BY <1>1, <1>3, <2>1 DEF IsNext, IsReplayed, PairInv, InitEvents, Milestones
  <2> DEFINE p == Pos + 1
  <2>3. /\ p \in 1..Len(stream) /\ stream[p].kind = "PlatformReport" /\ ReqAt(p) = Taken
        /\ Pos \in Nat /\ Taken \in Nat \ {0}
    BY <1>1, <1>3, <2>1, <2>2, HeadPaired, PosFacts DEF PairInv, AfterInit
  <2>4. ReqAt(p) > 0 /\ 1..(p - 1) = 1..Pos
    BY <2>3
  <2> HIDE DEF p
  <2>5. Seen("PlatformRuntimeDone", Taken)
    BY <2>3, <2>4 DEF DoneFirst, Seen
  <2> QED
    BY <1>1, <1>2, <1>3, <2>5 DEF PairInv, OwnState
<1>10. ASSUME NEW t \in SpansSetAside, Wanted(t) PROVE Found(t)'
  <2>1. /\ InvocationRuns /\ t \in captured /\ t.req = invocation_state.req
        /\ t.category \in CapturedCategories
    BY <1>2, <1>10 DEF SpansSetAside, SpanOwner, CapturedOwn, CapturedKinds
  <2>2. invocation_state' = q.inv
    BY <1>3, <1>9, <2>1 DEF InvocationRuns
  <2>3. CASE e.kind = "PlatformRuntimeDone"
    <3>1. put = TriggerAndInvocationSpans(invocation_state)
      BY <1>5, <1>10, <2>1, <2>3 DEF Wanted
    <3>2. CASE t \in put
      BY <1>7, <3>2 DEF Found
    <3>3. CASE t \notin put
      <4>1. \/ t.category = "CxEarlyTrigger" /\ HasCaptured(invocation_state, "CxTrigger")
            \/ t.category = "CxEarlyInvocation" /\ HasCaptured(invocation_state, "CxInvocation")
        BY <2>1, <3>1, <3>3 DEF TriggerAndInvocationSpans, CapturedCategories, InvocationSpans
      <4>2. PICK u \in captured :
              <<t.category, u.category>> \in
                {<<"CxEarlyTrigger", "CxTrigger">>, <<"CxEarlyInvocation", "CxInvocation">>}
        BY <4>1 DEF HasCaptured
      <4>3. u \in AllFunctionSpans' /\ u.req = t.req
        BY <1>2, <1>7, <2>1, <3>1, <4>2 DEF TriggerAndInvocationSpans, SpanOwner, CapturedOwn
      <4>4. Superseded(t)'
        BY <4>2, <4>3 DEF Superseded
      <4> QED
        BY <4>4 DEF Found
    <3> QED
      BY <3>2, <3>3
  <2>4. CASE e.kind # "PlatformRuntimeDone"
    <3>1. InvocationRuns' /\ t \in SpansSetAside'
      BY <1>2, <1>4, <1>6, <2>1, <2>2, <2>4 DEF InvocationRuns, SpansSetAside
    <3> QED
      BY <3>1 DEF Found, WaitingSpans, SpansSetAside, InvocationRuns
  <2> QED
    BY <2>3, <2>4
<1>11. ASSUME NEW t \in WaitingSpans, t \notin SpansSetAside PROVE Found(t)'
  BY <1>3, <1>11 DEF Found, WaitingSpans, SpansSetAside, InvocationRuns
<1> QED
  BY <1>7, <1>8, <1>10, <1>11

\* All other steps leave what waits where it is.
LEMMA FoundKept ==
  ASSUME TypeOK, CapturedKinds, KeepsSpans \/ SendsSpans \/ EnqueuesSpans
  PROVE  /\ AllFunctionSpans \subseteq AllFunctionSpans'
         /\ WaitingSpans \subseteq WaitingSpans'
         /\ CapturedKinds'
<1>1. UNCHANGED <<function_spans_buffer, invocation_state>>
  BY DEF KeepsSpans, SendsSpans, EnqueuesSpans, waitingSpans
<1>2. AllFunctionSpans \subseteq AllFunctionSpans'
  <2>1. CASE KeepsSpans \/ EnqueuesSpans
    BY <2>1 DEF KeepsSpans, SameOutput, EnqueuesSpans, AllFunctionSpans
  <2>2. CASE SendsSpans
    <3>1. sent'.functionSpans = sent.functionSpans \cup output_buffers.functionSpans
      BY <2>2 DEF SendsSpans, SendTelemetry, Merge
    <3> QED
      BY <3>1 DEF AllFunctionSpans
  <2> QED
    BY <2>1, <2>2
<1>3. WaitingSpans \subseteq WaitingSpans'
  <2>1. CASE UNCHANGED invoke_event_queue
    BY <1>1, <2>1 DEF WaitingSpans
  <2>2. CASE EnqueuesSpans
    <3> DEFINE Q == invoke_event_queue
               x == [req |-> handling, spans |-> <<>>]
    <3>1. Q' = Append(Q, x) /\ Q \in Seq(InvokeEventDataWithSpans)
      BY <2>2 DEF EnqueuesSpans, EnqueueInvokeEvent, TypeOK, InputTypes
    <3> HIDE DEF x
    <3>2. \A i \in DOMAIN Q : i \in DOMAIN Q' /\ Q'[i] = Q[i]
      BY <3>1
    <3> QED
      BY <1>1, <3>2 DEF WaitingSpans
  <2> QED
    BY <2>1, <2>2 DEF KeepsSpans, SendsSpans, waitingSpans
<1> QED
  BY <1>1, <1>2, <1>3 DEF CapturedKinds

\* All that the search for a span relies on.
FoundInv == AnswerInv /\ SpanOwner /\ DoneFirst /\ CapturedKinds /\ SpansNotForgotten

\* No step loses a span: where it leaves one place it is put out or enters another.
LEMMA FoundStep ==
  ASSUME PairingConditions, SendAfterInvocation, TracingMode = "OtelInstrumentation",
         FoundInv, [InstanceNext]_vars
  PROVE  FoundInv'
<1>1. /\ TypeOK /\ TypeInv /\ PlatformInv /\ LoopShape /\ InLine /\ PairedStream
      /\ AnswerInv' /\ SpanOwner' /\ DoneFirst'
  BY AlwaysOrderly, AnswerStep, SpanOwnerStep, DoneFirstStep DEF FoundInv, AnswerInv, PairingBase, TypeInv
<1>2. TypeOK' /\ SpanStep
  BY <1>1, SpanSteps DEF AnswerInv, PairingBase, TypeInv
<1>3. ASSUME AllFunctionSpans \subseteq AllFunctionSpans',
             \A t \in WaitingSpans : Wanted(t) => Found(t)',
             \A t \in ToSet(spans_sent') : t \in ToSet(spans_sent) \/ (Wanted(t) => Found(t)')
      PROVE  SpansNotForgotten'
  <2>1. ASSUME NEW t \in ToSet(spans_sent), Wanted(t) PROVE Found(t)'
    <3>1. t \in WaitingSpans \/ t \in AllFunctionSpans \/ Superseded(t)
      BY <2>1 DEF FoundInv, SpansNotForgotten, Wanted
    <3> QED
      BY <1>3, <2>1, <3>1, FoundOut
  <2>2. \A t \in ToSet(spans_sent') : Wanted(t) => Found(t)'
    BY <1>3, <2>1
  <2> QED
    BY <2>2 DEF SpansNotForgotten, Wanted, Found
<1>4. ASSUME WaitingSpans \subseteq WaitingSpans', NEW t \in WaitingSpans PROVE Found(t)'
  BY <1>4 DEF Found
<1>5. ASSUME NEW s, Exports(s) PROVE CapturedKinds' /\ SpansNotForgotten'
  <2>1. ToSet(spans_sent') = ToSet(spans_sent) \cup {s}
    BY <1>1, <1>5, ElementsAppend DEF Exports, PlatformInv
  <2> QED
    BY <1>2, <1>3, <1>4, <1>5, <2>1, FoundExported DEF FoundInv
<1>6. ASSUME TakeInvokeEvent, UNCHANGED platformVars PROVE CapturedKinds' /\ SpansNotForgotten'
  <2>1. spans_sent' = spans_sent
    BY <1>6 DEF platformVars
  <2>2. /\ AllFunctionSpans \subseteq AllFunctionSpans' /\ CapturedKinds'
        /\ \A t \in WaitingSpans : Wanted(t) => Found(t)'
    BY <1>6, FoundTaken DEF FoundInv
  <2> QED
    BY <1>3, <2>1, <2>2
<1>7. ASSUME NEW e, HandlesSpans(e) PROVE CapturedKinds' /\ SpansNotForgotten'
  <2>1. spans_sent' = spans_sent
    BY <1>7 DEF HandlesSpans, waitingSpans
  <2>2. /\ AllFunctionSpans \subseteq AllFunctionSpans' /\ CapturedKinds'
        /\ \A t \in WaitingSpans : Wanted(t) => Found(t)'
    BY <1>7, FoundHandled DEF FoundInv
  <2> QED
    BY <1>3, <2>1, <2>2
<1>8. CASE KeepsSpans \/ SendsSpans \/ EnqueuesSpans
  BY <1>1, <1>3, <1>4, <1>8, FoundKept
  DEF FoundInv, KeepsSpans, SendsSpans, EnqueuesSpans, waitingSpans
<1> QED
  BY <1>1, <1>2, <1>5, <1>6, <1>7, <1>8 DEF SpanStep, FoundInv

\* Spans that are set aside are not forgotten: each span of a sampled invocation waits, is put
\* out, or has a final version that is (TracingState, handle_otlp_spans).  The state in which
\* they are set aside is dropped only with the report, and then the end of the runtime was
\* processed before.
THEOREM SpansAreNotForgotten ==
  PairingConditions /\ InstanceSpec => []SpansNotForgotten
<1>1. ASSUME PairingConditions, SendAfterInvocation, TracingMode = "OtelInstrumentation"
      PROVE  InstanceSpec => []SpansNotForgotten
  <2>1. InstanceInit => FoundInv
    <3> SUFFICES ASSUME InstanceInit PROVE FoundInv
      OBVIOUS
    <3>1. /\ function_spans_buffer = <<>> /\ invoke_event_queue = <<>>
          /\ invocation_state = NoInvocation /\ spans_sent = <<>> /\ phase = "init"
      BY DEF InstanceInit, Init
    <3>2. ToSet(<<>>) = {} /\ Len(<<>>) = 0
      BY DEF ToSet
    <3>3. SpanOwner /\ CapturedKinds /\ SpansNotForgotten
      BY <3>1, <3>2 DEF SpanOwner, WaitingOwn, CapturedOwn, CapturedKinds, SpansNotForgotten
    <3>4. \A i \in 1..Len(stream) : ReqAt(i) = 0
      BY FirstStream, ProcessorAssumption DEF InstanceInit, ReqAt
    <3> QED
      BY <3>1, <3>3, <3>4, AnswerInit DEF FoundInv, DoneFirst
  <2>2. FoundInv /\ [InstanceNext]_vars => FoundInv'
    BY <1>1, FoundStep
  <2>3. FoundInv => SpansNotForgotten
    BY DEF FoundInv
  <2> QED
    BY <2>1, <2>2, <2>3, PTL DEF InstanceSpec
<1>2. ASSUME ~(SendAfterInvocation /\ TracingMode = "OtelInstrumentation")
      PROVE  InstanceSpec => []SpansNotForgotten
  <2>1. SpansNotForgotten
    BY <1>2 DEF SpansNotForgotten
  <2> QED
    BY <2>1, PTL
<1> QED
  BY <1>1, <1>2

-----------------------------------------------------------------------------
(* What waits in the output buffers.                                       *)

\* A send is due, or a deadline for one is set.
Scheduled == should_send \/ should_send_by # NoTime

\* process_telemetry_events goes on until it has no event for the invocation it processes, or
\* no invocation for the events.
RunsDry ==
  section = "free" /\ ~shutdown_flush_started =>
    \/ telemetry_event_queue = <<>>
    \/ invocation_state = NoInvocation /\ invoke_event_queue = <<>>

\* Whatever will be in the output buffers, or is, is scheduled.
WorkIsScheduled ==
  /\ ~shutdown_flush_started /\ (telemetry_event_queue # <<>> \/ pending_events # <<>>) => Scheduled
  /\ /\ section # "flush"
     /\ output_buffers.logs # <<>> \/ output_buffers.functionMetrics # {}
     => Scheduled

\* While the handler is in its loop and nothing is processed no event waits, so that what it
\* sends is all there is: the invocation it was called with was taken from the queue, and its
\* state is kept until its report, which comes when the handler is ready for the next.
LEMMA QueueRunsDry ==
  ASSUME AnswerInv, RunsDry, MutexFree, pc \in {"check", "recv"}
  PROVE  ~shutdown_flush_started /\ telemetry_event_queue = <<>> /\ pending_events = <<>>
<1> USE DEF AnswerInv, PairingBase, TypeInv
<1>1. ~shutdown_flush_started /\ pending_events = <<>>
  BY DEF FlushOnce, LoopShape, MutexFree
<1>2. /\ Enqueued = current /\ current > 0 /\ current \in Nat
      /\ phase \in {"running", "over"}
  <2>1. pc \notin {"ready"} \cup ShutdownSteps /\ pc \notin {"context", "drain", "enqueue"}
    BY DEF ShutdownSteps
  <2> QED
    BY <2>1, HandlerNumbers DEF HandlerInv
<1>3. ASSUME telemetry_event_queue # <<>> PROVE FALSE
  <2>1. invocation_state = NoInvocation /\ invoke_event_queue = <<>>
    BY <1>1, <1>3 DEF RunsDry, MutexFree
  <2>2. Taken = current
    <3>1. Len(<<>>) = 0
      OBVIOUS
    <3> QED
      BY <1>2, <2>1, <3>1 DEF Taken
  <2>3. init_handled
    BY <1>1, <1>2, <2>1, <2>2 DEF PairInv, BeforeInit
  <2>4. PICK k \in 1..Pos : Is(k, "PlatformReport", current)
    BY <1>1, <2>1, <2>2, <2>3 DEF PairInv, AfterInit, Seen
  <2>5. k \in 1..Len(stream)
    BY PosFacts
  <2> QED
    BY <1>2, <2>4, <2>5 DEF PairedStream, PhaseRecorded
<1> QED
  BY <1>1, <1>3

\* signal_should_send_by leaves a send due, or a deadline.
LEMMA SignalSchedules ==
  ASSUME NEW t \in Nat, SignalShouldSendBy(t)
  PROVE  Scheduled'
<1>1. t # NoTime
  BY ServiceAssumption
<1> QED
  BY <1>1 DEF SignalShouldSendBy, SignalShouldSend, coordination, Scheduled

\* process_delayed_logs leaves the metrics where they are.
LEMMA ReleaseLeavesMetrics ==
  ASSUME NEW p \in ProcessingType
  PROVE  ReleaseDelayedLogs(p).out.functionMetrics = p.out.functionMetrics
<1>1. ASSUME NEW a \in ProcessingType, NEW logs \in Seq(LogRecord)
      PROVE  EmitLogs(a, logs).out.functionMetrics = a.out.functionMetrics
  BY DEF EmitLogs, ProcessingType, OutputBuffers
<1> DEFINE a == [p EXCEPT !.inv.delaying_logs = FALSE]
           b == EmitLogs(a, StartLogs(a.inv))
           held == [i \in 1..Len(b.inv.logs) |-> MakeLog(b.inv, b.inv.logs[i])]
           c == EmitLogs(b, held)
<1>2. a \in ProcessingType /\ a.out = p.out
  BY DEF ProcessingType, InvocationProcessingState
<1>3. ReleaseDelayedLogs(p) = EmitHeldLogs(b)
  BY DEF ReleaseDelayedLogs
<1> HIDE DEF a
<1>4. StartLogs(a.inv) \in Seq(LogRecord)
  BY <1>2, ProcessingFields, StartLogsAreNotFunctionLogs
<1>5. b \in ProcessingType /\ b.out.functionMetrics = p.out.functionMetrics
  BY <1>1, <1>2, <1>4, EmitLogsType
<1>6. EmitHeldLogs(b) = [c EXCEPT !.inv.logs = <<>>]
  BY DEF EmitHeldLogs
<1> HIDE DEF b
<1>7. held \in Seq(LogRecord)
  <2>1. /\ b.inv \in InvocationProcessingState /\ b.inv.logs \in Seq(Event)
        /\ Len(b.inv.logs) \in Nat
    BY <1>5, ProcessingFields, InvocationFields
  <2>2. \A i \in 1..Len(b.inv.logs) : MakeLog(b.inv, b.inv.logs[i]) \in LogRecord
    BY <2>1, MakeLogType
  <2> QED
    BY <2>1, <2>2
<1> HIDE DEF held
<1>8. c \in ProcessingType /\ c.out.functionMetrics = b.out.functionMetrics
  BY <1>1, <1>5, <1>7, EmitLogsType
<1> HIDE DEF c
<1>9. [c EXCEPT !.inv.logs = <<>>].out = c.out
  BY <1>8 DEF ProcessingType
<1> QED
  BY <1>3, <1>5, <1>6, <1>8, <1>9

\* Spans of the function leave the metrics where they are.
LEMMA SpansLeaveMetrics ==
  ASSUME NEW p \in ProcessingType, NEW spans \in Seq(Span)
  PROVE  ProcessFunctionSpans(p, spans).out.functionMetrics = p.out.functionMetrics
<1> DEFINE captured == p.inv.captured \cup NewlyCaptured(p.inv.captured, spans)
           inv == [p.inv EXCEPT !.captured = captured]
           passed == PassedOn(p.inv.captured, spans)
           out == IF ShouldProduceSpans(inv) /\ TracingMode = "OtelInstrumentation"
                  THEN AddFunctionSpans(p.out, passed) ELSE p.out
           q == [p EXCEPT !.inv = inv, !.out = out]
<1>1. p.inv \in InvocationProcessingState /\ p.out \in OutputBuffers
  BY ProcessingFields
<1>2. captured \in SUBSET Span /\ IsFiniteSet(captured)
  BY <1>1, CapturedType, InvocationFields, FS_Union
<1> HIDE DEF captured
<1>3. inv \in InvocationProcessingState
  BY <1>1, <1>2 DEF InvocationProcessingState
<1>4. AddFunctionSpans(p.out, passed) \in OutputBuffers
  BY <1>1, CapturedType, InvocationFields, AddFunctionSpansType
<1>5. AddFunctionSpans(p.out, passed).functionMetrics = p.out.functionMetrics
  BY <1>1 DEF AddFunctionSpans, OutputBuffers
<1>6. out \in OutputBuffers /\ out.functionMetrics = p.out.functionMetrics
  BY <1>1, <1>4, <1>5
<1>7. ProcessFunctionSpans(p, spans) =
        IF LogMode = "Structured" /\ inv.delaying_logs /\ HasCaptured(inv, "CxEarlyInvocation")
        THEN ReleaseDelayedLogs(q) ELSE q
  BY DEF ProcessFunctionSpans, captured
<1> HIDE DEF out, inv
<1>8. q \in ProcessingType /\ q.out = out
  BY <1>3, <1>6 DEF ProcessingType
<1> HIDE DEF q
<1> QED
  BY <1>6, <1>7, <1>8, ReleaseLeavesMetrics

\* Telemetry that comes is scheduled by the timestamp of its first event.
LEMMA DeliveryScheduled ==
  ASSUME AnswerInv, NothingFailed', SendAfterDelay, WorkIsScheduled, DeliverTelemetry
  PROVE  WorkIsScheduled'
<1>1. TypeOK /\ PlatformInv /\ StreamInv /\ now \in Nat
  BY DEF AnswerInv, PairingBase, TypeInv, TypeOK
<1>2. PICK n \in 1..(Len(stream) - delivered), lost \in SUBSET {e \in Event : e.kind \in LossyKinds},
            age \in 0..(now + ReportingDelay) : Delivers(n, lost, age)
  BY <1>1, TelemetryDelivered
<1> DEFINE kept == Kept(n, lost)
<1>3. HandleIncomingTelemetry(kept, age)
  BY <1>2 DEF Delivers
<1>4. /\ kept \in Seq(Event)
      /\ \A x \in ToSet(kept) : x.id \in (delivered + 1)..(delivered + n) /\ stream[x.id] = x
  <2>1. delivered \in Nat /\ Len(stream) \in Nat /\ n \in Nat /\ delivered + n <= Len(stream)
    BY <1>1, <1>2 DEF PlatformInv
  <2> QED
    BY <1>1, <2>1, BatchInLine DEF Kept
<1> HIDE DEF kept
<1>5. /\ MutexFree /\ UNCHANGED <<pending_events, output_buffers, shutdown_flush_started>>
      /\ telemetry_event_queue' = telemetry_event_queue \o kept
  BY <1>3 DEF HandleIncomingTelemetry, EnqueueEvents, EnterLoop, processing, flags
<1>6. CASE kept = <<>>
  <2>1. telemetry_event_queue \in Seq(Event)
    BY <1>1 DEF TypeOK, InputTypes
  <2>2. telemetry_event_queue' = telemetry_event_queue
    BY <1>5, <1>6, <2>1, ConcatEmptySeq
  <2>3. UNCHANGED coordination
    BY <1>3, <1>6 DEF HandleIncomingTelemetry
  <2> QED
    BY <1>5, <2>2, <2>3 DEF WorkIsScheduled, Scheduled, coordination, MutexFree
<1>7. CASE kept # <<>>
  <2>1. Head(kept) \in ToSet(kept)
    BY <1>4, <1>7, ElementsTail
  <2>2. Head(kept).id \in 1..delivered' /\ stream'[Head(kept).id] = Head(kept)
    BY <1>1, <1>2, <1>4, <2>1 DEF PlatformInv, Delivers
  <2>3. Head(kept).ok
    BY <2>2 DEF NothingFailed
  <2>4. SignalShouldSendBy(now + ReportingDelay - age)
    BY <1>3, <1>7, <2>3 DEF HandleIncomingTelemetry
  <2>5. now + ReportingDelay - age \in Nat
    BY <1>1, <1>2, ServiceAssumption
  <2> QED
    BY <2>4, <2>5, SignalSchedules DEF WorkIsScheduled
<1> QED
  BY <1>6, <1>7

\* Spans and metrics of the function.
LEMMA OtlpScheduled ==
  ASSUME AnswerInv, SendAfterDelay, WorkIsScheduled, ExportSpan \/ ExportMetric
  PROVE  WorkIsScheduled'
<1>1. TypeOK /\ now + ReportingDelay \in Nat
  BY ServiceAssumption DEF AnswerInv, PairingBase, TypeInv, TypeOK
<1>2. CASE ExportMetric
  <2>1. SignalAfterDelay
    BY <1>2 DEF ExportMetric, HandleOtlpMetrics
  <2> QED
    BY <1>1, <2>1, SignalSchedules DEF SignalAfterDelay, WorkIsScheduled
<1>3. CASE ExportSpan
  <2>1. PICK spans : HandleOtlpSpans(spans)
    BY <1>3 DEF ExportSpan
  <2>2. UNCHANGED <<telemetry_event_queue, loop, shutdown_flush_started>>
    BY <2>1 DEF HandleOtlpSpans, flags
  <2>3. CASE SpansForQueuedInvoke(spans) \/ SpansForNextInvoke(spans)
    BY <2>2, <2>3
    DEF SpansForQueuedInvoke, SpansForNextInvoke, processing, coordination, loop, WorkIsScheduled,
        Scheduled
  <2>4. CASE SpansForRunningInvoke(spans)
    <3>1. SignalShouldSend \/ SignalAfterDelay
      BY <2>4 DEF SpansForRunningInvoke
    <3>2. SignalAfterDelay => Scheduled'
      BY <1>1, SignalSchedules DEF SignalAfterDelay
    <3> QED
      BY <3>1, <3>2 DEF SignalShouldSend, Scheduled, WorkIsScheduled
  <2> QED
    BY <2>1, <2>3, <2>4 DEF HandleOtlpSpans
<1> QED
  BY <1>2, <1>3

\* What an invoke event puts in the output buffers is spans.
LEMMA InvokeScheduled ==
  ASSUME AnswerInv, WorkIsScheduled, TakeInvokeEvent
  PROVE  WorkIsScheduled'
<1> DEFINE invoke == Head(invoke_event_queue)
           new == NewInvocationState(invoke.req)
           p == Processing(new, output_buffers, metrics_state)
           once == ProcessFunctionSpans(p, function_spans_buffer)
           twice == ProcessFunctionSpans(once, invoke.spans)
<1>1. TypeOK /\ LoopShape /\ InputTypes /\ ProcessingTypes
  BY DEF AnswerInv, PairingBase, TypeInv, TypeOK
<1>2. invoke \in InvokeEventDataWithSpans
  BY <1>1, HeadTailProperties DEF TakeInvokeEvent, InputTypes
<1>3. invoke.req \in Requests /\ invoke.spans \in Seq(Span) /\ function_spans_buffer \in Seq(Span)
  BY <1>1, <1>2 DEF InvokeEventDataWithSpans, InputTypes
<1>4. new \in InvocationProcessingState /\ new.data = {} /\ new.logs = <<>>
  BY <1>3, NewInvocationStateType DEF NewInvocationState
<1>5. p \in ProcessingType /\ p.inv = new /\ p.out = output_buffers
  BY <1>1, <1>4 DEF Processing, ProcessingType, ProcessingTypes
<1>6. output_buffers' = twice.out
  BY DEF TakeInvokeEvent, SetProcessing
<1> HIDE DEF invoke, new, p
<1>7. /\ once \in ProcessingType /\ once.inv.data = {} /\ once.inv.logs = <<>>
      /\ once.out.logs = output_buffers.logs
      /\ once.out.functionMetrics = output_buffers.functionMetrics
  BY <1>3, <1>4, <1>5, SpansLeaveMetrics, NothingReleased
<1> HIDE DEF once
<1>8. /\ output_buffers'.logs = output_buffers.logs
      /\ output_buffers'.functionMetrics = output_buffers.functionMetrics
  BY <1>3, <1>6, <1>7, SpansLeaveMetrics, NothingReleased
<1> QED
  BY <1>8 DEF TakeInvokeEvent, loop, coordination, flags, WorkIsScheduled, Scheduled

\* What is processed was scheduled when it was delivered, or when the deadline in place was set.
LEMMA ProcessingScheduled ==
  ASSUME AnswerInv, WorkIsScheduled, ProcessingStep
  PROVE  WorkIsScheduled'
<1>1. TypeOK /\ LoopShape /\ section \in Sections
  BY DEF AnswerInv, PairingBase, TypeInv, TypeOK, LoopTypes
<1>2. CASE TakeInvokeEvent
  BY <1>2, InvokeScheduled
<1>3. CASE RejectInvokeEvent \/ RejectEvent
  BY <1>1, <1>3
  DEF RejectInvokeEvent, RejectEvent, AbortLoop, LeaveLoop, HasNextEvent, LoopShape, processing,
      flags, WorkIsScheduled, Scheduled
<1>4. CASE HandleInitStart \/ BufferInitEvent \/ FinishInit \/ ProcessEvent
  <2>1. Scheduled
    BY <1>1, <1>4
    DEF HandleInitStart, BufferInitEvent, FinishInit, ProcessEvent, HasNextEvent, LoopShape,
        WorkIsScheduled
  <2>2. UNCHANGED coordination
    BY <1>4 DEF HandleInitStart, BufferInitEvent, FinishInit, ProcessEvent
  <2> QED
    BY <2>1, <2>2 DEF WorkIsScheduled, Scheduled, coordination
<1>5. CASE ReplayInitEvent
  <2>1. Scheduled
    BY <1>1, <1>5 DEF ReplayInitEvent, LoopShape, WorkIsScheduled
  <2>2. UNCHANGED <<should_send, should_send_by>>
    BY <1>5 DEF ReplayInitEvent, AbortLoop, coordination
  <2> QED
    BY <2>1, <2>2 DEF WorkIsScheduled, Scheduled
<1>6. CASE DegradeEvent
  <2>1. UNCHANGED <<should_send, should_send_by, shutdown_flush_started>>
    BY <1>6 DEF DegradeEvent, AbortLoop, coordination, flags
  <2>2. CASE section = "degrade"
    <3>1. Scheduled
      BY <1>1, <1>6, <2>2 DEF DegradeEvent, LoopShape, WorkIsScheduled
    <3> QED
      BY <2>1, <3>1 DEF WorkIsScheduled, Scheduled
  <2>3. CASE section = "flush"
    <3>1. section' = "flush" /\ shutdown_flush_started
      BY <1>1, <1>6, <2>3 DEF DegradeEvent, LoopShape
    <3> QED
      BY <2>1, <3>1 DEF WorkIsScheduled
  <2> QED
    BY <1>6, <2>2, <2>3 DEF DegradeEvent
<1>7. CASE ReplayEnds \/ DegradeEnds
  BY <1>1, <1>7
  DEF ReplayEnds, DegradeEnds, inputs, processing, coordination, flags, WorkIsScheduled, Scheduled
<1>8. CASE FinishProcessing
  <2>1. /\ UNCHANGED <<telemetry_event_queue, output_buffers, should_send_by, shutdown_flush_started>>
        /\ pending_events' = <<>> /\ section = "events"
    BY <1>8 DEF FinishProcessing, LeaveLoop, inputs, processing, flags
  <2>2. should_send' = should_send \/ should_send' = TRUE
    BY <1>8 DEF FinishProcessing
  <2> QED
    BY <2>1, <2>2 DEF WorkIsScheduled, Scheduled
<1> QED
  BY <1>2, <1>3, <1>4, <1>5, <1>6, <1>7, <1>8 DEF ProcessingStep

\* The handler resets the deadline only when it sends all there is.
LEMMA HandlerScheduled ==
  ASSUME AnswerInv, RunsDry, WorkIsScheduled, HandlerStep
  PROVE  WorkIsScheduled'
<1>1. LoopShape
  BY DEF AnswerInv, PairingBase
<1>2. CASE CheckShouldSend
  <2>1. /\ MutexFree /\ pc = "check"
        /\ UNCHANGED <<telemetry_event_queue, loop, shutdown_flush_started>>
    BY <1>2 DEF CheckShouldSend, inputs, flags
  <2>2. telemetry_event_queue' = <<>> /\ pending_events' = <<>>
    BY <2>1, QueueRunsDry DEF loop
  <2>3. CASE SendTelemetry
    BY <2>2, <2>3 DEF SendTelemetry, EmptyBuffers, WorkIsScheduled
  <2>4. CASE UNCHANGED <<output_buffers, coordination, sends>>
    BY <2>1, <2>2, <2>4 DEF loop, coordination, WorkIsScheduled, Scheduled
  <2> QED
    BY <1>2, <2>3, <2>4 DEF CheckShouldSend
<1>3. CASE SendFlushed
  <2>1. shutdown_flush_started' /\ output_buffers' = EmptyBuffers
    BY <1>1, <1>3 DEF SendFlushed, SendTelemetry, LoopShape, flags
  <2> QED
    BY <2>1 DEF EmptyBuffers, WorkIsScheduled
<1>4. CASE FlushEnqueuedTelemetry
  BY <1>4 DEF FlushEnqueuedTelemetry, WorkIsScheduled
<1>5. CASE EnqueueInvokeEvent
  BY <1>5
  DEF EnqueueInvokeEvent, EnterLoop, MutexFree, processing, coordination, flags, WorkIsScheduled,
      Scheduled
<1>6. CASE \/ ObtainFunctionContext \/ FailToObtainFunctionContext \/ DrainSignals \/ ReceiveSignal
           \/ ForbidOtel \/ AwaitInFlightSends \/ AwaitTimesOut \/ PermitOtel \/ GraceElapses
           \/ FinishShutdown
  <2>1. UNCHANGED <<telemetry_event_queue, pending_events, section, output_buffers, should_send,
                    should_send_by, shutdown_flush_started>>
    BY <1>6
    DEF ObtainFunctionContext, FailToObtainFunctionContext, DrainSignals, ReceiveSignal, ForbidOtel,
        AwaitInFlightSends, AwaitTimesOut, PermitOtel, GraceElapses, FinishShutdown, inputs, loop,
        processing, coordination, flags
  <2> QED
    BY <2>1 DEF WorkIsScheduled, Scheduled
<1> QED
  BY <1>2, <1>3, <1>4, <1>5, <1>6 DEF HandlerStep

\* Each step keeps the schedule.
LEMMA ScheduledStep ==
  ASSUME AnswerInv, RunsDry, NothingFailed', SendAfterDelay, WorkIsScheduled,
         [InstanceNext]_vars
  PROVE  WorkIsScheduled'
<1>1. CASE \/ Recording \/ DeliverInvoke \/ DeliverShutdown \/ AdvanceClock \/ Terminated
           \/ UNCHANGED vars \/ SendEnds
  <2>1. UNCHANGED <<telemetry_event_queue, pending_events, section, output_buffers, should_send,
                    should_send_by, shutdown_flush_started>>
    <3>1. PlatformInv
      BY DEF AnswerInv, PairingBase
    <3> QED
      BY <1>1, <3>1, RecordingGrows
      DEF DeliverInvoke, StartInvoke, DeliverShutdown, StartShutdown, AdvanceClock, Tick, Terminated,
          vars, serviceVars, SendEnds, inputs, loop, processing, coordination, flags
  <2> QED
    BY <2>1 DEF WorkIsScheduled, Scheduled
<1>2. CASE DeliverTelemetry
  BY <1>2, DeliveryScheduled
<1>3. CASE ExportSpan \/ ExportMetric
  BY <1>3, OtlpScheduled
<1>4. CASE ProcessingStep
  BY <1>4, ProcessingScheduled
<1>5. CASE HandlerStep
  BY <1>5, HandlerScheduled
<1>6. CASE \E t \in timers : TimerFires(t)
  <2>1. /\ UNCHANGED <<telemetry_event_queue, pending_events, section, output_buffers,
                       shutdown_flush_started>>
        /\ ServeDeadline
    BY <1>6 DEF TimerFires, inputs, loop, processing, flags
  <2> QED
    BY <2>1 DEF ServeDeadline, SignalShouldSend, WorkIsScheduled, Scheduled
<1> QED
  BY <1>1, <1>2, <1>3, <1>4, <1>5, <1>6 DEF InstanceNext, ServiceStep, Recording

\* The loop ends when it ran dry, and an error does not end it.
LEMMA RunsDryStep ==
  ASSUME AnswerInv, RunsDry, Orderly, [InstanceNext]_vars
  PROVE  RunsDry'
<1> USE DEF AnswerInv, PairingBase, TypeInv
<1>0. LoopTypes /\ section \in Sections /\ \A x \in Waiting : x.ok
  BY DEF TypeOK, LoopTypes, Orderly
<1>1. CASE \/ Recording \/ DeliverInvoke \/ DeliverShutdown \/ AdvanceClock \/ Terminated
           \/ UNCHANGED vars \/ SendEnds \/ ExportMetric \/ \E t \in timers : TimerFires(t)
  <2>1. UNCHANGED <<telemetry_event_queue, invoke_event_queue, invocation_state, section,
                    shutdown_flush_started>>
    BY <1>1, RecordingGrows
    DEF DeliverInvoke, StartInvoke, DeliverShutdown, StartShutdown, AdvanceClock, Tick, Terminated,
        vars, serviceVars, SendEnds, ExportMetric, HandleOtlpMetrics, TimerFires, inputs, loop,
        processing, flags
  <2> QED
    BY <2>1 DEF RunsDry
<1>2. CASE DeliverTelemetry
  <2>1. PICK n, lost, age : Delivers(n, lost, age)
    BY <1>2, TelemetryDelivered
  <2> QED
    BY <2>1 DEF Delivers, HandleIncomingTelemetry, EnterLoop, flags, RunsDry
<1>3. CASE ExportSpan
  <2>1. PICK spans : HandleOtlpSpans(spans)
    BY <1>3 DEF ExportSpan
  <2>2. MutexFree /\ UNCHANGED <<telemetry_event_queue, shutdown_flush_started>>
    BY <2>1 DEF HandleOtlpSpans, flags
  <2>3. \/ telemetry_event_queue = <<>>
        \/ UNCHANGED <<invoke_event_queue, invocation_state>>
        \/ shutdown_flush_started
    BY <2>1, <2>2
    DEF HandleOtlpSpans, MutexFree, SpansForQueuedInvoke, SpansForNextInvoke, SpansForRunningInvoke,
        InvocationRuns, processing, RunsDry
  <2> QED
    BY <2>2, <2>3 DEF RunsDry, MutexFree
<1>4. CASE ProcessingStep
  <2>1. ~RejectInvokeEvent
    BY DEF RejectInvokeEvent, Orderly, TypeOK, InputTypes
  <2>2. ~RejectEvent
    <3>1. HasNextEvent => NextEvent \in ToSet(telemetry_event_queue)
      BY PosFacts DEF HasNextEvent
    <3> QED
      BY <1>0, <3>1 DEF RejectEvent, Waiting
  <2>3. pending_events # <<>> => Head(pending_events).ok
    BY <1>0, ElementsTail DEF LoopTypes, Waiting
  <2>4. CASE FinishProcessing
    BY <2>4 DEF FinishProcessing, inputs, processing, RunsDry
  <2>5. CASE DegradeEvent /\ section = "flush"
    BY <2>3, <2>5 DEF DegradeEvent, LoopShape, flags, RunsDry
  <2>6. CASE ~FinishProcessing /\ ~(DegradeEvent /\ section = "flush")
    <3>1. section' # "free"
      BY <1>4, <2>1, <2>2, <2>3, <2>6
      DEF ProcessingStep, TakeInvokeEvent, HandleInitStart, BufferInitEvent, FinishInit,
          ProcessEvent, HasNextEvent, ReplayInitEvent, ReplayEnds, DegradeEvent, DegradeEnds, loop
    <3> QED
      BY <3>1 DEF RunsDry
  <2> QED
    BY <2>4, <2>5, <2>6
<1>5. CASE HandlerStep
  <2>1. CASE EnqueueInvokeEvent \/ FlushEnqueuedTelemetry \/ SendFlushed
    BY <2>1
    DEF EnqueueInvokeEvent, EnterLoop, FlushEnqueuedTelemetry, SendFlushed, LoopShape, flags, RunsDry
  <2>2. CASE ~EnqueueInvokeEvent /\ ~FlushEnqueuedTelemetry /\ ~SendFlushed
    <3>1. UNCHANGED <<telemetry_event_queue, invoke_event_queue, invocation_state, section,
                      shutdown_flush_started>>
      BY <1>5, <2>2
      DEF HandlerStep, ObtainFunctionContext, FailToObtainFunctionContext, DrainSignals,
          ReceiveSignal, ForbidOtel, AwaitInFlightSends, AwaitTimesOut, PermitOtel, GraceElapses,
          FinishShutdown, CheckShouldSend, inputs, loop, processing, flags
    <3> QED
      BY <3>1 DEF RunsDry
  <2> QED
    BY <2>1, <2>2
<1> QED
  BY <1>1, <1>2, <1>3, <1>4, <1>5 DEF InstanceNext, ServiceStep, Recording

\* What failed remains so.
LEMMA FailuresStay ==
  ASSUME TypeOK, PlatformInv, [InstanceNext]_vars, NothingFailed'
  PROVE  NothingFailed
<1>1. /\ delivered \in Nat /\ Len(stream) \in Nat /\ delivered <= Len(stream) /\ current \in Nat
  BY InstanceAssumption DEF PlatformInv
<1>2. /\ delivered' \in Nat /\ delivered <= delivered' /\ current' \in {current, current + 1}
      /\ \A k \in 1..Len(stream) : stream'[k] = stream[k]
  <2>1. CASE Recording
    <3>1. delivered' = delivered /\ \A k \in 1..Len(stream) : stream'[k] = stream[k]
      BY <2>1, RecordingGrows, RecordingAdds DEF Adds, Recording
    <3>2. current' \in {current, current + 1}
      BY <1>1, <2>1
      DEF Recording, InitRestarts, InitEnds, InvokeFunction, WriteLog, FunctionEnds, InvocationEnds
    <3> QED
      BY <1>1, <3>1, <3>2
  <2>2. CASE DeliverTelemetry
    <3>1. PICK n \in 1..(Len(stream) - delivered),
               lost \in SUBSET {e \in Event : e.kind \in LossyKinds},
               age \in 0..(now + ReportingDelay) : Delivers(n, lost, age)
      BY <2>2, TelemetryDelivered
    <3>2. delivered' = delivered + n /\ stream' = stream /\ current' = current
      BY <3>1 DEF Delivers
    <3> QED
      BY ONLY <1>1, <3>2
  <2>3. CASE ~Recording /\ ~DeliverTelemetry
    <3>1. delivered' = delivered /\ stream' = stream /\ current' = current
      BY <2>3
      DEF Recording, InstanceNext, DeliverInvoke, DeliverShutdown, ExportSpan, ExportMetric,
          ServiceStep, AdvanceClock, Terminated, vars, platformVars
    <3> QED
      BY <1>1, <3>1
  <2> QED
    BY <2>1, <2>2, <2>3
<1>3. ASSUME NEW i \in 1..delivered PROVE stream[i].ok
  <2>1. i \in 1..delivered' /\ i \in 1..Len(stream)
    BY <1>1, <1>2
  <2> QED
    BY <1>2, <2>1 DEF NothingFailed
<1>4. 1..current \subseteq 1..current'
  BY <1>1, <1>2
<1> QED
  BY <1>3, <1>4 DEF NothingFailed

\* As long as nothing failed, nothing that waits will: it was delivered, or its function invoked.
LEMMA OrderlyUntilFailure ==
  ASSUME AnswerInv, NothingFailed, LossyKinds \cap (Milestones \cup {"PlatformInitStart"}) = {}
  PROVE  Orderly
<1>1. /\ TypeOK /\ PlatformInv /\ InLine /\ HandlerInv /\ QueueInv
  BY DEF AnswerInv, PairingBase, TypeInv
<1>2. \A x \in Waiting : x.ok
  BY <1>1 DEF InLine, NothingFailed
<1>3. /\ Handled \in Nat /\ current \in Nat /\ Handled <= current /\ Enqueued <= Handled
      /\ Enqueued \in Nat /\ Taken \in Int
      /\ Len(invoke_event_queue) \in Nat /\ Taken + Len(invoke_event_queue) = Enqueued
  BY <1>1, HandlerNumbers DEF HandlerInv, Taken
<1>4. handling \notin UnparsableArns
  <2>1. CASE handling \in Requests
    <3>1. handling \in Nat \ {0} /\ Handled = handling
      BY <1>1, <2>1, RequestNumbers DEF Handled
    <3>2. handling \in 1..current
      BY ONLY <1>3, <3>1
    <3> QED
      BY <3>2 DEF NothingFailed
  <2>2. CASE handling \notin Requests
    BY <2>2, ServiceAssumption
  <2> QED
    BY <2>1, <2>2
<1>5. ASSUME NEW i \in 1..Len(invoke_event_queue)
      PROVE  invoke_event_queue[i].req \notin UnparsableArns
  <2>1. invoke_event_queue[i].req = Taken + i /\ Len(invoke_event_queue) <= Enqueued
    BY <1>1 DEF QueueInv
  <2>2. Taken + i \in 1..current
    BY <1>3, <2>1
  <2> QED
    BY <2>1, <2>2 DEF NothingFailed
<1> QED
  BY <1>2, <1>4, <1>5 DEF Orderly

\* Logs and the metrics of the function do not wait in the output buffers unless a send is due
\* or a deadline is set (signal_should_send_by, the timer it spawns, handle_invoke_event),
\* until an event or an ARN comes that cannot be processed.  In the loop of the handler nothing
\* else waits that could reach the buffers after a send, and whatever arrives after it sets a
\* deadline of its own.  An environment may have events and ARNs of that kind: what they do is
\* left open from the first one that reaches the service.
THEOREM BufferedDataWaitsForASend ==
  LossyKinds \cap (Milestones \cup {"PlatformInitStart"}) = {} /\ InstanceSpec
    => []BufferedDataIsScheduled
<1>1. ASSUME LossyKinds \cap (Milestones \cup {"PlatformInitStart"}) = {}, SendAfterDelay
      PROVE  InstanceSpec => []BufferedDataIsScheduled
  <2> DEFINE ScheduleInv ==
               InstanceTypeInv /\ (NothingFailed => AnswerInv /\ RunsDry /\ WorkIsScheduled)
  <2>1. InstanceInit => ScheduleInv
    <3> SUFFICES ASSUME InstanceInit PROVE ScheduleInv
      OBVIOUS
    <3>1. /\ telemetry_event_queue = <<>> /\ pending_events = <<>>
          /\ output_buffers.logs = <<>> /\ output_buffers.functionMetrics = {}
      BY DEF InstanceInit, Init, EmptyBuffers
    <3> QED
      BY <3>1, AnswerInit DEF RunsDry, WorkIsScheduled, AnswerInv, PairingBase, InstanceTypeInv
  <2>2. ScheduleInv /\ [InstanceNext]_vars => ScheduleInv'
    <3> SUFFICES ASSUME ScheduleInv, [InstanceNext]_vars PROVE ScheduleInv'
      OBVIOUS
    <3>1. InstanceTypeInv'
      BY InstanceStepTypes
    <3>2. ASSUME NothingFailed' PROVE AnswerInv' /\ RunsDry' /\ WorkIsScheduled'
      <4>1. AnswerInv /\ RunsDry /\ WorkIsScheduled /\ NothingFailed
        BY <3>2, FailuresStay DEF InstanceTypeInv, TypeInv
      <4>2. Orderly
        BY <1>1, <4>1, OrderlyUntilFailure
      <4> QED
        BY <1>1, <3>2, <4>1, <4>2, AnswerStep, RunsDryStep, ScheduledStep
    <3> QED
      BY <3>1, <3>2
  <2>3. ScheduleInv => BufferedDataIsScheduled
    BY DEF BufferedDataIsScheduled, WorkIsScheduled, Scheduled, MutexFree
  <2> QED
    BY <2>1, <2>2, <2>3, PTL DEF InstanceSpec
<1>2. ASSUME ~SendAfterDelay PROVE InstanceSpec => []BufferedDataIsScheduled
  <2>1. BufferedDataIsScheduled
    BY <1>2 DEF BufferedDataIsScheduled
  <2> QED
    BY <2>1, PTL
<1> QED
  BY <1>1, <1>2

-----------------------------------------------------------------------------
(* What was sent when the handler is ready for the next event.             *)

\* The ids of the function logs are those of the elements that are function logs.
LEMMA FunctionLogHasId ==
  ASSUME NEW xs \in Seq(LogItem)
  PROVE  /\ \A i \in 1..Len(xs) : IsFunctionLog(xs[i]) => xs[i].id \in ToSet(FunctionLogIds(xs))
         /\ \A n \in ToSet(FunctionLogIds(xs)) : \E i \in 1..Len(xs) : xs[i].id = n
<1> DEFINE logs == FilterSeq(xs, FunctionLogs)
           ids == FunctionLogIds(xs)
<1>1. logs \in Seq(LogItem) /\ ToSet(logs) = ToSet(xs) \cap FunctionLogs
  BY FilterType, FilterElements
<1>2. ids = Ids(logs)
  BY DEF FunctionLogIds
<1> HIDE DEF logs, ids
<1>3. /\ ids \in Seq(Nat) /\ Len(ids) = Len(logs)
      /\ \A i \in 1..Len(logs) : ids[i] = logs[i].id
  BY <1>1, <1>2, IdsType
<1>4. /\ ToSet(ids) = {ids[i] : i \in 1..Len(ids)}
      /\ ToSet(logs) = {logs[i] : i \in 1..Len(logs)}
      /\ ToSet(xs) = {xs[i] : i \in 1..Len(xs)} /\ ToSet(xs) \subseteq LogItem
  BY <1>1, <1>3, Elements
<1>5. ToSet(ids) = {x.id : x \in ToSet(logs)}
  BY <1>3, <1>4
<1>6. \A x \in ToSet(xs) : x \in FunctionLogs <=> IsFunctionLog(x)
  BY <1>4 DEF FunctionLogs, LogItem
<1>7. \A i \in 1..Len(xs) : IsFunctionLog(xs[i]) => xs[i].id \in ToSet(ids)
  BY <1>1, <1>4, <1>5, <1>6
<1>8. ASSUME NEW n \in ToSet(ids) PROVE \E i \in 1..Len(xs) : xs[i].id = n
  <2>1. PICK x \in ToSet(logs) : n = x.id
    BY ONLY <1>5, <1>8
  <2>2. x \in ToSet(xs)
    BY <1>1, <2>1
  <2>3. PICK i \in 1..Len(xs) : x = xs[i]
    BY ONLY <1>4, <2>2
  <2> QED
    BY ONLY <2>1, <2>3
<1> QED
  BY <1>7, <1>8 DEF ids

\* The logs that are written before the runtime of a request is done.
Due(r) ==
  {i \in 1..Len(stream) :
     /\ IsFunctionLog(stream[i])
     /\ \E j \in 1..Len(stream) : j > i /\ Is(j, "PlatformRuntimeDone", r)}

SentLog(i) == \E k \in 1..Len(sent.logs) : sent.logs[k].id = i

AllSent(r) == \A i \in Due(r) : SentLog(i)

\* While its runtime is done, no log waits for a span of the invocation.
DelayEnds ==
  invocation_state # NoInvocation /\ Has(invocation_state, "PlatformRuntimeDone")
    => ~invocation_state.delaying_logs

\* The end of the runtime ends the delay, and an invocation begins with no events.
LEMMA DelayEndsStep ==
  ASSUME AnswerInv, LogMode = "Structured", DelayEnds, [InstanceNext]_vars
  PROVE  DelayEnds'
<1>1. RecordStep /\ TypeOK
  BY RecordSteps DEF AnswerInv, PairingBase, TypeInv
<1>2. CASE KeepsRecords \/ \E e : DegradesEvent(e)
  BY <1>2 DEF KeepsRecords, DegradesEvent, DelayEnds
<1>3. CASE StartsInvocation
  BY <1>3 DEF StartsInvocation, DelayEnds, Has
<1>4. ASSUME NEW e, HandlesEvent(e) PROVE DelayEnds'
  <2> DEFINE p == ProcessingState
             q == ProcessTelemetry(p, e)
  <2>1. p \in ProcessingType /\ p.inv = invocation_state /\ e \in Event
    BY <1>1, <1>4, ProcessingStateType DEF ProcessingState, Processing, HandlesEvent
  <2>2. RecordsEvent(p, q, e)
    BY <2>1, TelemetryRecorded
  <2>3. invocation_state' \in {q.inv, NoInvocation} /\ invocation_state # NoInvocation
    BY <1>4 DEF HandlesEvent
  <2> HIDE DEF p, q
  <2>4. Has(q.inv, "PlatformRuntimeDone") =>
          Has(p.inv, "PlatformRuntimeDone") \/ e.kind = "PlatformRuntimeDone"
    BY <2>2 DEF RecordsEvent, Has
  <2>5. q.inv.delaying_logs = (p.inv.delaying_logs /\ e.kind # "PlatformRuntimeDone")
    BY <2>2 DEF RecordsEvent
  <2>6. Has(p.inv, "PlatformRuntimeDone") => ~p.inv.delaying_logs
    BY <2>1, <2>3 DEF DelayEnds
  <2> QED
    BY <2>3, <2>4, <2>5, <2>6 DEF DelayEnds
<1>5. ASSUME NEW spans, GetsSpans(spans) PROVE DelayEnds'
  <2> DEFINE p == ProcessingState
             q == ProcessFunctionSpans(p, spans)
  <2>1. p \in ProcessingType /\ p.inv = invocation_state /\ spans \in Seq(Span)
    BY <1>1, <1>5, ProcessingStateType DEF ProcessingState, Processing, GetsSpans
  <2>2. q.inv.data = p.inv.data
    BY <2>1, FunctionSpansProcessed DEF SpansProcessed
  <2>3. invocation_state' = q.inv /\ ~Has(invocation_state, "PlatformRuntimeDone")
    BY <1>5 DEF GetsSpans
  <2> HIDE DEF p, q
  <2> QED
    BY <2>1, <2>2, <2>3 DEF DelayEnds, Has
<1> QED
  BY <1>1, <1>2, <1>3, <1>4, <1>5 DEF RecordStep

\* When nothing is processed and the runtime is done, the log of all that was written before is
\* made: it waits in no queue, since the loop ran dry, in no buffer of the init, since that is over, and
\* for no span.
LEMMA DueLogsAreMade ==
  ASSUME AnswerInv, RunsDry, HeldInv, LogsFlowInOrder, DelayEnds, LogMode = "Structured",
         MutexFree, pc \in {"check", "recv"}, Seen("PlatformRuntimeDone", Handled),
         NEW i \in Due(Handled)
  PROVE  \E k \in 1..Len(AllLogs) : AllLogs[k].id = i
<1> USE DEF AnswerInv, PairingBase, TypeInv
<1>1. /\ ~shutdown_flush_started /\ telemetry_event_queue = <<>> /\ pending_events = <<>>
  BY QueueRunsDry
<1>2. /\ Pos \in Nat /\ Len(stream) \in Nat /\ delivered \in Nat
      /\ Pos = delivered /\ delivered <= Len(stream)
  BY <1>1, PosFacts
<1>3. Enqueued = Handled /\ Handled = current /\ current \in Nat /\ current > 0
  <2>1. pc \notin {"ready"} \cup ShutdownSteps /\ pc \notin {"context", "drain", "enqueue"}
    BY DEF ShutdownSteps
  <2>2. phase \in {"running", "over"}
    BY <2>1 DEF HandlerInv
  <2> QED
    BY <2>1, <2>2, HandlerNumbers
<1>4. PICK d \in 1..Pos : Is(d, "PlatformRuntimeDone", Handled)
  BY DEF Seen
<1>5. i \in 1..delivered /\ IsFunctionLog(stream[i])
  <2>1. PICK j \in 1..Len(stream) : j > i /\ Is(j, "PlatformRuntimeDone", Handled)
    BY DEF Due
  <2>2. j = d
    BY <1>2, <1>3, <1>4, <2>1 DEF PairedStream, DoneOnce, Is
  <2> QED
    BY <1>2, <1>4, <2>1, <2>2 DEF Due
<1>6. init_handled
  <2>1. "PlatformRuntimeDone" \in Milestones
    BY DEF Milestones
  <2> QED
    BY <1>1, <1>3, <1>4, <2>1 DEF PairInv, BeforeInit, Is
<1>7. HeldLogs = <<>>
  <2> SUFFICES ASSUME invocation_state # NoInvocation PROVE invocation_state.logs = <<>>
    BY DEF HeldLogs
  <2>1. Taken = Handled
    <3>1. Handled <= Taken
      BY <1>1, <1>4, <1>6 DEF PairInv, AfterInit, Is, Milestones
    <3>2. Len(invoke_event_queue) \in Nat /\ Taken \in Nat
      BY <1>1, <1>6, HandlerNumbers DEF PairInv, AfterInit
    <3> QED
      BY <1>3, <3>1, <3>2 DEF Taken
  <2>2. Has(invocation_state, "PlatformRuntimeDone")
    BY <1>1, <2>1 DEF PairInv, OwnState
  <2> QED
    BY <2>2 DEF DelayEnds, HeldInv, HoldsOnlyDelayed
<1>8. half_processed_event_buffer = <<>>
  BY <1>6 DEF LoopShape
<1> DEFINE received == SubSeq(stream, 1, delivered)
           made == AllLogs
<1>9. FunctionLogIds(made) = FunctionLogIds(received)
  <2>1. FunctionLogIds(made) \in Seq(Nat) /\ made \in Seq(LogRecord)
    BY RecordsType, LogItems, LogIdsType
  <2> DEFINE ids == FunctionLogIds(made)
  <2>2. (((ids \o <<>>) \o <<>>) \o <<>>) \o <<>> = FunctionLogIds(received)
    BY <1>1, <1>7, <1>8, LogIdsEmpty DEF LogsFlowInOrder
  <2>3. ids \o <<>> = ids
    BY <2>1
  <2> HIDE DEF ids
  <2> QED
    BY <2>2, <2>3 DEF ids
<1>10. received \in Seq(LogItem) /\ Len(received) = delivered /\ received[i] = stream[i]
  <2>1. received \in Seq(Event) /\ Len(received) = delivered /\ received[i] = stream[i]
    BY <1>2, <1>5 DEF PlatformInv
  <2> QED
    BY <2>1, LogItems
<1>11. made \in Seq(LogItem)
  BY RecordsType, LogItems
<1>12. stream[i].id = i
  BY <1>2, <1>5 DEF PlatformInv
<1> HIDE DEF received, made
<1>13. i \in ToSet(FunctionLogIds(received))
  BY <1>5, <1>10, <1>12, FunctionLogHasId
<1>14. \E k \in 1..Len(made) : made[k].id = i
  BY <1>9, <1>11, <1>13, FunctionLogHasId
<1> QED
  BY <1>14 DEF made

\* A send sends all logs that were made.
LEMMA DueLogsAreSent ==
  ASSUME AnswerInv, RunsDry, HeldInv, LogsFlowInOrder, DelayEnds, LogMode = "Structured",
         MutexFree, pc \in {"check", "recv"}, Seen("PlatformRuntimeDone", Handled),
         SendTelemetry, NEW i \in Due(Handled)
  PROVE  SentLog(i)'
<1>1. PICK k \in 1..Len(AllLogs) : AllLogs[k].id = i
  BY DueLogsAreMade
<1>2. sent.logs' = AllLogs
  BY DEF SendTelemetry, Merge, AllLogs
<1> QED
  BY <1>1, <1>2 DEF SentLog

\* What was sent stays sent.
LEMMA SentStays ==
  ASSUME TypeOK, SendTelemetry \/ sent'.logs = sent.logs, NEW i, SentLog(i)
  PROVE  SentLog(i)'
<1>1. CASE sent'.logs = sent.logs
  BY <1>1 DEF SentLog
<1>2. CASE SendTelemetry
  <2> DEFINE s == sent.logs
             o == output_buffers.logs
  <2>1. s \in Seq(LogRecord) /\ o \in Seq(LogRecord) /\ sent'.logs = s \o o
    BY <1>2 DEF TypeOK, ProcessingTypes, SendTypes, OutputBuffers, SendTelemetry, Merge
  <2>2. PICK k \in 1..Len(s) : s[k].id = i
    BY DEF SentLog
  <2> HIDE DEF s, o
  <2>3. k \in 1..Len(s \o o) /\ (s \o o)[k] = s[k]
    BY <2>1, <2>2
  <2> QED
    BY <2>1, <2>2, <2>3 DEF SentLog
<1> QED
  BY <1>1, <1>2

\* Once the runtime is done, no more logs are written before that.
LEMMA DueStays ==
  ASSUME PairingBase, PairedStream', FrontMovesOn, NEW r \in Nat \ {0},
         Seen("PlatformRuntimeDone", r), Pos <= Len(stream)
  PROVE  Due(r)' \subseteq Due(r)
<1>1. PICK d \in 1..Pos : Is(d, "PlatformRuntimeDone", r)
  BY DEF Seen
<1>2. /\ Len(stream) \in Nat /\ Len(stream') \in Nat /\ d \in 1..Len(stream)
      /\ \A k \in 1..Len(stream) :
           k \in 1..Len(stream') /\ stream'[k] = stream[k] /\ ReqAt(k)' = ReqAt(k)
  BY <1>1 DEF FrontMovesOn
<1>3. ASSUME NEW i \in Due(r)' PROVE i \in Due(r)
  <2>1. /\ i \in 1..Len(stream') /\ IsFunctionLog(stream'[i])
    BY <1>3 DEF Due, IsFunctionLog
  <2>2. PICK j \in 1..Len(stream') :
          j > i /\ stream'[j].kind = "PlatformRuntimeDone" /\ ReqAt(j)' = r
    BY <1>3 DEF Due, Is
  <2>3. /\ d \in 1..Len(stream') /\ stream'[d].kind = "PlatformRuntimeDone" /\ ReqAt(d)' = r
    BY <1>1, <1>2 DEF Is
  <2>4. j = d
    BY <2>2, <2>3 DEF PairedStream, DoneOnce
  <2>5. i \in 1..Len(stream) /\ d > i
    BY <1>2, <2>1, <2>2, <2>4
  <2> QED
    BY <1>1, <1>2, <2>1, <2>5 DEF Due
<1> QED
  BY <1>3

\* The send that precedes the InvocationDone: the handler is about to check whether it should
\* send, or will be told to before it is told that the invocation is done.
SendComes ==
  /\ should_send
  /\ \/ pc = "check"
     \/ \E i, j \in 1..Len(signals) :
          i < j /\ signals[i] = "ShouldSend" /\ signals[j] = "InvocationDone"

\* When the handler hears of the end of its invocation, what is due is sent.
SentInv ==
  SendAfterInvocation /\ ~shutdown_flush_started =>
    /\ HasDone(signals) => AllSent(Handled) \/ SendComes
    /\ HandlerKnowsItIsDone => AllSent(Handled)

\* All that is due stays sent.
LEMMA AllStaysSent ==
  ASSUME TypeOK, PairingBase, PairedStream', FrontMovesOn, Handled' = Handled,
         Handled \in Nat \ {0}, Seen("PlatformRuntimeDone", Handled), Pos <= Len(stream),
         SendTelemetry \/ sent'.logs = sent.logs, AllSent(Handled)
  PROVE  AllSent(Handled)'
<1> DEFINE h == Handled
<1>1. h' = h /\ AllSent(h) /\ Due(h)' \subseteq Due(h)
  BY DueStays
<1> HIDE DEF h
<1>2. ASSUME NEW i \in Due(h)' PROVE SentLog(i)'
  BY <1>1, <1>2, SentStays DEF AllSent
<1>3. AllSent(h)'
  BY <1>2 DEF AllSent
<1> QED
  BY <1>3 DEF h

\* Steps that are neither those of the handler nor the end of the processing leave the send
\* that was signalled, and its place in the channel.
SignalsAdded ==
  /\ pc' = pc /\ handling' = handling /\ should_send' \in BOOLEAN
  /\ should_send => should_send'
  /\ signals' = signals \/ signals' = Append(signals, "ShouldSend")
  /\ sent'.logs = sent.logs

\* All other steps: no one but the handler takes signals from the channel, or sends.
LEMMA OthersAddSignals ==
  ASSUME PairingBase, PairingConditions, TypeOK', [InstanceNext]_vars, ~shutdown_flush_started',
         ~(ServiceStep /\ HandlerStep), ~DeliverInvoke, ~DeliverShutdown,
         ~(FinishProcessing /\ invocation_done)
  PROVE  SignalsAdded
<1>1. should_send' \in BOOLEAN
  BY DEF TypeOK, CoordinationTypes
<1>2. CASE Recording \/ AdvanceClock \/ UNCHANGED vars
  BY <1>1, <1>2, RecordingGrows
  DEF PairingBase, TypeInv, AdvanceClock, Tick, vars, serviceVars, handler, loop, coordination, sends, SignalsAdded
<1>3. CASE DeliverTelemetry
  BY <1>1, <1>3
  DEF DeliverTelemetry, HandleIncomingTelemetry, EnterLoop, handler, SignalShouldSendBy,
      SignalShouldSend, coordination, sends, SignalsAdded
<1>4. CASE ExportSpan \/ ExportMetric
  BY <1>1, <1>4
  DEF ExportSpan, HandleOtlpSpans, SpansForQueuedInvoke, SpansForNextInvoke, SpansForRunningInvoke,
      ExportMetric, HandleOtlpMetrics, SignalAfterDelay, handler, loop, SignalShouldSendBy,
      SignalShouldSend, coordination, sends, SignalsAdded
<1>5. CASE ServiceStep /\ ((\E t \in timers : TimerFires(t)) \/ SendEnds)
  BY <1>1, <1>5
  DEF TimerFires, ServeDeadline, SignalShouldSend, SendEnds, handler, loop, coordination, sends,
      SignalsAdded
<1>6. CASE ServiceStep /\ ProcessingStep
  <2>1. CASE FinishProcessing
    <3>1. ~invocation_done
      BY <2>1
    <3> QED
      BY <1>1, <2>1, <3>1 DEF FinishProcessing, LeaveLoop, handler, sends, SignalsAdded
  <2>2. CASE RejectInvokeEvent \/ RejectEvent \/ ReplayInitEvent \/ DegradeEvent
    <3>1. ~RejectEvent /\ ~RejectInvokeEvent
      BY WaitingAreOk, FirstWaits
      DEF RejectEvent, RejectInvokeEvent, HasNextEvent, PairingConditions, DeliveryConditions,
          Milestones, PairingBase, TypeInv
    <3>2. (ReplayInitEvent \/ DegradeEvent) => Head(pending_events).ok
      BY WaitingAreOk, FirstWaits
      DEF ReplayInitEvent, DegradeEvent, PairingConditions, DeliveryConditions, Milestones,
          PairingBase, TypeInv
    <3> QED
      BY <1>1, <2>2, <3>1, <3>2
      DEF ReplayInitEvent, DegradeEvent, handler, loop, coordination, sends, SignalsAdded
  <2>3. CASE TakeInvokeEvent \/ HandleInitStart \/ BufferInitEvent \/ FinishInit \/ ProcessEvent
             \/ ReplayEnds \/ DegradeEnds
    BY <1>1, <2>3
    DEF TakeInvokeEvent, HandleInitStart, BufferInitEvent, FinishInit, ProcessEvent, ReplayEnds,
        DegradeEnds, handler, loop, coordination, sends, SignalsAdded
  <2> QED
    BY <1>6, <2>1, <2>2, <2>3 DEF ProcessingStep
<1> QED
  BY <1>2, <1>3, <1>4, <1>5, <1>6 DEF InstanceNext, Recording, ServiceStep, Terminated

\* A signal that is appended leaves those before it.
LEMMA SendStillComes ==
  ASSUME signals \in Seq(Signal), SignalsAdded, SendComes
  PROVE  SendComes'
<1>1. Len(signals) \in Nat
  OBVIOUS
<1>2. \A i \in 1..Len(signals) : i \in 1..Len(signals') /\ signals'[i] = signals[i]
  BY <1>1 DEF SignalsAdded
<1> QED
  BY <1>2 DEF SignalsAdded, SendComes

\* finish_processing signals the send first.
LEMMA DoneIsSignalledLast ==
  ASSUME signals \in Seq(Signal), FinishProcessing, invocation_done, SendAfterInvocation
  PROVE  SendComes'
<1> DEFINE t == signals \o DoneSignals
           n == Len(signals)
<1>1. should_send' = TRUE /\ signals' = t
  BY DEF FinishProcessing
<1>2. /\ n \in Nat /\ Len(t) = n + 2 /\ t[n + 1] = "ShouldSend" /\ t[n + 2] = "InvocationDone"
  <2>1. DoneSignals \in Seq(Signal) /\ Len(DoneSignals) = 2
        /\ DoneSignals[1] = "ShouldSend" /\ DoneSignals[2] = "InvocationDone"
    BY DEF DoneSignals, Signal
  <2> DEFINE d == DoneSignals
  <2> HIDE DEF d
  <2>2. Len(signals) \in Nat /\ d \in Seq(Signal) /\ Len(d) = 2
    BY <2>1 DEF d
  <2>3. /\ Len(signals \o d) = Len(signals) + Len(d)
        /\ \A i \in 1..(Len(signals) + Len(d)) :
             (signals \o d)[i] = IF i <= Len(signals) THEN signals[i] ELSE d[i - Len(signals)]
    BY <2>2, ConcatProperties, Zenon
  <2>4. /\ Len(signals) + 1 - Len(signals) = 1 /\ Len(signals) + 2 - Len(signals) = 2
        /\ ~(Len(signals) + 1 <= Len(signals)) /\ ~(Len(signals) + 2 <= Len(signals))
        /\ Len(signals) + 1 \in 1..(Len(signals) + 2) /\ Len(signals) + 2 \in 1..(Len(signals) + 2)
    BY <2>2
  <2>5. /\ (signals \o d)[Len(signals) + 1] = d[1]
        /\ (signals \o d)[Len(signals) + 2] = d[2]
    BY <2>2, <2>3, <2>4
  <2> QED
    BY <2>1, <2>2, <2>3, <2>5 DEF d
<1> HIDE DEF t, n
<1>3. n + 1 < n + 2 /\ n + 1 \in 1..Len(t) /\ n + 2 \in 1..Len(t)
  BY <1>2
<1>4. \E i, j \in 1..Len(t) : i < j /\ t[i] = "ShouldSend" /\ t[j] = "InvocationDone"
  BY <1>2, <1>3
<1> QED
  BY <1>1, <1>4 DEF SendComes

\* The first signal of the channel is received: the send that comes still does.
LEMMA SendReceived ==
  ASSUME signals \in Seq(Signal), OneDone(signals), ReceiveSignal
  PROVE  /\ Head(signals) = "ShouldSend" /\ SendComes => SendComes'
         /\ Head(signals) = "InvocationDone" => HasDone(signals) /\ ~SendComes
         /\ HasDone(signals') => HasDone(signals)
<1>1. /\ signals # <<>> /\ signals' = Tail(signals) /\ pc = "recv"
      /\ should_send' = should_send
      /\ Head(signals) = "ShouldSend" => pc' = "check"
  BY DEF ReceiveSignal
<1>2. Len(signals) \in Nat /\ Head(signals) = signals[1] /\ 1 \in 1..Len(signals)
  BY <1>1
<1>3. HasDone(signals') => HasDone(signals)
  BY <1>1, DoneTail
<1>4. Head(signals) = "InvocationDone" => HasDone(signals)
  BY <1>2 DEF HasDone
<1>5. ASSUME Head(signals) = "InvocationDone", SendComes PROVE FALSE
  <2>1. PICK i, j \in 1..Len(signals) :
          i < j /\ signals[i] = "ShouldSend" /\ signals[j] = "InvocationDone"
    BY <1>1, <1>5 DEF SendComes
  <2>2. j = 1
    BY <1>2, <1>5, <2>1 DEF OneDone
  <2> QED
    BY <1>2, <2>1, <2>2
<1> QED
  BY <1>1, <1>3, <1>4, <1>5 DEF SendComes

\* The steps of the handler, while an InvocationDone is in the channel or was received.
LEMMA HandlerSends ==
  ASSUME AnswerInv, AnswerInv', RunsDry, HeldInv, LogsFlowInOrder, DelayEnds, SentInv,
         PairingConditions, LogMode = "Structured", SendAfterInvocation, ServiceStep, HandlerStep,
         ~shutdown_flush_started', [InstanceNext]_vars
  PROVE  SentInv'
<1> USE DEF AnswerInv, PairingBase, TypeInv
<1>1. FrontMovesOn /\ ~shutdown_flush_started
  BY AlwaysOrderly, MovesOn
<1>2. /\ signals \in Seq(Signal) /\ OneDone(signals) /\ TypeOK
      /\ HasDone(signals) => pc \in {"check", "recv"} /\ Seen("PlatformRuntimeDone", Handled)
      /\ HasDone(signals) => AllSent(Handled) \/ SendComes
      /\ HandlerKnowsItIsDone => AllSent(Handled)
  BY <1>1 DEF SignalInv, SentInv, TypeOK, CoordinationTypes
<1>3. Pos <= Len(stream) /\ Handled \in Nat
  BY <1>1, PosFacts, RequestNumbers DEF Handled
<1>4. ~FailToObtainFunctionContext /\ ~FlushEnqueuedTelemetry /\ ~SendFlushed
  BY <1>1 DEF FailToObtainFunctionContext, PairingConditions, FlushEnqueuedTelemetry, SendFlushed,
              LoopShape, flags
<1>5. /\ handling' = handling /\ Handled' = Handled
      /\ SendTelemetry \/ sent'.logs = sent.logs
  BY <1>4
  DEF HandlerStep, ObtainFunctionContext, DrainSignals, EnqueueInvokeEvent, CheckShouldSend,
      ReceiveSignal, ForbidOtel, AwaitInFlightSends, AwaitTimesOut, PermitOtel, GraceElapses,
      FinishShutdown, EnterLoop, sends, Handled
<1>6. ASSUME Handled # 0, Seen("PlatformRuntimeDone", Handled), AllSent(Handled)
      PROVE  AllSent(Handled)'
  BY <1>1, <1>2, <1>3, <1>5, <1>6, AllStaysSent
<1>7. CASE ReceiveSignal
  <2>1. Head(signals) \in Signal /\ pc = "recv"
    BY <1>2, <1>7 DEF ReceiveSignal
  <2>2. Handled # 0
    BY <2>1, HandlerNumbers DEF HandlerInv, ShutdownSteps
  <2>3. CASE Head(signals) = "ShouldSend"
    <3>1. pc' = "check"
      BY <1>7, <2>3 DEF ReceiveSignal
    <3> QED
      BY <1>2, <1>6, <1>7, <2>2, <2>3, <3>1, SendReceived DEF SentInv, HandlerKnowsItIsDone
  <2>4. CASE Head(signals) = "InvocationDone"
    <3>1. ~HasDone(signals')
      BY <1>2, <1>7, <2>4, DoneTail DEF ReceiveSignal
    <3>2. AllSent(Handled)'
      BY <1>2, <1>6, <1>7, <2>2, <2>4, SendReceived
    <3> QED
      BY <3>1, <3>2 DEF SentInv
  <2> QED
    BY <2>1, <2>3, <2>4 DEF Signal
<1>8. CASE CheckShouldSend
  <2>1. MutexFree /\ pc = "check" /\ pc' = "recv" /\ signals' = signals
    BY <1>8 DEF CheckShouldSend, SendTelemetry, SendAfterInvocation, coordination
  <2>2. Handled # 0
    BY <2>1, HandlerNumbers DEF HandlerInv, ShutdownSteps
  <2>3. ASSUME HasDone(signals) PROVE AllSent(Handled)'
    <3>1. CASE SendTelemetry
      <4> DEFINE h == Handled
      <4>1. h' = h /\ Due(h)' \subseteq Due(h) /\ Seen("PlatformRuntimeDone", h)
        BY <1>1, <1>2, <1>3, <1>5, <2>2, <2>3, DueStays
      <4>2. \A i \in Due(h) : SentLog(i)'
        BY <2>1, <3>1, <4>1, DueLogsAreSent
      <4> HIDE DEF h
      <4>3. AllSent(h)'
        BY <4>1, <4>2 DEF AllSent
      <4> QED
        BY <4>3 DEF h
    <3>2. CASE ~SendTelemetry
      <4>1. ~should_send
        BY <1>8, <3>2 DEF CheckShouldSend
      <4> QED
        BY <1>2, <1>6, <2>2, <2>3, <4>1 DEF SendComes
    <3> QED
      BY <3>1, <3>2
  <2> QED
    BY <2>1, <2>3 DEF SentInv, HandlerKnowsItIsDone
<1>9. CASE ~ReceiveSignal /\ ~CheckShouldSend
  <2>1. /\ pc \notin {"check", "recv"} /\ signals' \in {signals, <<>>}
        /\ HandlerKnowsItIsDone' => HandlerKnowsItIsDone
    BY <1>1, <1>4, <1>9
    DEF HandlerStep, ObtainFunctionContext, DrainSignals, EnqueueInvokeEvent, ForbidOtel,
        AwaitInFlightSends, AwaitTimesOut, PermitOtel, GraceElapses, FinishShutdown, coordination,
        HandlerKnowsItIsDone
  <2>2. ~HasDone(signals')
    <3>1. ~HasDone(<<>>)
      BY DEF HasDone
    <3> QED
      BY <1>2, <2>1, <3>1
  <2>3. HandlerKnowsItIsDone => Handled # 0 /\ Seen("PlatformRuntimeDone", Handled)
    <3> SUFFICES ASSUME HandlerKnowsItIsDone
                 PROVE  Handled # 0 /\ Seen("PlatformRuntimeDone", Handled)
      OBVIOUS
    <3>1. Handled # 0 /\ Answered = Handled
      BY HandlerNumbers DEF HandlerKnowsItIsDone, HandlerInv, ShutdownSteps, Answered
    <3> QED
      BY <1>1, <1>3, <3>1 DEF SignalInv
  <2> QED
    BY <1>2, <1>6, <2>1, <2>2, <2>3 DEF SentInv
<1> QED
  BY <1>7, <1>8, <1>9

\* Each step.
LEMMA SentStep ==
  ASSUME AnswerInv, AnswerInv', RunsDry, HeldInv, LogsFlowInOrder, DelayEnds, SentInv,
         PairingConditions, LogMode = "Structured", [InstanceNext]_vars
  PROVE  SentInv'
<1> SUFFICES ASSUME SendAfterInvocation, ~shutdown_flush_started' PROVE SentInv'
  BY DEF SentInv
<1> USE DEF AnswerInv, PairingBase, TypeInv
<1>1. FrontMovesOn /\ ~shutdown_flush_started
  BY AlwaysOrderly, MovesOn
<1>2. /\ signals \in Seq(Signal) /\ TypeOK
      /\ invocation_done \/ HasDone(signals) =>
           pc \in {"check", "recv"} /\ Seen("PlatformRuntimeDone", Handled)
      /\ HasDone(signals) => AllSent(Handled) \/ SendComes
      /\ HandlerKnowsItIsDone => AllSent(Handled)
  BY <1>1 DEF SignalInv, SentInv, TypeOK, CoordinationTypes
<1>3. CASE ServiceStep /\ HandlerStep
  BY <1>1, <1>3, HandlerSends
<1>4. CASE DeliverInvoke \/ DeliverShutdown
  <2>1. pc = "ready" /\ pc' \in {"context", "grace", "flush"} /\ signals' = signals
    BY <1>4 DEF DeliverInvoke, DeliverShutdown, StartInvoke, StartShutdown, coordination
  <2> QED
    BY <1>2, <2>1 DEF SentInv, HandlerKnowsItIsDone
<1>5. CASE FinishProcessing /\ invocation_done
  <2>1. pc' = pc
    BY <1>5 DEF FinishProcessing, handler
  <2> QED
    BY <1>2, <1>5, <2>1, DoneIsSignalledLast DEF SentInv, HandlerKnowsItIsDone
<1>6. CASE SignalsAdded
  <2>1. Handled' = Handled /\ pc' = pc /\ sent'.logs = sent.logs
    BY <1>6 DEF SignalsAdded, Handled
  <2>2. HasDone(signals') => HasDone(signals)
    BY <1>2, <1>6, DoneAppend DEF SignalsAdded
  <2>3. ASSUME HasDone(signals) \/ HandlerKnowsItIsDone
        PROVE  Handled # 0 /\ Seen("PlatformRuntimeDone", Handled)
    <3>1. pc \notin {"ready"} \cup ShutdownSteps
      BY <1>2, <2>3 DEF HandlerKnowsItIsDone, ShutdownSteps
    <3>2. Handled # 0 /\ Handled \in Nat
      BY <3>1, HandlerNumbers, RequestNumbers DEF HandlerInv, Handled
    <3>3. CASE HandlerKnowsItIsDone
      <4>1. Answered = Handled
        BY <3>3 DEF HandlerKnowsItIsDone, Answered
      <4> QED
        BY <1>1, <3>2, <4>1 DEF SignalInv
    <3> QED
      BY <1>2, <2>3, <3>2, <3>3
  <2>4. Pos <= Len(stream) /\ Handled \in Nat
    BY <1>1, PosFacts, RequestNumbers DEF Handled
  <2>5. (HasDone(signals) \/ HandlerKnowsItIsDone) /\ AllSent(Handled) => AllSent(Handled)'
    BY <1>1, <1>2, <2>1, <2>3, <2>4, AllStaysSent
  <2>6. SendComes => SendComes'
    BY <1>2, <1>6, SendStillComes
  <2> QED
    BY <1>2, <2>1, <2>2, <2>5, <2>6 DEF SentInv, HandlerKnowsItIsDone
<1> QED
  BY <1>1, <1>3, <1>4, <1>5, <1>6, OthersAddSignals

\* What reporting after the invocation is for: when the handler stops waiting, the logs of all
\* that was written before the function returned are in a batch, the late logs of the init and
\* those that waited for a span too (finish_processing, handle_invoke_event).
THEOREM SentBeforeReady ==
  PairingConditions /\ "Function" \notin LossyKinds /\ InstanceSpec => []AllSentBeforeReady
<1>1. ASSUME PairingConditions, "Function" \notin LossyKinds, LogMode = "Structured"
      PROVE  InstanceSpec => []AllSentBeforeReady
  <2>1. PipeConditions
    BY <1>1 DEF PipeConditions, PairingConditions, DeliveryConditions, Milestones
  <2> DEFINE Inv == FlowInv /\ AnswerInv /\ RunsDry /\ DelayEnds /\ SentInv
  <2>2. InstanceInit => Inv
    <3> SUFFICES ASSUME InstanceInit PROVE Inv
      OBVIOUS
    <3>1. /\ telemetry_event_queue = <<>> /\ invocation_state = NoInvocation
          /\ signals = <<>> /\ pc = "ready"
      BY DEF InstanceInit, Init
    <3>2. Len(<<>>) = 0
      OBVIOUS
    <3> QED
      BY <3>1, <3>2, FlowInit, AnswerInit
      DEF RunsDry, DelayEnds, SentInv, HasDone, HandlerKnowsItIsDone
  <2>3. LogsFlowInOrder /\ Inv /\ [InstanceNext]_vars => Inv'
    <3> SUFFICES ASSUME LogsFlowInOrder, Inv, [InstanceNext]_vars PROVE Inv'
      OBVIOUS
    <3>1. AnswerInv'
      BY <1>1, AlwaysOrderly, AnswerStep DEF AnswerInv
    <3>2. FlowInv'
      BY <2>1, FlowInvStep
    <3>3. RunsDry'
      BY <1>1, AlwaysOrderly, RunsDryStep DEF AnswerInv
    <3>4. DelayEnds'
      BY <1>1, DelayEndsStep
    <3>5. SentInv'
      BY <1>1, <3>1, SentStep DEF FlowInv
    <3> QED
      BY <3>1, <3>2, <3>3, <3>4, <3>5
  <2>4. Inv => AllSentBeforeReady
    <3> SUFFICES ASSUME Inv, SendAfterInvocation, HandlerKnowsItIsDone,
                        NEW i \in DOMAIN stream, IsFunctionLog(stream[i]),
                        NEW j \in DOMAIN stream, j > i,
                        stream[j].kind = "PlatformRuntimeDone", stream[j].req = current
                 PROVE  \E k \in DOMAIN sent.logs : sent.logs[k].id = i
      BY DEF AllSentBeforeReady
    <3> USE DEF AnswerInv, PairingBase, TypeInv
    <3>1. pc \notin {"ready"} \cup ShutdownSteps /\ ~shutdown_flush_started
      BY DEF HandlerKnowsItIsDone, FlushOnce, ShutdownSteps
    <3>2. Handled = current /\ current > 0 /\ current \in Requests
      BY <3>1, HandlerNumbers, RequestNumbers DEF HandlerInv, PlatformInv
    <3>3. DOMAIN stream = 1..Len(stream) /\ DOMAIN sent.logs = 1..Len(sent.logs)
      BY DEF PlatformInv, TypeOK, SendTypes, OutputBuffers
    <3>4. i \in Due(Handled)
      BY <3>2, <3>3 DEF Due, Is, ReqAt
    <3> QED
      BY <3>1, <3>3, <3>4 DEF SentInv, AllSent, SentLog
  <2>5. InstanceSpec => []LogsFlowInOrder
    BY <2>1, LogsInOrder
  <2> QED
    BY <2>2, <2>3, <2>4, <2>5, PTL DEF InstanceSpec
<1>2. ASSUME LogMode # "Structured" PROVE InstanceSpec => []AllSentBeforeReady
  <2>1. AllSentBeforeReady
    BY <1>2 DEF AllSentBeforeReady
  <2> QED
    BY <2>1, PTL
<1> QED
  BY <1>1, <1>2

=============================================================================
