-------------------------------- MODULE Exporter --------------------------------
(***************************************************************************)
(* main.rs: how the process starts, for each environment, and what becomes *)
(* of it when something fails; the senders it builds and where they send;  *)
(* the context that the handlers of the running extension obtain.          *)
(***************************************************************************)
EXTENDS AppConfig, FunctionContext

CONSTANTS
  Environments  \* the environments that the process may be started in

VARIABLES
  env,        \* the environment
  process,    \* whether the process runs, crashed or ended by a signal
  pc,         \* what main does next
  config,     \* what was loaded from env
  senders,    \* the senders built so far
  sockets,    \* the ports with an open listener
  stopped,    \* the OTLP servers that stopped
  extension,  \* which extension was spawned, and what became of it
  event,      \* the event that the extension handles
  obtained    \* history: an invocation obtained a context

mainVars == <<env, process, pc, config, senders, sockets, stopped, extension, event, obtained>>
vars == <<mainVars, contextVars>>

Ports == {4317, 4318}

NoSender == [type |-> None, target |-> NoTarget]
NoSenders == [s \in Pillars \cup {"main"} |-> NoSender]

Init ==
  /\ env \in Environments
  /\ process = "runs" /\ pc = "crypto"
  /\ config = <<>>
  /\ senders = NoSenders
  /\ sockets = {} /\ stopped = {}
  /\ extension = [kind |-> "none", state |-> "none"]
  /\ event = "none" /\ obtained = FALSE
  /\ ContextInit

-----------------------------------------------------------------------------
(* Errors.                                                                 *)

\* ErrorHandlingMode::from_env
Crashes ==
  LET mode == <<"CX", "ERROR_HANDLING">>
  IN mode \in DOMAIN env /\ env[mode] = "crash"

\* handle_error: the error is logged, or the process aborts.
HandleError == process' = IF Crashes THEN "crashed" ELSE process

\* start_telemetry_exporter is at a step, and goes on with another.
GoesOn(from, to) == process = "runs" /\ pc = from /\ pc' = to

\* Mutant of Fails: the listeners outlive the error.
FailsListening(from) ==
  /\ GoesOn(from, "failed")
  /\ senders' = NoSenders
  /\ UNCHANGED <<env, process, config, sockets, stopped, extension, event, obtained, contextVars>>

\* It returns an error, and all it has made is dropped.
Fails(from) ==
  /\ GoesOn(from, "failed")
  /\ senders' = NoSenders /\ sockets' = {}
  /\ UNCHANGED <<env, process, config, stopped, extension, event, obtained, contextVars>>

-----------------------------------------------------------------------------
(* start_telemetry_exporter.                                               *)

InstallCryptoProvider ==
  \/ Fails("crypto")
  \/ /\ GoesOn("crypto", "environment")
     /\ UNCHANGED <<env, process, config, senders, sockets, stopped, extension, event,
                    obtained, contextVars>>

RequiredEnvVars ==
  {<<"AWS", "REGION">>, <<"AWS_LAMBDA", "FUNCTION_NAME">>, <<"AWS_LAMBDA", "FUNCTION_VERSION">>}

GetRequiredEnvVars ==
  IF RequiredEnvVars \subseteq DOMAIN env
  THEN /\ GoesOn("environment", "config")
       /\ UNCHANGED <<env, process, config, senders, sockets, stopped, extension, event,
                      obtained, contextVars>>
  ELSE Fails("environment")

LoadConfig ==
  IF Accepts(env)
  THEN /\ GoesOn("config", "main")
       /\ config' = Load(env)
       /\ UNCHANGED <<env, process, senders, sockets, stopped, extension, event, obtained,
                      contextVars>>
  ELSE Fails("config")

\* The steps that build senders, in order.
AfterBuilding == [main |-> "logs", logs |-> "traces", traces |-> "metrics", metrics |-> "grpc"]

TargetOf(s) == IF s = "main" THEN config.main ELSE config.pillar[s]

SenderType(s) ==
  IF s # "main" THEN "Pillar"
  ELSE IF config.main.kind = "Firehose" THEN "Firehose"
  ELSE IF config.combined_telemetry_enabled THEN "Combined"
  ELSE "Coralogix"

\* Without a target there is no sender.  The API key cannot be fetched or the
\* client cannot be made, except for Firehose.
BuildSender(s) ==
  \/ /\ TargetOf(s).kind \notin {None, "Firehose"}
     /\ Fails(s)
  \/ /\ GoesOn(s, AfterBuilding[s])
     /\ senders' = IF TargetOf(s).kind = None THEN senders
                   ELSE [senders EXCEPT ![s] = [type |-> SenderType(s), target |-> TargetOf(s)]]
     /\ UNCHANGED <<env, process, config, sockets, stopped, extension, event, obtained,
                    contextVars>>

\* Mutant of Bind: the server binds its port when it runs.
BindLater(port, from, to) ==
  /\ GoesOn(from, to)
  /\ UNCHANGED <<env, process, config, senders, sockets, stopped, extension, event, obtained,
                 contextVars>>

\* The port may be in use.
Bind(port, from, to) ==
  \/ config.otlp_server_enabled /\ Fails(from)
  \/ /\ GoesOn(from, to)
     /\ sockets' = IF config.otlp_server_enabled THEN sockets \cup {port} ELSE sockets
     /\ UNCHANGED <<env, process, config, senders, stopped, extension, event, obtained,
                    contextVars>>

BindGrpc == pc = "grpc" /\ Bind(4317, "grpc", "http")
BindHttp == pc = "http" /\ Bind(4318, "http", "spawn")

SpawnExtension ==
  /\ GoesOn("spawn", "waiting")
  /\ extension' = [kind |-> "real", state |-> "spawned"]
  /\ UNCHANGED <<env, process, config, senders, sockets, stopped, event, obtained, contextVars>>

\* Mutant of HandleStartError: the error is only logged.
LogStartError ==
  /\ GoesOn("failed", "waiting")
  /\ HandleError
  /\ UNCHANGED <<env, config, senders, sockets, stopped, extension, event, obtained, contextVars>>

\* main: the error is handled and, if the process survives that, the dummy started.
HandleStartError ==
  /\ GoesOn("failed", "waiting")
  /\ HandleError
  /\ extension' = IF Crashes THEN extension ELSE [kind |-> "dummy", state |-> "spawned"]
  /\ UNCHANGED <<env, config, senders, sockets, stopped, event, obtained, contextVars>>

Start ==
  \/ InstallCryptoProvider
  \/ pc = "environment" /\ GetRequiredEnvVars
  \/ pc = "config" /\ LoadConfig
  \/ \E s \in DOMAIN AfterBuilding : pc = s /\ BuildSender(s)
  \/ BindGrpc \/ BindHttp
  \/ SpawnExtension
  \/ HandleStartError

-----------------------------------------------------------------------------
(* The process after its start: the tasks it spawned, and signals.         *)

Waits == process = "runs" /\ pc = "waiting"

\* Extension::run registers the extension, then asks for events.
Register ==
  /\ Waits /\ extension.state = "spawned"
  /\ extension' = [extension EXCEPT !.state = "registered"]
  /\ UNCHANGED <<env, process, pc, config, senders, sockets, stopped, event, obtained,
                 contextVars>>

ExtensionStops ==
  /\ Waits /\ extension.state \in {"spawned", "registered"}
  /\ extension' = [extension EXCEPT !.state = "stopped"]
  /\ HandleError
  /\ UNCHANGED <<env, pc, config, senders, sockets, stopped, event, obtained, contextVars>>

ServerStops(port) ==
  /\ Waits /\ port \in sockets
  /\ sockets' = sockets \ {port} /\ stopped' = stopped \cup {port}
  /\ HandleError
  /\ UNCHANGED <<env, pc, config, senders, extension, event, obtained, contextVars>>

Signal ==
  /\ Waits
  /\ process' = "exited"
  /\ UNCHANGED <<env, pc, config, senders, sockets, stopped, extension, event, obtained,
                 contextVars>>

-----------------------------------------------------------------------------
(* The events of the extension, as far as they concern its context.        *)

Handles(e) == Waits /\ extension = [kind |-> "real", state |-> "registered"] /\ event = e

UnchangedMain ==
  UNCHANGED <<env, process, pc, config, senders, sockets, stopped, extension>>

ReceiveInvoke ==
  /\ Handles("none") /\ event' = "invoke"
  /\ UnchangedMain /\ UNCHANGED <<obtained, contextVars>>

FetchTags ==
  /\ Handles("invoke") /\ config.tags_enabled /\ StartFetchingTags
  /\ UnchangedMain /\ UNCHANGED <<event, obtained>>

ObtainFunctionContext ==
  /\ Handles("invoke")
  /\ \/ AnswerFromCache
     \/ ~config.tags_enabled /\ ObtainWithoutTags
     \/ FinishFetchingTags
  /\ event' = "none" /\ obtained' = TRUE
  /\ UnchangedMain

FailInvoke ==
  /\ Handles("invoke") /\ FailToParseArn
  /\ event' = "none"
  /\ HandleError
  /\ UNCHANGED <<env, pc, config, senders, sockets, stopped, extension, obtained>>

Shutdown ==
  /\ Handles("none") /\ AnswerEvenIfDegraded
  /\ event' = "shutdown"
  /\ UnchangedMain /\ UNCHANGED obtained

Tick == Handles(event) /\ ContextTick /\ UNCHANGED mainVars

Run ==
  \/ Register \/ ExtensionStops \/ Signal
  \/ \E port \in Ports : ServerStops(port)
  \/ ReceiveInvoke \/ FetchTags \/ ObtainFunctionContext \/ FailInvoke \/ Shutdown
  \/ Tick

Next == Start \/ Run

\* main is a sequential program: it goes on as long as it is not done.
Spec == Init /\ [][Next]_vars /\ WF_vars(Start)

-----------------------------------------------------------------------------
(* CompositeTelemetrySender, and the senders behind it.                    *)

\* The items of a batch, and the pillar that they belong to.
PillarOf == [logs |-> "logs", spans |-> "traces", metrics |-> "metrics"]
Items == DOMAIN PillarOf \cup {"epsagon_traces"}

\* Which items a main sender sends: the OTLP ones have no place for Epsagon's.
Carries(type) == IF type = "Firehose" THEN Items ELSE DOMAIN PillarOf

\* send_telemetry: a pillar with a sender is taken out of the batch, the rest goes
\* to the main sender if there is one.  The result is what is sent where.
SendTelemetry(batch) ==
  LET taken == {i \in batch \cap DOMAIN PillarOf : senders[PillarOf[i]] # NoSender}
      rest == batch \ taken
      main == senders["main"]
  IN {<<i, senders[PillarOf[i]].target>> : i \in taken}
       \cup (IF main = NoSender THEN {} ELSE {<<i, main.target>> : i \in rest \cap Carries(main.type)})

\* What the telemetry processor puts out in the modes of the configuration.
Emitted ==
  {i \in Items :
     CASE i \in {"logs", "epsagon_traces"} -> config.log_mode = "Structured"
       [] i = "spans" -> config.tracing_mode # "Disabled"
       [] i = "metrics" -> \/ config.platform_metrics_mode # "Disabled"
                           \/ config.otel_metrics_mode # "Disabled"}

-----------------------------------------------------------------------------

TypeOK ==
  /\ process \in {"runs", "crashed", "exited"}
  /\ config = <<>> \/ config = Load(env)
  /\ sockets \subseteq Ports /\ stopped \subseteq Ports
  /\ extension.kind \in {"none", "real", "dummy"}
  /\ extension.state \in {"none", "spawned", "registered", "stopped"}
  /\ event \in {"none", "invoke", "shutdown"}
  /\ obtained \in BOOLEAN
  /\ ContextTypeOK

\* extract_target_configs and CompositeTelemetrySender agree: whatever environment
\* was accepted, all the logs, spans and metrics that its modes let the processor put
\* out go to exactly one place, that of their pillar if there is one, in every batch.
EmittedIsRouted ==
  extension.kind = "real" =>
    \A batch \in SUBSET Emitted : \A i \in batch \cap DOMAIN PillarOf :
      LET own == config.pillar[PillarOf[i]]
          place == IF own # NoTarget THEN own ELSE config.main
      IN place # NoTarget /\ {d \in SendTelemetry(batch) : d[1] = i} = {<<i, place>>}

\* When the extension is registered the OTLP sockets are open, unless a server
\* stopped in the meantime: the function may connect as soon as it is started.
SocketsOpenBeforeRegistration ==
  extension = [kind |-> "real", state |-> "registered"] /\ config.otlp_server_enabled =>
    Ports \subseteq sockets \cup stopped

\* A start that fails half way leaves no open socket that nobody serves: the OTLP
\* exporter of the function is refused and does not wait for an answer.
DummyHoldsNothing == extension.kind = "dummy" => sockets = {} /\ senders = NoSenders

\* on_invoke_event: what an invocation gets, tags or the failure to fetch them, was
\* true when it asked or later, or not longer before than the validity of the cache
\* and the time of a fetch.
ContextIsRecent ==
  event = "none" /\ obtained =>
    \/ answer.context.read >= answer.asked
    \/ answer.context.read >= answer.asked - TagCacheValidity - MaxFetchTime

\* get_function_context_even_if_degraded: a context that an invocation obtained is
\* never lost, although it expires and a later attempt to renew it fails.
ContextNotForgotten == event = "shutdown" /\ obtained => ~answer.context.degraded

\* Whatever is wrong with the environment, and wherever the start fails, some
\* extension is started, or the function would not run; unless crashes are asked for.
ExtensionStarts == ~Crashes => <>(extension.kind # "none")

=============================================================================
