----------------------------- MODULE ExporterProofs -----------------------------
(***************************************************************************)
(* What holds of the exporter in every environment.  The start is a        *)
(* sequence of steps, so the invariant says for each step what was built   *)
(* before it; the routing of telemetry then follows from the checks of     *)
(* AppConfig::load.                                                        *)
(***************************************************************************)
EXTENDS Exporter, TLAPS

-----------------------------------------------------------------------------
(* Routing.                                                                *)

\* What the start makes of the target of a sender.
Built(s) ==
  IF TargetOf(s).kind = None THEN NoSender ELSE [type |-> SenderType(s), target |-> TargetOf(s)]

\* A configuration that was accepted, and the senders made of it.
Configured ==
  /\ Accepts(env) /\ config = Load(env)
  /\ senders = [s \in Pillars \cup {"main"} |-> Built(s)]

\* A target is none exactly if its kind says so.
LEMMA TargetKinds ==
  ASSUME config = Load(env)
  PROVE  /\ config.main.kind = None <=> config.main = NoTarget
         /\ \A p \in Pillars : config.pillar[p].kind = None <=> config.pillar[p] = NoTarget
<1>1. config.main = MainTarget(env)
  BY DEF Load
<1>2. config.main.kind = None <=> config.main = NoTarget
  BY <1>1 DEF MainTarget, NoTarget, None
<1>3. ASSUME NEW p \in Pillars PROVE config.pillar[p].kind = None <=> config.pillar[p] = NoTarget
  <2>1. config.pillar[p] = PillarTarget(env, p)
    BY <1>3 DEF Load
  <2> QED BY <2>1 DEF PillarTarget, NoTarget, None
<1> QED BY <1>2, <1>3

\* extract_target_configs: what the processor puts out has a target.
LEMMA EmittedHasTarget ==
  ASSUME Accepts(env), config = Load(env), NEW i \in Emitted, i \in DOMAIN PillarOf
  PROVE  config.main # NoTarget \/ config.pillar[PillarOf[i]] # NoTarget
<1>1. PillarOf[i] \in EnabledPillars(env)
  <2>1. i \in {"logs", "spans", "metrics"}
    BY DEF PillarOf
  <2>2. CASE i = "logs"
    BY <2>2 DEF Emitted, PillarOf, EnabledPillars, Pillars, Load
  <2>3. CASE i = "spans"
    BY <2>3 DEF Emitted, PillarOf, EnabledPillars, Pillars, Load
  <2>4. CASE i = "metrics"
    BY <2>4 DEF Emitted, PillarOf, EnabledPillars, Pillars, Load
  <2> QED BY <2>1, <2>2, <2>3, <2>4
<1>2. MainTarget(env) # NoTarget \/ PillarTarget(env, PillarOf[i]) # NoTarget
  BY <1>1 DEF Accepts, MissingTarget
<1>3. config.main = MainTarget(env)
  BY DEF Load
<1>4. config.pillar[PillarOf[i]] = PillarTarget(env, PillarOf[i])
  BY <1>1 DEF Load, EnabledPillars
<1> QED BY <1>2, <1>3, <1>4

\* Whatever an accepted configuration emits has exactly one target.
LEMMA Routing ==
  ASSUME Configured PROVE EmittedIsRouted
<1> SUFFICES ASSUME NEW batch \in SUBSET Emitted, NEW i \in batch \cap DOMAIN PillarOf
             PROVE  LET own == config.pillar[PillarOf[i]]
                        place == IF own # NoTarget THEN own ELSE config.main
                    IN /\ place # NoTarget
                       /\ {d \in SendTelemetry(batch) : d[1] = i} = {<<i, place>>}
  BY DEF EmittedIsRouted
<1> DEFINE p == PillarOf[i]
           own == config.pillar[p]
           place == IF own # NoTarget THEN own ELSE config.main
           taken == {j \in batch \cap DOMAIN PillarOf : senders[PillarOf[j]] # NoSender}
           main == senders["main"]
<1>1. /\ i \in {"logs", "spans", "metrics"} /\ p \in Pillars /\ p # "main"
      /\ i \in Items /\ i \in DOMAIN PillarOf
  BY DEF PillarOf, Pillars, Items
<1>2. config = Load(env) /\ Accepts(env)
  BY DEF Configured
<1>3. senders[p] = IF own = NoTarget THEN NoSender ELSE [type |-> "Pillar", target |-> own]
  <2>1. senders[p] = Built(p)
    BY <1>1 DEF Configured
  <2>2. TargetOf(p) = own /\ SenderType(p) = "Pillar"
    BY <1>1 DEF TargetOf, SenderType
  <2>3. own.kind = None <=> own = NoTarget
    BY <1>1, <1>2, TargetKinds
  <2> QED BY <2>1, <2>2, <2>3 DEF Built
<1>4. /\ main = NoSender <=> config.main = NoTarget
      /\ config.main # NoTarget => main.target = config.main
  <2>1. main = Built("main")
    BY DEF Configured
  <2>2. TargetOf("main") = config.main /\ SenderType("main") # None
    BY DEF TargetOf, SenderType, None
  <2>3. config.main.kind = None <=> config.main = NoTarget
    BY <1>2, TargetKinds
  <2> QED BY <2>1, <2>2, <2>3 DEF Built, NoSender
<1>5. i \in taken <=> own # NoTarget
  BY <1>1, <1>3 DEF NoSender, None
<1>6. i \in Carries(main.type)
  BY <1>1 DEF Carries
<1>7. place # NoTarget
  BY <1>1, <1>2, EmittedHasTarget
<1>8. CASE own # NoTarget
  <2>1. i \in taken /\ senders[p].target = own /\ place = own
    BY <1>3, <1>5, <1>8
  <2>2. SendTelemetry(batch) =
          {<<j, senders[PillarOf[j]].target>> : j \in taken}
            \cup (IF main = NoSender THEN {}
                  ELSE {<<j, main.target>> : j \in (batch \ taken) \cap Carries(main.type)})
    BY DEF SendTelemetry
  <2> HIDE DEF taken, main
  <2>3. \A d \in SendTelemetry(batch) : d[1] = i => d = <<i, own>>
    BY <2>1, <2>2
  <2>4. <<i, own>> \in SendTelemetry(batch)
    BY <2>1, <2>2
  <2> QED BY <1>7, <2>1, <2>3, <2>4
<1>9. CASE own = NoTarget
  <2>1. i \notin taken /\ main # NoSender /\ main.target = place /\ i \in batch \ taken
    BY <1>4, <1>5, <1>7, <1>9
  <2>2. SendTelemetry(batch) =
          {<<j, senders[PillarOf[j]].target>> : j \in taken}
            \cup {<<j, main.target>> : j \in (batch \ taken) \cap Carries(main.type)}
    BY <2>1 DEF SendTelemetry
  <2> HIDE DEF taken, main, place
  <2>3. \A d \in SendTelemetry(batch) : d[1] = i => d = <<i, place>>
    BY <2>1, <2>2
  <2>4. <<i, place>> \in SendTelemetry(batch)
    BY <1>6, <2>1, <2>2
  <2>5. {d \in SendTelemetry(batch) : d[1] = i} = {<<i, place>>}
    BY <2>3, <2>4
  <2> QED BY <1>7, <2>5 DEF place
<1> QED BY <1>8, <1>9

-----------------------------------------------------------------------------
(* The start.                                                              *)

Building == {"main", "logs", "traces", "metrics", "grpc", "http", "spawn"}

\* The senders that are built before a step.
BuiltBefore(step) ==
  CASE step = "main" -> {}
    [] step = "logs" -> {"main"}
    [] step = "traces" -> {"main", "logs"}
    [] step = "metrics" -> {"main", "logs", "traces"}
    [] step \in {"grpc", "http", "spawn"} -> {"main", "logs", "traces", "metrics"}

StartInv ==
  /\ process \in {"runs", "crashed", "exited"}
  /\ pc \in {"crypto", "environment", "config", "failed", "waiting"} \cup Building
  /\ config = <<>> \/ config = Load(env)
  /\ sockets \subseteq Ports /\ stopped \subseteq Ports
  /\ extension \in [kind : {"none", "real", "dummy"},
                    state : {"none", "spawned", "registered", "stopped"}]
  /\ pc # "waiting" => extension.kind = "none"
  /\ pc \in {"crypto", "environment", "config"} => senders = NoSenders
  /\ pc \in Building =>
       /\ Accepts(env) /\ config = Load(env)
       /\ senders = [s \in Pillars \cup {"main"} |->
                       IF s \in BuiltBefore(pc) THEN Built(s) ELSE NoSender]
  /\ config.otlp_server_enabled =>
       /\ pc = "http" => 4317 \in sockets
       /\ pc = "spawn" => Ports \subseteq sockets
       /\ extension.kind = "real" => Ports \subseteq sockets \cup stopped
  /\ extension.kind = "real" => Configured
  /\ pc = "failed" \/ extension.kind = "dummy" => sockets = {} /\ senders = NoSenders

\* What the state of the start depends on.
startVars == <<env, process, pc, config, senders, sockets, stopped, extension>>

\* The invariant of the start rests on the variables of the start only.
LEMMA StartInvStable ==
  ASSUME StartInv, UNCHANGED startVars PROVE StartInv'
<1>1. \A s \in Pillars \cup {"main"} : Built(s)' = Built(s)
  BY DEF startVars, Built, TargetOf, SenderType
<1>2. Configured' <=> Configured
  BY <1>1 DEF startVars, Configured
<1> QED BY <1>1, <1>2 DEF StartInv, startVars

\* An error during the start.
LEMMA FailsStep ==
  ASSUME StartInv, NEW step, step \notin {"waiting", "failed"}, Fails(step) PROVE StartInv'
<1>1. /\ pc # "waiting" /\ pc' = "failed" /\ extension' = extension
      /\ senders' = NoSenders /\ sockets' = {}
      /\ env' = env /\ process' = process /\ config' = config /\ stopped' = stopped
  BY DEF Fails, GoesOn
<1>2. extension.kind = "none"
  BY <1>1 DEF StartInv
<1> QED BY <1>1, <1>2 DEF StartInv, Building

\* Building a sender adds the one its target needs, or fails.
LEMMA BuildSenderStep ==
  ASSUME StartInv, NEW s \in DOMAIN AfterBuilding, pc = s, BuildSender(s) PROVE StartInv'
<1>0. s \in {"main", "logs", "traces", "metrics"} /\ s \in Pillars \cup {"main"}
  BY DEF AfterBuilding, Pillars
<1>1. CASE Fails(s)
  BY <1>0, <1>1, FailsStep
<1>2. CASE /\ GoesOn(s, AfterBuilding[s])
           /\ senders' = IF TargetOf(s).kind = None THEN senders
                         ELSE [senders EXCEPT ![s] = [type |-> SenderType(s), target |-> TargetOf(s)]]
           /\ UNCHANGED <<env, process, config, sockets, stopped, extension, event, obtained,
                          contextVars>>
  <2>1. /\ pc' \in {"logs", "traces", "metrics", "grpc"} /\ pc' = AfterBuilding[s]
        /\ BuiltBefore(pc') = BuiltBefore(pc) \cup {s} /\ s \notin BuiltBefore(pc)
    BY <1>0, <1>2 DEF GoesOn, AfterBuilding, BuiltBefore
  <2>2. \A t : Built(t)' = Built(t)
    BY <1>2 DEF Built, TargetOf, SenderType
  <2>3. senders = [t \in Pillars \cup {"main"} |->
                     IF t \in BuiltBefore(pc) THEN Built(t) ELSE NoSender]
    BY <1>0 DEF StartInv, Building
  <2>4. senders' = [t \in Pillars \cup {"main"} |-> IF t = s THEN Built(s) ELSE senders[t]]
    BY <1>0, <1>2, <2>1, <2>3 DEF Built
  <2>5. senders' = [t \in Pillars \cup {"main"} |->
                      IF t \in BuiltBefore(pc') THEN Built(t)' ELSE NoSender]
    BY <2>1, <2>2, <2>3, <2>4
  <2>6. Accepts(env) /\ config = Load(env) /\ extension.kind = "none"
    BY <1>0 DEF StartInv, Building
  <2> QED BY <1>2, <2>1, <2>5, <2>6 DEF StartInv, Building
<1> QED BY <1>1, <1>2 DEF BuildSender

\* Sockets are opened one by one.
LEMMA BindStep ==
  ASSUME StartInv, BindGrpc \/ BindHttp PROVE StartInv'
<1>1. CASE Fails("grpc") \/ Fails("http")
  BY <1>1, FailsStep
<1>2. CASE ~Fails("grpc") /\ ~Fails("http")
  <2>1. PICK port \in Ports :
          /\ \/ pc = "grpc" /\ port = 4317 /\ pc' = "http"
             \/ pc = "http" /\ port = 4318 /\ pc' = "spawn"
          /\ sockets' = IF config.otlp_server_enabled THEN sockets \cup {port} ELSE sockets
          /\ UNCHANGED <<env, process, config, senders, stopped, extension>>
    BY <1>2 DEF BindGrpc, BindHttp, Bind, GoesOn, Ports
  <2>2. BuiltBefore(pc') = BuiltBefore(pc)
    BY <2>1 DEF BuiltBefore
  <2>3. \A t : Built(t)' = Built(t)
    BY <2>1 DEF Built, TargetOf, SenderType
  <2>4. /\ Accepts(env) /\ config = Load(env) /\ extension.kind = "none"
        /\ senders = [t \in Pillars \cup {"main"} |->
                        IF t \in BuiltBefore(pc) THEN Built(t) ELSE NoSender]
    BY <2>1 DEF StartInv, Building
  <2>5. senders' = [t \in Pillars \cup {"main"} |->
                      IF t \in BuiltBefore(pc') THEN Built(t)' ELSE NoSender]
    BY <2>1, <2>2, <2>3, <2>4
  <2>6. sockets' \subseteq Ports /\ stopped' \subseteq Ports
    BY <2>1 DEF StartInv
  <2>7. config'.otlp_server_enabled =>
          /\ pc' = "http" => 4317 \in sockets'
          /\ pc' = "spawn" => Ports \subseteq sockets'
    BY <2>1 DEF StartInv, Ports
  <2> QED BY <2>1, <2>4, <2>5, <2>6, <2>7 DEF StartInv, Building
<1> QED BY <1>1, <1>2

\* The extension is spawned when all its parts are there.
LEMMA SpawnExtensionStep ==
  ASSUME StartInv, SpawnExtension PROVE StartInv'
<1>1. /\ pc = "spawn" /\ pc' = "waiting" /\ extension' = [kind |-> "real", state |-> "spawned"]
      /\ UNCHANGED <<env, process, config, senders, sockets, stopped>>
  BY DEF SpawnExtension, GoesOn
<1>2. \A t : Built(t)' = Built(t)
  BY <1>1 DEF Built, TargetOf, SenderType
<1>3. BuiltBefore(pc) = Pillars \cup {"main"}
  BY <1>1 DEF BuiltBefore, Pillars
<1>4. /\ Accepts(env) /\ config = Load(env)
      /\ senders = [t \in Pillars \cup {"main"} |->
                      IF t \in BuiltBefore(pc) THEN Built(t) ELSE NoSender]
  BY <1>1 DEF StartInv, Building
<1>5. senders' = [t \in Pillars \cup {"main"} |-> Built(t)']
  BY <1>1, <1>2, <1>3, <1>4
<1>6. Configured'
  BY <1>1, <1>4, <1>5 DEF Configured
<1> QED BY <1>1, <1>6 DEF StartInv, Building

\* After an error, nothing that was made is kept.
LEMMA HandleStartErrorStep ==
  ASSUME StartInv, HandleStartError PROVE StartInv'
<1>1. /\ pc = "failed" /\ pc' = "waiting"
      /\ process' \in {"runs", "crashed"}
      /\ extension' = extension \/ extension' = [kind |-> "dummy", state |-> "spawned"]
      /\ UNCHANGED <<env, config, senders, sockets, stopped>>
  BY DEF HandleStartError, HandleError, GoesOn
<1>2. sockets = {} /\ senders = NoSenders /\ extension.kind = "none"
  BY <1>1 DEF StartInv
<1> QED BY <1>1, <1>2 DEF StartInv, Building

\* The steps of a process that waits leave the configuration and the senders alone.
LEMMA RunStep ==
  ASSUME StartInv, Run PROVE StartInv'
<1>1. /\ pc = "waiting" /\ pc' = pc
      /\ UNCHANGED <<env, config, senders>>
      /\ process' \in {"runs", "crashed", "exited"}
  BY DEF Run, Register, ExtensionStops, Signal, ServerStops, ReceiveInvoke, FetchTags,
         ObtainFunctionContext, FailInvoke, Shutdown, Tick, Handles, Waits, UnchangedMain,
         HandleError, mainVars
<1>2. \/ sockets' = sockets /\ stopped' = stopped
      \/ /\ sockets' \subseteq sockets /\ stopped' \subseteq Ports
         /\ sockets' \cup stopped' = sockets \cup stopped
         /\ extension' = extension
  <2>1. ASSUME NEW port \in Ports, ServerStops(port)
        PROVE  /\ sockets' \subseteq sockets /\ stopped' \subseteq Ports
               /\ sockets' \cup stopped' = sockets \cup stopped
               /\ extension' = extension
    BY <2>1 DEF ServerStops, StartInv
  <2>2. CASE ~\E port \in Ports : ServerStops(port)
    BY <2>2 DEF Run, Register, ExtensionStops, Signal, ReceiveInvoke, FetchTags,
       ObtainFunctionContext, FailInvoke, Shutdown, Tick, UnchangedMain, mainVars
  <2> QED BY <2>1, <2>2
<1>3. /\ extension' \in [kind : {"none", "real", "dummy"},
                         state : {"none", "spawned", "registered", "stopped"}]
      /\ extension'.kind = extension.kind
  <2>1. \/ extension' = extension
        \/ extension' = [extension EXCEPT !.state = "registered"]
        \/ extension' = [extension EXCEPT !.state = "stopped"]
    BY DEF Run, Register, ExtensionStops, Signal, ServerStops, ReceiveInvoke, FetchTags,
           ObtainFunctionContext, FailInvoke, Shutdown, Tick, UnchangedMain, mainVars
  <2>2. extension \in [kind : {"none", "real", "dummy"},
                       state : {"none", "spawned", "registered", "stopped"}]
    BY DEF StartInv
  <2> QED BY <2>1, <2>2
<1>4. \A t : Built(t)' = Built(t)
  BY <1>1 DEF Built, TargetOf, SenderType
<1>5. Configured' <=> Configured
  BY <1>1, <1>4 DEF Configured
<1> QED BY <1>1, <1>2, <1>3, <1>5 DEF StartInv, Building

\* Each step keeps the invariant of the start.
LEMMA StartInvPreserved ==
  ASSUME StartInv, [Next]_vars PROVE StartInv'
<1>1. CASE InstallCryptoProvider \/ (pc = "environment" /\ GetRequiredEnvVars)
           \/ (pc = "config" /\ LoadConfig)
  <2>1. CASE Fails("crypto") \/ Fails("environment") \/ Fails("config")
    BY <2>1, FailsStep
  <2>2. CASE /\ \/ pc = "crypto" /\ pc' = "environment"
                \/ pc = "environment" /\ pc' = "config"
             /\ UNCHANGED <<env, process, config, senders, sockets, stopped, extension>>
    BY <2>2 DEF StartInv, Building
  <2>3. CASE /\ pc = "config" /\ pc' = "main" /\ Accepts(env) /\ config' = Load(env)
             /\ UNCHANGED <<env, process, senders, sockets, stopped, extension>>
    <3>1. extension.kind = "none" /\ senders = NoSenders /\ BuiltBefore(pc') = {}
      BY <2>3 DEF StartInv, BuiltBefore
    <3>2. senders' = [s \in Pillars \cup {"main"} |->
                        IF s \in BuiltBefore(pc') THEN Built(s)' ELSE NoSender]
      BY <2>3, <3>1 DEF NoSenders
    <3> QED BY <2>3, <3>1, <3>2 DEF StartInv, Building
  <2>4. InstallCryptoProvider =>
          \/ Fails("crypto")
          \/ /\ pc = "crypto" /\ pc' = "environment"
             /\ UNCHANGED <<env, process, config, senders, sockets, stopped, extension>>
    BY DEF InstallCryptoProvider, GoesOn
  <2>5. GetRequiredEnvVars =>
          \/ Fails("environment")
          \/ /\ pc = "environment" /\ pc' = "config"
             /\ UNCHANGED <<env, process, config, senders, sockets, stopped, extension>>
    BY DEF GetRequiredEnvVars, GoesOn
  <2>6. LoadConfig =>
          \/ Fails("config")
          \/ /\ pc = "config" /\ pc' = "main" /\ Accepts(env) /\ config' = Load(env)
             /\ UNCHANGED <<env, process, senders, sockets, stopped, extension>>
    BY DEF LoadConfig, GoesOn
  <2> QED BY <1>1, <2>1, <2>2, <2>3, <2>4, <2>5, <2>6
<1>2. CASE \E s \in DOMAIN AfterBuilding : pc = s /\ BuildSender(s)
  BY <1>2, BuildSenderStep
<1>3. CASE BindGrpc \/ BindHttp
  BY <1>3, BindStep
<1>4. CASE SpawnExtension
  BY <1>4, SpawnExtensionStep
<1>5. CASE HandleStartError
  BY <1>5, HandleStartErrorStep
<1>6. CASE Run
  BY <1>6, RunStep
<1>7. CASE UNCHANGED vars
  BY <1>7, StartInvStable DEF vars, mainVars, startVars
<1> QED BY <1>1, <1>2, <1>3, <1>4, <1>5, <1>6, <1>7 DEF Next, Start

-----------------------------------------------------------------------------
(* The context of the function.                                            *)

\* What was read at a time that is recent enough for an invocation.
Recent(answered) ==
  \/ answered.context.read >= answered.asked
  \/ answered.context.read >= answered.asked - TagCacheValidity - MaxFetchTime

\* What is cached was true when it was cached, or no longer before than a fetch takes.
ContextInv ==
  /\ ContextTypeOK
  /\ event \in {"none", "invoke", "shutdown"} /\ obtained \in BOOLEAN
  /\ fetching # NoTime => fetching <= now /\ now <= fetching + MaxFetchTime
  /\ cache.timestamp <= now
  /\ IsCached => cache.context.read >= cache.timestamp - MaxFetchTime
  /\ obtained => IsCached
  /\ obtained /\ event # "shutdown" => Recent(answer)
  /\ event = "shutdown" /\ obtained => ~answer.context.degraded

\* A context that was just obtained.
LEMMA FillStep ==
  ASSUME ContextInv, NEW tags \in BOOLEAN, NEW read \in Times, NEW asked \in Times,
         read >= asked, asked <= now, now <= asked + MaxFetchTime,
         Fill(MakeFunctionContext(tags, read), asked),
         now' = now, fetching' \in {fetching, NoTime}, event' = "none", obtained' = TRUE
  PROVE  ContextInv'
<1> USE ContextAssumption
<1>1. /\ MakeFunctionContext(tags, read) \in Context
      /\ MakeFunctionContext(tags, read).read = read
      /\ MakeFunctionContext(tags, read).degraded = FALSE
  BY DEF MakeFunctionContext, Context
<1>2. /\ cache' = [timestamp |-> now, context |-> MakeFunctionContext(tags, read)]
      /\ answer' = [context |-> MakeFunctionContext(tags, read), asked |-> asked]
  BY DEF Fill
<1> HIDE DEF MakeFunctionContext
<1>3. now \in Times /\ now \in Int /\ read \in Int /\ asked \in Int /\ MaxFetchTime \in Nat
  BY DEF ContextInv, ContextTypeOK, Times
<1>4. ContextTypeOK'
  BY <1>1, <1>2, <1>3 DEF ContextInv, ContextTypeOK
<1>5. cache'.timestamp = now /\ cache'.context.read = read /\ cache'.context.degraded = FALSE
  BY <1>1, <1>2
<1>6. answer'.context.read >= answer'.asked
  BY <1>1, <1>2
<1>7. read >= now - MaxFetchTime
  BY <1>3
<1>8. fetching' # NoTime => fetching' <= now' /\ now' <= fetching' + MaxFetchTime
  BY DEF ContextInv
<1> QED BY <1>3, <1>4, <1>5, <1>6, <1>7, <1>8 DEF ContextInv, IsCached, Recent

\* A handler that obtains a context keeps the cache recent.
LEMMA ObtainFunctionContextStep ==
  ASSUME ContextInv, ObtainFunctionContext PROVE ContextInv'
<1> USE ContextAssumption
<1>1. event = "invoke" /\ event' = "none" /\ obtained' = TRUE
  BY DEF ObtainFunctionContext, Handles
<1>2. /\ now \in Times /\ now \in Int /\ MaxTime \in Nat /\ MaxFetchTime \in Nat
      /\ TagCacheValidity \in Int
  BY DEF ContextInv, ContextTypeOK, Times
<1>3. CASE AnswerFromCache
  <2>1. /\ IsCached /\ now - cache.timestamp <= TagCacheValidity
        /\ answer' = [context |-> cache.context, asked |-> now]
        /\ UNCHANGED <<now, cache, fetching>>
    BY <1>3 DEF AnswerFromCache, IsValid
  <2>2. cache.timestamp \in Int /\ cache.context.read \in Int /\ cache.context \in Context
    BY DEF ContextInv, ContextTypeOK, Context, Times
  <2>3. cache.context.read >= cache.timestamp - MaxFetchTime
    BY <2>1 DEF ContextInv
  <2>4. cache.context.read >= now - TagCacheValidity - MaxFetchTime
    BY <1>2, <2>1, <2>2, <2>3
  <2>5. Recent(answer')
    BY <2>1, <2>4 DEF Recent
  <2>6. ContextTypeOK'
    BY <1>2, <2>1, <2>2 DEF ContextInv, ContextTypeOK
  <2> QED BY <1>1, <2>1, <2>5, <2>6 DEF ContextInv, IsCached, Recent
<1>4. CASE ObtainWithoutTags
  <2>1. /\ Fill(MakeFunctionContext(FALSE, now), now)
        /\ now' = now /\ fetching' = fetching
    BY <1>4 DEF ObtainWithoutTags
  <2>2. now >= now /\ now <= now /\ now <= now + MaxFetchTime
    BY <1>2
  <2> QED BY <1>1, <1>2, <2>1, <2>2, FillStep
<1>5. CASE FinishFetchingTags
  <2>1. /\ fetching # NoTime /\ fetching' = NoTime /\ now' = now
        /\ \/ \E t \in fetching..now : Fill(MakeFunctionContext(TRUE, t), fetching)
           \/ Fill(MakeFunctionContext(FALSE, now), fetching)
    BY <1>5 DEF FinishFetchingTags
  <2>2. fetching \in Times /\ fetching <= now /\ now <= fetching + MaxFetchTime
    BY <2>1 DEF ContextInv, ContextTypeOK
  <2>3. PICK tags \in BOOLEAN, t \in fetching..now : Fill(MakeFunctionContext(tags, t), fetching)
    <3>1. now \in fetching..now
      BY <1>2, <2>2 DEF Times
    <3> QED BY <2>1, <3>1
  <2>4. t \in Times /\ t >= fetching
    BY <1>2, <2>2, <2>3 DEF Times
  <2> QED BY <1>1, <2>1, <2>2, <2>3, <2>4, FillStep
<1> QED BY <1>3, <1>4, <1>5 DEF ObtainFunctionContext

\* Each step keeps the invariant of the context.
LEMMA ContextInvPreserved ==
  ASSUME ContextInv, [Next]_vars PROVE ContextInv'
<1> USE ContextAssumption
<1>1. CASE ObtainFunctionContext
  BY <1>1, ObtainFunctionContextStep
<1>2. CASE UNCHANGED <<event, obtained, contextVars>>
  BY <1>2 DEF contextVars, ContextInv, ContextTypeOK, IsCached, Recent
<1>3. CASE ReceiveInvoke \/ FailInvoke
  <2>1. /\ event # "shutdown" /\ event' \in {"none", "invoke"}
        /\ UNCHANGED <<obtained, contextVars>>
    BY <1>3 DEF ReceiveInvoke, FailInvoke, FailToParseArn, Handles
  <2> QED BY <2>1 DEF contextVars, ContextInv, ContextTypeOK, IsCached, Recent
<1>4. CASE FetchTags
  <2>1. /\ fetching' = now /\ UNCHANGED <<now, cache, answer, event, obtained>>
    BY <1>4 DEF FetchTags, StartFetchingTags
  <2>2. now \in Times /\ now <= now /\ now <= now + MaxFetchTime
    BY DEF ContextInv, ContextTypeOK, Times
  <2>3. ContextTypeOK'
    BY <2>1, <2>2 DEF ContextInv, ContextTypeOK
  <2> QED BY <2>1, <2>2, <2>3 DEF ContextInv, IsCached, Recent
<1>5. CASE Shutdown
  <2>1. /\ event' = "shutdown" /\ obtained' = obtained
        /\ answer' = [context |-> cache.context, asked |-> now]
        /\ UNCHANGED <<now, cache, fetching>>
    BY <1>5 DEF Shutdown, AnswerEvenIfDegraded
  <2>2. now \in Times /\ cache.context \in Context
    BY DEF ContextInv, ContextTypeOK
  <2> QED BY <2>1, <2>2 DEF ContextInv, ContextTypeOK, IsCached, Recent
<1>6. CASE Tick
  <2>1. /\ now < MaxTime /\ now' = now + 1
        /\ fetching # NoTime => now < fetching + MaxFetchTime
        /\ UNCHANGED <<cache, fetching, answer, event, obtained>>
    BY <1>6 DEF Tick, ContextTick, mainVars
  <2>2. /\ now \in 0..MaxTime /\ cache.timestamp \in 0..MaxTime
        /\ fetching \in (0..MaxTime) \cup {NoTime}
    BY DEF ContextInv, ContextTypeOK, Times
  <2>3. now' \in Times /\ cache.timestamp <= now'
    BY <2>1, <2>2 DEF ContextInv, Times
  <2>4. fetching' # NoTime => fetching' <= now' /\ now' <= fetching' + MaxFetchTime
    BY <2>1, <2>2 DEF ContextInv, NoTime
  <2> QED BY <2>1, <2>3, <2>4 DEF ContextInv, ContextTypeOK, IsCached, Recent
<1>7. CASE Start
  <2>1. UNCHANGED <<event, obtained, contextVars>>
    BY <1>7 DEF Start, InstallCryptoProvider, GetRequiredEnvVars, LoadConfig, BuildSender,
                BindGrpc, BindHttp, Bind, SpawnExtension, HandleStartError, Fails
  <2> QED BY <1>2, <2>1
<1>8. CASE Register \/ ExtensionStops \/ Signal \/ \E port \in Ports : ServerStops(port)
  <2>1. UNCHANGED <<event, obtained, contextVars>>
    BY <1>8 DEF Register, ExtensionStops, Signal, ServerStops
  <2> QED BY <1>2, <2>1
<1>9. CASE UNCHANGED vars
  BY <1>2, <1>9 DEF vars, mainVars
<1> QED BY <1>1, <1>3, <1>4, <1>5, <1>6, <1>7, <1>8, <1>9 DEF Next, Run

-----------------------------------------------------------------------------

\* In every environment, and wherever the start fails: the extension only runs with
\* an accepted configuration whose telemetry is all routed, it is registered after the
\* sockets were opened, and a failed start leaves no socket; a context that an
\* invocation gets is recent, and never forgotten.
THEOREM ExporterCorrect ==
  Spec => [](/\ TypeOK
             /\ EmittedIsRouted
             /\ SocketsOpenBeforeRegistration
             /\ DummyHoldsNothing
             /\ ContextIsRecent
             /\ ContextNotForgotten)
<1>1. Init => StartInv /\ ContextInv
  <2> SUFFICES ASSUME Init PROVE StartInv /\ ContextInv
    OBVIOUS
  <2>1. StartInv
    BY DEF Init, StartInv, Building
  <2>2. ContextInv
    <3>1. NoContext \in Context /\ 0 \in Times /\ NoContext.degraded /\ 0 <= 0
      BY ContextAssumption DEF NoContext, Context, Times
    <3> QED BY <3>1 DEF Init, ContextInit, ContextInv, ContextTypeOK, IsCached
  <2> QED BY <2>1, <2>2
<1>2. StartInv /\ ContextInv /\ [Next]_vars => StartInv' /\ ContextInv'
  BY StartInvPreserved, ContextInvPreserved
<1>3. StartInv /\ ContextInv => /\ TypeOK
                                /\ EmittedIsRouted
                                /\ SocketsOpenBeforeRegistration
                                /\ DummyHoldsNothing
                                /\ ContextIsRecent
                                /\ ContextNotForgotten
  <2> SUFFICES ASSUME StartInv, ContextInv
               PROVE  /\ TypeOK
                      /\ EmittedIsRouted
                      /\ SocketsOpenBeforeRegistration
                      /\ DummyHoldsNothing
                      /\ ContextIsRecent
                      /\ ContextNotForgotten
    OBVIOUS
  <2>1. TypeOK
    BY DEF TypeOK, StartInv, ContextInv
  <2>2. EmittedIsRouted
    BY Routing DEF StartInv, EmittedIsRouted
  <2>3. SocketsOpenBeforeRegistration
    BY DEF SocketsOpenBeforeRegistration, StartInv
  <2>4. DummyHoldsNothing
    BY DEF DummyHoldsNothing, StartInv
  <2>5. ContextIsRecent
    BY DEF ContextIsRecent, ContextInv, Recent
  <2>6. ContextNotForgotten
    BY DEF ContextNotForgotten, ContextInv
  <2> QED BY <2>1, <2>2, <2>3, <2>4, <2>5, <2>6
<1> QED BY <1>1, <1>2, <1>3, PTL DEF Spec

=============================================================================
