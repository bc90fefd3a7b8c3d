------------------------------- MODULE AppConfig -------------------------------
(***************************************************************************)
(* config/mod.rs and config/app_config.rs: which environments are accepted *)
(* and what the configuration says about modes and targets.  An            *)
(* environment maps the variables that are set, as pairs of a prefix and a *)
(* key, to their values; the only file that matters is one of them.  Text  *)
(* is taken as trimmed and in lower case; settings that do not decide      *)
(* where telemetry goes are left out, and with them the errors of parsing  *)
(* their values.                                                           *)
(***************************************************************************)
EXTENDS Integers, FiniteSets

None == "None"
Invalid == "Invalid"

\* get_env_var_with_prefix: the old prefix comes first.
IsSet(env, key) == {<<"CORALOGIX", key>>, <<"CX", key>>} \cap DOMAIN env # {}

Get(env, key) ==
  IF <<"CORALOGIX", key>> \in DOMAIN env THEN env[<<"CORALOGIX", key>>] ELSE env[<<"CX", key>>]

\* The texts that stand for each value.
Booleans == [true |-> {"true", "t"}, false |-> {"false", "f"}]
ReportingStrategies ==
  [LowOverhead |-> {"low_overhead", "1"},
   ReportAfterInvocation |-> {"report_after_invocation", "2"},
   ReportDuringAndAfterInvocation |-> {"report_during_and_after_invocation", "3"}]
LogModes == [Disabled |-> {"disabled", "1"}, Structured |-> {"structured", "2"}]
PlatformMetricsModes ==
  [Disabled |-> {"disabled", "1"}, PlatformReport |-> {"platform_report", "2"},
   PlatformV2 |-> {"platform_v2", "3"}]
OtelMetricsModes ==
  [Disabled |-> {"disabled", "1"}, Direct |-> {"direct", "2"}, Processed |-> {"processed", "3"}]
TracingModes ==
  [Disabled |-> {"disabled", "1"}, TelemetryApi |-> {"telemetry_api", "2"},
   OtelInstrumentation |-> {"otel", "opentelemetry_instrumentation", "3"}]

\* get_parsable, get_bool_option.
Parse(env, key, values, default) ==
  IF ~IsSet(env, key) THEN default
  ELSE IF \E v \in DOMAIN values : Get(env, key) \in values[v]
       THEN CHOOSE v \in DOMAIN values : Get(env, key) \in values[v]
       ELSE Invalid

IsOn(env, key, default) == Parse(env, key, Booleans, default) = "true"

LogMode(env) == Parse(env, "LOG_MODE", LogModes, "Structured")
OtelMetricsMode(env) == Parse(env, "OTEL_METRICS_MODE", OtelMetricsModes, "Processed")

ExtractPlatformMetricsMode(env) ==
  LET mode == Parse(env, "METRICS_MODE", PlatformMetricsModes, None)
      enabled == Parse(env, "METRICS_ENABLED", Booleans, None)
      logOnly == Parse(env, "LOG_ONLY", Booleans, "false")
  IN IF \/ Invalid \in {mode, enabled, logOnly}
        \/ mode # None /\ enabled # None
        \/ logOnly = "true" /\ ~(mode \in {None, "Disabled"} /\ enabled \in {None, "false"})
     THEN Invalid
     ELSE IF logOnly = "true" \/ enabled = "false" THEN "Disabled"
     ELSE IF mode # None THEN mode
     ELSE "PlatformReport"

\* Without a mode of its own, OTel instrumentation is used if it is in the file
\* system and enabled.
ExtractTracingMode(env) ==
  LET mode == Parse(env, "TRACING_MODE", TracingModes, None)
      logOnly == Parse(env, "LOG_ONLY", Booleans, "false")
      wrapper == <<"AWS_LAMBDA", "EXEC_WRAPPER">>
      instrumented == /\ <<"file", "/opt/otel-handler">> \in DOMAIN env
                      /\ wrapper \in DOMAIN env
                      /\ env[wrapper] = "/opt/otel-handler"
  IN IF \/ Invalid \in {mode, logOnly}
        \/ logOnly = "true" /\ mode \notin {None, "Disabled"}
     THEN Invalid
     ELSE IF logOnly = "true" THEN "Disabled"
     ELSE IF mode # None THEN mode
     ELSE IF instrumented THEN "OtelInstrumentation"
     ELSE "TelemetryApi"

ValidAwsTelemetryInterval(env) ==
  IsSet(env, "AWS_TELEMETRY_INTERVAL_MS") => Get(env, "AWS_TELEMETRY_INTERVAL_MS") \in 25..30000

-----------------------------------------------------------------------------
(* Targets.                                                                *)

NoTarget == [kind |-> None, address |-> None]

ExtractKeySourceConfig(env) ==
  LET key == IsSet(env, "API_KEY") \/ IsSet(env, "PRIVATE_KEY")
      secret == IsSet(env, "SECRET")
  IN IF key = secret THEN Invalid ELSE IF key THEN "EnvVar" ELSE "SecretsManager"

MainTargetKeys == {"FIREHOSE", "DOMAIN", "OTEL_URL"}

\* At most one main target, and a key if it is Coralogix.
ValidMainTarget(env) ==
  /\ \A k, l \in MainTargetKeys : IsSet(env, k) /\ IsSet(env, l) => k = l
  /\ IsSet(env, "DOMAIN") => ExtractKeySourceConfig(env) # Invalid

MainTarget(env) ==
  IF IsSet(env, "FIREHOSE") THEN [kind |-> "Firehose", address |-> Get(env, "FIREHOSE")]
  ELSE IF IsSet(env, "DOMAIN") THEN [kind |-> "Coralogix", address |-> Get(env, "DOMAIN")]
  ELSE IF IsSet(env, "OTEL_URL") THEN [kind |-> "Otel", address |-> Get(env, "OTEL_URL")]
  ELSE NoTarget

Pillars == {"logs", "traces", "metrics"}

UrlKey(pillar) ==
  CASE pillar = "logs" -> "OTEL_LOGS_URL"
    [] pillar = "traces" -> "OTEL_TRACES_URL"
    [] pillar = "metrics" -> "OTEL_METRICS_URL"

PillarTarget(env, pillar) ==
  IF IsSet(env, UrlKey(pillar)) THEN [kind |-> "Otel", address |-> Get(env, UrlKey(pillar))]
  ELSE NoTarget

\* Mutant of EnabledPillars: the metrics that come by OTLP are forgotten.
EnabledPillarsOfPlatform(env) ==
  {p \in Pillars :
     CASE p = "logs" -> LogMode(env) # "Disabled"
       [] p = "traces" -> ExtractTracingMode(env) # "Disabled"
       [] p = "metrics" -> ExtractPlatformMetricsMode(env) # "Disabled"}

EnabledPillars(env) ==
  {p \in Pillars :
     CASE p = "logs" -> LogMode(env) # "Disabled"
       [] p = "traces" -> ExtractTracingMode(env) # "Disabled"
       [] p = "metrics" -> \/ ExtractPlatformMetricsMode(env) # "Disabled"
                           \/ OtelMetricsMode(env) # "Disabled"}

\* An enabled pillar without a target is an error.
MissingTarget(env) ==
  \E p \in EnabledPillars(env) : MainTarget(env) = NoTarget /\ PillarTarget(env, p) = NoTarget

-----------------------------------------------------------------------------

\* AppConfig::load returns a configuration, if the settings that are left out parse (delays,
\* thresholds and limits, what platform logs and metadata contain, sampling, attributes, the
\* validity of tags, ALPN).  So this accepts all that the code accepts, and possibly more.
Accepts(env) ==
  /\ IsSet(env, "REPORTING_STRATEGY")
  /\ Invalid \notin {Parse(env, "REPORTING_STRATEGY", ReportingStrategies, Invalid),
                     LogMode(env), ExtractTracingMode(env), ExtractPlatformMetricsMode(env),
                     OtelMetricsMode(env),
                     Parse(env, "OTLP_SERVER_ENABLED", Booleans, "true"),
                     Parse(env, "TAGS_ENABLED", Booleans, "false"),
                     Parse(env, "COMBINED_TELEMETRY_ENABLED", Booleans, "false")}
  /\ ValidAwsTelemetryInterval(env)
  /\ ValidMainTarget(env)
  /\ ~MissingTarget(env)

Load(env) ==
  [log_mode |-> LogMode(env),
   tracing_mode |-> ExtractTracingMode(env),
   platform_metrics_mode |-> ExtractPlatformMetricsMode(env),
   otel_metrics_mode |-> OtelMetricsMode(env),
   main |-> MainTarget(env),
   pillar |-> [p \in Pillars |-> PillarTarget(env, p)],
   combined_telemetry_enabled |-> IsOn(env, "COMBINED_TELEMETRY_ENABLED", "false"),
   otlp_server_enabled |-> IsOn(env, "OTLP_SERVER_ENABLED", "true"),
   tags_enabled |-> IsOn(env, "TAGS_ENABLED", "false")]

=============================================================================
