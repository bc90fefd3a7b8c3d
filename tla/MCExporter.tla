------------------------------- MODULE MCExporter -------------------------------
(***************************************************************************)
(* Exporter for TLC.  The environments vary in two ways: all combinations  *)
(* of targets and modes, with the other settings fixed; and for a few      *)
(* targets the other settings, the old prefix, texts that do not parse,    *)
(* conflicts and missing variables.                                        *)
(***************************************************************************)
EXTENDS Exporter, TLC

Set(key, value) == <<"CX", key>> :> value

\* The variable is not set, or has one of the values.
Maybe(key, values) == {<<>>} \cup {Set(key, v) : v \in values}

Both(A, B) == {a @@ b : a \in A, b \in B}

Required ==
  [v \in RequiredEnvVars |-> "given"] @@ Set("REPORTING_STRATEGY", "low_overhead")

MainTargets ==
  Both(Both(Maybe("FIREHOSE", {"stream"}), Maybe("OTEL_URL", {"url"})),
       Both(Maybe("DOMAIN", {"domain"}), Maybe("API_KEY", {"key"})))
PillarTargets ==
  Both(Maybe("OTEL_LOGS_URL", {"logs url"}),
       Both(Maybe("OTEL_TRACES_URL", {"traces url"}), Maybe("OTEL_METRICS_URL", {"metrics url"})))
Modes ==
  Both(Both(Maybe("LOG_ONLY", {"true"}), Maybe("LOG_MODE", {"disabled"})),
       Both(Maybe("TRACING_MODE", {"1"}),
            Both(Maybe("METRICS_MODE", {"disabled"}), Maybe("OTEL_METRICS_MODE", {"disabled"}))))

TargetsAndModes ==
  {Required @@ Set("OTLP_SERVER_ENABLED", "f") @@ e :
     e \in Both(MainTargets, Both(PillarTargets, Modes))}

Simple == Required @@ Set("DOMAIN", "domain") @@ Set("PRIVATE_KEY", "key")

Options ==
  {e @@ Simple :
     e \in Both(Both(Maybe("TAGS_ENABLED", {"t"}), Maybe("COMBINED_TELEMETRY_ENABLED", {"true"})),
                Maybe("ERROR_HANDLING", {"crash"}))}

\* One setting that is wrong, or right in another way.
Unusual ==
  {e @@ Simple :
     e \in {Set("LOG_MODE", "2"), Set("LOG_MODE", "?"), Set("TRACING_MODE", "otel"),
            Set("TRACING_MODE", "?"), Set("METRICS_MODE", "platform_v2"), Set("METRICS_MODE", "?"),
            Set("METRICS_ENABLED", "f"), Set("METRICS_ENABLED", "?"),
            Set("METRICS_ENABLED", "t") @@ Set("METRICS_MODE", "2"),
            Set("METRICS_ENABLED", "t") @@ Set("LOG_ONLY", "t"),
            Set("TRACING_MODE", "otel") @@ Set("LOG_ONLY", "t"), Set("LOG_ONLY", "?"),
            Set("OTEL_METRICS_MODE", "direct"), Set("OTEL_METRICS_MODE", "?"),
            Set("AWS_TELEMETRY_INTERVAL_MS", 25), Set("AWS_TELEMETRY_INTERVAL_MS", 30001),
            Set("SECRET", "id"), Set("TAGS_ENABLED", "?"), Set("REPORTING_STRATEGY", "?"),
            <<"CORALOGIX", "DOMAIN">> :> "old domain", <<"CORALOGIX", "FIREHOSE">> :> "stream",
            (<<"AWS_LAMBDA", "EXEC_WRAPPER">> :> "/opt/otel-handler")
              @@ (<<"file", "/opt/otel-handler">> :> "exists")}}
  \cup {Set("DOMAIN", "domain") @@ Set("API_KEY", "key"), Required,
        Required @@ Set("DOMAIN", "domain") @@ Set("SECRET", "id")}

AllEnvironments == TargetsAndModes \cup Options \cup Unusual

=============================================================================
