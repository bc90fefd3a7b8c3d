SPECIFICATION InstanceSpec
CONSTANTS
  Requests = {1}
  NumRequests = 1
  NoRequest = NoRequest
  Degraded = Degraded
  NoInvocation = NoInvocation
  NoEvent = NoEvent
  NoTime = NoTime
  SampledRequests = {1}
  TracingMode = "TelemetryApi"
  LogMode = "Structured"
  PlatformLogSet = {"PlatformStart", "PlatformRuntimeDone", "PlatformReport"}
  PlatformMetricsMode = "PlatformReport"
  ReportingStrategy = "ReportAfterInvocation"
  ReportingDelay = 1
  SpanSendingThreshold = 2
  OtelMetricsMode = "Disabled"
  UnparsableArns = {}
  MaxLogs = 1
  MaxSpans = 0
  MaxMetrics = 0
  BatchSizes = {}
  MaxInits = 2
  MaxTime = 0
  LogKinds = {"Function", "EpsagonTrace"}
  SpanCategories = {}
  EventAges = {0}
  Leftovers <- CrashLeftovers
  CorruptEvents = {2, 4}
  LossyKinds = {}
INVARIANTS
  OnlyLeftoversDegraded
  ReportsCounted
