SPECIFICATION InstanceSpec
CONSTANTS
  Requests = {1}
  NumRequests = 1
  NoRequest = NoRequest
  Degraded = Degraded
  NoInvocation = NoInvocation
  NoEvent = NoEvent
  NoTime = NoTime
  SampledRequests = {1}
  TracingMode = "TelemetryApi"
  LogMode = "Structured"
  PlatformLogSet = {"PlatformStart", "PlatformRuntimeDone", "PlatformReport"}
  PlatformMetricsMode = "Disabled"
  ReportingStrategy = "LowOverhead"
  ReportingDelay = 1
  SpanSendingThreshold = 2
  OtelMetricsMode = "Disabled"
  UnparsableArns = {}
  MaxLogs = 1
  MaxSpans = 0
  MaxMetrics = 0
  BatchSizes = {1, 2}
  MaxInits = 1
  MaxTime = 0
  LogKinds = {"Function"}
  SpanCategories = {}
  EventAges = {0}
  Leftovers <- NoLeftovers
  CorruptEvents = {}
  LossyKinds = {}
INVARIANTS
  FlushSendsRemainingLogs
