SPECIFICATION FairInstanceSpec
CONSTANTS
  Requests = {1, 2, 3}
  NumRequests = 3
  NoRequest = NoRequest
  Degraded = Degraded
  NoInvocation = NoInvocation
  NoEvent = NoEvent
  NoTime = NoTime
  SampledRequests = {}
  TracingMode = "TelemetryApi"
  LogMode = "Structured"
  PlatformLogSet = {}
  PlatformMetricsMode = "Disabled"
  ReportingStrategy = "ReportAfterInvocation"
  ReportingDelay = 1
  SpanSendingThreshold = 2
  OtelMetricsMode = "Disabled"
  UnparsableArns = {2}
  MaxLogs = 0
  MaxSpans = 0
  MaxMetrics = 0
  BatchSizes = {1}
  MaxInits = 1
  MaxTime = 0
  LogKinds = {"Function"}
  SpanCategories = {}
  EventAges = {0}
  Leftovers <- NoLeftovers
  CorruptEvents = {2, 5, 8}
  LossyKinds = {"PlatformReport"}
PROPERTIES
  HandlerReturns
