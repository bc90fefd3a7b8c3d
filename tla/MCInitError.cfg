SPECIFICATION FairInstanceSpec
CONSTANTS
  Requests = {1, 2}
  NumRequests = 2
  NoRequest = NoRequest
  Degraded = Degraded
  NoInvocation = NoInvocation
  NoEvent = NoEvent
  NoTime = NoTime
  SampledRequests = {}
  TracingMode = "TelemetryApi"
  LogMode = "Structured"
  PlatformLogSet = {}
  PlatformMetricsMode = "Disabled"
  ReportingStrategy = "ReportAfterInvocation"
  ReportingDelay = 1
  SpanSendingThreshold = 2
  OtelMetricsMode = "Disabled"
  UnparsableArns = {}
  MaxLogs = 0
  MaxSpans = 0
  MaxMetrics = 0
  BatchSizes = {}
  MaxInits = 1
  MaxTime = 0
  LogKinds = {"Function"}
  SpanCategories = {}
  EventAges = {0}
  Leftovers <- ShortLeftovers
  CorruptEvents = {1}
  LossyKinds = {}
PROPERTIES
  HandlerReturns
CHECK_DEADLOCK FALSE
