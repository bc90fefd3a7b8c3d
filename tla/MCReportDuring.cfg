SPECIFICATION ClockFairSpec
CONSTANTS
  Requests = {1}
  NumRequests = 1
  NoRequest = NoRequest
  Degraded = Degraded
  NoInvocation = NoInvocation
  NoEvent = NoEvent
  NoTime = NoTime
  SampledRequests = {1}
  TracingMode = "TelemetryApi"
  LogMode = "Structured"
  PlatformLogSet = {"PlatformStart"}
  PlatformMetricsMode = "Disabled"
  ReportingStrategy = "ReportDuringAndAfterInvocation"
  ReportingDelay = 1
  SpanSendingThreshold = 2
  OtelMetricsMode = "Direct"
  UnparsableArns = {}
  MaxLogs = 1
  MaxSpans = 0
  MaxMetrics = 1
  BatchSizes = {2}
  MaxInits = 1
  MaxTime = 1
  LogKinds = {"Function"}
  SpanCategories = {}
  EventAges = {0, 1}
  Leftovers <- NoLeftovers
  CorruptEvents = {5}
  LossyKinds = {}
INVARIANTS
  NoLostWakeup
  DeadlineHasTimer
  BufferedDataIsScheduled
PROPERTIES
  LogsSentDuringInvocation
