SPECIFICATION InstanceSpec
CONSTANTS
  Requests = {1, 2}
  NumRequests = 2
  NoRequest = NoRequest
  Degraded = Degraded
  NoInvocation = NoInvocation
  NoEvent = NoEvent
  NoTime = NoTime
  SampledRequests = {1, 2}
  TracingMode = "Disabled"
  LogMode = "Structured"
  PlatformLogSet = {"PlatformReport"}
  PlatformMetricsMode = "Disabled"
  ReportingStrategy = "LowOverhead"
  ReportingDelay = 1
  SpanSendingThreshold = 2
  OtelMetricsMode = "Disabled"
  UnparsableArns = {}
  MaxLogs = 1
  MaxSpans = 0
  MaxMetrics = 0
  BatchSizes = {1, 2}
  MaxInits = 2
  MaxTime = 0
  LogKinds = {"Function"}
  SpanCategories = {}
  EventAges = {0}
  Leftovers <- ShortLeftovers
  CorruptEvents = {}
  LossyKinds = {}
INVARIANTS
  LogsAttributedToOwnInvocation
PROPERTIES
  LogsArePiped
