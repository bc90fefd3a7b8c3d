SPECIFICATION InstanceSpec
CONSTANTS
  Requests = {1, 2}
  NumRequests = 2
  NoRequest = NoRequest
  Degraded = Degraded
  NoInvocation = NoInvocation
  NoEvent = NoEvent
  NoTime = NoTime
  SampledRequests = {1}
  TracingMode = "OtelInstrumentation"
  LogMode = "Structured"
  PlatformLogSet = {"PlatformStart", "PlatformRuntimeDone", "PlatformReport"}
  PlatformMetricsMode = "Disabled"
  ReportingStrategy = "ReportAfterInvocation"
  ReportingDelay = 1
  SpanSendingThreshold = 2
  OtelMetricsMode = "Disabled"
  UnparsableArns = {}
  MaxLogs = 1
  MaxSpans = 2
  MaxMetrics = 0
  BatchSizes = {1}
  MaxInits = 1
  MaxTime = 0
  LogKinds = {"Function"}
  SpanCategories = {"CxEarlyInvocation", "CxInvocation"}
  EventAges = {0}
  Leftovers <- NoLeftovers
  CorruptEvents = {}
  LossyKinds = {}
INVARIANTS
  EarlySpanCorrelatesAllLogs
  SpansCapturedByOwnInvocation
  SpansNotForgotten
  SpansSentOnce
  LogsFlowInOrder
  TypeOK
  LogsInOrderWithinInvocation
  ReadyOnlyAfterRuntimeDone
  NoStaleInvocationDone
  AllSentBeforeReady
