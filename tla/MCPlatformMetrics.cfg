SPECIFICATION Spec
CONSTANTS
  MaxTimeBetweenData = 3
  ReportLastTime = 2
  MemorySize = 2
  StartTime = 10
  Delays = {1, 2}
  MaxInvocations = 2
INVARIANTS
  TypeOK
  RateWorks
  PointsAreTrue
  OneValuePerTime
