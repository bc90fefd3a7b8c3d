SPECIFICATION Spec
CONSTANTS
  Series = {s1, s2}
  MaxTimeBetweenData = 3
  ReportLastTime = 2
  MaxValue = 1
  MaxTime = 5
  MaxPoints = 4
SYMMETRY SeriesSymmetry
INVARIANTS
  TypeOK
  RateWorks
  CoursePreserved
  RepeatedOnlyAcrossGaps
  DeltasPassThrough
