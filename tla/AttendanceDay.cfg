\* The clock of the instance stops, and no more rows are exported.
CHECK_DEADLOCK FALSE
SPECIFICATION Spec
CONSTANTS
  Minute = 2
  Midnight = 8
  Reach = 2
  LateTolerance = 0
  StatusTolerance = 0
  CoverageNum = 1
  CoverageDen = 2
  Plans <- BothPlans
  Moments = {1, 6, 8, 10, 12}
  MaxStatus = 2
  MaxLilo = 1
INVARIANTS ShiftPartitioned GapsInElapsedWork UnknownStaysUnknown GapsSeparate UnchangedCutSettled
