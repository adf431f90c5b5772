SPECIFICATION Spec
CONSTANTS
  Makes = {"pinned"}
  Overrun = {"pinned"}
  UsedLevels <- AroundThresholds
  CountLevels <- FewCounts
  HourLevels <- AroundFiveYears
  Word = 1000
INVARIANT
  WornOutIsCritical
