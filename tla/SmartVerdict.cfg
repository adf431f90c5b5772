SPECIFICATION Spec
CONSTANTS
  Makes <- AllMakes
  Overrun <- KeepsCount
  UsedLevels <- AroundThresholds
  CountLevels <- FewCounts
  HourLevels <- AroundFiveYears
  Word = 1000
INVARIANTS
  NoFalseAlarm
  WornOutIsCritical
  HealthyMeansSound
PROPERTIES
  VerdictImprovesOnlyByCooling
  LifeOnlyFalls
