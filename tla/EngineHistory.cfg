SPECIFICATION HistorySpec
CONSTANTS
  t1 = t1
  t2 = t2
  Serial <- MCSerial
  Zone <- MCZone
  Placement <- MCPlacement
  Hysteresis = 3
  TagTTL = 1
  CleanupEvery = 3
  MaxClock = 2
  ClockMayStepBack = TRUE
INVARIANTS TypeOK HistoryInv StaleTagsSwept
PROPERTY ImplementsStableMembership
