SPECIFICATION ConsumerSpec
CONSTANTS
  t1 = t1
  t2 = t2
  Serial <- MCSerial
  Zone <- MCZone
  Placement <- MCPlacement
  Hysteresis = 1
  TagTTL = 1
  CleanupEvery = 2
  MaxClock = 2
  ClockMayStepBack = FALSE
  MaxInFlight = 1
INVARIANT LastEventTellsMembership
