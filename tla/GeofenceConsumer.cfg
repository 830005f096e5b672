SPECIFICATION ConsumerSpec
CONSTANTS
  t1 = t1
  t2 = t2
  Serial <- MCSerial
  Zone <- MCZone
  Placement <- MCPlacement
  Hysteresis = 2
  TagTTL = 0
  CleanupEvery = 1
  MaxClock = 1
  ClockMayStepBack = TRUE
  MaxInFlight = 1
INVARIANTS ReplayGivesMembership LastEventTellsMembership NeverInTwoPlaces
PROPERTY EventsAlternate
