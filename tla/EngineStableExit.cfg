SPECIFICATION HistorySpec
CONSTANTS
  t1 = t1
  t2 = t2
  Serial <- MCSerial
  Zone <- MCZone
  Placement <- MCPlacement
  Hysteresis = 2
  TagTTL = 0
  CleanupEvery = 2
  MaxClock = 1
  ClockMayStepBack = FALSE
INVARIANT StableProposalCommitted
