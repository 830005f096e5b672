SPECIFICATION MetricsSpec
CONSTANTS
  t1 = t1
  Serial <- MCSerial
  Zone <- MCZone
  Placement <- MCPlacement
  Hysteresis = 1
  TagTTL = 0
  CleanupEvery = 1
  MaxClock = 0
  ClockMayStepBack = FALSE
  Datagram <- MCDatagram
  QueueCap = 2
  PendingCap = 1
  GeofenceOn = TRUE
  MetricsOn = FALSE
  ReconnectsEnd = TRUE
  MaxRead = 4
INVARIANTS CountersAddUp OnlyTheTailIsLost StreamTellsMembership
PROPERTY ImplementsMessagePipe
CHECK_DEADLOCK FALSE
