SPECIFICATION BridgeSpec
CONSTANTS
  t1 = t1
  Serial <- MCSerial
  Zone <- MCZone
  Placement <- MCPlacement
  Hysteresis = 1
  TagTTL = 0
  CleanupEvery = 1
  MaxClock = 0
  ClockMayStepBack = FALSE
  Datagram <- MCDatagram
  QueueCap = 1
  PendingCap = 1
  GeofenceOn = TRUE
  MetricsOn = TRUE
  ReconnectsEnd = TRUE
INVARIANTS BridgeTypeOK ExitStatusTold
PROPERTIES CancelReturns NoRunWithoutListener ListenerStops QueueDrains
CHECK_DEADLOCK FALSE
