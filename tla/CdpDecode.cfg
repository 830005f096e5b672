SPECIFICATION Spec
CONSTANTS
  Entries = 3
  Several = {283, 355, 32988, 1}
  Size = {0, 5, 6}
  MaxItems = 3
  Sent <- MCSent
INVARIANTS ItemsTile PacketIsWhole WholeIsAccepted ReadsInPayload EveryByteOnce
CHECK_DEADLOCK FALSE
