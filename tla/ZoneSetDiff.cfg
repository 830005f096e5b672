SPECIFICATION ZoneSpec
CONSTANTS
  Name <- MCName
  Spelling <- MCSpelling
  Lower <- MCLower
  ZoneConfig <- MCZoneConfig
  Knob <- MCKnob
  MaxZones = 4
INVARIANTS BuildDecides MergeInputsSorted MergeInv DiffCorrect SlugTellsZone
CHECK_DEADLOCK FALSE
