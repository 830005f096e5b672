SPECIFICATION Spec
CONSTANTS
  Character <- MCCharacter
  PrefixField = {"prefix"}
  IntField = {"port"}
  BoolField = {"echo"}
  Defaults <- MCDefaults
  File <- MCFile
  Path <- MCPath
  Environment <- MCEnvironment
  Setting <- MCSetting
  MaxTyped = 2
  Trailing <- MCTrailing
  Atoi <- MCAtoi
  ParseInt <- MCParseInt
  ParseBool <- MCParseBool
  Lower <- MCLower
INVARIANT LoadedPrefixesPublish
CHECK_DEADLOCK FALSE
