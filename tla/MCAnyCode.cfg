CONSTANTS
  Data = {0}
  Unknown = Unknown
  Images <- AnyImages
  CallStackDepth = 2
  ImportResolutionDepth = 1
  HostOperands <- HostValues
  MaxHostOperands = 0
  CarefulHost = TRUE
  MaxCells = 6
  MaxLabels = 4
SPECIFICATION FairSpec
INVARIANTS
  TypeOK
  CallsExist
  CacheCoherent
  LabelsBelongToCalls
  SearchHasHandler
PROPERTIES
  StepsReturn
CHECK_DEADLOCK FALSE
