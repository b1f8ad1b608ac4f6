CONSTANTS
  Data = {0, 1}
  Unknown = Unknown
  Images <- WideResult
  CallStackDepth = 3
  ImportResolutionDepth = 0
  HostOperands <- HostValues
  MaxHostOperands = 1
  CarefulHost = TRUE
  MaxCells = 20
  MaxLabels = 8
SPECIFICATION Spec
PROPERTY ResultsSurviveReturn
