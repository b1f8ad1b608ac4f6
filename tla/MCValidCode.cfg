CONSTANTS
  Data = {0, 1}
  Unknown = Unknown
  Images <- ValidImages
  CallStackDepth = 3
  ImportResolutionDepth = 2
  HostOperands <- HostValues
  MaxHostOperands = 2
  CarefulHost = TRUE
  MaxCells = 40
  MaxLabels = 8
SPECIFICATION Spec
INVARIANTS
  ValidSteps
  SuspendedAtCall
  NoOperandErrors
  StacksAgree
  PositionInFunction
  SkipsPlainly
PROPERTIES
  CallsKeepToTheirOperands
  ResultsSurviveReturn
  SkippingIsInert
  SearchStopsAtMatch
