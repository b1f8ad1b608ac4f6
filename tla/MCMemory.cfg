CONSTANTS
  PageSize = 8
  BlockSize = 4
  CountLimit = 64
  ByteLimit = 4
  UnknownByte = UnknownByte
  AuthorisedSizes <- MostSizes
  Limits <- SmallLimits
  Segments <- SomeSegments
  Indices <- SomeIndices
  Values <- SomeValues
  GrowBy <- SomeGrowBy
SPECIFICATION Spec
INVARIANTS
  TypeOK
  PagesWithinMaximum
  SizeBounded
PROPERTIES
  BehavesAsByteMap
CHECK_DEADLOCK FALSE
