CONSTANTS
  PageSize = 8
  BlockSize = 4
  CountLimit = 64
  ByteLimit = 4
  UnknownByte = UnknownByte
  AuthorisedSizes <- NoSizes
  Limits <- SmallLimits
  Segments <- SomeSegments
  Indices <- SomeIndices
  Values <- SomeValues
  GrowBy <- SomeGrowBy
SPECIFICATION Spec
PROPERTY RejectionReported
CHECK_DEADLOCK FALSE
