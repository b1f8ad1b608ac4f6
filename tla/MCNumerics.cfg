CONSTANTS
  ByteBits = 2
  Below <- StackBelow
  Operands <- SomeOperands
SPECIFICATION Spec
INVARIANTS
  TypeOK
  OperatorsRight
  UnsignedRight
  CountsRight
  RotationsRight
  ReadsRight
  RoundingRight
PROPERTIES
  LoopsEnd
CHECK_DEADLOCK FALSE
