CONSTANTS
  Names <- SomeNames
  EmptyName = ""
  NoName = NoName
  MaxTableSize = 4
  Plans <- SomePlans
  CallStackDepth = 3
  ImportResolutionDepth = 2
  MaxHostCalls = 3
SPECIFICATION FairSpec
INVARIANTS
  TypeOK
  BodiesOfDeclared
  TableAsSegments
  DamageReported
  PlacesInBodies
  NoUseAfterFree
  FlagHasLoop
  HeapAccountedFor
PROPERTIES
  LinkingIsDirectory
  LinkAnswers
  CallsAsNamed
  DestroyedAfterUse
CHECK_DEADLOCK FALSE
