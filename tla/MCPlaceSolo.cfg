SPECIFICATION SoloSpec
CONSTANTS
  Builds = {b1, b2, b3}
  Names = {n1, n2}
  Old = Old
  None = None
  Empty = Empty
  NoName = NoName
INVARIANTS
  LockDescribesImage
PROPERTIES
  FailedBuildLeavesAllAsItWas
  ImplementsImageAndLock
SYMMETRY Symmetry
