SPECIFICATION Spec
CONSTANTS
  Builds = {b1, b2}
  Names = {n1, n2}
  Old = Old
  None = None
  Empty = Empty
  NoName = NoName
INVARIANT
  LockIsAWinners
SYMMETRY Symmetry
