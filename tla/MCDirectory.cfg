SPECIFICATION MCSpec
CONSTANTS
  kept = kept
  added = added
  wheel = wheel
  first = first
  second = second
  Runs = {r1, r2}
  PoolFiles <- MCFiles
  Wheels <- MCWheels
  PackageFiles <- MCDebs
  Locks <- MCLocks
  Named <- MCNamed
  Builds = {b1, b2}
  Names = {n1, n2}
  Old = Old
  None = None
  Empty = Empty
  NoName = NoName
INVARIANTS
  VendorTypeOK
  SuccessLasts
  TempsAreExclusive
  TempsAreAccountedFor
PROPERTIES
  PruneLeavesNoExtra
  BuiltImageSurvives
SYMMETRY Symmetry
