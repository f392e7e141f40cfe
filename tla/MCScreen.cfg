SPECIFICATION Spec
CONSTANTS
  N = 3
  Buffer = 2
INVARIANTS
  TypeOK
  ExitIsTrue
  ClosesOnceAllIsShown
PROPERTY
  Ends
