SPECIFICATION Spec
CONSTANTS
  LastPocket = 2
  Files = 2
  MaxRevision = 2
  Size <- MCSize
  None = None
  Broken = Broken
INVARIANTS
  TypeOK
  AnswerIsWhole
  RefreshIsHonoured
  ProgressIsTrue
PROPERTY
  EndsIfAnswered
