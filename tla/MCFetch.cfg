SPECIFICATION Spec
CONSTANTS
  deb = deb
  wheel = wheel
  Workers = {w1, w2}
  NoEntry = NoEntry
  MaxRuns = 2
  Entries <- MCEntries
  Sized <- MCSized
  HasFallback <- MCFallback
INVARIANTS
  FirstErrorIsTheCause
  NothingLeftBehind
  SummaryIsAccurate
  NotFoundMeansEverySource
PROPERTIES
  ImplementsVerifiedPool
  CancelEnds
  EndsUnlessABodyStalls
