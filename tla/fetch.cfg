SPECIFICATION FetchFairSpec
CONSTANTS
  Size = 3
  Attempts = 3
INVARIANTS
  ReturnsWhole
  PerformsBounded
  ThrowsAfterLastAttempt
PROPERTY
  FetchEnds
