SPECIFICATION Spec
CONSTANTS
  None = None
  History <- Once
  Files <- Artwork
  MaxRuns = 2
  MaxAsks = 1
  MaxTroubles = 1
CHECK_DEADLOCK FALSE
INVARIANTS TypeOK SynchronizedIsShown
PROPERTY ShowsAccepted
