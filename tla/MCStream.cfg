SPECIFICATION OneSpec
CONSTANTS
  None = None
  Own = "own"
  Others <- OneFoe
  Places <- Line
  Start <- Starts
  Retained <- OneFoe
  Ranges <- Sensors
  FarSight = 2
  Gain = 2
  Research = TRUE
  MaxEvents = 3
  MaxRuns = 2
  MaxTroubles = 1
  MaxWire = 1
  MaxCalls = 2
CHECK_DEADLOCK FALSE
INVARIANTS ViewIsTruth OneRunShown
PROPERTY ComesAlive
