SPECIFICATION OneSpec
CONSTANTS
  None = None
  Scripts <- Everyone
  Orders <- Few
  MaxCmds = 2
  MaxRuns = 2
  MaxTroubles = 2
  Count = 2
  MaxSignals = 2
CHECK_DEADLOCK FALSE
INVARIANTS ReadyIsOneRun NoSilentWait
PROPERTIES BotsAreAccountedFor
