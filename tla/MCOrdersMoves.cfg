SPECIFICATION MovesSpec
CONSTANTS
  None = None
  MaxCmds = 3
  MaxCalls = 1
  Troubles = {}
  MaxTroubles = 0
  Policies = {"replace", "append"}
  QueuedMoves = TRUE
PROPERTY FollowUpsAreKept
CHECK_DEADLOCK FALSE
