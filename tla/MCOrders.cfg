SPECIFICATION OneSpec
CONSTANTS
  None = None
  MaxCmds = 3
  MaxCalls = 1
  Troubles = {"drop", "fail", "reload"}
  MaxTroubles = 1
  Policies = {"replace", "append", "clear"}
  QueuedMoves = FALSE
INVARIANTS QueueIsAwaited FollowUpsInOrder
PROPERTIES FollowUpWaits FollowUpsAreKept
CHECK_DEADLOCK FALSE
