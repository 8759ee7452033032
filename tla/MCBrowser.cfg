SPECIFICATION OneSpec
CONSTANTS
  None = None
  Units = {b}
  Sources = {"stage", "panel"}
  MaxChanges = 2
  MaxBatches = 2
  MaxUpsets = 1
  Collectors = {u}
  Depots = {"near", "far"}
  Players = {"ann", "bob"}
  Owner = "ann"
  Seen <- Views
  Asks = {"collect", "move", "other", "assign", "cargo"}
  MaxAsks = 2
  MaxLooks = 2
  Troubles = {"worker", "line", "refused", "lost", "world", "reload", "switch"}
  MaxTroubles = 1
  Nobody = Nobody
  Terminals = {tab}
  Editors = {editor}
  Logins = {"ann", "bob"}
  Factions = {"raiders"}
  Ids = {x}
  Texts = {"near", "far"}
  Commands = {"world_respawn", "load", "reload", "validate", "save", "bookmark", "pause", "resume", "step"}
  Risky = {"load", "save", "bookmark"}
  MaxCalls = 2
  MaxMishaps = 1
  MaxTicks = 1
CHECK_DEADLOCK FALSE
INVARIANTS HoldServesTheLastWish NotBehindStream ToldIsTrue
PROPERTIES NoOldWishReturns EndsUpCurrent
