SPECIFICATION LiveSpec
CONSTANTS
  p1 = p1  p2 = p2  ship = ship  base = base
  go = go  mine = mine  hit = hit  quit = quit  halt = halt  junk = junk
  None = None
  Players = {p1, p2}
  Entities = {ship, base}
  Cmds = {go, hit, mine, quit, halt, junk}
  Seqs = {0, 1}
  Owner <- BothOwners
  Payload <- EveryKind
  MaxPosts = 2  MaxDeltas = 0  MaxCrashes = 0  MaxFaults = 1
PROPERTY EveryPostIsHandled
CHECK_DEADLOCK FALSE
