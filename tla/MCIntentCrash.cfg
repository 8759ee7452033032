SPECIFICATION Spec
CONSTANTS
  p1 = p1  p2 = p2  ship = ship  base = base
  go = go  mine = mine  hit = hit  quit = quit  halt = halt  junk = junk
  None = None
  Players = {p1}
  Entities = {ship}
  Cmds = {go, mine, quit}
  Seqs = {1, 2}
  Owner <- ShipOwner
  Payload <- MoveMineQuit
  MaxPosts = 2  MaxDeltas = 1  MaxCrashes = 1  MaxFaults = 0
INVARIANTS TypeOK AcceptedInSequence AcceptedOnce OneOutcome NoResurrection NewestOrderHolds
PROPERTY KeepsOrderBook
CHECK_DEADLOCK FALSE
