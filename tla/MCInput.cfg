SPECIFICATION Spec
CONSTANTS
  NoThing = NoThing  worker = worker  ship = ship  dock = dock
  Things = {worker, ship, dock}
  Can <- Fleet
  Resources = {"ore", "food"}
  Players = {"me", "foe"}
  Owners <- OnePlayers
  Fickle = {ship}
  MaxNews = 1
INVARIANT ChoiceIsForSelection
PROPERTY OneOrderPerUnit
CHECK_DEADLOCK FALSE
