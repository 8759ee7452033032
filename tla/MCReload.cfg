SPECIFICATION LiveSpec
CONSTANTS
  first = first  second = second  full = full  lean = lean  tower = tower
  None = None  Boot = Boot
  Requests = {first, second}
  Revisions = {full, lean}
  Features = {tower}
  Supports <- Definitions
  QueueMax = 2  MaxCrashes = 1  MaxFaults = 1
INVARIANTS TypeOK OneRevision CheckpointIsWhole WorldIsDefined
PROPERTIES NoLostUpdate EveryRequestIsAnswered
