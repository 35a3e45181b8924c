SPECIFICATION FairSpec
CONSTANTS
  MaxEvents = 2
  MaxTotal = 2
  BatchSize = 2
  MaxBatches = 2
  Temporalities = {"delta", "cumulative"}
  MaxFaults = 2
  MaxChanges = 2
INVARIANTS
  SentIsCounted
  ExactWhenDrained
PROPERTIES
  EveryRowEnds
CHECK_DEADLOCK FALSE
