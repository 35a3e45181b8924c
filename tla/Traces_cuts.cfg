SPECIFICATION Spec
CONSTANTS
  Steps = {s1}
  Sessions = {x1}
  MaxTotal = 2
  MaxEvents = 5
  BatchSize = 3
  MaxFaults = 2
INVARIANTS
  AttemptsKept
  LastWordShown
CHECK_DEADLOCK FALSE
