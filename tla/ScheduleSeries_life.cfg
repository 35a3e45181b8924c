SPECIFICATION FairSpec
CONSTANTS
  Series = {s1, s2}
  Roots = {w1}
  Clones = {c1}
  Specs = {1, 2}
  MaxCommands = 3
  MaxEvents = 1
  MaxCrashes = 1
INVARIANTS OneArmed AgreesWhenQuiet
PROPERTIES CancelIsFinal MintedGetsKnown
CHECK_DEADLOCK FALSE
