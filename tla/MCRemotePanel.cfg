SPECIFICATION PanelFairSpec
CONSTANTS
  None = None
  w1 = w1
  w2 = w2
  Workflows <- MCWorkflows
  Start <- MCStart
  MaxKey = 3
  Slots = {1, 2}
  MaxClicks = 3
  MaxOthers = 1
INVARIANTS
  OrderFollowsHub

  
CHECK_DEADLOCK FALSE
