SPECIFICATION FairSpec
CONSTANTS
  h1 = h1
  a = a
  b = b
  None = None
  Hubs <- MCHubs
  Channels <- MCChannels
  Owner <- MCOwner
  Limit = 1
  MaxCommands = 2
  HubReapplies = TRUE
PROPERTIES
  SettledIsFinal
  ImplementsFifo
  SettledUnlessLost
