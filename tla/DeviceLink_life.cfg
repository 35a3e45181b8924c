SPECIFICATION FairSpec
CONSTANTS
  Requests = {r1}
  Calls = {1, 2, 3}
  MaxDevices = 3
  MaxVersion = 3
  PollLimit = 2
  MaxFaults = 2
INVARIANTS
  UsableIsConsumed
  OneCredential
  SecretWorks
PROPERTIES
  KnownRequestsEnd
CHECK_DEADLOCK FALSE
