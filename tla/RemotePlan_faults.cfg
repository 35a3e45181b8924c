SPECIFICATION FairSpec
CONSTANTS
  Keys = {k1}
  MaxCommands = 4
  MaxEvents = 1
  HubRefuses = TRUE
  Crashes = TRUE
INVARIANTS
  ForgottenMeansGone
  SyncedIsTruthful
  Converged
PROPERTIES
  DeleteResolves
