SPECIFICATION ActivitySpec
CONSTANTS
  None = None
  d1 = d1
  d2 = d2
  ada = ada
  bob = bob
  m = m
  Devices = {d1, d2}
  OwnerOf <- MCOwnerOf
  Unlinked = {}
  Required = FALSE
  Reports <- MCReports
  Rules <- MCRules
  WorkflowIds <- MCWorkflowIds
  MaxStored = 3
  MaxBatch = 1
  MaxTime = 2
  MaxStops = 1
INVARIANTS
  OneOwner
  LinkedStaysLinked
  ViewsAgree
PROPERTIES
  OldCostsStay
