SPECIFICATION Spec
CONSTANTS
  Users = {u1, u2}
  First = u1
  Custom = {r1}
  PermissionSets = {{"users", "wf"}}
  Calls = {c1, c2}
  MaxVersion = 3
  MaxSessions = 2
  MaxTokens = 2
SYMMETRY CallSymmetry
INVARIANTS
  AlwaysAdministrator
  SessionsFollowRoles
  LinksAreSingle
PROPERTIES
  EndedForGood
