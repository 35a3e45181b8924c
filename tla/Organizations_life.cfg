SPECIFICATION Spec
CONSTANTS
  Emails = {e1, e2}
  First = e1
  Slugs = {acme}
  Main = main
  Calls = {c1, c2}
  MaxOrgs = 2
  MaxPw = 2
  MaxOpen = 1
INVARIANTS
  OwnDatabase
  MembersCanSignIn
  HandlesAreLive
PROPERTIES
  NoResurrection
