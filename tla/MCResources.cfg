SPECIFICATION ResourcesSpec
CONSTANTS
  None = None
  h1 = h1
  w1 = w1
  tcp = tcp
  set = set
  own = own
  a = a
  b = b
  x = x
  Clients = {h1}
  Workflows = {w1}
  tpl = tpl
  role = role
  other = other
  Malformed = Malformed
  Admin = Admin
  Items = {tcp, set, tpl}
  Roles = {role, other, Admin}
  Locals = {own}
  Addressed = {tcp, own}
  Keys = {x}
  HostOf <- MCHostOf
  KindOf <- MCKindOf
  Supports <- MCSupports
  ContentsOf <- MCContentsOf
  Asked <- MCAsked
  Libraries <- MCLibraries
  CatalogCalls <- MCCatalogCalls
  UniqueIds = TRUE
  MaxRequests = 2
  MaxEdits = 1
  MaxFaults = 2
INVARIANTS
  HubsConverge
  KeysApplyOnce
PROPERTIES
  SelectionsBacked
CHECK_DEADLOCK FALSE
