SPECIFICATION Spec
CONSTANTS
  create1 = create1
  create2 = create2
  provision = provision
  rotate = rotate
  remove = remove
  fresh = fresh
  other = other
  ann = ann
  dan = dan
  dev = dev
  una = una
  new = new
  nobody = nobody
  north = north
  south = south
  g1 = g1
  g2 = g2
  Operations = {create1, create2, provision, rotate, remove}
  OpKind <- MCOpKind
  OpTenant <- MCOpTenant
  OpName <- MCOpName
  OldTenants = {}
  NoUser = NoUser
  NoRow = NoRow
  NoName = NoName
  MaxMishaps = 2
  Slots = {s1, s2}
  People = {ann, dan, dev, una, new, nobody}
  HomeTenant <- MCHomeTenant
  FirstRole <- MCFirstRole
  Dealers = {north, south}
  Groups = {g1, g2}
  FirstGroup <- MCFirstGroup
  GroupNames = {"east"}
  Agendas <- MCAgendas
  TTL = 2
  WINDOW = 2
  MAX_REQUESTS = 2
  Patience = 1
  NoTenant = NoTenant
  NoGroup = NoGroup
  NoRequest = NoRequest
  NotYet = NotYet
  Deleted = Deleted
SYMMETRY Connections
INVARIANTS
  AdministrationTypeOK
  AccountsHaveTenants
  SuccessSettles
  NamesAreUnique
  CreationAuditIsTrue
  TwiceTheLimit
  ScopeHeld
PROPERTIES
  RevocationTakesEffect
CHECK_DEADLOCK FALSE
