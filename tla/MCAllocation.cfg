SPECIFICATION Spec
CONSTANTS
  NewClients = {c1, c2}
  Adds = {a1, a2}
  TunnelIds = {t1, t2}
  DomainNames = {d1}
  Hosts = {h1}
  SignKeys = {k1, k2}
  Locked = Locked
  None = None
CHECK_DEADLOCK FALSE
INVARIANTS NameResolves AimedAsChecked TokenIsAccepted
PROPERTIES KeepsNames
SYMMETRY Symmetry
