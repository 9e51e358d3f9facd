SPECIFICATION FairSpec
CONSTANTS
  Nodes = {n1, n2}
  Clients = {c1}
  Tunnels = {t1, t2}
  NoTunnel = NoTunnel
  Nobody = Nobody
  FirstTunnel = t1
  FirstNode = n1
INVARIANTS RecordIsAuthentic GhostIsLeftover LatestRecordedUnlessStale
PROPERTIES KeepsRegistry ReplacedGoes EndedGoesOffline
ACTION_CONSTRAINTS NamedInOrder FewFaults
CHECK_DEADLOCK FALSE
