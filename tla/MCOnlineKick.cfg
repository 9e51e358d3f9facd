SPECIFICATION Spec
CONSTANTS
  Nodes = {n1, n2}
  Clients = {c1}
  Tunnels = {t1, t2}
  NoTunnel = NoTunnel
  Nobody = Nobody
  FirstTunnel = t1
  FirstNode = n1
INVARIANTS KickOnlyOtherConnections
CHECK_DEADLOCK FALSE
