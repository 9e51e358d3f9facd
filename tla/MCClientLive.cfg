SPECIFICATION FairSpec
CONSTANTS
  Tunnels = {t1, t2}
  MaxTargets = 1
  MaxRestarts = 0
  Stored = Stored
  NoId = NoId
  NoTunnel = NoTunnel
  Other = Other
  Keeper = Keeper
  FirstTunnel = t1
CHECK_DEADLOCK FALSE
ACTION_CONSTRAINTS NamedInOrder StaysAlive FewErrors
PROPERTIES Reconnects
