SPECIFICATION FairRelaySpec
CONSTANTS
  Conns = {x1, x2}
  Second = x2
CHECK_DEADLOCK FALSE
ACTION_CONSTRAINT SecondIsQuiet
INVARIANTS GoFindsListener JoinedIsRouted
PROPERTIES RouteDrains CloseSpreads AcceptedIsServed
