SPECIFICATION FairSpec
CONSTANTS
  Keys = {k1}
  Items = {i1, i2}
  NoItem = NoItem
  Owner = Owner
  Lease = 2
  Horizon = 4
  Touches = 2
CHECK_DEADLOCK FALSE
INVARIANTS LeaseHasOneTimer RemovedWasHandled
PROPERTIES KeepsLeases LeaseEnds
