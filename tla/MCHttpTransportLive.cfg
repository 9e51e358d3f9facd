SPECIFICATION FairSpec
CONSTANTS
  Requests = {r1, r2}
  None = None
  Expiry = Expiry
  AtOnce = 1
  FirstRequest = r1
CHECK_DEADLOCK FALSE
ACTION_CONSTRAINT NamedInOrder
PROPERTIES RequestEnds
