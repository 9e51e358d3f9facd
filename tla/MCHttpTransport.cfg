SPECIFICATION Spec
CONSTANTS
  Requests = {r1, r2}
  None = None
  Expiry = Expiry
  AtOnce = 2
  FirstRequest = r1
CHECK_DEADLOCK FALSE
SYMMETRY Symmetry
INVARIANTS AloneIsSafe HandlerHasTaker OpenIsTracked
