SPECIFICATION FairSpec
CONSTANTS
  Adds = {a1, a2, a3}
  Told = {a1, a2}
  Addrs = {d1, d2}
  None = None
CHECK_DEADLOCK FALSE
INVARIANTS ListenIsOpen
PROPERTIES AddedIsOpened
