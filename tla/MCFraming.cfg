SPECIFICATION FairSpec
CONSTANTS
  r1 = r1
  r2 = r2
  r3 = r3
  Requests = {r1, r2, r3}
  Body <- MCBody
  Ids <- MCIds
  Raw <- MCRaw
  Push = 1
  Base = 4
  Width = 2
  None = None
CHECK_DEADLOCK FALSE
INVARIANTS RawIsIntact
PROPERTIES KeepsChannels SentArrives
