SPECIFICATION FairSpec
CONSTANTS
  Calls = {r1, r2}
  NoCall = NoCall
INVARIANTS OwnResponse OrphanOnlyByCancel
PROPERTIES HandledCallReturns CancelReleasesCalls KeepsPromise
CHECK_DEADLOCK FALSE
