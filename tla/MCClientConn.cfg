SPECIFICATION Spec
CONSTANTS
  Tunnels = {t1, t2}
  MaxTargets = 1
  MaxRestarts = 1
  Stored = Stored
  NoId = NoId
  NoTunnel = NoTunnel
  Other = Other
  Keeper = Keeper
  FirstTunnel = t1
CHECK_DEADLOCK FALSE
ACTION_CONSTRAINTS OneFromOutside FewErrors
SYMMETRY Symmetry
INVARIANTS IdentityKept ListedIsSaved MuteOnlyByCut PanicOnlyBeforeList KickedOnlyByRelogin
