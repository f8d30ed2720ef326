SPECIFICATION FairSpec
CONSTANTS
  Pids <- BoundaryPids
  Comms = {"app"}
  KnownComms = {}
  Handlers = {h1}
  Ops = {"pause", "chatkill", "bulk"}
  ModeRequests = {"pause", "enforce"}
  SidecarReplies = {"scored"}
  Criu = FALSE
  Lsm = TRUE
  DenyMapMax = 1
  MaxGen = 1
INVARIANTS
  PausedListed
PROPERTIES
  ProtectedUntouched
  SuspiciousFrozen
CHECK_DEADLOCK FALSE
