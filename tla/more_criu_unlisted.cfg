SPECIFICATION Spec
CONSTANTS
  Pids = {101}
  Comms = {"app"}
  KnownComms = {}
  Handlers = {h1}
  Ops = {}
  ModeRequests = {"enforce"}
  SidecarReplies = {"scored"}
  Criu = TRUE
  Lsm = FALSE
  DenyMapMax = 1
  MaxGen = 1
INVARIANTS
  PausedListed
CHECK_DEADLOCK FALSE
