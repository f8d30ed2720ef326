SPECIFICATION Spec
CONSTANTS
  Pids = {101}
  Comms = {"app"}
  KnownComms = {}
  Handlers = {h1}
  Ops = {"pause", "kill"}
  ModeRequests = {"observe"}
  SidecarReplies = {"scored"}
  Criu = FALSE
  Lsm = FALSE
  DenyMapMax = 1
  MaxGen = 2
INVARIANTS
  ListedPaused
CHECK_DEADLOCK FALSE
