SPECIFICATION Spec
CONSTANTS
  Pids = {101}
  Comms = {"app"}
  KnownComms = {}
  Handlers = {h1}
  Ops = {"pause", "resume"}
  ModeRequests = {"pause"}
  SidecarReplies = {"scored"}
  Criu = FALSE
  Lsm = FALSE
  DenyMapMax = 1
  MaxGen = 1
INVARIANTS
  PausedListed
CHECK_DEADLOCK FALSE
