SPECIFICATION Spec
CONSTANTS
  Pids = {101}
  Comms = {"app"}
  KnownComms = {}
  Handlers = {h1}
  Ops = {}
  ModeRequests = {"enforce"}
  SidecarReplies = {"unloaded"}
  Criu = FALSE
  Lsm = FALSE
  DenyMapMax = 1
  MaxGen = 1
INVARIANTS
  UnscoredIsHarmless
CHECK_DEADLOCK FALSE
