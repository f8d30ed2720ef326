SPECIFICATION Spec
CONSTANTS
  Pids = {101}
  Comms = {"app"}
  KnownComms = {}
  Handlers = {h1}
  Ops = {"mode"}
  ModeRequests = {"observe", "pause"}
  SidecarReplies = {"scored"}
  Criu = FALSE
  Lsm = FALSE
  DenyMapMax = 1
  MaxGen = 1
INVARIANTS
  KillNeedsEnforce
CHECK_DEADLOCK FALSE
