SPECIFICATION Spec
CONSTANTS
  Pids = {101}
  Comms = {"app"}
  KnownComms = {}
  Handlers = {h1, h2}
  Ops = {"trust", "bulk"}
  ModeRequests = {"observe"}
  SidecarReplies = {"scored"}
  Criu = FALSE
  Lsm = FALSE
  DenyMapMax = 1
  MaxGen = 1
PROPERTIES
  BulkNeverPausesTrusted
CHECK_DEADLOCK FALSE
