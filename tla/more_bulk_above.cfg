SPECIFICATION Spec
CONSTANTS
  Pids = {101}
  Comms = {"app"}
  KnownComms = {}
  Handlers = {h1}
  Ops = {"bulk"}
  ModeRequests = {"observe"}
  SidecarReplies = {"scored"}
  Criu = FALSE
  Lsm = FALSE
  DenyMapMax = 1
  MaxGen = 1
PROPERTIES
  BulkOnlyBelow
CHECK_DEADLOCK FALSE
