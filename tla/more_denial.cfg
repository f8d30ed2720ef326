SPECIFICATION Spec
CONSTANTS
  Pids = {101}
  Comms <- TwoNames
  KnownComms <- Whitelist
  Handlers = {h1}
  Ops = {}
  ModeRequests = {"enforce"}
  SidecarReplies = {"scored"}
  Criu = FALSE
  Lsm = TRUE
  DenyMapMax = 1
  MaxGen = 2
INVARIANTS
  KilledIsDead
PROPERTIES
  WhitelistedMayExec
CHECK_DEADLOCK FALSE
