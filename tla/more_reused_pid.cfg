SPECIFICATION Spec
CONSTANTS
  Pids = {101}
  Comms <- TwoNames
  KnownComms <- Whitelist
  Handlers = {h1}
  Ops = {}
  ModeRequests = {"enforce"}
  SidecarReplies = {"scored"}
  Criu = FALSE
  Lsm = FALSE
  DenyMapMax = 1
  MaxGen = 2
PROPERTIES
  WhitelistProtected
CHECK_DEADLOCK FALSE
