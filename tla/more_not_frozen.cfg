SPECIFICATION FairSpec
CONSTANTS
  Pids = {101}
  Comms = {"app"}
  KnownComms = {}
  Handlers = {h1}
  Ops = {}
  ModeRequests = {"pause"}
  SidecarReplies = {"scored"}
  Criu = FALSE
  Lsm = FALSE
  DenyMapMax = 1
  MaxGen = 2
PROPERTIES
  SuspiciousFrozen
CHECK_DEADLOCK FALSE
