SPECIFICATION Spec
CONSTANTS
  Pids = {101}
  Comms <- TwoNames
  KnownComms <- Whitelist
  Handlers = {h1}
  Ops = {"resume", "kill", "trust", "mode", "bulk"}
  ModeRequests <- Modes
  SidecarReplies <- LoadedReplies
  Criu = TRUE
  Lsm = FALSE
  DenyMapMax = 1
  MaxGen = 2
INVARIANTS
  TypeOK
  TrustedAreSpared
  ModeDiscipline
  KillIsFinal
  UnscoredIsHarmless
CHECK_DEADLOCK FALSE
