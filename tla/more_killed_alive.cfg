SPECIFICATION Spec
CONSTANTS
  Pids = {init, p1, p2}
  NoPid = none
  Root = init
  Patterns = {staging}
  Lsm = TRUE
  Reuse = FALSE
  MaxBirths = 2
CHECK_DEADLOCK FALSE
INVARIANT HiddenIsDead
