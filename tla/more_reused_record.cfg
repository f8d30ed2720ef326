SPECIFICATION Spec
CONSTANTS
  Pids = {init, p1, p2}
  NoPid = none
  Root = init
  Patterns = {staging}
  Lsm = FALSE
  Reuse = TRUE
  MaxBirths = 4
CHECK_DEADLOCK FALSE
INVARIANTS
  TreeComplete
  HiddenIsDead
