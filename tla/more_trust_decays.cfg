SPECIFICATION Spec
CONSTANTS
  Pids = {init, p1}
  NoPid = none
  Root = init
  Objects = {etc}
  Scores = {100}
  Trustable = {init, p1}
  Reuse = FALSE
  MaxBirths = 2
INVARIANTS
  FullyTrusted
CHECK_DEADLOCK FALSE
