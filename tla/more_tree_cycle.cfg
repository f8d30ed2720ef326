SPECIFICATION Spec
CONSTANTS
  Pids = {init, p1, p2}
  NoPid = none
  Root = init
  Objects = {etc}
  Scores = {100}
  Trustable = {}
  Reuse = TRUE
  MaxBirths = 4
INVARIANTS
  TreeAcyclic
CHECK_DEADLOCK FALSE
