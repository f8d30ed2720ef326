SPECIFICATION Spec
CONSTANTS
  Pids = {init, p1, p2}
  NoPid = none
  Root = init
  Objects = {etc}
  Scores = {100}
  Trustable = {}
  Reuse = FALSE
  MaxBirths = 2
PROPERTIES
  NodeIsCurrent
CHECK_DEADLOCK FALSE
