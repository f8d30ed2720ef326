SPECIFICATION Spec
CONSTANTS
  Pids = {init, p1, p2}
  NoPid = none
  Root = init
  Patterns = {staging}
  Lsm = FALSE
  Reuse = FALSE
  MaxBirths = 2
SYMMETRY Symmetry
INVARIANTS
  PatternsListed
  TreeComplete
  HiddenIsDead
  AncestryShown
CHECK_DEADLOCK FALSE
