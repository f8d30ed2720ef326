SPECIFICATION Spec
CONSTANTS
  Pids = {init, p1, p2}
  NoPid = none
  Root = init
  Objects = {etc}
  Scores = {60}
  Trustable = {p2}
  Reuse = FALSE
  MaxBirths = 2
INVARIANTS
  Acyclic
  TreeAcyclic
  OneParent
PROPERTIES
  DescendantsDecay
CHECK_DEADLOCK FALSE
