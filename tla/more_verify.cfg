SPECIFICATION Spec
CONSTANTS
  Pids = {p1, p2}
  Conns = {c1, c2}
  Prompt = FALSE
  MaxRounds = 2
INVARIANTS
  CallbackConfirms
  ConfirmedByItsCopy
  CleanedUp
CHECK_DEADLOCK FALSE
