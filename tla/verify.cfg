SPECIFICATION Spec
CONSTANTS
  Pids = {p1, p2}
  Conns = {c1, c2}
  Prompt = TRUE
  MaxRounds = 2
INVARIANTS
  CleanedUp
  EarlyCallbackConfirms
PROPERTIES
  CountedForItsVerification
  VerifyReturns
  ListenerEnds
CHECK_DEADLOCK FALSE
