SPECIFICATION Spec
CONSTANTS
  Handlers = {h1, h2}
  Queries <- Typed
  PIDs = {"1234", "7"}
  LowPIDs = {"7"}
  Bounds = {"30"}
  Letters = {"7"}
  LogBound = 2
  MaxActs = 3
  MaxTalks = 2
INVARIANTS
  DoneAsMeant
  ActionsLogged
  ConversationsKept
SYMMETRY Symmetry
CHECK_DEADLOCK FALSE
