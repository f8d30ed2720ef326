SPECIFICATION Spec
CONSTANTS
  Handlers = {h1, h2}
  Queries <- Doubtful
  PIDs = {"1234", "7"}
  LowPIDs = {"7"}
  Bounds = {"30"}
  Letters = {"7"}
  LogBound = 2
  MaxActs = 2
  MaxTalks = 1
INVARIANTS
  QuestionsDoNothing
  TrustsPID
  MostRecentFirst
SYMMETRY Symmetry
CHECK_DEADLOCK FALSE
