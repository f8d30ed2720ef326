SPECIFICATION Spec
CONSTANTS
  Syscalls = {"execve", "connect"}
  Baseline <- Frequencies
  NgramWindowSize = 4
  Scores = {1, 2, 3}
  Corpora <- SomeCorpora
  Texts <- SomeTexts
  ParentTrusts = {0, 10000}
  MaxCalls = 5
INVARIANTS
  FalseAlarmsBounded
  AlarmsAreBlockable
  MoreSuspiciousNeverMilder
  RarityOfLatest
CHECK_DEADLOCK FALSE
