SPECIFICATION Spec
CONSTANTS
  Entries = {python3, nginx}
  Handlers = {h1, h2}
INVARIANTS
  OverlapSurvived
  KillSurvived
  DiskSurvived
