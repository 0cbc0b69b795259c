CONSTANTS
  j1 = j1
  r1 = r1
  r2 = r2
  Job = {j1}
  Run = {r1, r2}
  NoJob = NoJob
  NoRun = NoRun
  Stale = Stale
  Submissions <- MCSubmissions
  MaxSpawnDepth = 1
  MaxRetries = 1
  StartCap = 2
  Ops = {"retry", "cancel", "ttl", "release", "throws", "leasefull", "remove"}
SYMMETRY Symmetry
CHECK_DEADLOCK FALSE
SPECIFICATION Spec
INVARIANTS
  AttemptsOrder
  BudgetsHold
PROPERTIES
  TerminalIsFinal
  ClockStartsAtClaim
  ZombiesWriteNothing
