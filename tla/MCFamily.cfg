CONSTANTS
  par = par
  c1 = c1
  r1 = r1
  r2 = r2
  Job = {par, c1}
  Run = {r1, r2}
  NoJob = NoJob
  NoRun = NoRun
  Stale = Stale
  Submissions <- MCSubmissions
  MaxSpawnDepth = 1
  MaxRetries = 1
  StartCap = 1
  Ops = {"pause", "retry", "cancel", "throws", "remove"}
SYMMETRY Symmetry
CHECK_DEADLOCK FALSE
SPECIFICATION Spec
INVARIANTS
  TypeOK
  ReportedOnce
PROPERTIES
  TerminalIsFinal
