CONSTANTS
  g = g
  m = m
  c = c
  r1 = r1
  Job = {g, m, c}
  Run = {r1}
  NoJob = NoJob
  NoRun = NoRun
  Stale = Stale
  Submissions <- MCSubmissions
  MaxSpawnDepth = 2
  MaxRetries = 0
  StartCap = 1
  Ops = {}
CHECK_DEADLOCK FALSE
SPECIFICATION Spec
INVARIANTS
  EveryTerminalChildReported
