CONSTANTS
  par = par
  c1 = c1
  c2 = c2
  r1 = r1
  r2 = r2
  Job = {par, c1, c2}
  Run = {r1, r2}
  NoJob = NoJob
  NoRun = NoRun
  Stale = Stale
  Submissions <- MCSubmissions
  MaxSpawnDepth = 1
  MaxRetries = 0
  StartCap = 1
  Ops = {"cancel"}
SYMMETRY Symmetry
CHECK_DEADLOCK FALSE
SPECIFICATION Spec
INVARIANTS
  ChildrenResolvedFirst
  EveryTerminalChildReported
PROPERTIES
  LastChildReleases
