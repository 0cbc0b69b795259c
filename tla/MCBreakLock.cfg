CONSTANTS
  a1 = a1
  a2 = a2
  b = b
  P = P
  Q = Q
  h1 = h1
  h2 = h2
  Caller = {a1, a2, b}
  Process = {P, Q}
  Host = {h1, h2}
  ProcOf <- MCProcOf
  HostOf <- MCHostOf
  Nobody = Nobody
  Stale = Stale
  GonePid = GonePid
  TTL = 2
  Grace = 1
  ReuseGrace = 1
  MaxAge = 2
  Margin = 1
  Waiters = {b}
  Punctual = {a1, b}
  Ops = {"safe"}
CHECK_DEADLOCK FALSE
SPECIFICATION Spec
PROPERTIES
  SafeBreakSpares
