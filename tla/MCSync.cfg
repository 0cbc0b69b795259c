CONSTANTS
  f1 = f1
  f2 = f2
  v1 = v1
  v2 = v2
  w1 = w1
  w2 = w2
  w3 = w3
  Caller = {s1, s2}
  Nobody = Nobody
  File = {f1, f2}
  Content = {v1, v2, w1, w2, w3}
  Absent = Absent
  Bad = {w2}
  N = 3
  Tree <- MCTree
  Threshold = 2
  Fulls = {FALSE, TRUE}
  Skipping = {FALSE}
  MaxFaults = 2
CHECK_DEADLOCK FALSE
SPECIFICATION FairSpec
INVARIANTS
  Faithful
  BankedIsDone
PROPERTIES
  BookmarkForward
  Converges
