CONSTANTS
  f1 = f1
  f2 = f2
  v1 = v1
  v2 = v2
  w1 = w1
  w2 = w2
  w3 = w3
  Caller = {s1}
  Nobody = Nobody
  File = {f1, f2}
  Content = {v1, v2, w1, w2, w3}
  Absent = Absent
  Bad = {}
  N = 3
  Tree <- MCTree
  Threshold = 2
  Fulls = {FALSE}
  Skipping = {FALSE}
  MaxFaults = 1
CHECK_DEADLOCK FALSE
SPECIFICATION Spec
PROPERTIES
  FullIsAuthoritative
