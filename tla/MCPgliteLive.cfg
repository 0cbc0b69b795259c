CONSTANTS
  Proc = {p1, p2}
  Past = Past
  Ino = {i1, i2}
  NoDir = NoDir
  None = None
  Garbled = Garbled
  MaxCrashes = 1
SPECIFICATION FairSpec
PROPERTIES
  DeadLockCleared
