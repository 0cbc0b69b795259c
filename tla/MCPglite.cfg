CONSTANTS
  Proc = {p1, p2, p3}
  Past = Past
  Ino = {i1, i2}
  NoDir = NoDir
  None = None
  Garbled = Garbled
  MaxCrashes = 1
SYMMETRY Symmetry
SPECIFICATION Spec
INVARIANTS
  TypeOK
  SoleWriter

  
