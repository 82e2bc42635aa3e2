SPECIFICATION Spec
CONSTANTS
  Keys = {k1, k2}
  Values = {v1}
  Deletion = Deletion
  None = None
  Writers = {w1}
  Readers = {r1}
  Syncers = {}
  Compactors = {}
  Bg = Bg
  Dtor = Dtor
  NoThread = NoThread
  Null = Null
  MemLimit = 1
  MaxFileNumber = 10
  BuildMayFail = FALSE
SYMMETRY Symmetry
INVARIANTS TypeOK ReadsLatest Durable
PROPERTIES ReadsAtomic
CHECK_DEADLOCK FALSE
