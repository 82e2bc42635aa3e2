SPECIFICATION Spec
CONSTANTS
  Keys = {k1, k2}
  Values = {v1}
  Deletion = Deletion
  None = None
  Writers = {w1}
  Readers = {}
  Syncers = {}
  Compactors = {c1}
  Bg = Bg
  Dtor = Dtor
  NoThread = NoThread
  Null = Null
  MemLimit = 1
  MaxFileNumber = 7
  BuildMayFail = TRUE
SYMMETRY Symmetry
INVARIANTS LevelsFollowManifest NoLeftoverFiles DirInv
CHECK_DEADLOCK FALSE
