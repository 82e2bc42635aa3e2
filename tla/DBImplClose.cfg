SPECIFICATION Spec
CONSTANTS
  Keys = {k1}
  Values = {v1}
  Deletion = Deletion
  None = None
  Writers = {w1}
  Readers = {}
  Syncers = {}
  Compactors = {}
  Bg = Bg
  Dtor = Dtor
  NoThread = NoThread
  Null = Null
  MemLimit = 1
  MaxFileNumber = 6
  BuildMayFail = FALSE
INVARIANTS DurableAfterClose
CHECK_DEADLOCK FALSE
