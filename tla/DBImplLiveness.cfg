SPECIFICATION FairSpec
CONSTANTS
  Keys = {k1}
  Values = {v1}
  Deletion = Deletion
  None = None
  Writers = {w1}
  Readers = {}
  Syncers = {s1}
  Compactors = {}
  Bg = Bg
  Dtor = Dtor
  NoThread = NoThread
  Null = Null
  MemLimit = 1
  MaxFileNumber = 5
  BuildMayFail = FALSE
PROPERTIES BlockedPutResumes DestructorEnds
CHECK_DEADLOCK FALSE
