SPECIFICATION Spec
CONSTANTS
  Keys = {k1}
  Values = {v1}
  Deletion = Deletion
  None = None
  Broken = Broken
  MemLimit = 1
  MaxFileNumber = 6
  MaxStarts = 3
  WriteLives = {1, 2}
  MaxLegacy = 0
  CrashAt = {"idle"}
INVARIANTS RecoversLatest
CHECK_DEADLOCK FALSE
