SPECIFICATION Spec
CONSTANTS
  Keys = {k1}
  Values = {v1}
  Deletion = Deletion
  None = None
  Broken = Broken
  MemLimit = 1
  MaxFileNumber = 7
  MaxStarts = 2
  WriteLives = {1}
  MaxLegacy = 0
  CrashAt = {"consume", "unlink_l0"}
INVARIANTS RecoversLatest
CHECK_DEADLOCK FALSE
