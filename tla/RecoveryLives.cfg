SPECIFICATION Spec
CONSTANTS
  Keys = {k1, k2}
  Values = {v1}
  Deletion = Deletion
  None = None
  Broken = Broken
  MemLimit = 1
  MaxFileNumber = 6
  MaxStarts = 3
  WriteLives = {1, 3}
  MaxLegacy = 1
  CrashAt = {"allocate", "open_wal", "replay", "idle", "build", "add_sst", "unlink_wal",
             "prepare_l0", "build_l0", "add_l1"}
INVARIANTS TypeOK RecoversLatest FileNumbersFresh ManifestFilesOpen RecoveryInv
SYMMETRY Symmetry
CHECK_DEADLOCK FALSE
