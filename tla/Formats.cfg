SPECIFICATION PartSpec
CONSTANTS
  MaxFile = 1
  Threshold = 2
  MaxLog = 3
  Failing = {"append", "tear", "fallback", "persist", "truncate"}
  Absent = Absent
  Live = Live
  Cuts = {4, 17, 22}
  MaxKey = 3
  MaxLevel = 3
  Records = {v1, v2, Deletion}
  NotFound = NotFound
  Deletion = Deletion
  MaxPuts = 3
  BlockLimit = 2
  EntrySize <- MCEntrySize
  BloomHash <- MCBloomHash
  HashBits = 6
  Rotate = 2
  BitsPerKey = 3
  MinBits = 8
  Probes = 2
  Messages <- MCMessages
  MaxMessages = 2
  InitialSize = 3
  ExtraSize = 4
  CR = CR
  LF = LF
  Junk = Junk
INVARIANTS TypeOK MatchesCommitted ListIsMap Linked ReplayGivesBack TableAnswers UnfinishedRefused BufferIsQueue CommandsAsSent
PROPERTIES CheckpointHeals
CHECK_DEADLOCK FALSE
