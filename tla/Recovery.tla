------------------------------ MODULE Recovery ------------------------------
(***************************************************************************)
(* The life of a database directory over several processes: the constructor  *)
(* with RecoveryLoader, puts, the flush and the L0-to-L1 merge broken up at   *)
(* every write to the directory, the destructor, and a process crash between  *)
(* any two of those writes (but for the snapshots of the constructor: see     *)
(* CtorLoad).                                                                 *)
(*                                                                            *)
(* A crash loses memory and keeps whatever was written: AddLog flushes every  *)
(* record, and a record cut off in the middle is one LoadLog ignores.  An     *)
(* SSTable cut off in the middle is Broken.  A manifest edit is durable at    *)
(* once (RecordedEditsSurvive in FormatsProofs).  A level is the set of its  *)
(* readers' file numbers, since readers are pushed in the order of their      *)
(* numbers (LevelsFollowManifest in DBImpl).  One thread writes and one       *)
(* flushes; the other threads are in DBImpl.                                  *)
(***************************************************************************)
EXTENDS LSM, Functions

CONSTANTS
  Broken,         \* an .sst file that SSTableReader::Open refuses
  MemLimit,       \* records in a full MemTable (10000 in the code)
  MaxFileNumber,  \* bound: no put once so many file numbers are used
  MaxStarts,      \* bound: how often a process opens the directory
  WriteLives,     \* bound: the processes that put, by their place in the sequence
  MaxLegacy,      \* bound: .sst files of a directory that has no MANIFEST
  CrashAt         \* the labels at which a process may crash

CtorLabels == {"allocate", "open_wal", "replay"}
FlushLabels == {"build", "add_sst", "unlink_wal"}
MergeLabels == {"prepare_l0", "build_l0", "add_l1", "consume", "unlink_l0"}
UpLabels == {"idle"} \cup FlushLabels \cup MergeLabels

ASSUME RecoveryAssumption ==
  /\ MemLimit \in Nat \ {0} /\ MaxFileNumber \in Nat /\ MaxStarts \in Nat
  /\ WriteLives \subseteq Nat /\ MaxLegacy \in Nat
  /\ CrashAt \subseteq CtorLabels \cup UpLabels /\ Broken \notin Tables

VARIABLES
  mem, imm, active_wal_id, imm_wal_id, l0, l1,   \* memory; no imm_: imm_wal_id = 0
  has_manifest, next_file_number, sst_levels,    \* the manifest
  wal, sst,                                      \* the other files
  pc,       \* "down", a step of the constructor, or what the flush thread does
  closing,  \* in the destructor
  ctx,      \* MinorCtx or L0ToL1Ctx
  starts,   \* history: processes so far
  last      \* history: the last record put

memory == <<mem, imm, active_wal_id, imm_wal_id, l0, l1>>
manifest == <<has_manifest, next_file_number, sst_levels>>
files == <<wal, sst>>
history == <<starts, last>>
vars == <<memory, manifest, files, pc, closing, ctx, history>>

Up == pc \in UpLabels

NoCtx == [new_sst_id |-> 0, output |-> EmptyTable, inputs |-> {}]

\* The memory of no process.
Nothing ==
  /\ mem' = EmptyTable /\ imm' = EmptyTable
  /\ active_wal_id' = 0 /\ imm_wal_id' = 0 /\ l0' = {} /\ l1' = {}
  /\ closing' = FALSE /\ ctx' = NoCtx

\* A directory that is new, or that has SSTables and no manifest.
Init ==
  /\ mem = EmptyTable /\ imm = EmptyTable
  /\ active_wal_id = 0 /\ imm_wal_id = 0 /\ l0 = {} /\ l1 = {}
  /\ closing = FALSE /\ ctx = NoCtx
  /\ has_manifest = FALSE /\ next_file_number = 0 /\ sst_levels = <<>>
  /\ wal = <<>>
  /\ \E n \in 0 .. MaxLegacy : sst \in [1 .. n -> Tables \ {EmptyTable}]
  /\ pc = "down" /\ starts = 0
  /\ last = Merge(sst)

-----------------------------------------------------------------------------
LevelIds(n) == {i \in DOMAIN sst_levels : sst_levels[i] = n}

\* The files that exist and that SSTableReader::Open accepts.
Openable(ids) == {i \in ids \cap DOMAIN sst : sst[i] # Broken}

\* A scan of the directory that looks at the WALs only.
InitNextFileNumberFromWals == Max({0} \cup DOMAIN wal)

\* InitNextFileNumberFromDisk.
InitNextFileNumberFromDisk == Max({0} \cup DOMAIN sst \cup DOMAIN wal)

\* Load or start afresh, and LoadSSTables: the manifest's files by level or, when
\* the manifest has none, every .sst file as L0, which is then persisted.  One step,
\* though it has up to two writes: after a crash between them the next start scans the
\* same directory.  The log that LoadSSTables does not truncate, and that the next start
\* replays over the files persisted here, is left out.
CtorLoad ==
  /\ pc = "down" /\ starts < MaxStarts
  /\ starts' = starts + 1
  /\ has_manifest' = TRUE
  /\ next_file_number' = IF has_manifest THEN next_file_number ELSE InitNextFileNumberFromDisk
  /\ IF DOMAIN sst_levels # {}
       THEN l0' = Openable(LevelIds(0)) /\ l1' = Openable(LevelIds(1)) /\ UNCHANGED sst_levels
       ELSE l0' = Openable(DOMAIN sst) /\ l1' = {} /\ sst_levels' = [i \in l0' |-> 0]
  /\ pc' = "allocate"
  /\ UNCHANGED <<mem, imm, active_wal_id, imm_wal_id, files, closing, ctx, last>>

\* AllocateFileNumber for the first WAL.
CtorAllocate ==
  /\ pc = "allocate"
  /\ next_file_number' = next_file_number + 1
  /\ active_wal_id' = next_file_number'
  /\ pc' = "open_wal"
  /\ UNCHANGED <<mem, imm, imm_wal_id, l0, l1, has_manifest, sst_levels, files, closing, ctx,
                 history>>

\* The MemTable opens its WAL to append: a file that exists keeps its records.
CtorOpenWal ==
  /\ pc = "open_wal"
  /\ wal' = IF active_wal_id \in DOMAIN wal THEN wal ELSE Assign(wal, active_wal_id, EmptyTable)
  /\ pc' = "replay"
  /\ UNCHANGED <<memory, manifest, sst, closing, ctx, history>>

\* A replay that does not sort the WALs, and happens to take the newest first.
RecoverFromWalsUnsorted ==
  /\ pc = "replay"
  /\ mem' = [k \in Keys |-> OldestFirst(wal, k)]
  /\ pc' = "idle"
  /\ UNCHANGED <<imm, active_wal_id, imm_wal_id, l0, l1, manifest, files, closing, ctx,
                 history>>

\* What LoadLog hands over from the WALs with these numbers, one after the other: the
\* last complete record of each key.  The record a crash cut off fails its checksum.
LoadLogs(ids) == Merge(Restrict(wal, ids))

\* RecoverFromWals: every .wal of the directory, in the order of their numbers, goes
\* into the MemTable and not into its WAL.  The manifest's list of live WALs adds
\* nothing to the directory's, so it is left out.
RecoverFromWals ==
  /\ pc = "replay"
  /\ mem' = LoadLogs(DOMAIN wal)
  /\ pc' = "idle"
  /\ UNCHANGED <<imm, active_wal_id, imm_wal_id, l0, l1, manifest, files, closing, ctx,
                 history>>

-----------------------------------------------------------------------------
MayPut == Up /\ ~closing /\ starts \in WriteLives /\ next_file_number < MaxFileNumber

\* Put into a MemTable that has room: first the WAL, then the skip list.
PutInsert(k, rec) ==
  /\ MayPut /\ Count(mem) < MemLimit
  /\ wal' = [wal EXCEPT ![active_wal_id] = Insert(@, k, rec)]
  /\ mem' = Insert(mem, k, rec)
  /\ last' = Insert(last, k, rec)
  /\ UNCHANGED <<imm, active_wal_id, imm_wal_id, l0, l1, manifest, sst, pc, closing, ctx,
                 starts>>

\* Put into a full MemTable, which becomes imm_: only while no section of the flush
\* thread holds state_mu_.
PutSwitch(k, rec) ==
  LET first == Insert(EmptyTable, k, rec) IN
  /\ MayPut /\ Count(mem) >= MemLimit /\ imm_wal_id = 0
  /\ pc \notin {"consume", "unlink_l0"}
  /\ imm' = mem /\ imm_wal_id' = active_wal_id
  /\ next_file_number' = next_file_number + 1
  /\ active_wal_id' = next_file_number'
  /\ wal' = Assign(wal, active_wal_id', first)
  /\ mem' = first
  /\ last' = Insert(last, k, rec)
  /\ UNCHANGED <<l0, l1, has_manifest, sst_levels, sst, pc, closing, ctx, starts>>

-----------------------------------------------------------------------------
\* MinorCompaction takes a number for imm_.
FlushPrepare ==
  /\ pc = "idle" /\ imm_wal_id # 0
  /\ next_file_number' = next_file_number + 1
  /\ ctx' = [NoCtx EXCEPT !.new_sst_id = next_file_number']
  /\ pc' = "build"
  /\ UNCHANGED <<memory, has_manifest, sst_levels, files, closing, history>>

\* A build that goes on although the file could not be written.
FlushBuildUnwritten ==
  /\ pc = "build"
  /\ pc' = "add_sst"
  /\ UNCHANGED <<memory, manifest, files, closing, ctx, history>>

\* BuildMinorSST.
FlushBuild ==
  /\ pc = "build"
  /\ sst' = Assign(sst, ctx.new_sst_id, imm)
  /\ pc' = "add_sst"
  /\ UNCHANGED <<memory, manifest, wal, closing, ctx, history>>

\* The new SSTable is published before its WAL goes.
FlushAddSst ==
  /\ pc = "add_sst"
  /\ l0' = l0 \cup {ctx.new_sst_id}
  /\ sst_levels' = Assign(sst_levels, ctx.new_sst_id, 0)
  /\ pc' = "unlink_wal"
  /\ UNCHANGED <<mem, imm, active_wal_id, imm_wal_id, l1, has_manifest, next_file_number, files,
                 closing, ctx, history>>

\* Remove the WAL of imm_ (RemoveWal changes only the list that recovery does not
\* depend on), drop imm_, and merge when L0 has two files.
FlushUnlinkWal ==
  /\ pc = "unlink_wal"
  /\ wal' = Erase(wal, {imm_wal_id})
  /\ imm' = EmptyTable /\ imm_wal_id' = 0
  /\ ctx' = NoCtx
  /\ pc' = IF Cardinality(l0) >= 2 THEN "prepare_l0" ELSE "idle"
  /\ UNCHANGED <<mem, active_wal_id, l0, l1, manifest, sst, closing, history>>

-----------------------------------------------------------------------------
\* PrepareL0ToL1.  (It refuses when a file of the manifest has no reader, which
\* ManifestFilesOpen excludes.)
MergePrepare ==
  LET output == Output(Merge(Restrict(sst, l0)), Restrict(sst, l1)) IN
  /\ pc = "prepare_l0"
  /\ next_file_number' = next_file_number + 1
  /\ ctx' = [new_sst_id |-> next_file_number', output |-> output, inputs |-> LevelIds(0)]
  /\ IF output = EmptyTable THEN pc' = "consume" /\ l0' = {} ELSE pc' = "build_l0" /\ UNCHANGED l0
  /\ UNCHANGED <<mem, imm, active_wal_id, imm_wal_id, l1, has_manifest, sst_levels, files,
                 closing, history>>

\* BuildL0ToL1SST.
MergeBuild ==
  /\ pc = "build_l0"
  /\ sst' = Assign(sst, ctx.new_sst_id, ctx.output)
  /\ pc' = "add_l1"
  /\ UNCHANGED <<memory, manifest, wal, closing, ctx, history>>

\* An install that leaves the readers of the consumed L0 files in place.
MergeAddL1KeepL0 ==
  /\ pc = "add_l1"
  /\ l1' = l1 \cup {ctx.new_sst_id}
  /\ sst_levels' = Assign(sst_levels, ctx.new_sst_id, 1)
  /\ pc' = "consume"
  /\ UNCHANGED <<mem, imm, active_wal_id, imm_wal_id, l0, has_manifest, next_file_number, files,
                 closing, ctx, history>>

\* InstallL0ToL1 publishes the merged file, then consumes L0.
MergeAddL1 ==
  /\ pc = "add_l1"
  /\ l1' = l1 \cup {ctx.new_sst_id} /\ l0' = {}
  /\ sst_levels' = Assign(sst_levels, ctx.new_sst_id, 1)
  /\ pc' = "consume"
  /\ UNCHANGED <<mem, imm, active_wal_id, imm_wal_id, has_manifest, next_file_number, files,
                 closing, ctx, history>>

\* Removing the file before the manifest forgets it.
UnlinkBeforeRemoveSst(i) ==
  /\ pc = "consume" /\ i \in ctx.inputs
  /\ sst' = Erase(sst, {i})
  /\ ctx' = [ctx EXCEPT !.new_sst_id = i]
  /\ pc' = "unlink_l0"
  /\ UNCHANGED <<memory, manifest, wal, closing, history>>

\* consume_l0, one input at a time, in the order an unordered_map gives them: out of
\* the manifest first ...
ConsumeL0(i) ==
  /\ pc = "consume" /\ i \in ctx.inputs
  /\ sst_levels' = Erase(sst_levels, {i})
  /\ ctx' = [ctx EXCEPT !.new_sst_id = i]
  /\ pc' = "unlink_l0"
  /\ UNCHANGED <<memory, has_manifest, next_file_number, files, closing, history>>

\* ... then out of the directory.
UnlinkL0 ==
  LET left == ctx.inputs \ {ctx.new_sst_id} IN
  /\ pc = "unlink_l0"
  /\ sst' = Erase(sst, {ctx.new_sst_id})
  /\ ctx' = IF left = {} THEN NoCtx ELSE [ctx EXCEPT !.inputs = left]
  /\ pc' = IF left = {} THEN "idle" ELSE "consume"
  /\ UNCHANGED <<memory, manifest, wal, closing, history>>

-----------------------------------------------------------------------------
\* The destructor flushes a MemTable whose Count() is not 0.  Only with no flush pending:
\* a destructor that finds one overwrites imm_, and is in DBImpl (DurableAfterClose).
Close ==
  /\ pc = "idle" /\ ~closing /\ imm_wal_id = 0
  /\ closing' = TRUE
  /\ IF mem # EmptyTable
       THEN imm' = mem /\ imm_wal_id' = active_wal_id /\ mem' = EmptyTable
       ELSE UNCHANGED <<mem, imm, imm_wal_id>>
  /\ UNCHANGED <<active_wal_id, l0, l1, manifest, files, pc, ctx, history>>

\* The destructor is done.
Exit ==
  /\ pc = "idle" /\ closing /\ imm_wal_id = 0
  /\ Nothing /\ pc' = "down"
  /\ UNCHANGED <<manifest, files, history>>

\* The process stops; an SSTable it was writing may be cut off.
Crash ==
  /\ pc \in CrashAt
  /\ \/ UNCHANGED sst
     \/ pc \in {"build", "build_l0"} /\ sst' = Assign(sst, ctx.new_sst_id, Broken)
  /\ Nothing /\ pc' = "down"
  /\ UNCHANGED <<manifest, wal, history>>

Next ==
  \/ CtorLoad \/ CtorAllocate \/ CtorOpenWal \/ RecoverFromWals
  \/ \E k \in Keys, rec \in Records : PutInsert(k, rec) \/ PutSwitch(k, rec)
  \/ FlushPrepare \/ FlushBuild \/ FlushAddSst \/ FlushUnlinkWal
  \/ MergePrepare \/ MergeBuild \/ MergeAddL1
  \/ \E i \in 1 .. next_file_number : ConsumeL0(i)
  \/ UnlinkL0
  \/ Close \/ Exit \/ Crash

Spec == Init /\ [][Next]_vars

-----------------------------------------------------------------------------
\* What Get finds.
Find(k) ==
  Over(mem[k], Over(imm[k], Over(Lookup(Restrict(sst, l0), k), Lookup(Restrict(sst, l1), k))))

\* The type invariant.
TypeOK ==
  /\ mem \in Tables /\ imm \in Tables /\ last \in Tables
  /\ active_wal_id \in Nat /\ imm_wal_id \in Nat /\ next_file_number \in Nat
  /\ l0 \subseteq DOMAIN sst /\ l1 \subseteq DOMAIN sst
  /\ has_manifest \in BOOLEAN /\ closing \in BOOLEAN
  /\ sst_levels \in [DOMAIN sst_levels -> {0, 1}]
  /\ wal \in [DOMAIN wal -> Tables] /\ sst \in [DOMAIN sst -> Tables \cup {Broken}]
  /\ pc \in {"down"} \cup CtorLabels \cup UpLabels /\ starts \in 0 .. MaxStarts
  /\ ctx \in [new_sst_id : Nat, output : Tables, inputs : SUBSET Nat]

\* A process that has opened the directory answers with what was put last, whoever
\* put it: nothing acknowledged is lost, nothing deleted comes back and nothing
\* overwritten shows again, wherever the processes before it stopped (DBImpl's
\* constructor, MinorCompaction, CompactL0ToL1, the destructor).
RecoversLatest == Up => \A k \in Keys : Visible(Find(k)) = Visible(last[k])

\* A number that AllocateFileNumber gives out names no file of the directory, after
\* any crash: a MemTable never appends to the WAL of an earlier process.
FileNumbersFresh ==
  has_manifest => \A i \in DOMAIN wal \cup DOMAIN sst : i <= next_file_number

\* Every SSTable of the manifest is in the directory and complete, at every moment:
\* LoadSSTables never skips one (AddSst comes after the build, RemoveSst before the
\* file is removed).
ManifestFilesOpen == Openable(DOMAIN sst_levels) = DOMAIN sst_levels

-----------------------------------------------------------------------------
\* The numbers in use stay below the counter; before there is a manifest, the only
\* files are the SSTables found.
NumbersKnown ==
  /\ pc # "down" => has_manifest
  /\ ~has_manifest => next_file_number = 0
  /\ DOMAIN wal \cup DOMAIN sst \subseteq 0 .. next_file_number + MaxLegacy
  /\ active_wal_id <= next_file_number /\ ctx.new_sst_id <= next_file_number

\* Readers are files of the manifest, at their level.
ReadersKnown == l0 \subseteq LevelIds(0) /\ l1 \subseteq LevelIds(1)

\* What the flush thread relies on between two writes: its file is unknown to the
\* manifest until it is published, and complete by then; what a merge consumes is not
\* in L1, and nobody reads it any more.
WorkKnown ==
  /\ pc \in {"build", "add_sst", "build_l0", "add_l1", "unlink_l0"}
       => ctx.new_sst_id \notin DOMAIN sst_levels
  /\ pc \in {"add_sst", "add_l1"} => ctx.new_sst_id \in Openable(DOMAIN sst)
  /\ pc \in {"build_l0", "add_l1", "consume", "unlink_l0"} => ctx.inputs \cap LevelIds(1) = {}
  /\ pc \in {"build_l0", "add_l1"} => ctx.new_sst_id \notin ctx.inputs
  /\ pc \in {"consume", "unlink_l0"} => l0 = {}

\* The inductive invariant behind FileNumbersFresh and ManifestFilesOpen: between any
\* two writes of the constructor, a flush, a merge or the destructor, the directory, the
\* manifest and the readers agree.
Inv ==
  /\ TypeOK /\ FileNumbersFresh /\ ManifestFilesOpen
  /\ NumbersKnown /\ ReadersKnown /\ WorkKnown

-----------------------------------------------------------------------------
\* When recovery can be trusted: every process closes in order, or else no merge is
\* cut off while it consumes L0 and, before the last process, only one of them puts.
\* (Otherwise RecoversLatest fails: ConsumeL0 removes its inputs in any order, and the
\* WAL of a crashed process is replayed by every later one.)
Trusted ==
  \/ CrashAt = {}
  \/ /\ CrashAt \cap {"consume", "unlink_l0"} = {}
     /\ \A a, b \in WriteLives : a < b => b = MaxStarts

\* What the SSTables of the levels hold for a key.
InLevels(ids0, ids1, k) == Over(Lookup(Restrict(sst, ids0), k), Lookup(Restrict(sst, ids1), k))

\* The readers are the manifest's files, and a flush or a merge holds what it will
\* publish, under a number above those of the level it goes to.
WorkFollows ==
  /\ pc # "down" => l1 = LevelIds(1)
  /\ pc \notin {"down", "consume", "unlink_l0"} => l0 = LevelIds(0)
  /\ pc \in {"consume", "unlink_l0"} => LevelIds(0) \subseteq ctx.inputs
  /\ pc \in {"build_l0", "add_l1"} =>
       /\ ctx.inputs = LevelIds(0)
       /\ ctx.output = Output(Merge(Restrict(sst, l0)), Restrict(sst, l1))
       /\ \A j \in l1 : j < ctx.new_sst_id
  /\ pc = "add_l1" => sst[ctx.new_sst_id] = ctx.output
  /\ pc \in {"build", "add_sst"} => \A j \in l0 : j < ctx.new_sst_id
  /\ pc = "add_sst" => sst[ctx.new_sst_id] = imm
  /\ pc = "unlink_wal" => \A k \in Keys : imm[k] # None => Lookup(Restrict(sst, l0), k) = imm[k]
  /\ pc \in FlushLabels => imm_wal_id # 0
  /\ imm_wal_id = 0 => imm = EmptyTable

\* The WALs this process writes, and those it found.
Own == DOMAIN wal \cap {active_wal_id, imm_wal_id}
Found == DOMAIN wal \ {active_wal_id, imm_wal_id}

\* The active WAL is the newest, and stays empty in a process that puts nothing.
WalsFollow ==
  /\ 0 \notin DOMAIN wal
  /\ ~Up => imm_wal_id = 0 /\ ~closing
  /\ ~Up \/ closing => mem = EmptyTable
  /\ IF pc \in {"down", "allocate"}
       THEN active_wal_id = 0
       ELSE active_wal_id # 0 /\ \A i \in DOMAIN wal : i <= active_wal_id
  /\ pc = "open_wal" => active_wal_id \notin DOMAIN wal
  /\ pc = "replay" => active_wal_id \in DOMAIN wal /\ wal[active_wal_id] = EmptyTable
  /\ Up /\ ~closing => active_wal_id \in DOMAIN wal /\ imm_wal_id < active_wal_id
  /\ starts \notin WriteLives => \A i \in Own : wal[i] = EmptyTable

\* The complete SSTables that the manifest does not name.
Unlisted == Openable(DOMAIN sst) \ DOMAIN sst_levels

\* No earlier process has left records in a WAL, or in an SSTable that the manifest
\* does not name; so the MemTable holds what is in its WAL, and a process that puts
\* nothing has nothing to flush.
NothingLeft ==
  /\ \A i \in Found : wal[i] = EmptyTable
  /\ has_manifest =>
       Unlisted \subseteq IF pc \in {"add_sst", "add_l1", "unlink_l0"} THEN {ctx.new_sst_id} ELSE {}
  /\ Up => mem = IF active_wal_id \in DOMAIN wal /\ active_wal_id # imm_wal_id
                   THEN wal[active_wal_id] ELSE EmptyTable
  /\ starts \notin WriteLives => pc \in {"down", "idle"} \cup CtorLabels /\ imm_wal_id = 0

\* Until a process that has put crashes, nothing is left.
Unspoiled ==
  CrashAt = {} \/ \A a \in WriteLives : starts < a \/ (starts = a /\ pc # "down")

\* Until the first process opens the directory, it is as it was found.
Untouched ==
  ~has_manifest => /\ wal = <<>> /\ sst_levels = <<>> /\ sst \in [DOMAIN sst -> Tables]
                   /\ last = Merge(sst)

\* A record in a WAL is the last one put, and what is in memory is in a WAL as well.
WalsCurrent ==
  starts < MaxStarts => \A k \in Keys :
    /\ Lookup(wal, k) # None => Visible(Lookup(wal, k)) = Visible(last[k])
    /\ Over(mem[k], imm[k]) # None => Lookup(wal, k) # None

\* An SSTable unknown to the manifest tells nothing new about a key that no WAL has, so
\* that LoadSSTables may take it for L0.
UnlistedHarmless ==
  starts < MaxStarts /\ has_manifest => \A i \in Unlisted, k \in Keys :
    \/ pc = "unlink_l0" /\ i = ctx.new_sst_id
    \/ Lookup(wal, k) # None \/ sst[i][k] = None
    \/ Visible(sst[i][k]) = Visible(last[k])

\* Between two processes, and until the next one has replayed the WALs, the WALs and
\* the manifest's SSTables give what was put last.
FilesCurrent ==
  /\ starts < MaxStarts /\ has_manifest /\ pc = "down" => \A k \in Keys :
       Visible(Over(Lookup(wal, k), InLevels(LevelIds(0), LevelIds(1), k))) = Visible(last[k])
  /\ pc \in CtorLabels => \A k \in Keys :
       Visible(Over(Lookup(wal, k), InLevels(l0, l1, k))) = Visible(last[k])

\* The inductive invariant behind RecoversLatest.
RecoveryInv ==
  /\ Inv /\ WorkFollows /\ WalsFollow /\ Untouched
  /\ Unspoiled => NothingLeft
  /\ Trusted => WalsCurrent /\ UnlistedHarmless /\ FilesCurrent /\ RecoversLatest
=============================================================================
