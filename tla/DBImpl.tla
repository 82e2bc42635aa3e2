------------------------------- MODULE DBImpl -------------------------------
(***************************************************************************)
(* DBImpl and CompactionEngine in one process: Put, Get, NewIterator, Sync, *)
(* the public CompactL0ToL1, the background flush thread and the destructor, *)
(* interleaved at the granularity of their critical sections.               *)
(*                                                                          *)
(* state_mu_ is a shared_mutex.  A section that holds it exclusively is one  *)
(* action, guarded by StateMuFree; a reader holds it shared from its first   *)
(* step (the MemTable) to its second (everything below the MemTable), and    *)
(* mem_->Put, which takes only write_mu_ and the MemTable's own lock, may     *)
(* run in between.  bg_cv_ is the label "wait": notify_all moves every        *)
(* waiting thread back to "check", where it tests its predicate again.        *)
(*                                                                          *)
(* An SSTable reader is the file number of its SSTable; `sst` and `wal` are   *)
(* the .sst and .wal files of the directory.  A manifest edit is durable at   *)
(* once (module ManifestManager opens that up).  MinorCompaction and          *)
(* CompactL0ToL1 are procedures run by several threads; their contexts are    *)
(* mctx and cctx.  `last` is a history variable: the last record put.         *)
(***************************************************************************)
EXTENDS LSM

CONSTANTS Writers, Readers, Syncers, Compactors, \* threads that call the API
          Bg, Dtor,          \* the background thread, the thread that destroys
          NoThread, Null,    \* no owner of write_mu_; a null MemTable pointer
          MemLimit,          \* records in a full MemTable (10000 in the code)
          MaxFileNumber,     \* bound: calls that allocate files stop here
          BuildMayFail       \* whether writing or opening an SSTable can fail

Flushers == {Bg, Dtor}
Mergers == Compactors \cup Flushers
Threads == Writers \cup Readers \cup Syncers \cup Mergers

ASSUME ThreadAssumption ==
  /\ Writers \cap Readers = {} /\ Writers \cap Syncers = {} /\ Readers \cap Syncers = {}
  /\ (Writers \cup Readers \cup Syncers) \cap Mergers = {}
  /\ Compactors \cap Flushers = {} /\ Bg # Dtor /\ NoThread \notin Threads
ASSUME BoundAssumption ==
  /\ MemLimit \in Nat \ {0} /\ MaxFileNumber \in Nat /\ BuildMayFail \in BOOLEAN
  /\ Null \notin Tables

VARIABLES
  mem, imm,                          \* mem_, imm_
  active_wal_id, imm_wal_id,         \* active_wal_id_, imm_wal_id_
  l0, l1,                            \* levels_[0], levels_[1]
  next_file_number, sst_levels, live_wals, \* ManifestState
  wal, sst,                          \* the files of the directory
  write_mu,                          \* owner of write_mu_
  bg_stopped, bg_compaction_scheduled,
  pc, arg, want, seen, answer, mctx, cctx, \* each thread's place and locals
  last

store_vars == <<mem, imm, active_wal_id, imm_wal_id, l0, l1>>
disk_vars == <<next_file_number, sst_levels, live_wals, wal, sst>>
flag_vars == <<bg_stopped, bg_compaction_scheduled>>
read_vars == <<want, seen, answer>>
vars == <<store_vars, disk_vars, flag_vars, read_vars,
          write_mu, pc, arg, mctx, cctx, last>>

NoMinor == [flushing_imm |-> EmptyTable, new_sst_id |-> 0, old_wal_id |-> 0]
NoMerge == [l0_input_ids |-> {}, expected_l0_reader_count |-> 0,
            new_sst_id |-> 0, output |-> EmptyTable]

\* A fresh database, right after the constructor: one empty MemTable and its WAL.
Init ==
  /\ mem = EmptyTable /\ imm = Null
  /\ active_wal_id = 1 /\ imm_wal_id = 0
  /\ l0 = <<>> /\ l1 = <<>>
  /\ next_file_number = 1 /\ sst_levels = [i \in {} |-> 0] /\ live_wals = {1}
  /\ wal = [i \in {1} |-> EmptyTable] /\ sst = [i \in {} |-> EmptyTable]
  /\ write_mu = NoThread
  /\ bg_stopped = FALSE /\ bg_compaction_scheduled = FALSE
  /\ pc = [t \in Threads |-> IF t = Bg THEN "check" ELSE "idle"]
  /\ arg = [w \in Writers |-> <<None, None>>]
  /\ want = [r \in Readers |-> {}] /\ seen = [r \in Readers |-> EmptyTable]
  /\ answer = [r \in Readers |-> EmptyTable]
  /\ mctx = [t \in Flushers |-> NoMinor] /\ cctx = [t \in Mergers |-> NoMerge]
  /\ last = EmptyTable

-----------------------------------------------------------------------------
\* The tables of a level, oldest first, and the ids the manifest has for it.
Level(l) == [i \in DOMAIN l |-> sst[l[i]]]
LevelIds(n) == {i \in DOMAIN sst_levels : sst_levels[i] = n}

ImmRecord(k) == IF imm = Null THEN None ELSE imm[k]

\* What a search finds below the active MemTable: imm_, then L0, then L1.
BelowMem(k) == Over(ImmRecord(k), Over(Lookup(Level(l0), k), Lookup(Level(l1), k)))

\* A writer or a flush that does not wait for readers.
StateMuIgnored == TRUE

\* state_mu_ can be taken exclusively: no reader is between its two steps.
StateMuFree == \A r \in Readers : pc[r] # "rest"

\* bg_cv_.notify_all().
Woken == [t \in Threads |-> IF pc[t] = "wait" THEN "check" ELSE pc[t]]

Goto(t, label) == pc' = [pc EXCEPT ![t] = label]

\* The object is alive, and the bound leaves room for new files.
MayCall == pc[Dtor] = "idle"
MayCallAndAllocate == MayCall /\ next_file_number < MaxFileNumber

\* AllocateFileNumber.
AllocateFileNumber == next_file_number' = next_file_number + 1

-----------------------------------------------------------------------------
\* Put takes write_mu_ and keeps it until the record is in the MemTable.
PutLock(w, k, rec) ==
  /\ pc[w] = "idle" /\ MayCallAndAllocate
  /\ write_mu = NoThread
  /\ write_mu' = w
  /\ arg' = [arg EXCEPT ![w] = <<k, rec>>]
  /\ Goto(w, "check")
  /\ UNCHANGED <<store_vars, disk_vars, flag_vars, read_vars, mctx, cctx, last>>

PutHasRoom(w) ==
  /\ pc[w] = "check" /\ StateMuFree
  /\ Count(mem) < MemLimit
  /\ Goto(w, "insert")
  /\ UNCHANGED <<store_vars, disk_vars, flag_vars, read_vars, write_mu, arg, mctx, cctx, last>>

PutWait(w) ==
  /\ pc[w] = "check" /\ StateMuFree
  /\ Count(mem) >= MemLimit /\ imm # Null
  /\ Goto(w, "wait")
  /\ UNCHANGED <<store_vars, disk_vars, flag_vars, read_vars, write_mu, arg, mctx, cctx, last>>

\* A switch that forgets the new MemTable.
PutSwitchNoMem(w) ==
  /\ pc[w] = "check" /\ StateMuFree
  /\ Count(mem) >= MemLimit /\ imm = Null
  /\ imm' = mem /\ imm_wal_id' = active_wal_id
  /\ AllocateFileNumber
  /\ mem' = Null /\ wal' = Assign(wal, next_file_number', EmptyTable)
  /\ active_wal_id' = next_file_number'
  /\ live_wals' = live_wals \cup {next_file_number'}
  /\ bg_compaction_scheduled' = TRUE
  /\ pc' = [Woken EXCEPT ![w] = "insert"]
  /\ UNCHANGED <<l0, l1, sst_levels, sst, bg_stopped, read_vars, write_mu, arg, mctx, cctx, last>>

\* The full MemTable becomes imm_, a new one with a new WAL takes its place, and
\* the background thread is scheduled and woken.
PutSwitch(w) ==
  /\ pc[w] = "check" /\ StateMuFree
  /\ Count(mem) >= MemLimit /\ imm = Null
  /\ imm' = mem /\ imm_wal_id' = active_wal_id
  /\ AllocateFileNumber
  /\ mem' = EmptyTable /\ wal' = Assign(wal, next_file_number', EmptyTable)
  /\ active_wal_id' = next_file_number'
  /\ live_wals' = live_wals \cup {next_file_number'}
  /\ bg_compaction_scheduled' = TRUE
  /\ pc' = [Woken EXCEPT ![w] = "insert"]
  /\ UNCHANGED <<l0, l1, sst_levels, sst, bg_stopped, read_vars, write_mu, arg, mctx, cctx, last>>

\* mem_->Put: append to the WAL, insert into the skip list, release write_mu_.
PutInsert(w) ==
  /\ pc[w] = "insert"
  /\ LET k == arg[w][1]  rec == arg[w][2] IN
     /\ wal' = [wal EXCEPT ![active_wal_id] = Insert(@, k, rec)]
     /\ mem' = Insert(mem, k, rec)
     /\ last' = Insert(last, k, rec)
  /\ write_mu' = NoThread
  /\ arg' = [arg EXCEPT ![w] = <<None, None>>]
  /\ Goto(w, "idle")
  /\ UNCHANGED <<imm, active_wal_id, imm_wal_id, l0, l1, next_file_number, sst_levels,
                 live_wals, sst, flag_vars, read_vars, mctx, cctx>>

-----------------------------------------------------------------------------
\* The records of the keys K that the active MemTable has.
MemSnapshot(K) == [k \in Keys |-> IF k \in K THEN mem[k] ELSE None]

\* What a read of the keys K answers, given what it saw in the MemTable.
AnswerOf(K, s) == [k \in Keys |-> IF k \in K THEN Visible(Over(s[k], BelowMem(k))) ELSE None]

\* Get, first step: take state_mu_ shared and search mem_.  A hit, value or
\* tombstone, ends the search; a miss leads below.
GetMem(r, k) ==
  /\ pc[r] = "idle" /\ MayCall
  /\ \/ /\ mem[k] # None
        /\ answer' = [answer EXCEPT ![r] = AnswerOf({k}, MemSnapshot({k}))]
        /\ UNCHANGED <<pc, want, seen>>
     \/ /\ mem[k] = None
        /\ want' = [want EXCEPT ![r] = {k}]
        /\ seen' = [seen EXCEPT ![r] = MemSnapshot({k})]
        /\ Goto(r, "rest")
        /\ UNCHANGED answer
  /\ UNCHANGED <<store_vars, disk_vars, flag_vars, write_mu, arg, mctx, cctx, last>>

\* NewIterator, first step: take state_mu_ shared and copy mem_ (Snapshot).
IterMem(r) ==
  /\ pc[r] = "idle" /\ MayCall
  /\ want' = [want EXCEPT ![r] = Keys]
  /\ seen' = [seen EXCEPT ![r] = MemSnapshot(Keys)]
  /\ Goto(r, "rest")
  /\ UNCHANGED <<store_vars, disk_vars, flag_vars, answer, write_mu, arg, mctx, cctx, last>>

\* Get and NewIterator, second step: imm_, L0 and L1, drop tombstones, release.
ReadRest(r) ==
  /\ pc[r] = "rest"
  /\ answer' = [answer EXCEPT ![r] = AnswerOf(want[r], seen[r])]
  /\ want' = [want EXCEPT ![r] = {}]
  /\ seen' = [seen EXCEPT ![r] = EmptyTable]
  /\ Goto(r, "idle")
  /\ UNCHANGED <<store_vars, disk_vars, flag_vars, write_mu, arg, mctx, cctx, last>>

-----------------------------------------------------------------------------
SyncCall(s) ==
  /\ pc[s] = "idle" /\ MayCall
  /\ Goto(s, "check")
  /\ UNCHANGED <<store_vars, disk_vars, flag_vars, read_vars, write_mu, arg, mctx, cctx, last>>

\* Sync returns when nothing is left to flush, and waits on bg_cv_ otherwise.
SyncCheck(s) ==
  /\ pc[s] = "check" /\ StateMuFree
  /\ Goto(s, IF imm = Null /\ ~bg_compaction_scheduled THEN "idle" ELSE "wait")
  /\ UNCHANGED <<store_vars, disk_vars, flag_vars, read_vars, write_mu, arg, mctx, cctx, last>>

\* A condition variable may wake a waiter for no reason.
SpuriousWakeup(t) ==
  /\ pc[t] = "wait"
  /\ Goto(t, "check")
  /\ UNCHANGED <<store_vars, disk_vars, flag_vars, read_vars, write_mu, arg, mctx, cctx, last>>

-----------------------------------------------------------------------------
\* BackgroundLoop, top: wait for work, leave when stopped.
BgCheck ==
  /\ pc[Bg] = "check" /\ StateMuFree
  /\ Goto(Bg, IF bg_stopped THEN "done"
              ELSE IF bg_compaction_scheduled THEN "minor" ELSE "wait")
  /\ UNCHANGED <<store_vars, disk_vars, flag_vars, read_vars, write_mu, arg, mctx, cctx, last>>

\* The end of a flush without the notify_all.
BgFinishSilent ==
  /\ pc[Bg] = "finish" /\ StateMuFree
  /\ bg_compaction_scheduled' = FALSE
  /\ Goto(Bg, "check")
  /\ UNCHANGED <<store_vars, disk_vars, bg_stopped, read_vars, write_mu, arg, mctx, cctx, last>>

\* BackgroundLoop, bottom: the flush is over, wake whoever waited for it.
BgFinish ==
  /\ pc[Bg] = "finish" /\ StateMuFree
  /\ bg_compaction_scheduled' = FALSE
  /\ pc' = [Woken EXCEPT ![Bg] = "check"]
  /\ UNCHANGED <<store_vars, disk_vars, bg_stopped, read_vars, write_mu, arg, mctx, cctx, last>>

\* Where a thread goes when MinorCompaction or CompactL0ToL1 returns.
Return(t) == IF t \in Compactors THEN "idle" ELSE "finish"

MinorPrepare(t) ==
  /\ pc[t] = "minor" /\ StateMuFree
  /\ \/ /\ imm = Null
        /\ Goto(t, Return(t))
        /\ UNCHANGED <<next_file_number, mctx>>
     \/ /\ imm # Null
        /\ AllocateFileNumber
        /\ mctx' = [mctx EXCEPT ![t] = [flushing_imm |-> imm,
                                        new_sst_id |-> next_file_number',
                                        old_wal_id |-> imm_wal_id]]
        /\ Goto(t, "build_minor")
  /\ UNCHANGED <<store_vars, sst_levels, live_wals, wal, sst, flag_vars, read_vars,
                 write_mu, arg, cctx, last>>

\* BuildMinorSST, without state_mu_: write imm_ to the new file and open it.
MinorBuild(t) ==
  /\ pc[t] = "build_minor"
  /\ \/ /\ sst' = Assign(sst, mctx[t].new_sst_id, mctx[t].flushing_imm)
        /\ Goto(t, "install_minor")
        /\ UNCHANGED mctx
     \/ /\ BuildMayFail
        /\ mctx' = [mctx EXCEPT ![t] = NoMinor]
        /\ Goto(t, Return(t))
        /\ UNCHANGED sst
  /\ UNCHANGED <<store_vars, next_file_number, sst_levels, live_wals, wal, flag_vars,
                 read_vars, write_mu, arg, cctx, last>>

\* An install that removes the WAL still being written.
MinorInstallActiveWal(t) ==
  /\ pc[t] = "install_minor" /\ StateMuFree
  /\ l0' = Append(l0, mctx[t].new_sst_id)
  /\ sst_levels' = Assign(sst_levels, mctx[t].new_sst_id, 0)
  /\ live_wals' = live_wals \ {active_wal_id}
  /\ wal' = [wal EXCEPT ![active_wal_id] = EmptyTable]
  /\ imm' = Null /\ imm_wal_id' = 0
  /\ mctx' = [mctx EXCEPT ![t] = NoMinor]
  /\ Goto(t, IF Len(l0') >= 2 THEN "prepare_l0" ELSE Return(t))
  /\ UNCHANGED <<mem, active_wal_id, l1, next_file_number, sst, flag_vars, read_vars,
                 write_mu, arg, cctx, last>>

\* The new SSTable joins L0, imm_ and its WAL go, and two L0 files are merged.
MinorInstall(t) ==
  /\ pc[t] = "install_minor" /\ StateMuFree
  /\ l0' = Append(l0, mctx[t].new_sst_id)
  /\ sst_levels' = Assign(sst_levels, mctx[t].new_sst_id, 0)
  /\ live_wals' = live_wals \ {mctx[t].old_wal_id}
  /\ wal' = Erase(wal, {mctx[t].old_wal_id})
  /\ imm' = Null /\ imm_wal_id' = 0
  /\ mctx' = [mctx EXCEPT ![t] = NoMinor]
  /\ Goto(t, IF Len(l0') >= 2 THEN "prepare_l0" ELSE Return(t))
  /\ UNCHANGED <<mem, active_wal_id, l1, next_file_number, sst, flag_vars, read_vars,
                 write_mu, arg, cctx, last>>

-----------------------------------------------------------------------------
\* A caller's own CompactL0ToL1.
CompactCall(c) ==
  /\ pc[c] = "idle" /\ MayCallAndAllocate
  /\ Goto(c, "prepare_l0")
  /\ UNCHANGED <<store_vars, disk_vars, flag_vars, read_vars, write_mu, arg, mctx, cctx, last>>

\* PrepareL0ToL1: merge L0 in memory and remember which files went in.
MergePrepare(t) ==
  LET merged == Merge(Level(l0))
      ids == LevelIds(0)
      refuse == l0 = <<>> \/ Cardinality(ids) # Len(l0)
      ctx == [l0_input_ids |-> ids, expected_l0_reader_count |-> Len(l0),
              new_sst_id |-> IF merged = EmptyTable THEN 0 ELSE next_file_number',
              output |-> Output(merged, Level(l1))]
  IN
  /\ pc[t] = "prepare_l0" /\ StateMuFree
  /\ \/ /\ refuse
        /\ Goto(t, Return(t))
        /\ UNCHANGED <<next_file_number, cctx>>
     \/ /\ ~refuse
        /\ IF merged = EmptyTable THEN UNCHANGED next_file_number ELSE AllocateFileNumber
        /\ cctx' = [cctx EXCEPT ![t] = ctx]
        /\ Goto(t, IF ctx.output = EmptyTable THEN "install_l0" ELSE "build_l0")
  /\ UNCHANGED <<store_vars, sst_levels, live_wals, wal, sst, flag_vars, read_vars,
                 write_mu, arg, mctx, last>>

\* BuildL0ToL1SST, without state_mu_.
MergeBuild(t) ==
  /\ pc[t] = "build_l0"
  /\ \/ /\ sst' = Assign(sst, cctx[t].new_sst_id, cctx[t].output)
        /\ Goto(t, "install_l0")
        /\ UNCHANGED cctx
     \/ /\ BuildMayFail
        /\ cctx' = [cctx EXCEPT ![t] = NoMerge]
        /\ Goto(t, Return(t))
        /\ UNCHANGED sst
  /\ UNCHANGED <<store_vars, next_file_number, sst_levels, live_wals, wal, flag_vars,
                 read_vars, write_mu, arg, mctx, last>>

\* Comparing only how many L0 files there are.
SameCount(ctx) == Len(l0) = ctx.expected_l0_reader_count

\* InstallL0ToL1 goes ahead only on the L0 it merged: same count, same files.
SameInputs(ctx) ==
  /\ Len(l0) = ctx.expected_l0_reader_count
  /\ LevelIds(0) = ctx.l0_input_ids

\* A refused install that leaves the merged file where it is.
MergeInstallKeepsFile(t) ==
  LET ctx == cctx[t]
      hasOutput == ctx.output # EmptyTable
      published == IF hasOutput THEN Assign(sst_levels, ctx.new_sst_id, 1) ELSE sst_levels
  IN
  /\ pc[t] = "install_l0" /\ StateMuFree
  /\ \/ /\ SameInputs(ctx)
        /\ l1' = IF hasOutput THEN Append(l1, ctx.new_sst_id) ELSE l1
        /\ l0' = <<>>
        /\ sst_levels' = Erase(published, ctx.l0_input_ids)
        /\ sst' = Erase(sst, ctx.l0_input_ids)
     \/ /\ ~SameInputs(ctx)
        /\ UNCHANGED <<l0, l1, sst_levels, sst>>
  /\ cctx' = [cctx EXCEPT ![t] = NoMerge]
  /\ Goto(t, Return(t))
  /\ UNCHANGED <<mem, imm, active_wal_id, imm_wal_id, next_file_number, live_wals, wal,
                 flag_vars, read_vars, write_mu, arg, mctx, last>>

\* InstallL0ToL1: publish the merged file in L1, then consume_l0; or, when L0 is
\* no longer what was merged, throw the merged file away.
MergeInstall(t) ==
  LET ctx == cctx[t]
      hasOutput == ctx.output # EmptyTable
      published == IF hasOutput THEN Assign(sst_levels, ctx.new_sst_id, 1) ELSE sst_levels
  IN
  /\ pc[t] = "install_l0" /\ StateMuFree
  /\ \/ /\ SameInputs(ctx)
        /\ l1' = IF hasOutput THEN Append(l1, ctx.new_sst_id) ELSE l1
        /\ l0' = <<>>
        /\ sst_levels' = Erase(published, ctx.l0_input_ids)
        /\ sst' = Erase(sst, ctx.l0_input_ids)
     \/ /\ ~SameInputs(ctx)
        /\ sst' = Erase(sst, {ctx.new_sst_id})
        /\ UNCHANGED <<l0, l1, sst_levels>>
  /\ cctx' = [cctx EXCEPT ![t] = NoMerge]
  /\ Goto(t, Return(t))
  /\ UNCHANGED <<mem, imm, active_wal_id, imm_wal_id, next_file_number, live_wals, wal,
                 flag_vars, read_vars, write_mu, arg, mctx, last>>

-----------------------------------------------------------------------------
\* A destructor that does not wake the background thread.
DtorStopSilent ==
  /\ pc[Dtor] = "idle"
  /\ \A t \in Threads \ Flushers : pc[t] = "idle"
  /\ bg_stopped' = TRUE
  /\ Goto(Dtor, "join")
  /\ UNCHANGED <<store_vars, disk_vars, bg_compaction_scheduled, read_vars, write_mu, arg,
                 mctx, cctx, last>>

\* ~DBImpl, run by a caller that has no other call in flight: stop the loop.
DtorStop ==
  /\ pc[Dtor] = "idle"
  /\ \A t \in Threads \ Flushers : pc[t] = "idle"
  /\ bg_stopped' = TRUE
  /\ pc' = [Woken EXCEPT ![Dtor] = "join"]
  /\ UNCHANGED <<store_vars, disk_vars, bg_compaction_scheduled, read_vars, write_mu, arg,
                 mctx, cctx, last>>

\* After the join: hand a non-empty MemTable to imm_ and flush it.
DtorJoin ==
  /\ pc[Dtor] = "join" /\ pc[Bg] = "done"
  /\ \/ /\ Count(mem) > 0
        /\ imm' = mem /\ imm_wal_id' = active_wal_id
        /\ mem' = Null
        /\ Goto(Dtor, "minor")
     \/ /\ Count(mem) = 0
        /\ Goto(Dtor, "finish")
        /\ UNCHANGED <<mem, imm, imm_wal_id>>
  /\ UNCHANGED <<active_wal_id, l0, l1, disk_vars, flag_vars, read_vars, write_mu, arg,
                 mctx, cctx, last>>

\* Delete the readers and the MemTables: only the directory is left.
DtorFinish ==
  /\ pc[Dtor] = "finish"
  /\ l0' = <<>> /\ l1' = <<>>
  /\ imm' = Null /\ mem' = Null
  /\ Goto(Dtor, "closed")
  /\ UNCHANGED <<active_wal_id, imm_wal_id, disk_vars, flag_vars, read_vars, write_mu, arg,
                 mctx, cctx, last>>

-----------------------------------------------------------------------------
PutStep(w) == PutHasRoom(w) \/ PutWait(w) \/ PutSwitch(w) \/ PutInsert(w)
MinorStep(t) == MinorPrepare(t) \/ MinorBuild(t) \/ MinorInstall(t)
MergeStep(t) == MergePrepare(t) \/ MergeBuild(t) \/ MergeInstall(t)
DtorStep == DtorJoin \/ DtorFinish

Next ==
  \/ \E w \in Writers, k \in Keys, rec \in Records : PutLock(w, k, rec)
  \/ \E w \in Writers : PutStep(w)
  \/ \E r \in Readers, k \in Keys : GetMem(r, k)
  \/ \E r \in Readers : IterMem(r) \/ ReadRest(r)
  \/ \E s \in Syncers : SyncCall(s) \/ SyncCheck(s)
  \/ \E t \in Threads : SpuriousWakeup(t)
  \/ BgCheck \/ BgFinish
  \/ \E t \in Flushers : MinorStep(t)
  \/ \E c \in Compactors : CompactCall(c)
  \/ \E t \in Mergers : MergeStep(t)
  \/ DtorStop \/ DtorStep

Spec == Init /\ [][Next]_vars

\* Every thread that has started something keeps running; no caller has to call.
Fairness ==
  /\ \A w \in Writers : WF_vars(PutStep(w))
  /\ \A r \in Readers : WF_vars(ReadRest(r))
  /\ \A s \in Syncers : WF_vars(SyncCheck(s))
  /\ WF_vars(BgCheck) /\ WF_vars(BgFinish)
  /\ \A t \in Flushers : WF_vars(MinorStep(t))
  /\ \A t \in Mergers : WF_vars(MergeStep(t))
  /\ WF_vars(DtorStep)

FairSpec == Spec /\ Fairness

-----------------------------------------------------------------------------
\* The MemTables are in place: the destructor has not taken them over.
Open == pc[Dtor] \in {"idle", "join"}

\* What a whole search for k finds now.
Find(k) == Over(mem[k], BelowMem(k))

\* Recovery from the directory as it is: every SSTable of the manifest by level
\* (every .sst file as L0 when the manifest has none), all under the replayed WALs.
RecoveredLevel(n) ==
  LET ids == IF sst_levels # [i \in {} |-> 0] THEN LevelIds(n)
             ELSE IF n = 0 THEN DOMAIN sst ELSE {}
  IN Restrict(sst, ids \cap DOMAIN sst)
Recovered(k) ==
  Over(Lookup(wal, k), Over(Lookup(RecoveredLevel(0), k), Lookup(RecoveredLevel(1), k)))

MinorLabels == {"minor", "build_minor", "install_minor"}
MergeLabels == {"prepare_l0", "build_l0", "install_l0"}

StoreTypeOK ==
  /\ mem \in Tables \cup {Null} /\ imm \in Tables \cup {Null}
  /\ Open => mem \in Tables
  /\ active_wal_id \in Nat /\ imm_wal_id \in Nat
  /\ l0 \in Seq(Nat) /\ l1 \in Seq(Nat)
  /\ last \in Tables

DiskTypeOK ==
  /\ next_file_number \in Nat
  /\ DOMAIN sst_levels \subseteq Nat /\ sst_levels \in [DOMAIN sst_levels -> {0, 1}]
  /\ live_wals \subseteq Nat
  /\ DOMAIN wal \subseteq Nat /\ wal \in [DOMAIN wal -> Tables]
  /\ DOMAIN sst \subseteq Nat /\ sst \in [DOMAIN sst -> Tables]

LabelsOf(t) ==
  IF t \in Writers THEN {"idle", "check", "wait", "insert"}
  ELSE IF t \in Readers THEN {"idle", "rest"}
  ELSE IF t \in Syncers THEN {"idle", "check", "wait"}
  ELSE IF t \in Compactors THEN {"idle"} \cup MergeLabels
  ELSE IF t = Bg THEN {"check", "wait", "finish", "done"} \cup MinorLabels \cup MergeLabels
  ELSE {"idle", "join", "finish", "closed"} \cup MinorLabels \cup MergeLabels

PcTypeOK ==
  /\ pc = [t \in Threads |-> pc[t]] /\ \A t \in Threads : pc[t] \in LabelsOf(t)
  /\ bg_stopped \in BOOLEAN /\ bg_compaction_scheduled \in BOOLEAN
  /\ write_mu \in Writers \cup {NoThread}

LocalTypeOK ==
  /\ arg \in [Writers -> (Keys \X Records) \cup {<<None, None>>}]
  /\ want \in [Readers -> SUBSET Keys] /\ seen \in [Readers -> Tables]
  /\ answer \in [Readers -> [Keys -> Values \cup {None}]]
  /\ mctx \in [Flushers -> [flushing_imm : Tables, new_sst_id : Nat, old_wal_id : Nat]]
  /\ cctx \in [Mergers -> [l0_input_ids : SUBSET Nat, expected_l0_reader_count : Nat,
                           new_sst_id : Nat, output : Tables]]

\* The type invariant.
TypeOK == StoreTypeOK /\ DiskTypeOK /\ PcTypeOK /\ LocalTypeOK

\* Last write wins, at every moment and whatever has been moved: while the database
\* is open, a search through mem_, imm_, L0 and L1 (DBImpl::Get) finds the record
\* that was put last, across the MemTable switch, the flush and the L0-to-L1 merge.
ReadsLatest == Open => \A k \in Keys : Visible(Find(k)) = Visible(last[k])

\* Reads are atomic: Put, Get and NewIterator behave as on one map, although a
\* writer can insert between a reader's look at mem_ and its look below it.  The
\* answer of a reader that holds state_mu_ is already decided when it leaves mem_.
KV == INSTANCE KVStore WITH
        store <- [k \in Keys |-> Visible(last[k])],
        answer <- [r \in Readers |-> IF pc[r] = "rest" THEN AnswerOf(want[r], seen[r])
                                                       ELSE answer[r]]
ReadsAtomic == KV!Spec

Ascending(s) == \A i, j \in DOMAIN s : i < j => s[i] < s[j]

\* The readers in memory are the files of the manifest, level by level, and in the
\* order of their file numbers: LoadSSTables sorts by file number, so the order in
\* which two concurrent compactions publish must never differ from it.
LevelsFollowManifest ==
  Open => /\ Range(l0) = LevelIds(0) /\ Range(l1) = LevelIds(1)
          /\ Ascending(l0) /\ Ascending(l1)
          /\ DOMAIN sst_levels \subseteq DOMAIN sst

\* An SSTable some thread has been given a number for and not published yet.
InFlight(i) ==
  \/ \E t \in Flushers : pc[t] = "install_minor" /\ mctx[t].new_sst_id = i
  \/ \E t \in Mergers : pc[t] = "install_l0" /\ cctx[t].new_sst_id = i

\* No file is left behind: while the database is open the WALs on disk are those of
\* mem_ and imm_, and an SSTable outside the manifest is one a thread is installing.
NoLeftoverFiles ==
  Open => /\ DOMAIN wal = live_wals
          /\ live_wals = {active_wal_id} \cup (IF imm = Null THEN {} ELSE {imm_wal_id})
          /\ \A i \in DOMAIN sst \ DOMAIN sst_levels : InFlight(i)

\* Nothing would be lost by stopping here: at every moment, what recovery would
\* rebuild from the directory is what was put last.
Durable == Open => \A k \in Keys : Visible(Recovered(k)) = Visible(last[k])

\* The destructor leaves a directory from which everything put last is recovered.
DurableAfterClose ==
  pc[Dtor] = "closed" => \A k \in Keys : Visible(Recovered(k)) = Visible(last[k])

\* A Put that found the MemTable full during a flush is let through once that flush
\* is over: BackgroundLoop's notify_all reaches it.
BlockedPutResumes ==
  \A w \in Writers : (pc[w] = "wait" /\ pc[Bg] \in MinorLabels) ~> (pc[w] = "insert")

\* A destructor that has been entered comes to its end: the background thread is
\* woken, leaves its loop, and the last flush returns.
DestructorEnds == (pc[Dtor] = "join") ~> (pc[Dtor] = "closed")

\* Every Put returns.
PutReturns == \A w \in Writers : (pc[w] = "check") ~> (pc[w] = "idle")

\* Every Sync returns.
SyncReturns == \A s \in Syncers : (pc[s] = "check") ~> (pc[s] = "idle")

-----------------------------------------------------------------------------
(* The inductive invariant behind the safety properties. *)

Flushing(t) == pc[t] \in {"build_minor", "install_minor"}
Merging(t) == pc[t] \in {"build_l0", "install_l0"}

\* The destructor runs alone: no caller is inside a call once it has begun, and the
\* background thread has left once it flushes.
DtorAlone ==
  /\ pc[Dtor] # "idle" => \A t \in Threads \ Flushers : pc[t] = "idle"
  /\ pc[Dtor] \notin {"idle", "join"} => pc[Bg] = "done"
  /\ \A w \in Writers : pc[w] # "idle" => arg[w] \in Keys \X Records

\* Until the destructor deletes them, the readers are the files of the manifest.
FilesKnown ==
  /\ DOMAIN sst_levels \subseteq DOMAIN sst \cap (1 .. next_file_number)
  /\ pc[Dtor] # "closed" => Range(l0) = LevelIds(0) /\ Range(l1) = LevelIds(1)
  /\ Ascending(l0) /\ Ascending(l1)

\* A flush works on the current imm_ and on a number of its own, newer than all of L0.
FlushOwns(t) ==
  LET i == mctx[t].new_sst_id IN
  /\ imm # Null /\ mctx[t].flushing_imm = imm
  /\ i \in 1 .. next_file_number /\ i \notin DOMAIN sst_levels
  /\ \A j \in LevelIds(0) : j < i
  /\ \A u \in Mergers : Merging(u) => i # cctx[u].new_sst_id /\ i \notin cctx[u].l0_input_ids
  /\ pc[t] = "install_minor" => i \in DOMAIN sst /\ sst[i] = imm

FlushOwnsFile == \A t \in Flushers : Flushing(t) => FlushOwns(t)

\* A merge works on a number of its own; and if L0 is still the L0 it read, then its
\* output is still what L0 and L1 merge to, and its number is newer than all of L1.
MergeOwns(t) ==
  LET ctx == cctx[t]  i == cctx[t].new_sst_id IN
  /\ ctx.l0_input_ids # {} /\ ctx.l0_input_ids \subseteq 1 .. next_file_number
  /\ i \in 0 .. next_file_number /\ i \notin DOMAIN sst_levels /\ i \notin ctx.l0_input_ids
  /\ \A u \in Mergers : Merging(u) /\ cctx[u].new_sst_id = i => u = t \/ i = 0
  /\ ctx.output # EmptyTable => i # 0
  /\ pc[t] = "build_l0" => ctx.output # EmptyTable
  /\ pc[t] = "install_l0" /\ ctx.output # EmptyTable => i \in DOMAIN sst /\ sst[i] = ctx.output

OutputStands(t) ==
  LevelIds(0) = cctx[t].l0_input_ids =>
    /\ cctx[t].output = Output(Merge(Level(l0)), Level(l1))
    /\ cctx[t].output # EmptyTable => \A j \in LevelIds(1) : j < cctx[t].new_sst_id

MergeStillValid == \A t \in Mergers : Merging(t) => MergeOwns(t) /\ OutputStands(t)

\* The inductive invariant: a flush and a merge that are under way can be installed
\* without changing what a search finds (MinorCompaction, CompactL0ToL1).
Inv == TypeOK /\ DtorAlone /\ FilesKnown /\ FlushOwnsFile /\ MergeStillValid /\ ReadsLatest

\* The WALs of the directory are those of mem_ and imm_ and hold the same records; a
\* flush removes the one of the imm_ it wrote.
WalsKept ==
  /\ active_wal_id \in 1 .. next_file_number
  /\ \A t \in Flushers : Flushing(t) => mctx[t].old_wal_id = imm_wal_id
  /\ Open => /\ DOMAIN wal = live_wals
             /\ live_wals = {active_wal_id} \cup (IF imm = Null THEN {} ELSE {imm_wal_id})
             /\ wal[active_wal_id] = mem
             /\ imm # Null => imm_wal_id < active_wal_id /\ wal[imm_wal_id] = imm

\* An SSTable outside the manifest belongs to a thread about to install it, a merge
\* without output has no file, and a merge no caller can overtake keeps its inputs.
SstsKept ==
  /\ DOMAIN sst \subseteq 1 .. next_file_number
  /\ \A i \in DOMAIN sst \ DOMAIN sst_levels : InFlight(i)
  /\ \A t \in Mergers :
       Merging(t) /\ cctx[t].output = EmptyTable => cctx[t].new_sst_id \notin DOMAIN sst
  /\ Compactors = {} =>
       \A t \in Mergers : Merging(t) => LevelIds(0) = cctx[t].l0_input_ids

\* The inductive invariant behind NoLeftoverFiles and Durable: the directory holds what
\* memory holds, and nothing else but files about to be installed.
DirInv == Inv /\ WalsKept /\ SstsKept
=============================================================================
