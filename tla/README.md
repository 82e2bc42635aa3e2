# NovaKV: specifications and proofs

NovaKV is a key-value store with an LSM tree (`DBImpl` and the classes under it) behind a
RESP server on epoll (`TcpServer`). This directory holds TLA+ specifications of the storage
engine and of the server, the TLC configurations that check them on small instances, and
proofs, checked by TLAPS, of the properties that matter most. Paths are relative to the repository.

## 1. The system

| Part | State | Operations | What makes it hard | Correct when |
|---|---|---|---|---|
| `DBImpl` | `mem_`, `imm_`, their WAL numbers, `levels_`, `write_mu_`, `state_mu_`, `bg_cv_`, two flags | `Put`, `Get`, `NewIterator`, `Sync`, `CompactL0ToL1`, `MinorCompaction`, `BackgroundLoop`, destructor | writers, readers, one flush thread and callers of the merge interleave; long work is done outside `state_mu_` | the last write wins; reads are atomic; nobody waits for ever |
| `CompactionEngine` | `MinorCtx`, `L0ToL1Ctx` | prepare, build, install | what was read at prepare may be stale at install; a build may fail | memory, manifest and directory stay in step |
| `ManifestManager` | counter, SST levels, live WALs; `MANIFEST`, `MANIFEST.log` | load, replay, five edits, checkpoint | crash between two writes, torn record, failing write | a restart has the recorded edits |
| `RecoveryLoader`, constructor | the directory | counter from disk, load SSTables, replay WALs | files left by a process that stopped anywhere | a restart answers with what was put last |
| `MemTable`, `SkipList` | ordered map, `rw_lock_` | insert, search, snapshot | readers beside one writer | a map |
| `WalHandler` | a `.wal` file | `AddLog`, `LoadLog` | a torn tail | whole records come back, in order |
| SSTable files, `BloomFilter` | `.sst` files | build, open, `GetRecord`, `ForEach` | block boundaries, incomplete files | reads back what was written |
| `DBIterator` | fixed rows, a cursor | `Seek`, `Next` | nothing concurrent | ascending, visible rows |
| `NetworkBuffer`, `RESPParser`, `RESPEncoder` | byte buffers | append, retrieve, parse, encode | input cut at any byte | the same commands however cut |
| `CommandExecutor` | none | SET, GET, DEL, RSCAN | one command, one call | follows `docs/spec` |
| `ThreadPool` | queue, `stop` | `enqueue`, worker, `Shutdown` | enqueue against shutdown | accepted tasks run once |
| `TcpServer`, `Connection` | connections, sequence numbers, generations, completion queue | accept, read, write, completions, stop | pool threads finish in any order; descriptors are reused; `Stop` runs in a signal handler | responses in request order, to the right client; shutdown ends |

`Put` writes the WAL and the MemTable. A full MemTable becomes `imm_`, the background thread
flushes it to an L0 file, removes its WAL and, when L0 has two files, merges L0 into L1. Each
of these changes the manifest. The constructor rebuilds memory from manifest, SSTables and WALs.

The event loop of `TcpServer` reads requests into a connection's `NetworkBuffer`, `RESPParser`
takes commands out of it, and each command becomes a task of the `ThreadPool`. A worker runs it
through `CommandExecutor` against `DBImpl`, pushes the answer to the completion queue and wakes
the loop by an eventfd; the loop writes the answers in the order of the requests.

## 2. Modules

| Module | Models |
|---|---|
| `LSM` | tables, records, lookup through a stack of tables, the merge and what becomes of tombstones; no state |
| `KVStore` | the abstract map that `Put`, `Get` and `NewIterator` promise |
| `DBImpl` | one process, all threads: `DBImpl` and `CompactionEngine` |
| `ManifestManager` | manifest, snapshot, log, crashes and failing writes |
| `Recovery` | a directory over several processes, crashes between the writes to it |
| `SkipList` | the nodes and pointers of the list under a MemTable |
| `SSTable` | the file of an SSTable, its builder and reader, the Bloom filter; no state |
| `MemTable` | one MemTable with its WAL, its replay after a crash and its SSTable |
| `RESPInput` | `NetworkBuffer` and `RESPParser` under `HandleRead`'s loop |
| `CommandExecutor` | a command's answer and effect; no state |
| `ThreadPool` | workers, queue, `enqueue`, `Shutdown` |
| `TcpServer` | the event loop with pool, completion queue, clients, network, signal; extends the two above |
| `MCDBImpl`, `MCRecovery`, `MCTcpServer`, `MCFormats` | the instances for TLC |
| `DBImplTypes`, `DBImplProofs` | proofs about `DBImpl` |
| `RecoveryProofs` | proofs about `Recovery` |
| `FormatsProofs` | proofs about `ManifestManager` and `RESPInput` |
| `TableProofs` | proofs about `SkipList` and `SSTable` |
| `MemTableProofs` | proofs about `MemTable` |
| `ServerSteps`, `ServerProofs` | proofs about `TcpServer` |

**DBImpl.** A section that holds `state_mu_` exclusively is one action, enabled when no reader
holds it shared (`StateMuFree`). A reader takes two steps, `mem_` and then everything below,
and holds the lock shared in between; the insert of a `Put`, which runs without `state_mu_`,
can fall there. `bg_cv_` is the label `wait`; `notify_all` sends waiters back to `check`, and
so does a spurious wake-up. Each of `MinorCompaction` and `CompactL0ToL1` is prepare, build,
install, run by the background thread, by a caller (`Compactors`) or by the destructor.
A table is a function from keys to records; a reader is its file number. A manifest edit is
one durable step here. `last` is history: the last record put for each key.
`Recovered` is what the constructor would rebuild from the directory as it is.

**ManifestManager.** The manifest is one function from entries (the counter, each SSTable,
each WAL) to values, so that the five edits are one. `RecordEdit` is its steps: append or fail,
fallback snapshot, checkpoint snapshot, truncate. `Failing` says which of them may go wrong.
`committed` is history: the manifest with the edits that were recorded. A record of the log has its
place in the file, its edit and the bytes written of it, since a write may stop in the middle
(`Cuts`). `ReplayLog` has no checksum: it completes a record that was cut off with the bytes that
follow. `ReadRecord` follows it byte position by byte position: it stops quietly where the file
ends too early, fails where it finds something other than a magic or a header, and applies a
wrong edit (`Garbled`) where the payload was completed with bytes of another record.

**Recovery.** The constructor, the flush and the merge are cut at the writes to the directory,
and a process may stop at the labels of `CrashAt`. A file cut off while being built is `Broken`.
One step has several writes: `CtorLoad` is `Load` or a fresh start with its `Persist`, `ReplayLog`,
and `LoadSSTables` with its `Persist`. A crash between the two snapshots leaves a manifest without
SSTables, and the next start scans the same directory again. The files that `LoadSSTables` adopts
are in the manifest from then on. The code does not truncate `MANIFEST.log` there, so the next
start replays older edits over that snapshot, and a removal among them takes an adopted file
out again; the model does not. `Close` is the destructor with no flush pending. A destructor that
finds one overwrites `imm_`; that one is in `DBImpl`, and `db_close` shows what it does.
The live-WAL list of the manifest is left out: `RecoverFromWals` replays every `.wal` file of
the directory anyway. There is one writer and no concurrent merge here; `DBImpl` has those.

**SkipList, MemTable, SSTable.** A node has its pointers and a random height. A WAL and an SSTable
are sequences of cells, a field or an entry each, and a crash keeps any prefix. A checksum that
is there fits the whole record only, with one exception the code has: `LoadLog` fills its
buffer with zeros, so a value that loses zero bytes at its end is given back. Lengths that are
cut off are read uninitialised; the allocation may throw (`failed`). `content` and `written`
are history: the map that list and WAL stand for.

**RESPInput.** A byte is CR, LF, a header's text or something else; data may hold all of them.
A read takes any number of bytes up to what fits in the free cells and the extra buffer.

**TcpServer.** The loop runs one handler at a time, so a handler is one action, but for the places
where something else can happen in between: accepting (accept, insert), writing, and the batch
of events, which are handled one by one. A task has three steps: execute, push, write to the
eventfd. `Stop` runs in a signal handler at one of the places `SignalAt`. A descriptor is the
lowest free one, so it is reused at once. A command carries who sent it, its number, and the
newest version of the store that was acknowledged then (`floor`); no action looks at these.

How the modules fit: `DBImpl` and `Recovery` treat a manifest edit as durable at once, which is
`RecordedEditsSurvive`; that theorem suspends its claim in two cases, each until the next complete
checkpoint: after a failed append, and after a second crash within an append when the first cut
off a payload. `Recovery` treats a level as a set, since readers are in file-number order, which is
`LevelsFollowManifest`. Both treat MemTable, WAL and SSTable as one function from keys to
records, which is `ListAnswers`, `ReplayRestores` and `TableAnswersAsList`. `TcpServer`
executes a command in one step on a map, which is `ReadsAtomic`, and reads whole commands,
which is `CommandsAsSent`.

## 3. Runs

Passing runs:

| Run | Instance | Shows |
|---|---|---|
| `db_reads` | 2 keys, 1 writer, 1 reader, 10 files | `ReadsLatest`: a search finds the last record put. `Durable`: the directory alone would give it back. `ReadsAtomic`: reads and writes refine `KVStore` |
| `db_merges` | 2 keys, 1 writer, 1 caller of the merge, failing builds, 7 files | `LevelsFollowManifest`, `NoLeftoverFiles`, and `DirInv`, the inductive invariant of the proofs |
| `db_liveness` | 1 key, 1 writer, 1 `Sync`, 5 files | `BlockedPutResumes`, `DestructorEnds` |
| `recovery` | 2 keys, 3 processes of which the first and the last put, a directory with an SSTable and no manifest too, crashes anywhere but in `consume_l0` | `RecoversLatest`, `FileNumbersFresh`, `ManifestFilesOpen`, and `RecoveryInv`, the inductive invariant of their proofs |
| `formats` | manifest: 1 file, checkpoint every 2 edits, log of 3, every write may fail, records cut after 4, 17 or 22 bytes; skip list: 3 keys, 3 levels; WAL and SSTable: 3 puts, blocks of 2, a filter with a false positive; input: 2 messages of 9 kinds, a buffer of 3 cells and 4 extra | `MatchesCommitted`, `CheckpointHeals`; `ListIsMap`, and `Linked`, the core of its inductive invariant; `ReplayGivesBack`, `TableAnswers`, `UnfinishedRefused`; `BufferIsQueue`, `CommandsAsSent`. The four parts share nothing, so a behaviour takes the steps of one |
| `server` | 2 clients, 2 workers, 2 descriptors, 2 commands out of SET, GET and a protocol error, 1 client that leaves | `AnswersInOrder`, `SeesAcknowledged`, `FreshEvents`, `PoolDrained`, `AnsweredBeforeClose`, and `Inv`, the inductive invariant of their proofs |
| `server_live` | 1 client, 2 workers, 2 commands out of RSCAN and a protocol error, failing `epoll_ctl`, a store that throws | `RequestsAnswered`, `ShutdownEnds` |

Runs that end in a violation, each with a finding in `PROJECT.json`:

| Run | Property | What happens |
|---|---|---|
| `db_put_stuck` | `PutReturns` | a switch just before `bg_compaction_scheduled_ = false` is forgotten; the next full `Put` waits for ever |
| `db_close` | `DurableAfterClose` | the destructor overwrites a pending `imm_`; its WAL later hides newer records |
| `manifest_torn` | `OpensAgain` | records written behind one that was cut off make the log unreadable |
| `recovery_stale_wal` | `RecoversLatest` | a replayed WAL is never removed and hides newer SSTables |
| `recovery_consume` | `RecoversLatest` | a crash in `consume_l0` leaves the older L0 file on top |

More is seen by changing a configuration, without a run of its own:

- `SyncReturns` under `FairSpec` with a `Sync` caller and `BuildMayFail = TRUE` fails: a flush that
  failed is not tried again, and `imm_` stays (`src/DBImpl.cpp:142`).
- `Durable` with a thread in `Compactors` fails: a background merge can leave the manifest without
  SSTables while the caller's output is on disk and not installed; a restart scans the directory
  and adopts it (`src/RecoveryLoader.cpp:96`). `CrashSafe` shows that this is the only way.
- `MatchesCommitted` without its second suspension (`diverged' = diverged` in `Crash`) fails in
  `formats`: an append cut off in its payload and a later one cut off early enough together make a
  record. `ReplayLog` applies it, finds fewer than 4 bytes behind it, and the store opens with an
  edit that nobody recorded (`src/ManifestManager.cpp:114`).
- `ShutdownEnds` with `"insert"` in `SignalAt` fails: a `Stop` between accept and `try_emplace`
  does not mark the new connection, so the shutdown waits until that client leaves
  (`src/network/TcpServer.cpp:230`).

So the passing runs say this much and no more. `Durable` is about processes in which no caller
runs the merge. `RecoversLatest` in `recovery` leaves out crashes in `consume_l0` (`CrashAt`),
and the process between the two that put only reads and closes (`WriteLives`), so that no
replayed WAL is older than what was put since. `MatchesCommitted` says nothing between a failed
append and the next complete checkpoint: the fallback snapshot of `RecordEdit` leaves an older
log, replayed over it at the next start (`src/ManifestManager.cpp:303`). Nor does it once a second
record was cut off behind one whose payload was, until the next complete checkpoint; a single cut
record, or any number of them cut in the header, is covered. `FreshEvents` says nothing once an
`epoll_ctl` has failed (`faulted`): then a descriptor can be closed, and given to a new connection,
while an event of the old one is still in the batch, and that event is handled for the new one.

**Bounds.** `MemLimit = 1` makes every second `Put` switch, so that a few puts go through flush
and merge. `MaxFileNumber` stops new calls, not calls under way. A first merge takes
6 numbers; a second one, over an L1 that is not empty, where dropping a tombstone matters, takes
11, or 7 when a caller merges a single L0 file; `db_reads` and `db_merges` reach it, and so does
`recovery`, whose directory may begin with an SSTable and whose destructors flush as well. One
value and the deletion tell apart all that a lookup can confuse; two keys are needed for a table
that holds one and not the other. `MaxLog = 3` with `Threshold = 2` lets a log outlive a failed
checkpoint. A record has 21 bytes, or 25 with a level. Of `Cuts`, 4 is a header cut behind its
magic; 17 is a number cut in the middle, which a following cut of 4 completes exactly; 22 is a
level cut in the middle, which a cut of 4 completes with a byte left over. Buffers of 3 and 4 cells are smaller than most messages, so that they fill,
overflow, move and grow. Two commands are enough for answers that finish in the wrong order and
for a GET beside a SET; two clients and a leaving one for a descriptor that is given to somebody
else while a task of its first owner is still in the pool. `SndCap = 1` makes a second answer
wait for `EPOLLOUT`. Symmetry (keys, values, readers; clients and workers) is used in safety
runs only. Deadlock checking is off wherever the system may stop: a closed database, an
exhausted bound, a server that has ended.

**Fairness.** Weak, on each thread that has started something: the operating system runs it, and
`state_mu_`, `write_mu_` and `queue_mutex` are held for finite sections. Nobody has to call,
connect, send or leave. `TcpServer!FairSpec` has the loop, each worker, and each client's
reading of what it was sent: a client that never reads keeps its connection open for ever, and
the code has no timeout. Nothing is assumed about which waiter gets a lock first.

## 4. Proofs

Proved for every set of keys, values, threads, clients, descriptors and workers, and every bound:

| Module | Theorem | Statement |
|---|---|---|
| `DBImplProofs` | `Invariance`, `TypeCorrect` | `Spec => []Inv`, `Spec => []TypeOK` |
| | `LastWriteWins` | `Spec => []ReadsLatest` |
| | `MemoryFollowsManifest` | `Spec => []LevelsFollowManifest` |
| | `DirectoryInvariance` | `Spec => []DirInv` |
| | `NothingLeftBehind` | `Spec => []NoLeftoverFiles` |
| | `CrashSafe` | `Spec => [](Compactors = {} \/ DOMAIN sst_levels # {} => Durable)` |
| | `ReadsAreAtomic` | `Spec => ReadsAtomic`: `DBImpl` implements `KVStore` |
| `RecoveryProofs` | `RecoveryInvariance`, `Invariance`, `RecoveryTypes` | `Spec => []RecoveryInv`, `Spec => []Inv`, `Spec => []TypeOK` |
| | `LatestRecovered` | `Spec => [](Trusted => RecoversLatest)` |
| | `NumbersNeverReused` | `Spec => []FileNumbersFresh` |
| | `ManifestNeverDangles` | `Spec => []ManifestFilesOpen` |
| `FormatsProofs` | `ManifestTypes` | `Spec => []TypeOK` |
| | `RecordedEditsSurvive` | `Spec => []MatchesCommitted` |
| | `CompletedCheckpointHeals` | `Spec => CheckpointHeals` |
| | `InputIsQueue` | `InputSpec => []BufferIsQueue` |
| `TableProofs` | `ListLinked` | `ListSpec => []Linked` |
| | `ListAnswers` | `ListSpec => []ListIsMap` |
| `MemTableProofs` | `ReplayRestores` | `MemSpec => []ReplayGivesBack` |
| | `TableAnswersAsList` | `MemSpec => []TableAnswers` |
| | `UnfinishedIsRefused` | `MemSpec => []UnfinishedRefused` |
| `ServerProofs` | `Invariance`, `Types`, `Events` | `Spec => []Inv`, `Spec => []TypeOK`, `Spec => []EventsInv` |
| | `ResponsesInOrder` | `Spec => []AnswersInOrder` |
| | `AcknowledgedSeen` | `Spec => []SeesAcknowledged` |
| | `PoolIsDrained` | `Spec => []PoolDrained` |
| | `EventsAreFresh` | `Spec => []FreshEvents` |
| | `AnsweredFirst` | `Spec => AnsweredBeforeClose` |

Assumptions, all of them `ASSUME`s that TLC evaluates in the runs: the threads of different kinds
are different, there is a worker, `MemLimit`, `Threshold` and `SndCap` are positive, the other
bounds and sizes are numbers, and the markers (`None`, `Null`, `Absent`, `Broken`,
`NoConn`, ...) are not values of what they mark.

*Last write wins.* `ReadsLatest` alone is not inductive: a flush or a merge under way will
change the levels at its install. `Inv` adds what the install needs. `FlushOwns`: the flush works
on the current `imm_`, under a number of its own that is newer than all of L0. `MergeOwns` and
`OutputStands`: if L0 is still the L0 the merge has read, its output is still what L0 and L1
merge to. That is why `InstallL0ToL1` compares the inputs, and why comparing their number is
not enough (mutant `SameCount`). L1 needs no comparison: whatever changes L1 also consumes L0.
`FilesKnown`: readers and manifest agree. `DtorAlone`: the destructor has no company.
`DBImplTypes` has the facts about tables (a merged L0 looked up over L1 is the stack looked up)
and the types.

*The directory of one process.* `DirInv` adds the files to `Inv`. `WalsKept`: the WALs on disk are
those of `mem_` and `imm_`, hold the same records, and are numbered in that order. `SstsKept`: an
SSTable outside the manifest belongs to a thread about to install it, a merge that keeps nothing
has no file, and without outside callers L0 is still what a merge under way has read. From there
`Durable` is a comparison of two searches, level by level, while the manifest names an SSTable.
When it names none, `LoadSSTables` takes every file for L0. Then `Durable` needs the last part
of `SstsKept`, and it fails without: the condition of `CrashSafe` cannot be dropped.

*Reads are atomic.* A read takes effect at its first step. The refinement maps the answer of a
reader between its steps to the one already decided, and `StateMuFree` keeps everything below
`mem_` as it was.

*Manifest.* While nothing has diverged, snapshot plus log is `committed` or the log is refused; this
and how the log lies are `FilesMatch`. `InStep`: each record begins where the one before ends, so
`ReplayLog` follows the records up to the first that was cut off (`CompletePassed`). Behind a cut
header it stops or fails and applies nothing more (`BehindHeaderCut`). Behind a cut payload it stops
or, as soon as a complete record follows, fails (`BehindPayloadCut`); `OneCut` says that nothing but
complete records follows one. So a log that is read gives the complete records before the first
cut, and an append keeps that, or makes the log unreadable (`AppendMatches`, `CutMatches`). Replaying
edits over a snapshot that already has them changes nothing (`ReplayIdempotent`), and whether a log
can be read does not depend on the manifest under it (`ReplayOver`); the two cover the crash between
snapshot and truncation. The inductions over the log use the least index at which a run goes wrong.

*The directory over many processes.* `Recovery!Inv` says what a step finds between any two writes
to the directory. `NumbersKnown`: every number in use is at most the counter; before there is a
manifest the counter is 0 and the only files are the SSTables found, which the first scan starts
above. `WorkKnown`: the file under construction is unknown to the manifest until it is published
and complete by then, and what a merge consumes has no reader and is not in L1. `ReadersKnown`:
readers are of files the manifest has at that level. Without `WorkKnown`, `FileNumbersFresh` and
`ManifestFilesOpen` are not inductive: an `AddSst` could publish a file that a crash cut off.

*Recovery gives the latest.* `RecoversLatest` is about what a process that is up answers, so the
proof has to carry it through a crash, the time when nobody is up, and the next constructor.
`RecoveryInv` adds to `Inv` what each of these hands on. `WorkFollows`: the readers are the
manifest's files, and a flush or a merge holds what it will publish. `WalsFollow`: the active
WAL is the newest. `WalsCurrent`: a record in a WAL is the last one put, and what is in memory is
in a WAL too. `UnlistedHarmless`: an SSTable unknown to the manifest tells nothing new of a key
that no WAL has, so that `LoadSSTables` may take it for L0. `FilesCurrent`: between two processes
WALs and listed SSTables give what was put last. `NothingLeft`, which holds until a process that
has put crashes (`Unspoiled`), says that nobody else's records are in a WAL. `Trusted` is a
condition on the constants: nobody crashes, or nobody crashes in `consume_l0` and at most one
process puts before the last. Each half of it is needed: `recovery_stale_wal` and
`recovery_consume` break `RecoversLatest` outside it.

*The input buffer.* `InputInv` (in `FormatsProofs`) adds to `BufferIsQueue` that `buffer_` is a
vector, the indices are numbers, and a length that was read is not negative. The proof goes cell
by cell: bytes written behind the readable ones continue the queue, `MakeSpace` keeps what is
readable whether it grows or moves, and `Parse` only takes from the front. What is sent is
arbitrary, broken messages included.

*The skip list.* `ListIsMap` says what a search and the iterator answer; what keeps it true is
how the pointers lie. `Linked`: on each level a pointer leads to the next node of that level, and
nothing is above `current_level`. So the descent stops on every level right before the key
(`IsPred`), and that is where `insert_element` and `delete_element` change the pointers. With the
count of the nodes it is inductive (`ListInv`). The walk along a level is a recursive function
that goes up in the keys; that it ends where it should is shown by the greatest node at which it
would not.

*The WAL.* `WalInv`: the WAL is a row of whole records, behind it at most the beginning of the one
that a crash cut, and `LoadLog` stands at the beginning of a record with the map of those before
it. A cut record is refused or, when only zero bytes were lost, given back whole.

*The SSTable.* `BuildInv`: while the table is built, file and open block together hold the rows
before the node that the iterator is at, and each index entry has the last key and the place of
its block (`IsBuilder`); `Finish` makes of it a file of rows, filter, index and footer
(`IsTable`). A file without its footer is not opened. In a table the first block whose last key
is not less is the only one that can hold a key, and the filter never denies a key that it was
built from, whatever the hash. `EntrySize` and the sizes of block and filter are arbitrary.

*Server.* `Inv` follows every command from its socket to its answer. `OnePlace`: a client is under
one descriptor, or waits for it. `InFlight`: a task or completion of a connection's generation
is that client's command of that number, wherever it is; one of an older generation is
recognised as such, which is why `HandleWorkerCompletions` compares generations (mutant
`BelongsBySeq`). `AllCounting`: the answers written, the output buffer and the pending answers
are numbered by the connection's two counters. `AllJustified`: every answer, wherever it is, comes
from a version of the store new enough for its command. `Ending`: the pool stops after the loop.
`EventsInv` adds that a hang-up in the batch is that of the connection now under its descriptor,
unless an `epoll_ctl` failed. `ServerSteps` has the lemmas on sequences and connections and one
for each step, `ServerProofs` the steps of `EventsInv` and the theorems.

Two facts come from well-founded induction on numbers: a set of numbers has a least member
(`LeastNumber`), a bounded one a greatest (`BoundedMax`). The server's and the recovery's lemmas take
them as hypotheses; `LeastNumberHolds` and `BoundedMaxHolds` discharge them before the theorems.
`TableProofs` proves its own two (`LeastNumber`, `GreatestNumber`); with them, what a recursive
function over a range of numbers gives is shown at the least or greatest place it could be wrong.

Only model-checked:

- liveness (`BlockedPutResumes`, `DestructorEnds`, `RequestsAnswered`, `ShutdownEnds`): fairness and
  `ENABLED` are outside the prover;
- `CommandsAsSent`: it relates the parser's place to the concatenation of the messages, each of which
  is given as a constant; a proof would need their grammar, and induction over it. Its first half, that the parser sees the bytes in order, is `InputIsQueue`;
- `Durable` and `RecoversLatest` outside the conditions of `CrashSafe` and `LatestRecovered`, where
  they are false.

## 5. Limits of the models

*Store.* A crash is one of the process: there is no `fsync` in the code, so a crash of the machine
is outside every property here. `WritableFile` opens in append mode with `size_ = 0`, so a builder
relies on its file not being there yet, which is `FileNumbersFresh`. `delete_element` is in
`SkipList`; the store never calls it. A table without entries could not be opened; none is built.
`LevelSize` reads without `state_mu_`; only tests call it. A manifest number made of the bytes of two
records is one number that no file has (`Wild`); bytes of a record are never taken for a magic
where none was written. The cursor of `DBIterator` runs over fixed rows and is left out.

*Server.* Pipelined commands of one connection run concurrently, so a GET may be executed before the
SET sent ahead of it; `SeesAcknowledged` says what remains true. A `write` to a closed peer is
modelled as the close of that connection; the code does not ignore SIGPIPE, whose default action
ends the process. A peer that has sent FIN loses the answers still pending, and closing a socket
with unread input may reset it; the models drop what is under way in both cases. A client waits
in the backlog while no descriptor is free. EPOLLRDHUP on a closing connection only makes the loop
turn. A hang-up in the batch for a descriptor that was reused needs a failed `epoll_ctl`
in `HandleWorkerCompletions` (`faulted`); it then closes the new connection. The signal arrives between the handlers, at the places `SignalAt`: not in the middle of
`HandleRead`, on a worker's thread, or while the logger's mutex is held, where a handler that
takes locks could stop for ever. `enqueue` cannot throw: only the loop enqueues, and only the loop
shuts the pool down. A second `Shutdown` returns without joining; `Stop` and `Cleanup` in the
destructor find nothing to do after `Run` returned. The set-up of the sockets succeeds, and so does
`SetNonBlocking`. DEL has its effect in `CommandExecutor`; no server run sends one, since it
differs from SET only in the record written.

*Left out.* `Logger` and the benchmark, which nothing depends on; `RESPEncoder`, which formats one
reply and has no state; hashes, checksums and byte widths below the cells of the files.
