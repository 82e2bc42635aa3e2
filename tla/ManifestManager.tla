-------------------------- MODULE ManifestManager --------------------------
(***************************************************************************)
(* ManifestManager: the manifest in memory, its snapshot (MANIFEST) and its  *)
(* log of edits (MANIFEST.log), with a crash between any two writes, writes  *)
(* that fail, and restarts.  DBImpl calls it under state_mu_, one operation  *)
(* at a time.                                                                *)
(*                                                                           *)
(* ManifestState is one function from entries to values: the counter, the    *)
(* level of each SSTable, the liveness of each WAL.  An edit sets one entry, *)
(* so the five kinds of edit are one kind.  The log keeps where each record  *)
(* begins and how many of its bytes were written: ReplayLog has no checksum, *)
(* and takes what follows a record that was cut off for the rest of it.      *)
(* MANIFEST.tmp is left out: it is renamed over MANIFEST once complete, and   *)
(* never read.                                                               *)
(***************************************************************************)
EXTENDS Naturals, Sequences

CONSTANTS
  MaxFile,    \* bound: the file numbers are 1 .. MaxFile
  Threshold,  \* kManifestCheckpointThreshold, 100 in the code
  MaxLog,     \* bound: no operation starts when the log is this long
  Failing,    \* the writes that may fail: see Steps
  Absent,     \* no MANIFEST file; no such SSTable, no such WAL
  Live,       \* a WAL that is alive
  Cuts        \* bound: how many bytes of a record a write that stops may leave

Files == 1 .. MaxFile
\* A number made of the bytes of two records: above 2^32, so that no file has it.  Nothing
\* tells such numbers apart.
Wild == MaxFile + 1
Steps == {"append", "tear", "fallback", "persist", "truncate"}

ASSUME ManifestAssumption ==
  /\ MaxFile \in Nat
  /\ Threshold \in Nat \ {0} /\ MaxLog \in Nat /\ Failing \subseteq Steps
  /\ Cuts \subseteq Nat \ {0}
  /\ Absent \notin Nat /\ Live \notin Nat /\ Absent # Live

Counter == <<"next", 0>>
Entries == {Counter} \cup ({"sst", "wal"} \X (Files \cup {Wild}))
EntryValues == Nat \cup {Absent, Live}
States == [Entries -> EntryValues]
Edits == [entry : Entries, value : EntryValues]

ASSUME AbsentAssumption == Absent \notin States

\* The bytes of a record: magic, version, operation and payload size; then a number, and
\* the level of an SSTable that is added.
MagicSize == 4
HeaderSize == 13
IdSize == 8
LevelSize == 4
AddsSst(e) == e.entry[1] = "sst" /\ e.value # Absent
Width(e) == HeaderSize + IdSize + IF AddsSst(e) THEN LevelSize ELSE 0

\* What is in the log for a record: where it begins, its edit, and the bytes written of it.
LogRecords == [at : Nat, edit : Edits, size : Nat]
Complete(r) == r.size = Width(r.edit)
CutInPayload(r) == r.size >= HeaderSize /\ ~Complete(r)
End(l) == IF l = <<>> THEN 0 ELSE l[Len(l)].at + l[Len(l)].size
Written(l, e, n) == Append(l, [at |-> End(l), edit |-> e, size |-> n])

VARIABLES
  state, edits_since_checkpoint, \* in memory
  snapshot, log,                 \* MANIFEST, MANIFEST.log
  mode,       \* "down", "up", or "failed": the constructor threw
  phase, edit,\* where RecordEdit is, and the edit it is recording
  committed,  \* history: the manifest with every edit that was recorded
  diverged    \* history: since the last complete checkpoint an append has failed, or a
              \* second record was cut off behind one that was cut off in its payload

vars == <<state, edits_since_checkpoint, snapshot, log, mode, phase, edit, committed, diverged>>

\* What InitNextFileNumberFromDisk finds in an empty directory.
Fresh == [x \in Entries |-> IF x = Counter THEN 0 ELSE Absent]

NoEdit == [entry |-> Counter, value |-> 0]

Init ==
  /\ state = Fresh /\ edits_since_checkpoint = 0
  /\ snapshot = Absent /\ log = <<>>
  /\ mode = "down" /\ phase = "ready" /\ edit = NoEdit
  /\ committed = Fresh /\ diverged = FALSE

-----------------------------------------------------------------------------
ApplyEdit(s, e) == [s EXCEPT ![e.entry] = e.value]

\* What ReplayLog applies for a record whose payload was completed with the bytes behind
\* it: the number is wrong or, when only bytes of the level were missing, the level.  A
\* removal of a wrong number finds nothing.
Garbled(s, r) ==
  IF r.edit.value = Absent THEN s
  ELSE IF r.edit.entry = Counter \/ r.size >= HeaderSize + IdSize
  THEN ApplyEdit(s, [r.edit EXCEPT !.value = Wild])
  ELSE ApplyEdit(s, [r.edit EXCEPT !.entry = <<r.edit.entry[1], Wild>>])

\* How many bytes ReplayLog reads at a record before it looks at what it did not expect.
Needed(r) == IF r.size < MagicSize THEN MagicSize
             ELSE IF r.size < HeaderSize THEN HeaderSize ELSE Width(r.edit)

\* The file ends within what ReplayLog reads, which is no error.
Stopped(run) == [run EXCEPT !.status = "stop"]

\* A replay that takes bytes it does not expect for the end; and ReplayLog, which fails.
MismatchStops(run) == Stopped(run)
Mismatch(run) == [run EXCEPT !.status = "fail"]

\* ReplayLog comes to record r, having read as far as run.pos.  The bytes behind a header
\* that was cut off never continue it, since every record begins with the magic; and a
\* magic is only found where a record begins.
ReadRecord(run, r, end) ==
  IF run.status # "read" \/ r.at + r.size <= run.pos THEN run
  ELSE IF r.at # run.pos THEN IF end - run.pos < MagicSize THEN Stopped(run) ELSE Mismatch(run)
  ELSE IF end - r.at < Needed(r) THEN Stopped(run)
  ELSE IF r.size < HeaderSize THEN Mismatch(run)
  ELSE [status |-> "read", pos |-> r.at + Width(r.edit),
        state |-> IF Complete(r) THEN ApplyEdit(run.state, r.edit) ELSE Garbled(run.state, r)]

ReplayLog(s, l) ==
  LET upto[n \in 0 .. Len(l)] ==
        IF n = 0 THEN [status |-> "read", pos |-> 0, state |-> s]
        ELSE ReadRecord(upto[n - 1], l[n], End(l))
  IN upto[Len(l)]

Replay(s, l) == ReplayLog(s, l).state
Readable(s, l) == ReplayLog(s, l).status # "fail"

\* A start that relies on a MANIFEST being there.
BaseUnset == snapshot

\* Load, or a fresh start.
Base == IF snapshot = Absent THEN Fresh ELSE snapshot

\* The constructor: Load, or start afresh and Persist; then ReplayLog, whose failure
\* throws.
Open ==
  /\ mode = "down"
  /\ \/ snapshot' = Base
     \/ "persist" \in Failing /\ UNCHANGED snapshot
  /\ IF Readable(Base, log) THEN mode' = "up" /\ state' = Replay(Base, log)
                            ELSE mode' = "failed" /\ state' = Fresh
  /\ edits_since_checkpoint' = 0
  /\ UNCHANGED <<log, phase, edit, committed, diverged>>

\* The operations change the state in memory first, then record the edit.
Record(x, v) ==
  /\ mode = "up" /\ phase = "ready" /\ Len(log) < MaxLog
  /\ edit' = [entry |-> x, value |-> v]
  /\ state' = ApplyEdit(state, edit')
  /\ phase' = "append"
  /\ UNCHANGED <<edits_since_checkpoint, snapshot, log, mode, committed, diverged>>

Allocated == 1 .. state[Counter]

AllocateFileNumber == state[Counter] + 1 \in Files /\ Record(Counter, state[Counter] + 1)
AddWal(i) == i \in Allocated /\ state[<<"wal", i>>] = Absent /\ Record(<<"wal", i>>, Live)
RemoveWal(i) == i \in Allocated /\ state[<<"wal", i>>] = Live /\ Record(<<"wal", i>>, Absent)
AddSst(i, level) == i \in Allocated /\ Record(<<"sst", i>>, level)
RemoveSst(i) == i \in Allocated /\ Record(<<"sst", i>>, Absent)

-----------------------------------------------------------------------------
\* PersistState succeeds: MANIFEST.tmp is complete and renamed over MANIFEST.
PersistState == snapshot' = state

\* AppendEdit succeeds; the checkpoint begins when enough edits have gathered.
AppendEdit ==
  /\ phase = "append"
  /\ log' = Written(log, edit, Width(edit))
  /\ edits_since_checkpoint' = edits_since_checkpoint + 1
  /\ committed' = ApplyEdit(committed, edit)
  /\ phase' = IF edits_since_checkpoint' < Threshold THEN "ready" ELSE "persist"
  /\ UNCHANGED <<state, snapshot, mode, edit, diverged>>

\* The write of a record stops in the middle.
PartWritten == \E n \in Cuts : n < Width(edit) /\ log' = Written(log, edit, n)

\* AppendEdit fails, having written nothing or a part of the record.
AppendFails ==
  /\ phase = "append" /\ "append" \in Failing
  /\ log' = log \/ PartWritten
  /\ phase' = "fallback" /\ diverged' = TRUE
  /\ UNCHANGED <<state, edits_since_checkpoint, snapshot, mode, edit, committed>>

\* RecordEdit's fallback: a snapshot instead of the record.
Fallback ==
  /\ phase = "fallback"
  /\ \/ PersistState /\ committed' = state
     \/ "fallback" \in Failing /\ UNCHANGED <<snapshot, committed>>
  /\ phase' = "ready"
  /\ UNCHANGED <<state, edits_since_checkpoint, log, mode, edit, diverged>>

\* A checkpoint that empties the log before it has written the snapshot.
CheckpointTruncatesFirst ==
  /\ phase = "persist"
  /\ log' = <<>> /\ phase' = "truncate"
  /\ UNCHANGED <<state, edits_since_checkpoint, snapshot, mode, edit, committed, diverged>>

\* A checkpoint that does not look at what Persist returned.
CheckpointPersistUnchecked ==
  /\ phase = "persist"
  /\ \/ PersistState
     \/ "persist" \in Failing /\ UNCHANGED snapshot
  /\ phase' = "truncate"
  /\ UNCHANGED <<state, edits_since_checkpoint, log, mode, edit, committed, diverged>>

\* MaybeCheckpoint, first half: Persist, or keep the log for the next time.
CheckpointPersist ==
  /\ phase = "persist"
  /\ \/ PersistState /\ phase' = "truncate"
     \/ "persist" \in Failing /\ phase' = "ready" /\ UNCHANGED snapshot
  /\ UNCHANGED <<state, edits_since_checkpoint, log, mode, edit, committed, diverged>>

\* MaybeCheckpoint, second half: TruncateLog.  From here on the files owe the manifest
\* that was persisted, whatever failed before.
CheckpointTruncate ==
  /\ phase = "truncate"
  /\ \/ log' = <<>> /\ edits_since_checkpoint' = 0 /\ committed' = state /\ diverged' = FALSE
     \/ "truncate" \in Failing /\ UNCHANGED <<log, edits_since_checkpoint, committed, diverged>>
  /\ phase' = "ready"
  /\ UNCHANGED <<state, snapshot, mode, edit>>

\* The process stops; a record being written may be left cut off.
Crash ==
  /\ mode = "up"
  /\ \/ UNCHANGED <<log, diverged>>
     \/ /\ phase = "append" /\ "tear" \in Failing /\ PartWritten
        /\ diverged' = (diverged \/ \E i \in DOMAIN log : CutInPayload(log[i]))
  /\ mode' = "down" /\ phase' = "ready" /\ edit' = NoEdit
  /\ state' = Fresh /\ edits_since_checkpoint' = 0
  /\ UNCHANGED <<snapshot, committed>>

Operation ==
  \/ AllocateFileNumber
  \/ \E i \in Files : AddWal(i) \/ RemoveWal(i) \/ RemoveSst(i)
  \/ \E i \in Files, level \in {0, 1} : AddSst(i, level)

RecordStep == AppendEdit \/ AppendFails \/ Fallback \/ CheckpointPersist \/ CheckpointTruncate

Next == Open \/ Operation \/ RecordStep \/ Crash

Spec == Init /\ [][Next]_vars

-----------------------------------------------------------------------------
\* The type invariant.
TypeOK ==
  /\ state \in States /\ committed \in States /\ diverged \in BOOLEAN
  /\ snapshot \in States \cup {Absent} /\ log \in Seq(LogRecords)
  /\ edits_since_checkpoint \in Nat
  /\ mode \in {"down", "up", "failed"} /\ edit \in Edits
  /\ phase \in {"ready", "append", "fallback", "persist", "truncate"}
  /\ mode # "up" => phase = "ready"

\* The manifest in memory is the one whose edits were recorded, in a process that
\* has been restarted as in one that has not: Load and ReplayLog bring back every
\* recorded edit and no other, wherever in RecordEdit or MaybeCheckpoint the last
\* process stopped, or else the constructor refuses to open.  Two things suspend this
\* until a checkpoint completes.  An append that fails: RecordEdit's fallback keeps a log
\* whose older edits a restart replays over the newer snapshot.  And a second record that
\* is cut off behind one whose payload was: ReplayLog may complete the one with the other.
MatchesCommitted ==
  mode = "up" /\ ~ diverged =>
    state = IF phase \in {"append", "fallback"} THEN ApplyEdit(committed, edit) ELSE committed

\* A checkpoint that completes makes the files agree with memory again, whatever
\* writes failed before it.
CheckpointHeals ==
  [][phase = "truncate" /\ log' = <<>> => Replay(snapshot', log') = state']_vars

\* The constructor never throws: a manifest that was in use can be opened again.
OpensAgain == mode # "failed"
=============================================================================
