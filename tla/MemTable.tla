------------------------------ MODULE MemTable ------------------------------
(***************************************************************************)
(* One MemTable from its first Put to its SSTable: Put writes the WAL, then   *)
(* the skip list; a crash may cut the record that is being written; LoadLog   *)
(* brings the WAL back; BuildMinorSST walks the list into an SSTableBuilder.  *)
(*                                                                           *)
(* The WAL is a sequence of cells, one for each field of a record that has    *)
(* bytes.  A checksum that is there matches the whole record and nothing      *)
(* else, except that bytes which are cut off and were zero are read as the    *)
(* zeros that the buffer is filled with.  Lengths that are cut off are read   *)
(* as whatever was on the stack: the allocation may throw.                    *)
(***************************************************************************)
EXTENDS SkipList, SSTable

CONSTANTS
  Deletion,   \* the record of a removal, which has no value
  MaxPuts     \* bound: the records in the WAL

VARIABLES
  wal,        \* the cells of the WAL
  pos,        \* how far LoadLog has read
  builder, it,\* the builder, and the node the iterator is at
  file,       \* the SSTable
  pc,         \* "up", "down", "replay", "replayed", "build", "built", "failed"
  written,    \* history: the map of every record whose AddLog returned
  cut         \* history: <<k, r>> while it is the record that a crash cut, or <<>>

memVars == <<wal, pos, builder, it, file, pc, written, cut>>

MemInit ==
  /\ ListInit
  /\ wal = <<>> /\ pos = 0 /\ builder = NewBuilder /\ it = Null /\ file = <<>> /\ pc = "up"
  /\ written = [k \in Keys |-> NotFound] /\ cut = <<>>

-----------------------------------------------------------------------------
(* WalHandler.                                                               *)

Fields(r) == <<"crc", "type", "k_len", "key", "v_len">> \o IF r = Deletion THEN <<>> ELSE <<"value">>

\* AddLog's cells.
Encoded(k, r) == [i \in DOMAIN Fields(r) |-> [key |-> k, record |-> r, field |-> Fields(r)[i]]]

Logged == Len(SelectSeq(wal, LAMBDA c : c.field = "crc"))

\* Put and Remove: AddLog, then insert_element.
Put(k, r) ==
  /\ pc = "up" /\ Logged < MaxPuts
  /\ wal' = wal \o Encoded(k, r)
  /\ insert_element(k, r)
  /\ written' = [written EXCEPT ![k] = r]
  /\ UNCHANGED <<pos, builder, it, file, pc, cut>>

\* The process stops; in AddLog, with the record cut anywhere.
Lost ==
  /\ next' = [n \in {HeadNode} |-> [i \in Levels |-> Null]] /\ value' = <<>>
  /\ current_level' = 0 /\ node_count' = 0 /\ content' = [k \in Keys |-> NotFound]
  /\ pc' = "down" /\ pos' = 0 /\ builder' = NewBuilder /\ it' = Null /\ file' = <<>>
Stop ==
  /\ pc \in {"up", "replay", "replayed", "build", "built"}
  /\ Lost
  /\ \/ UNCHANGED <<wal, cut>>
     \/ /\ pc = "up" /\ Logged < MaxPuts
        /\ \E k \in Keys, r \in Records : \E n \in 1 .. Len(Fields(r)) :
             wal' = wal \o SubSeq(Encoded(k, r), 1, n) /\ cut' = <<k, r>>
  /\ UNCHANGED written

\* The next process opens the log, for a MemTable of its own.
StartReplay ==
  /\ pc = "down" /\ pc' = "replay"
  /\ UNCHANGED <<listVars, wal, pos, builder, it, file, written, cut>>

\* A LoadLog that hands over a record without a look at its checksum.
LoadUnchecked ==
  LET rest == SubSeq(wal, pos + 1, Len(wal))
      r == rest[1].record
  IN /\ pc = "replay"
     /\ IF rest = <<>>
        THEN pc' = "replayed" /\ UNCHANGED <<listVars, pos>>
        ELSE /\ insert_element(rest[1].key, IF Len(rest) < Len(Fields(r)) THEN Deletion ELSE r)
             /\ pos' = Min({Len(wal), pos + Len(Fields(r))}) /\ UNCHANGED pc
     /\ UNCHANGED <<wal, builder, it, file, written, cut>>

\* One turn of LoadLog's loop, and its callback, ApplyWithoutWal.
LoadLog ==
  LET rest == SubSeq(wal, pos + 1, Len(wal))
      r == rest[1].record
      missing == Len(Fields(r)) - Len(rest)
      apply == insert_element(rest[1].key, r) /\ pos' = pos + Len(Fields(r)) /\ UNCHANGED pc
      break == pc' = "replayed" /\ UNCHANGED <<listVars, pos>>
      bad_alloc == pc' = "failed" /\ UNCHANGED <<listVars, pos>>
  IN /\ pc = "replay"
     /\ IF rest = <<>> THEN break
        ELSE IF missing <= 0 THEN apply
        ELSE \/ break
             \/ rest[Len(rest)].field = "v_len" /\ apply
             \/ rest[Len(rest)].field # "v_len" /\ bad_alloc
     /\ UNCHANGED <<wal, builder, it, file, written, cut>>

-----------------------------------------------------------------------------
(* BuildMinorSST.                                                            *)

StartBuild ==
  /\ pc \in {"up", "replayed"} /\ node_count > 0
  /\ pc' = "build" /\ builder' = NewBuilder /\ it' = next[HeadNode][0] /\ file' = <<>>
  /\ UNCHANGED <<listVars, wal, pos, written, cut>>

BuildAdd ==
  /\ pc = "build" /\ it # Null
  /\ builder' = Add(builder, it, value[it])
  /\ it' = next[it][0] /\ file' = builder'.file
  /\ UNCHANGED <<listVars, wal, pos, pc, written, cut>>

BuildFinish ==
  /\ pc = "build" /\ it = Null
  /\ file' = Finish(builder) /\ pc' = "built"
  /\ UNCHANGED <<listVars, wal, pos, builder, it, written, cut>>

MemNext ==
  \/ \E k \in Keys, r \in Records : Put(k, r)
  \/ Stop \/ StartReplay \/ LoadLog \/ StartBuild \/ BuildAdd \/ BuildFinish

MemSpec == MemInit /\ [][MemNext]_<<listVars, memVars>>

-----------------------------------------------------------------------------
\* A replay gives back every record that was written, and of the record that a crash cut
\* all or nothing; a table is built from nothing less.
ReplayGivesBack ==
  pc \in {"replayed", "build", "built"} =>
    \/ content = written
    \/ cut # <<>> /\ content = [written EXCEPT ![cut[1]] = cut[2]]

\* The SSTable answers every search as the MemTable it was built from, and ForEach gives
\* its rows in order, over any division into blocks and any collisions in the filter.
TableAnswers ==
  pc = "built" => /\ OpenTable(file)
                  /\ \A k \in Keys : GetRecord(file, k, NotFound) = search_element(k)
                  /\ ForEach(file) = Snapshot

\* A file that was not written to its end is not taken for a table.
UnfinishedRefused ==
  \A n \in 0 .. Len(file) : pc = "build" \/ n < Len(file) => ~OpenTable(SubSeq(file, 1, n))
=============================================================================
