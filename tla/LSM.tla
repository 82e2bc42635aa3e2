-------------------------------- MODULE LSM --------------------------------
(***************************************************************************)
(* The data of the store, without any state: records, tables and the       *)
(* newest-first search that Get, NewIterator, compaction and recovery all   *)
(* share.                                                                   *)
(*                                                                          *)
(* A MemTable, a write-ahead log and an SSTable all hold at most one live   *)
(* record per key (the skip list overwrites, the log's replay overwrites,   *)
(* the builder receives sorted distinct keys), so each of them is a table:  *)
(* a function from keys to records.  A stack of tables is a function from   *)
(* numbers to tables in which the larger number is the newer table: a level *)
(* (a sequence of readers), or the files of a directory by file number.     *)
(***************************************************************************)
EXTENDS Naturals, Sequences, FiniteSetsExt

CONSTANTS Keys,      \* the keys clients use
          Values,    \* the values clients store
          Deletion,  \* a record of type kDeletion
          None       \* no record for the key

ASSUME RecordAssumption == Deletion \notin Values /\ None \notin Values /\ None # Deletion

\* A ValueRecord: a value, or a tombstone.
Records == Values \cup {Deletion}

Tables == [Keys -> Records \cup {None}]

EmptyTable == [k \in Keys |-> None]

\* SkipList::size() through MemTable::Count().
Count(t) == Cardinality({k \in Keys : t[k] # None})

\* SkipList::insert_element: overwrite the node of the key, or add one.
Insert(t, k, rec) == [t EXCEPT ![k] = rec]

\* The older record counts only where the newer source has none (try_emplace).
Over(newer, older) == IF newer # None THEN newer ELSE older

\* What a caller sees of a record: Get answers false for a tombstone.
Visible(rec) == IF rec = Deletion THEN None ELSE rec

Hits(stack, k) == {i \in DOMAIN stack : stack[i][k] # None}

\* A search that stops at the oldest table instead.
OldestFirst(stack, k) ==
  IF Hits(stack, k) = {} THEN None ELSE stack[Min(Hits(stack, k))][k]

\* Search a stack of tables from the newest to the oldest and stop at a hit.
Lookup(stack, k) ==
  IF Hits(stack, k) = {} THEN None ELSE stack[Max(Hits(stack, k))][k]

\* Merge of a stack, newest record of each key.
Merge(stack) == [k \in Keys |-> Lookup(stack, k)]

HasVisibleValueInL1(l1, k) == Lookup(l1, k) \in Values

\* A compaction that drops every tombstone.
DropTombstones(merged, l1) ==
  [k \in Keys |-> IF merged[k] = Deletion THEN None ELSE merged[k]]

\* The records a compaction writes to L1: every value, and the tombstones that
\* still have a value to hide there.
Output(merged, l1) ==
  [k \in Keys |-> IF merged[k] = Deletion /\ ~HasVisibleValueInL1(l1, k)
                    THEN None
                    ELSE merged[k]]

\* The partial functions on file numbers that model directories and the manifest.
Assign(f, i, v) == [j \in DOMAIN f \cup {i} |-> IF j = i THEN v ELSE f[j]]
Erase(f, S) == [j \in DOMAIN f \ S |-> f[j]]
=============================================================================
