--------------------------- MODULE MemTableProofs ---------------------------
(***************************************************************************)
(* A MemTable from its first Put to its SSTable: the WAL gives back what was  *)
(* written, a file that is not finished is not taken for a table, and the     *)
(* table answers as the list it was built from.  The arguments: the builder   *)
(* has been given the rows before the node that the iterator is at; the WAL   *)
(* is a row of records, of which a crash may have cut the last, and LoadLog   *)
(* is always at the beginning of one.                                        *)
(***************************************************************************)
EXTENDS MemTable, TableProofs

-----------------------------------------------------------------------------
(* BuildMinorSST.                                                            *)

\* The rows of the list, as the iterator gives them.
Listed(at, v, n) == at = Iterator /\ v = value /\ IsRows(at, n) /\ Snapshot = Rows(at, v, n)

\* The builder has been given the rows before the node that the iterator is at, and what it
\* has written is in the file; when it is done the file is the table of all the rows.
Building ==
  \E at, v, n, j : /\ Listed(at, v, n) /\ n > 0 /\ j \in 0 .. n /\ it = at[j + 1]
                   /\ IsBuilder(builder, at, v, j) /\ file = builder.file
Built == \E at, v, n, q, ends : Listed(at, v, n) /\ IsTable(file, at, v, n, q, ends)
BuildInv ==
  /\ pc \notin {"build", "built"} => file = <<>>
  /\ pc = "build" => Building
  /\ pc = "built" => Built

\* A linked list has rows; more than none when node_count is more than 0.
LEMMA ListHasRows ==
  ASSUME ListInv
  PROVE  \E at, v, n : Listed(at, v, n) /\ (node_count > 0 => n > 0)
PROOF
<1>1. Linked
  BY Zenon DEF ListInv
<1>2. PICK at : at = Iterator
  BY Zenon
<1>3. PICK v : v = value
  BY Zenon
<1>4. PICK n : IsRows(at, n) /\ Snapshot = [i \in 1 .. n |-> <<at[i], v[at[i]]>>]
  BY <1>1, <1>2, <1>3, IteratorRows, Zenon
<1>5. n \in Nat
  BY <1>4, SkipListAssumption DEF IsRows
<1>6. Len(Snapshot) = n
  BY <1>4, <1>5
<1>7. node_count = n
  BY <1>6, LinkedIsMap, Zenon DEF ListIsMap
<1>8. Listed(at, v, n)
  BY <1>2, <1>3, <1>4, Zenon DEF Listed, Rows
<1> QED
  BY <1>7, <1>8, Zenon

\* The rows are what a builder expects.
LEMMA ListedRows ==
  ASSUME ListInv, NEW at, NEW v, NEW n, Listed(at, v, n)
  PROVE  HasRows(at, v, n)
PROOF
<1>1. IsRows(at, n) /\ v = value /\ at = Iterator /\ Linked /\ content \in [Keys -> Records \cup {NotFound}]
  BY Zenon DEF Listed, ListInv
<1>2. n \in Nat
  BY <1>1, SkipListAssumption DEF IsRows
<1>3. at[0] = 0
  BY <1>1, IteratorWalks, Zenon DEF IsWalk, HeadNode
<1>4. ASSUME NEW i \in 1 .. n PROVE at[i] \in Keys /\ v[at[i]] \in Records
  <2>1. at[i] \in Stored /\ v[at[i]] = content[at[i]]
    BY <1>1, Zenon DEF IsRows, Linked
  <2>2. at[i] \in Keys /\ content[at[i]] # NotFound
    BY <2>1, Zenon DEF Stored
  <2> QED
    BY <1>1, <2>1, <2>2
<1>5. \A i, j \in 1 .. n : i < j => at[i] < at[j]
  BY <1>1, Zenon DEF IsRows
<1> QED
  BY <1>2, <1>3, <1>4, <1>5, Zenon DEF HasRows

\* The rows stay as they are when the list does.
LEMMA ListedKept ==
  ASSUME UNCHANGED listVars, NEW at, NEW v, NEW n, Listed(at, v, n)
  PROVE  Listed(at, v, n)'
PROOF
<1>1. next' = next /\ value' = value /\ content' = content
  BY Zenon DEF listVars
<1>2. Iterator' = Iterator
  BY <1>1, Zenon DEF Iterator
<1>3. Snapshot' = Snapshot
  BY <1>1, <1>2, Zenon DEF Snapshot
<1>4. Stored' = Stored
  BY <1>1, Zenon DEF Stored
<1>5. IsRows(at, n)'
  BY <1>1, <1>4, Zenon DEF Listed, IsRows
<1> QED
  BY <1>1, <1>2, <1>3, <1>5, Zenon DEF Listed

\* BuildMinorSST begins with a new builder and the iterator at the first row.
LEMMA StartBuilds ==
  ASSUME ListInv, StartBuild
  PROVE  BuildInv'
PROOF
<1>1. PICK at, v, n : Listed(at, v, n) /\ (node_count > 0 => n > 0)
  BY ListHasRows, Zenon
<1>2. Listed(at, v, n)' /\ n > 0
  BY <1>1, ListedKept, Zenon DEF StartBuild
<1>3. HasRows(at, v, n)
  BY <1>1, ListedRows, Zenon
<1>4. n \in Nat /\ at[0] = HeadNode /\ 0 \in 0 .. n /\ 0 + 1 = 1
  BY <1>3 DEF HasRows, HeadNode
<1>5. at[0 + 1] = next[at[0]][0]
  BY <1>1, <1>4, Zenon DEF Listed, IsRows
<1>6. it' = at[0 + 1] /\ builder' = NewBuilder /\ file' = <<>> /\ pc' = "build"
  BY <1>4, <1>5, Zenon DEF StartBuild
<1>7. IsBuilder(builder', at, v, 0)
  BY <1>3, <1>6, NewBuilderFacts, Zenon
<1>8. file' = builder'.file
  BY <1>6 DEF NewBuilder
<1>9. Building'
  BY <1>2, <1>4, <1>6, <1>7, <1>8, Zenon DEF Building
<1> QED
  BY <1>6, <1>9, Zenon DEF BuildInv

\* One turn of its loop gives the builder the row that the iterator is at.
LEMMA AddBuilds ==
  ASSUME ListInv, BuildInv, BuildAdd
  PROVE  BuildInv'
PROOF
<1>1. Building
  BY Zenon DEF BuildInv, BuildAdd
<1>2. PICK at, v, n, j : /\ Listed(at, v, n) /\ n > 0 /\ j \in 0 .. n /\ it = at[j + 1]
                         /\ IsBuilder(builder, at, v, j) /\ file = builder.file
  BY <1>1, Zenon DEF Building
<1>3. Listed(at, v, n)'
  BY <1>2, ListedKept, Zenon DEF BuildAdd
<1>4. HasRows(at, v, n) /\ n \in Nat
  BY <1>2, ListedRows, Zenon DEF HasRows
<1>5. IsRows(at, n) /\ v = value
  BY <1>2, Zenon DEF Listed
<1>6. j # n
  BY <1>2, <1>5, Zenon DEF BuildAdd, IsRows
<1>7. j + 1 \in 0 .. n
  BY <1>2, <1>4, <1>6
<1>8. /\ builder' = Add(builder, at[j + 1], v[at[j + 1]]) /\ file' = builder'.file
      /\ it' = next[at[j + 1]][0] /\ pc' = "build"
  BY <1>2, <1>5, Zenon DEF BuildAdd
<1>9. it' = at[(j + 1) + 1]
  BY <1>5, <1>7, <1>8, Zenon DEF IsRows
<1>10. IsBuilder(builder', at, v, j + 1)
  BY <1>2, <1>4, <1>6, <1>8, AddKeeps, Zenon
<1>11. Building'
  BY <1>2, <1>3, <1>7, <1>8, <1>9, <1>10, Zenon DEF Building
<1> QED
  BY <1>8, <1>11, Zenon DEF BuildInv

\* At the end of the list the file becomes the table of all its rows.
LEMMA FinishBuilds ==
  ASSUME ListInv, BuildInv, BuildFinish
  PROVE  BuildInv'
PROOF
<1>1. Building
  BY Zenon DEF BuildInv, BuildFinish
<1>2. PICK at, v, n, j : /\ Listed(at, v, n) /\ n > 0 /\ j \in 0 .. n /\ it = at[j + 1]
                         /\ IsBuilder(builder, at, v, j) /\ file = builder.file
  BY <1>1, Zenon DEF Building
<1>3. Listed(at, v, n)'
  BY <1>2, ListedKept, Zenon DEF BuildFinish
<1>4. HasRows(at, v, n) /\ n \in Nat
  BY <1>2, ListedRows, Zenon DEF HasRows
<1>5. at[j + 1] = Null /\ file' = Finish(builder) /\ pc' = "built"
  BY <1>2, Zenon DEF BuildFinish
<1>6. j = n
  <2>1. ASSUME j # n PROVE FALSE
    <3>1. j + 1 \in 1 .. n
      BY <1>2, <1>4, <2>1
    <3>2. Null \in Keys
      BY <1>4, <1>5, <3>1, Zenon DEF HasRows
    <3> QED
      BY <3>2, SkipListAssumption DEF Null, Keys
  <2> QED
    BY <2>1, Zenon
<1>7. PICK q, ends : IsTable(file', at, v, n, q, ends)
  BY <1>2, <1>4, <1>5, <1>6, FinishMakesTable, Zenon
<1>8. Built'
  BY <1>3, <1>7, Zenon DEF Built
<1> QED
  BY <1>5, <1>8, Zenon DEF BuildInv

\* All the while.
LEMMA BuildStep ==
  ASSUME ListInv, BuildInv, [MemNext]_<<listVars, memVars>>
  PROVE  BuildInv'
PROOF
<1>1. ASSUME pc' \notin {"build", "built"}, file' = <<>> PROVE BuildInv'
  BY <1>1, Zenon DEF BuildInv
<1>2. CASE UNCHANGED <<listVars, memVars>>
  <2>1. /\ pc' = pc /\ file' = file /\ it' = it /\ builder' = builder /\ UNCHANGED listVars
    BY <1>2, Zenon DEF memVars
  <2>2. ASSUME Building PROVE Building'
    <3>1. PICK at, v, n, j : /\ Listed(at, v, n) /\ n > 0 /\ j \in 0 .. n /\ it = at[j + 1]
                             /\ IsBuilder(builder, at, v, j) /\ file = builder.file
      BY <2>2, Zenon DEF Building
    <3>2. Listed(at, v, n)'
      BY <2>1, <3>1, ListedKept, Zenon
    <3> QED
      BY <2>1, <3>1, <3>2, Zenon DEF Building
  <2>3. ASSUME Built PROVE Built'
    <3>1. PICK at, v, n, q, ends : Listed(at, v, n) /\ IsTable(file, at, v, n, q, ends)
      BY <2>3, Zenon DEF Built
    <3>2. Listed(at, v, n)'
      BY <2>1, <3>1, ListedKept, Zenon
    <3> QED
      BY <2>1, <3>1, <3>2, Zenon DEF Built
  <2> QED
    BY <2>1, <2>2, <2>3, Zenon DEF BuildInv
<1>3. ASSUME NEW k \in Keys, NEW r \in Records, Put(k, r) PROVE BuildInv'
  BY <1>1, <1>3 DEF Put, BuildInv
<1>4. CASE Stop
  BY <1>1, <1>4 DEF Stop, Lost
<1>5. CASE StartReplay
  BY <1>1, <1>5 DEF StartReplay, BuildInv
<1>6. CASE LoadLog
  <2>1. pc = "replay" /\ file' = file /\ pc' \in {"replay", "replayed", "failed"}
    BY <1>6, Zenon DEF LoadLog
  <2> QED
    BY <1>1, <2>1 DEF BuildInv
<1> QED
  BY <1>2, <1>3, <1>4, <1>5, <1>6, StartBuilds, AddBuilds, FinishBuilds, Zenon DEF MemNext

\* What is written before Finish has returned is refused.
LEMMA RefusesUnfinished ==
  ASSUME ListInv, BuildInv
  PROVE  UnfinishedRefused
PROOF
<1> SUFFICES ASSUME NEW m \in 0 .. Len(file), pc = "build" \/ m < Len(file)
             PROVE  ~OpenTable(SubSeq(file, 1, m))
  BY Zenon DEF UnfinishedRefused
<1>1. CASE pc \notin {"build", "built"}
  <2>1. file = <<>>
    BY <1>1, Zenon DEF BuildInv
  <2>2. <<>> \in Seq({}) /\ Len(<<>>) = 0
    OBVIOUS
  <2>3. m = 0
    BY <2>1, <2>2
  <2>4. file \in Seq({}) /\ ~(m > 0)
    BY <2>1, <2>2, <2>3
  <2> QED
    BY <2>4, NoFooterNoTable, Zenon
<1>2. CASE pc = "build"
  <2>1. file \in Seq(Entries)
    BY <1>2, Zenon DEF BuildInv, Building, IsBuilder, Builders
  <2>2. ASSUME m > 0 PROVE file[m].cell # "footer"
    <3>1. file[m] \in Entries
      BY <2>1, <2>2
    <3> QED
      BY <3>1 DEF Entries
  <2> QED
    BY <2>1, <2>2, NoFooterNoTable, Zenon
<1>3. CASE pc = "built"
  <2>1. PICK at, v, n, q, ends : Listed(at, v, n) /\ IsTable(file, at, v, n, q, ends)
    BY <1>3, Zenon DEF BuildInv, Built
  <2>2. n \in Nat
    BY <2>1, ListedRows, Zenon DEF HasRows
  <2>3. file \in Seq(FileCells)
    BY <2>1, Zenon DEF IsTable
  <2>4. m < Len(file)
    BY <1>3
  <2>5. ASSUME m > 0 PROVE file[m].cell # "footer"
    <3>1. m \in 1 .. Len(file) /\ m # Len(file)
      BY <2>3, <2>4, <2>5
    <3> QED
      BY <2>1, <2>2, <3>1, OneFooter, Zenon
  <2> QED
    BY <2>3, <2>5, NoFooterNoTable, Zenon
<1> QED
  BY <1>1, <1>2, <1>3, Zenon

\* A table that is built answers as its list.
LEMMA AnswersAsList ==
  ASSUME ListInv, BuildInv
  PROVE  TableAnswers
PROOF
<1> SUFFICES ASSUME pc = "built"
             PROVE  /\ OpenTable(file)
                    /\ \A k \in Keys : GetRecord(file, k, NotFound) = search_element(k)
                    /\ ForEach(file) = Snapshot
  BY Zenon DEF TableAnswers
<1>1. PICK at, v, n, q, ends : Listed(at, v, n) /\ IsTable(file, at, v, n, q, ends)
  BY Zenon DEF BuildInv, Built
<1>2. HasRows(at, v, n)
  BY <1>1, ListedRows, Zenon
<1>3. OpenTable(file)
  BY <1>1, <1>2, TableOpens, Zenon
<1>4. ForEach(file) = Snapshot
  BY <1>1, <1>2, ForEachRows, Zenon DEF Listed
<1>5. ASSUME NEW k \in Keys PROVE GetRecord(file, k, NotFound) = search_element(k)
  <2>1. Linked /\ IsRows(at, n) /\ v = value
    BY <1>1, Zenon DEF ListInv, Listed
  <2>2. search_element(k) = content[k]
    BY <2>1, SearchFinds, Zenon
  <2>3. CASE k \in Stored
    <3>1. PICK r \in 1 .. n : at[r] = k
      BY <2>1, <2>3, Zenon DEF IsRows
    <3>2. GetRecord(file, k, NotFound) = v[k]
      <4>1. GetRecord(file, at[r], NotFound) = v[at[r]]
        BY <1>1, <1>2, RowFound
      <4> QED
        BY <3>1, <4>1, Zenon
    <3>3. v[k] = content[k]
      BY <2>1, <2>3, Zenon DEF Linked
    <3> QED
      BY <2>2, <3>2, <3>3, Zenon
  <2>4. CASE k \notin Stored
    <3>1. NoRow(at, n, k)
      BY <2>1, <2>4, Zenon DEF IsRows, NoRow
    <3>2. GetRecord(file, k, NotFound) = NotFound
      BY <1>1, <1>2, <3>1, NoRowFound
    <3>3. content[k] = NotFound
      BY <2>4, Zenon DEF Stored
    <3> QED
      BY <2>2, <3>2, <3>3, Zenon
  <2> QED
    BY <2>3, <2>4, Zenon
<1> QED
  BY <1>3, <1>4, <1>5, Zenon

-----------------------------------------------------------------------------
(* The WAL.                                                                  *)

FieldNames == {"crc", "type", "k_len", "key", "v_len", "value"}
WalCells == [key : Keys, record : Records, field : FieldNames]
Maps == [Keys -> Records \cup {NotFound}]
Width(r) == Len(Fields(r))

\* rs are the records of the WAL whose AddLog returned, record i ends at cell ends[i], and
\* maps[i] is the map of the first i of them.
IsLog(rs, ends, maps) ==
  /\ rs \in Seq(Keys \X Records)
  /\ ends \in [0 .. Len(rs) -> Nat] /\ ends[0] = 0
  /\ maps \in [0 .. Len(rs) -> Maps] /\ maps[0] = [k \in Keys |-> NotFound]
  /\ \A i \in 1 .. Len(rs) :
       /\ ends[i] = ends[i - 1] + Width(rs[i][2]) /\ ends[i] <= Len(wal)
       /\ maps[i] = [maps[i - 1] EXCEPT ![rs[i][1]] = rs[i][2]]
       /\ wal[ends[i - 1] + 1].key = rs[i][1] /\ wal[ends[i - 1] + 1].record = rs[i][2]
  /\ written = maps[Len(rs)]

\* What is behind the end e of these records: nothing, or the cells of the record that was cut.
Behind(e) ==
  \/ cut = <<>> /\ Len(wal) = e
  \/ \E k \in Keys, r \in Records :
       /\ cut = <<k, r>> /\ Len(wal) \in (e + 1) .. (e + Width(r))
       /\ wal[e + 1].key = k /\ wal[e + 1].record = r

\* The list holds all of the records, and the one that was cut or not.
WithCut == cut # <<>> /\ content = [written EXCEPT ![cut[1]] = cut[2]]
Restored == content = written \/ WithCut

\* How far the list is.
Loaded(n, ends, maps) ==
  /\ pc = "up" => cut = <<>> /\ content = written
  /\ pc = "down" => pos = 0 /\ content = maps[0]
  /\ pc = "replay" => \/ \E i \in 0 .. n : pos = ends[i] /\ content = maps[i]
                      \/ pos >= Len(wal) /\ WithCut
  /\ pc \in {"replayed", "build", "built"} => Restored

LogIs(rs, ends, maps) ==
  IsLog(rs, ends, maps) /\ Behind(ends[Len(rs)]) /\ Loaded(Len(rs), ends, maps)

WalInv ==
  /\ wal \in Seq(WalCells) /\ pos \in Nat
  /\ \E rs, ends, maps : LogIs(rs, ends, maps)

-----------------------------------------------------------------------------
\* AddLog writes five or six cells.
LEMMA EncodedType ==
  ASSUME NEW k \in Keys, NEW r \in Records
  PROVE  /\ Width(r) \in Nat /\ Width(r) >= 1 /\ Encoded(k, r) \in Seq(WalCells)
         /\ Len(Encoded(k, r)) = Width(r)
         /\ Encoded(k, r)[1].key = k /\ Encoded(k, r)[1].record = r
PROOF
<1>1. /\ Fields(r) \in Seq(FieldNames) /\ Width(r) \in Nat /\ Width(r) >= 1
      /\ DOMAIN Fields(r) = 1 .. Width(r)
  <2> DEFINE a == <<"crc", "type", "k_len", "key", "v_len">>
             b == IF r = Deletion THEN <<>> ELSE <<"value">>
  <2>1. a \in Seq(FieldNames) /\ Len(a) = 5
    BY DEF FieldNames
  <2>2. b \in Seq(FieldNames) /\ Len(b) \in Nat
    <3>1. <<>> \in Seq(FieldNames) /\ <<"value">> \in Seq(FieldNames) /\ Len(<<>>) \in Nat
          /\ Len(<<"value">>) \in Nat
      BY DEF FieldNames
    <3> QED
      BY <3>1, Zenon
  <2>3. Fields(r) = a \o b
    BY Zenon DEF Fields
  <2> HIDE DEF a, b
  <2> QED
    BY <2>1, <2>2, <2>3 DEF Width
<1>2. ASSUME NEW i \in 1 .. Width(r)
      PROVE  [key |-> k, record |-> r, field |-> Fields(r)[i]] \in WalCells
  <2>1. Fields(r)[i] \in FieldNames
    BY <1>1
  <2> QED
    BY <2>1, Zenon DEF WalCells
<1>3. Encoded(k, r) = [i \in 1 .. Width(r) |-> [key |-> k, record |-> r, field |-> Fields(r)[i]]]
  BY <1>1, Zenon DEF Encoded
<1>4. Encoded(k, r) \in Seq(WalCells) /\ Len(Encoded(k, r)) = Width(r)
  BY <1>1, <1>2, <1>3
<1>5. Encoded(k, r)[1] = [key |-> k, record |-> r, field |-> Fields(r)[1]]
  BY <1>1, <1>3
<1> QED
  BY <1>1, <1>4, <1>5

\* A record of the WAL, and where it is.
LEMMA LogFacts ==
  ASSUME NEW rs, NEW ends, NEW maps, IsLog(rs, ends, maps)
  PROVE  /\ Len(rs) \in Nat /\ 0 \in 0 .. Len(rs) /\ Len(rs) \in 0 .. Len(rs)
         /\ \A i \in 0 .. Len(rs) : ends[i] \in Nat /\ maps[i] \in Maps
         /\ \A i \in 1 .. Len(rs) :
              /\ i \in 0 .. Len(rs) /\ i - 1 \in 0 .. Len(rs) /\ rs[i][1] \in Keys /\ rs[i][2] \in Records
              /\ ends[i] = ends[i - 1] + Width(rs[i][2]) /\ ends[i] <= Len(wal)
              /\ ends[i] \in Nat /\ ends[i - 1] \in Nat /\ Width(rs[i][2]) \in Nat /\ Width(rs[i][2]) >= 1
PROOF
<1>1. rs \in Seq(Keys \X Records) /\ ends \in [0 .. Len(rs) -> Nat] /\ maps \in [0 .. Len(rs) -> Maps]
  BY Zenon DEF IsLog
<1>2. Len(rs) \in Nat /\ 0 \in 0 .. Len(rs) /\ Len(rs) \in 0 .. Len(rs)
  BY <1>1
<1>3. \A i \in 0 .. Len(rs) : ends[i] \in Nat /\ maps[i] \in Maps
  BY <1>1, Zenon
<1>4. ASSUME NEW i \in 1 .. Len(rs)
      PROVE  i \in 0 .. Len(rs) /\ i - 1 \in 0 .. Len(rs) /\ rs[i] \in Keys \X Records
  BY <1>1, <1>2
<1>5. ASSUME NEW i \in 1 .. Len(rs) PROVE rs[i][1] \in Keys /\ rs[i][2] \in Records
  BY <1>4
<1>6. \A r \in Records : Width(r) \in Nat /\ Width(r) >= 1
  <2>1. SUFFICES ASSUME NEW r \in Records PROVE Width(r) \in Nat /\ Width(r) >= 1
    BY Zenon
  <2>2. CASE r = Deletion
    BY <2>2 DEF Width, Fields
  <2>3. CASE r # Deletion
    BY <2>3 DEF Width, Fields
  <2> QED
    BY <2>2, <2>3, Zenon
<1> QED
  BY <1>2, <1>3, <1>4, <1>5, <1>6, Zenon DEF IsLog

\* A record that ends in a log begins in it, and both in a longer one.
LEMMA RecordInside ==
  ASSUME NEW a \in Nat, NEW w \in Nat, w >= 1, NEW b, b = a + w, NEW l \in Nat, b <= l,
         NEW m \in Nat, l <= m
  PROVE  a + 1 \in 1 .. l /\ b <= m
  OBVIOUS

\* What is appended to the WAL leaves its records alone.
LEMMA LogKept ==
  ASSUME wal \in Seq(WalCells), NEW rs, NEW ends, NEW maps, IsLog(rs, ends, maps),
         wal' \in Seq(WalCells), Len(wal') >= Len(wal), \A i \in 1 .. Len(wal) : wal'[i] = wal[i],
         written' = written
  PROVE  IsLog(rs, ends, maps)'
PROOF
<1>1. ASSUME NEW i \in 1 .. Len(rs)
      PROVE  ends[i] <= Len(wal') /\ wal'[ends[i - 1] + 1] = wal[ends[i - 1] + 1]
  <2>1. /\ i \in 0 .. Len(rs) /\ i - 1 \in 0 .. Len(rs) /\ rs[i][2] \in Records /\ rs[i][1] \in Keys
        /\ ends[i] = ends[i - 1] + Width(rs[i][2]) /\ ends[i] <= Len(wal)
        /\ ends[i] \in Nat /\ ends[i - 1] \in Nat
    BY LogFacts, Zenon
  <2>2. Width(rs[i][2]) \in Nat /\ Width(rs[i][2]) >= 1
    BY LogFacts, Zenon
  <2>3. Len(wal) \in Nat /\ Len(wal') \in Nat /\ Len(wal) <= Len(wal')
    OBVIOUS
  <2>4. ends[i - 1] + 1 \in 1 .. Len(wal) /\ ends[i] <= Len(wal')
    BY <2>1, <2>2, <2>3, RecordInside, Zenon
  <2> QED
    BY <2>4, Zenon
<1> QED
  BY <1>1, Zenon DEF IsLog

\* AddLog adds a record at the end.
LEMMA LogExtended ==
  ASSUME wal \in Seq(WalCells), NEW rs, NEW ends, NEW maps, IsLog(rs, ends, maps),
         Len(wal) = ends[Len(rs)], NEW k \in Keys, NEW r \in Records,
         wal' = wal \o Encoded(k, r), written' = [written EXCEPT ![k] = r]
  PROVE  /\ wal' \in Seq(WalCells)
         /\ \E rs2, ends2, maps2 : IsLog(rs2, ends2, maps2)' /\ ends2[Len(rs2)] = Len(wal')
PROOF
<1> DEFINE n == Len(rs)
           I == 0 .. (n + 1)
<1>1. /\ Width(r) \in Nat /\ Width(r) >= 1 /\ Encoded(k, r) \in Seq(WalCells)
      /\ Len(Encoded(k, r)) = Width(r)
      /\ Encoded(k, r)[1].key = k /\ Encoded(k, r)[1].record = r
  BY EncodedType, Zenon
<1>2. /\ wal' \in Seq(WalCells) /\ Len(wal') = Len(wal) + Width(r) /\ Len(wal) \in Nat
      /\ \A i \in 1 .. Len(wal) : wal'[i] = wal[i]
      /\ wal'[Len(wal) + 1] = Encoded(k, r)[1] /\ Len(wal') \in Nat /\ Len(wal) <= Len(wal')
  <2> DEFINE e == Encoded(k, r)
  <2>1. 1 \in 1 .. Len(e)
    BY <1>1
  <2>2. e \in Seq(WalCells) /\ wal' = wal \o e /\ Len(e) = Width(r)
    BY <1>1, Zenon
  <2> HIDE DEF e
  <2>3. /\ wal' \in Seq(WalCells) /\ Len(wal') = Len(wal) + Width(r) /\ Len(wal) \in Nat
        /\ \A i \in 1 .. Len(wal) : wal'[i] = wal[i]
        /\ wal'[Len(wal) + 1] = e[1]
    <3>1. wal' \in Seq(WalCells) /\ IsConcat(wal', wal, e)
      BY <2>2, ConcatFacts, Zenon
    <3> QED
      BY <2>1, <2>2, <3>1, Zenon DEF IsConcat
  <2>4. Len(wal') \in Nat /\ Len(wal) <= Len(wal')
    BY <1>1, <2>3, SMTT(20)
  <2> QED
    BY <2>3, <2>4, Zenon DEF e
<1>3. /\ n \in Nat /\ 0 \in 0 .. n /\ n \in 0 .. n
      /\ \A i \in 0 .. n : ends[i] \in Nat /\ maps[i] \in Maps
  BY LogFacts, Zenon
<1>4. written = maps[n] /\ written' \in Maps /\ rs \in Seq(Keys \X Records)
  <2>1. written = maps[n] /\ written \in Maps
    BY <1>3, Zenon DEF IsLog
  <2> QED
    BY <2>1, Zenon DEF IsLog, Maps
<1> DEFINE l == Len(wal) + Width(r)
           w == [written EXCEPT ![k] = r]
<1>13. PICK rs2 : rs2 = Append(rs, <<k, r>>)
  BY Zenon
<1>14. PICK ends2 : ends2 = [i \in I |-> IF i = n + 1 THEN l ELSE ends[i]]
  BY Zenon
<1>15. PICK maps2 : maps2 = [i \in I |-> IF i = n + 1 THEN w ELSE maps[i]]
  BY Zenon
<1>5. /\ rs2 \in Seq(Keys \X Records) /\ Len(rs2) = n + 1 /\ rs2[n + 1] = <<k, r>>
      /\ \A i \in 1 .. n : rs2[i] = rs[i]
  BY <1>4, <1>13
<1>6. /\ 0 \in I /\ n + 1 \in I /\ n \in I /\ 0 # n + 1 /\ n # n + 1 /\ (n + 1) - 1 = n
      /\ \A i \in 1 .. (n + 1) : i = n + 1 \/ i \in 1 .. n
      /\ \A i \in 1 .. n : i \in I /\ i - 1 \in I /\ i # n + 1 /\ i - 1 # n + 1
      /\ \A i \in I : i = n + 1 \/ i \in 0 .. n
  <2>1. n \in Nat
    BY <1>3, Zenon
  <2> QED
    BY <2>1
<1> HIDE DEF n
<1>7. /\ ends2 \in [I -> Nat] /\ maps2 \in [I -> Maps]
      /\ ends2[n + 1] = Len(wal') /\ maps2[n + 1] = written'
      /\ ends2[n] = ends[n] /\ maps2[n] = maps[n]
      /\ ends2[0] = ends[0] /\ maps2[0] = maps[0]
  <2>1. l \in Nat /\ l = Len(wal') /\ w = written' /\ w \in Maps
    BY <1>1, <1>2, <1>4
  <2> HIDE DEF I, l, w
  <2>2. /\ ends2 \in [I -> Nat] /\ ends2[n + 1] = l /\ ends2[n] = ends[n] /\ ends2[0] = ends[0]
    BY <1>3, <1>6, <1>14, <2>1, Zenon
  <2>3. /\ maps2 \in [I -> Maps] /\ maps2[n + 1] = w /\ maps2[n] = maps[n] /\ maps2[0] = maps[0]
    BY <1>3, <1>6, <1>15, <2>1, Zenon
  <2> QED
    BY <2>1, <2>2, <2>3, Zenon
<1>8. ASSUME NEW i \in 1 .. n
      PROVE /\ ends2[i] = ends[i] /\ maps2[i] = maps[i]
            /\ ends2[i - 1] = ends[i - 1] /\ maps2[i - 1] = maps[i - 1]
  BY <1>6, <1>14, <1>15, Zenon
<1> HIDE DEF I, l, w
<1>9. ASSUME NEW i \in 1 .. n
      PROVE  /\ ends2[i] = ends2[i - 1] + Width(rs2[i][2]) /\ ends2[i] <= Len(wal')
             /\ maps2[i] = [maps2[i - 1] EXCEPT ![rs2[i][1]] = rs2[i][2]]
             /\ wal'[ends2[i - 1] + 1].key = rs2[i][1] /\ wal'[ends2[i - 1] + 1].record = rs2[i][2]
  <2>1. /\ ends[i] = ends[i - 1] + Width(rs[i][2]) /\ ends[i] <= Len(wal)
        /\ ends[i] \in Nat /\ ends[i - 1] \in Nat /\ Width(rs[i][2]) \in Nat /\ Width(rs[i][2]) >= 1
    BY LogFacts, Zenon DEF n
  <2>2. ends[i - 1] + 1 \in 1 .. Len(wal) /\ ends[i] <= Len(wal')
    <3>1. Len(wal) \in Nat /\ Len(wal') \in Nat /\ Len(wal) <= Len(wal')
      BY <1>2, Zenon
    <3> QED
      BY <2>1, <3>1, RecordInside, Zenon
  <2>3. wal'[ends[i - 1] + 1] = wal[ends[i - 1] + 1]
    BY <1>2, <2>2, Zenon
  <2>4. /\ maps[i] = [maps[i - 1] EXCEPT ![rs[i][1]] = rs[i][2]]
        /\ wal[ends[i - 1] + 1].key = rs[i][1] /\ wal[ends[i - 1] + 1].record = rs[i][2]
    BY Zenon DEF IsLog, n
  <2> QED
    BY <1>5, <1>8, <2>1, <2>2, <2>3, <2>4, Zenon
<1>10. /\ ends2[n + 1] = ends2[(n + 1) - 1] + Width(rs2[n + 1][2]) /\ ends2[n + 1] <= Len(wal')
       /\ maps2[n + 1] = [maps2[(n + 1) - 1] EXCEPT ![rs2[n + 1][1]] = rs2[n + 1][2]]
       /\ wal'[ends2[(n + 1) - 1] + 1].key = rs2[n + 1][1]
       /\ wal'[ends2[(n + 1) - 1] + 1].record = rs2[n + 1][2]
  <2>1. Len(wal) = ends[n] /\ rs2[n + 1][1] = k /\ rs2[n + 1][2] = r /\ Len(wal') <= Len(wal')
    <3>1. rs2[n + 1] = <<k, r>> /\ Len(wal) = ends[n] /\ Len(wal') \in Nat
      BY <1>2, <1>5, Zenon DEF n
    <3> QED
      BY <3>1
  <2>2. wal'[ends2[n] + 1].key = k /\ wal'[ends2[n] + 1].record = r
    <3>1. ends2[n] = Len(wal) /\ wal'[Len(wal) + 1] = Encoded(k, r)[1]
      BY <1>2, <1>7, <2>1, Zenon
    <3>2. wal'[ends2[n] + 1] = Encoded(k, r)[1]
      BY <3>1, Zenon
    <3> QED
      BY <1>1, <3>2, Zenon
  <2>3. maps2[n + 1] = [maps2[n] EXCEPT ![k] = r]
    BY <1>4, <1>7, Zenon
  <2>4. ends2[n + 1] = ends2[n] + Width(r)
    BY <1>2, <1>7, <2>1, Zenon
  <2> QED
    BY <1>6, <1>7, <2>1, <2>2, <2>3, <2>4, Zenon
<1>11. ends2[0] = 0 /\ maps2[0] = [j \in Keys |-> NotFound]
  BY <1>7, Zenon DEF IsLog
<1>12. IsLog(rs2, ends2, maps2)'
  <2>1. \A i \in 1 .. Len(rs2) :
          /\ ends2[i] = ends2[i - 1] + Width(rs2[i][2]) /\ ends2[i] <= Len(wal')
          /\ maps2[i] = [maps2[i - 1] EXCEPT ![rs2[i][1]] = rs2[i][2]]
          /\ wal'[ends2[i - 1] + 1].key = rs2[i][1] /\ wal'[ends2[i - 1] + 1].record = rs2[i][2]
    BY <1>5, <1>6, <1>9, <1>10, Zenon
  <2>2. ends2 \in [0 .. Len(rs2) -> Nat] /\ maps2 \in [0 .. Len(rs2) -> Maps]
    BY <1>5, <1>7, Zenon DEF I
  <2>3. written' = maps2[Len(rs2)]
    BY <1>5, <1>7, Zenon
  <2> QED
    BY <1>5, <1>11, <2>1, <2>2, <2>3, Zenon DEF IsLog
<1>16. ends2[Len(rs2)] = Len(wal')
  BY <1>5, <1>7, Zenon
<1> QED
  BY <1>2, <1>12, <1>16, Zenon

\* A step that leaves the WAL alone leaves its records alone.
LEMMA LogSame ==
  ASSUME wal \in Seq(WalCells), NEW rs, NEW ends, NEW maps, IsLog(rs, ends, maps),
         Behind(ends[Len(rs)]), wal' = wal, written' = written, cut' = cut
  PROVE  wal' \in Seq(WalCells) /\ IsLog(rs, ends, maps)' /\ Behind(ends[Len(rs)])'
PROOF
<1>1. IsLog(rs, ends, maps)'
  BY Zenon DEF IsLog
<1>2. Behind(ends[Len(rs)])'
  BY Zenon DEF Behind
<1> QED
  BY <1>1, <1>2, Zenon

\* Put: the record is in the WAL and in the list.
LEMMA PutKeepsLog ==
  ASSUME WalInv, NEW k \in Keys, NEW r \in Records, Put(k, r)
  PROVE  WalInv'
PROOF
<1>1. PICK rs, ends, maps : LogIs(rs, ends, maps)
  BY Zenon DEF WalInv
<1>2. /\ wal \in Seq(WalCells) /\ pos' = pos /\ pos \in Nat /\ pc = "up" /\ pc' = "up" /\ cut' = cut
      /\ wal' = wal \o Encoded(k, r) /\ written' = [written EXCEPT ![k] = r]
      /\ content' = [content EXCEPT ![k] = r]
  BY Zenon DEF WalInv, Put, insert_element
<1>3. IsLog(rs, ends, maps) /\ cut = <<>> /\ content = written /\ Behind(ends[Len(rs)])
  BY <1>1, <1>2, Zenon DEF LogIs, Loaded
<1>4. Len(wal) = ends[Len(rs)]
  <2>1. \A j \in Keys, q \in Records : <<j, q>> # <<>>
    OBVIOUS
  <2> QED
    BY <1>3, <2>1, Zenon DEF Behind
<1>5. PICK rs2, ends2, maps2 : IsLog(rs2, ends2, maps2)' /\ ends2[Len(rs2)] = Len(wal')
  BY <1>2, <1>3, <1>4, LogExtended, Zenon
<1>6. wal' \in Seq(WalCells)
  BY <1>2, <1>3, <1>4, LogExtended, Zenon
<1>7. Behind(ends2[Len(rs2)])'
  BY <1>2, <1>3, <1>5, Zenon DEF Behind
<1>8. Loaded(Len(rs2), ends2, maps2)'
  <2>1. content' = written' /\ cut' = <<>>
    BY <1>2, <1>3, Zenon
  <2> QED
    BY <1>2, <2>1, Zenon DEF Loaded
<1>9. LogIs(rs2, ends2, maps2)'
  BY <1>5, <1>7, <1>8, Zenon DEF LogIs
<1> QED
  BY <1>2, <1>6, <1>9, Zenon DEF WalInv

\* A crash: the WAL is left as it is, or with the beginning of a record behind.
LEMMA StopKeepsLog ==
  ASSUME WalInv, Stop
  PROVE  WalInv'
PROOF
<1>1. PICK rs, ends, maps : LogIs(rs, ends, maps)
  BY Zenon DEF WalInv
<1>2. /\ wal \in Seq(WalCells) /\ pos' = 0 /\ pc' = "down" /\ written' = written
      /\ content' = [k \in Keys |-> NotFound]
  BY Zenon DEF WalInv, Stop, Lost
<1>3. IsLog(rs, ends, maps) /\ Behind(ends[Len(rs)]) /\ (pc = "up" => cut = <<>>)
  BY <1>1, Zenon DEF LogIs, Loaded
<1>4. Loaded(Len(rs), ends, maps)'
  <2>1. content' = maps[0]
    BY <1>2, <1>3, Zenon DEF IsLog
  <2> QED
    BY <1>2, <2>1, Zenon DEF Loaded
<1>5. SUFFICES wal' \in Seq(WalCells) /\ IsLog(rs, ends, maps)' /\ Behind(ends[Len(rs)])'
  BY <1>2, <1>4, Zenon DEF WalInv, LogIs
<1>6. CASE UNCHANGED <<wal, cut>>
  BY <1>2, <1>3, <1>6, LogSame, Zenon
<1>7. CASE /\ pc = "up"
           /\ \E k \in Keys, r \in Records : \E n \in 1 .. Len(Fields(r)) :
                wal' = wal \o SubSeq(Encoded(k, r), 1, n) /\ cut' = <<k, r>>
  <2>1. PICK k \in Keys, r \in Records : \E n \in 1 .. Len(Fields(r)) :
                wal' = wal \o SubSeq(Encoded(k, r), 1, n) /\ cut' = <<k, r>>
    BY <1>7, Zenon
  <2>2. PICK n \in 1 .. Width(r) : wal' = wal \o SubSeq(Encoded(k, r), 1, n) /\ cut' = <<k, r>>
    BY <2>1, Zenon DEF Width
  <2> DEFINE e == Encoded(k, r)
             h == SubSeq(e, 1, n)
  <2>3. /\ Width(r) \in Nat /\ e \in Seq(WalCells) /\ Len(e) = Width(r)
        /\ e[1].key = k /\ e[1].record = r
    BY EncodedType, Zenon
  <2> HIDE DEF e
  <2>4. h \in Seq(WalCells) /\ Len(h) = n /\ h[1] = e[1] /\ 1 \in 1 .. n /\ n \in Nat
    BY <2>3
  <2>5. wal' \in Seq(WalCells) /\ IsConcat(wal', wal, h)
    <3>1. wal' = wal \o h
      BY <2>2, Zenon DEF e
    <3> HIDE DEF h
    <3> QED
      BY <1>2, <2>4, <3>1, ConcatFacts, Zenon
  <2> HIDE DEF h
  <2>6. /\ Len(wal) \in Nat /\ Len(wal') = Len(wal) + n /\ wal'[Len(wal) + 1] = e[1]
        /\ \A i \in 1 .. Len(wal) : wal'[i] = wal[i]
    BY <2>4, <2>5, Zenon DEF IsConcat
  <2>7. Len(wal) = ends[Len(rs)]
    <3>1. \A j \in Keys, q \in Records : <<j, q>> # <<>>
      OBVIOUS
    <3> QED
      BY <1>3, <1>7, <3>1, Zenon DEF Behind
  <2>8. Len(wal') >= Len(wal) /\ Len(wal') \in (Len(wal) + 1) .. (Len(wal) + Width(r))
    <3>1. Len(wal) \in Nat /\ Len(wal') = Len(wal) + n
      BY <2>6, Zenon
    <3> QED
      BY <2>3, <2>4, <3>1
  <2>9. IsLog(rs, ends, maps)'
    BY <1>2, <1>3, <2>5, <2>6, <2>8, LogKept, Zenon
  <2>10. wal'[Len(wal) + 1].key = k /\ wal'[Len(wal) + 1].record = r
    BY <2>3, <2>6, Zenon
  <2>11. Behind(ends[Len(rs)])'
    BY <2>2, <2>7, <2>8, <2>10, Zenon DEF Behind
  <2> QED
    BY <2>5, <2>9, <2>11, Zenon
<1> QED
  BY <1>6, <1>7, Zenon DEF Stop

\* A turn of LoadLog: it is at the beginning of a record, and the list has those before.
LEMMA LoadKeepsLog ==
  ASSUME WalInv, LoadLog
  PROVE  WalInv'
PROOF
<1> DEFINE rest == SubSeq(wal, pos + 1, Len(wal))
           r == rest[1].record
           k == rest[1].key
           apply == content' = [content EXCEPT ![k] = r] /\ pos' = pos + Width(r) /\ pc' = "replay"
           same == content' = content /\ pos' = pos
<1>1. PICK rs, ends, maps : LogIs(rs, ends, maps)
  BY Zenon DEF WalInv
<1>2. /\ wal \in Seq(WalCells) /\ pos \in Nat /\ pc = "replay"
      /\ wal' = wal /\ written' = written /\ cut' = cut
  BY Zenon DEF WalInv, LoadLog
<1>3. \/ rest = <<>> /\ same /\ pc' = "replayed"
      \/ rest # <<>> /\ Width(r) - Len(rest) <= 0 /\ apply
      \/ rest # <<>> /\ ~(Width(r) - Len(rest) <= 0) /\ (apply \/ (same /\ pc' \in {"replayed", "failed"}))
  <2> HIDE DEF rest
  <2> QED
    BY Zenon DEF LoadLog, insert_element, listVars, Width, rest
<1>4. IsLog(rs, ends, maps) /\ Behind(ends[Len(rs)])
  BY <1>1, Zenon DEF LogIs
<1>5. wal' \in Seq(WalCells) /\ IsLog(rs, ends, maps)' /\ Behind(ends[Len(rs)])'
  BY <1>2, <1>4, LogSame, Zenon
<1> DEFINE n == Len(rs)
<1>6. /\ n \in Nat /\ n \in 0 .. n /\ Len(wal) \in Nat
      /\ \A i \in 0 .. n : ends[i] \in Nat /\ maps[i] \in Maps
  BY <1>2, <1>4, LogFacts
<1>7. \/ \E i \in 0 .. n : pos = ends[i] /\ content = maps[i]
      \/ pos >= Len(wal) /\ WithCut
  BY <1>1, <1>2, Zenon DEF LogIs, Loaded
<1>8. SUFFICES pos' \in Nat /\ Loaded(n, ends, maps)'
  BY <1>5, Zenon DEF WalInv, LogIs
<1> HIDE DEF n
<1>9. ASSUME pos < Len(wal)
      PROVE  rest # <<>> /\ rest[1] = wal[pos + 1] /\ Len(rest) = Len(wal) - pos
  <2>1. pos <= Len(wal) /\ Len(wal) <= Len(wal) /\ 1 \in 1 .. (Len(wal) - pos) /\ Len(wal) \in Nat
    BY <1>2, <1>6, <1>9
  <2>2. rest \in Seq(WalCells) /\ IsPart(rest, wal, pos, Len(wal))
    BY <1>2, <2>1, PartFacts, Zenon
  <2> HIDE DEF rest
  <2>3. rest[1] = wal[pos + 1] /\ Len(rest) = Len(wal) - pos
    BY <2>1, <2>2, Zenon DEF IsPart
  <2>4. rest # <<>>
    BY <2>1, <2>2, <2>3
  <2> QED
    BY <2>3, <2>4, Zenon
<1>10. ASSUME pos >= Len(wal) PROVE rest = <<>>
  BY <1>2, <1>6, <1>10
<1> HIDE DEF rest
<1>11. CASE pos >= Len(wal) /\ WithCut
  <2>1. content' = content /\ pos' = pos /\ pc' = "replayed"
    BY <1>3, <1>10, <1>11, Zenon
  <2>2. Restored'
    BY <1>2, <1>11, <2>1, Zenon DEF WithCut, Restored
  <2> QED
    BY <1>2, <2>1, <2>2 DEF Loaded
<1>12. ASSUME NEW i \in 0 .. n, pos = ends[i], content = maps[i], i # n
       PROVE  pos' \in Nat /\ Loaded(n, ends, maps)'
  <2>1. i + 1 \in 1 .. n /\ (i + 1) - 1 = i /\ i + 1 \in 0 .. n
    BY <1>6, <1>12
  <2> DEFINE j == i + 1
  <2>2. /\ ends[j] = ends[j - 1] + Width(rs[j][2]) /\ ends[j] <= Len(wal)
        /\ ends[j] \in Nat /\ Width(rs[j][2]) \in Nat /\ Width(rs[j][2]) >= 1
    BY <1>4, <2>1, LogFacts, Zenon DEF n
  <2>3. /\ maps[j] = [maps[j - 1] EXCEPT ![rs[j][1]] = rs[j][2]]
        /\ wal[ends[j - 1] + 1].key = rs[j][1] /\ wal[ends[j - 1] + 1].record = rs[j][2]
    BY <1>4, <2>1, Zenon DEF IsLog, n
  <2>4. j - 1 = i
    BY <2>1, Zenon
  <2> HIDE DEF j
  <2>5. ends[j] = pos + Width(rs[j][2]) /\ pos < Len(wal) /\ Width(rs[j][2]) - (Len(wal) - pos) <= 0
    BY <1>2, <1>6, <1>12, <2>2, <2>4
  <2>6. k = rs[j][1] /\ r = rs[j][2] /\ rest # <<>> /\ Len(rest) = Len(wal) - pos
    BY <1>9, <1>12, <2>3, <2>4, <2>5, Zenon
  <2>7. content' = [content EXCEPT ![k] = r] /\ pos' = pos + Width(r) /\ pc' = "replay"
    BY <1>3, <2>5, <2>6, Zenon
  <2>8. content' = maps[j] /\ pos' = ends[j]
    BY <1>12, <2>3, <2>4, <2>5, <2>6, <2>7, Zenon
  <2>9. j \in 0 .. n
    BY <2>1, Zenon DEF j
  <2> QED
    BY <2>2, <2>7, <2>8, <2>9, Zenon DEF Loaded
<1>13. ASSUME pos = ends[n], content = maps[n]
       PROVE  pos' \in Nat /\ Loaded(n, ends, maps)'
  <2>1. content = written
    BY <1>4, <1>13, Zenon DEF IsLog, n
  <2>2. ASSUME content' = content, pos' = pos, pc' \in {"replayed", "failed"}
        PROVE  pos' \in Nat /\ Loaded(n, ends, maps)'
    <3>1. Restored'
      BY <1>2, <2>1, <2>2, Zenon DEF Restored
    <3> QED
      BY <1>2, <2>2, <3>1 DEF Loaded
  <2>3. CASE cut = <<>> /\ Len(wal) = ends[n]
    <3>1. rest = <<>>
      BY <1>6, <1>10, <1>13, <2>3
    <3> QED
      BY <1>3, <2>2, <3>1, Zenon
  <2>4. CASE \E kk \in Keys, rr \in Records :
               /\ cut = <<kk, rr>> /\ Len(wal) \in (ends[n] + 1) .. (ends[n] + Width(rr))
               /\ wal[ends[n] + 1].key = kk /\ wal[ends[n] + 1].record = rr
    <3>1. PICK kk \in Keys, rr \in Records :
               /\ cut = <<kk, rr>> /\ Len(wal) \in (ends[n] + 1) .. (ends[n] + Width(rr))
               /\ wal[ends[n] + 1].key = kk /\ wal[ends[n] + 1].record = rr
      BY <2>4, Zenon
    <3>2. Width(rr) \in Nat
      BY EncodedType, Zenon
    <3>3. pos < Len(wal) /\ pos + Width(rr) >= Len(wal) /\ pos + Width(rr) \in Nat
      BY <1>2, <1>6, <1>13, <3>1, <3>2
    <3>4. rest # <<>> /\ k = kk /\ r = rr
      BY <1>9, <1>13, <3>1, <3>3, Zenon
    <3>5. CASE content' = content /\ pos' = pos /\ pc' \in {"replayed", "failed"}
      BY <2>2, <3>5, Zenon
    <3>6. CASE content' = [content EXCEPT ![k] = r] /\ pos' = pos + Width(r) /\ pc' = "replay"
      <4>1. cut # <<>> /\ cut[1] = kk /\ cut[2] = rr
        BY <3>1
      <4>2. WithCut'
        BY <1>2, <2>1, <3>4, <3>6, <4>1, Zenon DEF WithCut
      <4>3. pos' \in Nat /\ pos' >= Len(wal')
        BY <1>2, <3>3, <3>4, <3>6, Zenon
      <4> QED
        BY <3>6, <4>2, <4>3 DEF Loaded
    <3> QED
      BY <1>3, <3>4, <3>5, <3>6, Zenon
  <2> QED
    BY <1>4, <2>3, <2>4, Zenon DEF Behind, n
<1> QED
  BY <1>7, <1>11, <1>12, <1>13, Zenon

\* No other step changes the WAL or what the list holds.
LEMMA OthersKeepLog ==
  ASSUME WalInv,
         \/ StartReplay \/ StartBuild \/ BuildAdd \/ BuildFinish
         \/ UNCHANGED <<listVars, memVars>>
  PROVE  WalInv'
PROOF
<1>1. PICK rs, ends, maps : LogIs(rs, ends, maps)
  BY Zenon DEF WalInv
<1>2. /\ wal \in Seq(WalCells) /\ pos' = pos /\ pos \in Nat /\ content' = content
      /\ wal' = wal /\ written' = written /\ cut' = cut
  BY Zenon DEF WalInv, StartReplay, StartBuild, BuildAdd, BuildFinish, listVars, memVars
<1>3. \/ pc = "down" /\ pc' = "replay"
      \/ pc \in {"up", "replayed", "build"} /\ pc' \in {"build", "built"}
      \/ pc' = pc
  BY Zenon DEF StartReplay, StartBuild, BuildAdd, BuildFinish, memVars
<1>4. IsLog(rs, ends, maps) /\ Behind(ends[Len(rs)]) /\ Loaded(Len(rs), ends, maps)
  BY <1>1, Zenon DEF LogIs
<1>5. wal' \in Seq(WalCells) /\ IsLog(rs, ends, maps)' /\ Behind(ends[Len(rs)])'
  BY <1>2, <1>4, LogSame, Zenon
<1>6. (Restored <=> Restored') /\ (WithCut <=> WithCut')
  BY <1>2, Zenon DEF Restored, WithCut
<1>7. Loaded(Len(rs), ends, maps)'
  <2>1. CASE pc = "down" /\ pc' = "replay"
    <3>1. pos = ends[0] /\ content = maps[0] /\ 0 \in 0 .. Len(rs)
      BY <1>4, <2>1, LogFacts DEF Loaded, IsLog
    <3> QED
      BY <1>2, <2>1, <3>1, SMTT(20) DEF Loaded
  <2>2. CASE pc \in {"up", "replayed", "build"} /\ pc' \in {"build", "built"}
    <3>1. Restored'
      BY <1>4, <1>6, <2>2, Zenon DEF Loaded, Restored
    <3> QED
      BY <2>2, <3>1 DEF Loaded
  <2>3. CASE pc' = pc
    BY <1>2, <1>4, <1>6, <2>3, Zenon DEF Loaded
  <2> QED
    BY <1>3, <2>1, <2>2, <2>3, Zenon
<1> QED
  BY <1>2, <1>5, <1>7, Zenon DEF WalInv, LogIs

-----------------------------------------------------------------------------
\* The list is linked all the while.
LEMMA ListKept ==
  ASSUME ListInv, WalInv, [MemNext]_<<listVars, memVars>>
  PROVE  ListInv'
PROOF
<1>1. ASSUME NEW k \in Keys, NEW r \in Records, Put(k, r) PROVE ListInv'
  BY <1>1, InsertKeeps, Zenon DEF Put
<1>2. CASE Stop
  <2>1. ListInit'
    BY <1>2, Zenon DEF Stop, Lost, ListInit
  <2>2. (ListInit => ListInv)'
    BY EmptyLinked, PTL
  <2> QED
    BY <2>1, <2>2, Zenon
<1>3. ASSUME UNCHANGED listVars PROVE ListInv'
  BY <1>3, ListStep, Zenon
<1>4. CASE LoadLog
  <2> DEFINE rest == SubSeq(wal, pos + 1, Len(wal))
  <2>1. CASE UNCHANGED listVars
    BY <1>3, <2>1, Zenon
  <2>2. CASE rest # <<>> /\ insert_element(rest[1].key, rest[1].record)
    <3>1. wal \in Seq(WalCells) /\ pos \in Nat
      BY Zenon DEF WalInv
    <3>2. pos < Len(wal)
      BY <2>2, <3>1
    <3>3. rest[1] \in WalCells
      BY <3>1, <3>2
    <3>4. rest[1].key \in Keys /\ rest[1].record \in Records
      BY <3>3, Zenon DEF WalCells
    <3> QED
      BY <2>2, <3>4, InsertKeeps, Zenon
  <2> HIDE DEF rest
  <2> QED
    BY <1>4, <2>1, <2>2, Zenon DEF LoadLog, rest
<1>5. CASE StartReplay \/ StartBuild \/ BuildAdd \/ BuildFinish \/ UNCHANGED <<listVars, memVars>>
  BY <1>3, <1>5, Zenon DEF StartReplay, StartBuild, BuildAdd, BuildFinish
<1> QED
  BY <1>1, <1>2, <1>4, <1>5, Zenon DEF MemNext

\* The WAL is a row of records all the while.
LEMMA LogStep ==
  ASSUME WalInv, [MemNext]_<<listVars, memVars>>
  PROVE  WalInv'
  BY PutKeepsLog, StopKeepsLog, LoadKeepsLog, OthersKeepLog, Zenon DEF MemNext

\* And in the beginning it is empty.
LEMMA LogBegins ==
  ASSUME MemInit
  PROVE  WalInv
PROOF
<1> DEFINE rs == <<>>
           ends == [i \in 0 .. 0 |-> 0]
           maps == [i \in 0 .. 0 |-> [k \in Keys |-> NotFound]]
<1>1. /\ wal = <<>> /\ pos = 0 /\ pc = "up" /\ cut = <<>>
      /\ written = [k \in Keys |-> NotFound] /\ content = written
  BY Zenon DEF MemInit, ListInit
<1>2. rs \in Seq(Keys \X Records) /\ Len(rs) = 0 /\ 0 \in 0 .. 0 /\ 1 .. 0 = {}
  OBVIOUS
<1>3. ends \in [0 .. 0 -> Nat] /\ ends[0] = 0
  OBVIOUS
<1>4. maps \in [0 .. 0 -> Maps] /\ maps[0] = [k \in Keys |-> NotFound]
  BY <1>2, Zenon DEF Maps
<1> HIDE DEF rs, ends, maps
<1>5. IsLog(rs, ends, maps)
  BY <1>1, <1>2, <1>3, <1>4, Zenon DEF IsLog
<1>6. Behind(ends[Len(rs)])
  BY <1>1, <1>2, <1>3 DEF Behind
<1>7. Loaded(Len(rs), ends, maps)
  BY <1>1 DEF Loaded
<1>8. wal \in Seq(WalCells) /\ pos \in Nat
  BY <1>1
<1> QED
  BY <1>5, <1>6, <1>7, <1>8, Zenon DEF WalInv, LogIs

-----------------------------------------------------------------------------
\* Every replay of the WAL gives back every record whose AddLog returned, and all or nothing of
\* the record that the crash cut, wherever it cut it; and a table is built from nothing less.
THEOREM ReplayRestores == MemSpec => []ReplayGivesBack
PROOF
<1>1. MemInit => WalInv
  BY LogBegins, Zenon
<1>2. WalInv /\ [MemNext]_<<listVars, memVars>> => WalInv'
  BY LogStep, Zenon
<1>3. WalInv => ReplayGivesBack
  BY Zenon DEF WalInv, LogIs, Loaded, Restored, WithCut, ReplayGivesBack
<1> QED
  BY <1>1, <1>2, <1>3, PTL DEF MemSpec

MemInv == ListInv /\ WalInv /\ BuildInv

\* The list, the WAL and the table keep their shapes together.
LEMMA MemInvHolds == MemSpec => []MemInv
PROOF
<1>1. MemInit => MemInv
  <2> SUFFICES ASSUME MemInit PROVE ListInv /\ WalInv /\ BuildInv
    BY Zenon DEF MemInv
  <2>1. ListInv
    BY EmptyLinked, Zenon DEF MemInit
  <2>2. BuildInv
    BY DEF MemInit, BuildInv
  <2> QED
    BY <2>1, <2>2, LogBegins, Zenon
<1>2. MemInv /\ [MemNext]_<<listVars, memVars>> => MemInv'
  BY ListKept, LogStep, BuildStep, Zenon DEF MemInv
<1> QED
  BY <1>1, <1>2, PTL DEF MemSpec

\* A crash while the SSTable is being written leaves a file that Open refuses, wherever
\* the writing stopped.
THEOREM UnfinishedIsRefused == MemSpec => []UnfinishedRefused
PROOF
<1>1. MemInv => UnfinishedRefused
  BY RefusesUnfinished, Zenon DEF MemInv
<1> QED
  BY <1>1, MemInvHolds, PTL

\* An SSTable that BuildMinorSST has finished opens, answers every GetRecord as the skip
\* list it was built from, and gives the same rows in the same order.
THEOREM TableAnswersAsList == MemSpec => []TableAnswers
PROOF
<1>1. MemInv => TableAnswers
  BY AnswersAsList, Zenon DEF MemInv
<1> QED
  BY <1>1, MemInvHolds, PTL
=============================================================================
