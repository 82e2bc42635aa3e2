-------------------------- MODULE RecoveryProofs --------------------------
(***************************************************************************)
(* Proofs about Recovery, over any number of processes: a file number is     *)
(* never used twice and every SSTable of the manifest is there and complete, *)
(* wherever they crash; and a process answers with what was put last, when   *)
(* recovery can be trusted (Trusted).                                        *)
(***************************************************************************)
EXTENDS Recovery, TLAPS

USE DEF memory, manifest, files, history, Nothing

\* A non-empty set of numbers with an upper bound has a largest element, which is the one
\* Max chooses.  The lemmas below take this as a hypothesis; BoundedMaxHolds proves it.
BoundedMax ==
  \A n \in Nat : \A S \in SUBSET Nat :
    S # {} /\ (\A i \in S : i <= n) => Max(S) \in S /\ \A i \in S : i <= Max(S)

\* BoundedMax for one set.
LEMMA MaxOfBounded ==
  ASSUME BoundedMax, NEW S \in SUBSET Nat, S # {}, NEW n \in Nat, \A i \in S : i <= n
  PROVE  Max(S) \in S /\ \A i \in S : i <= Max(S)
  BY Zenon DEF BoundedMax

\* What a search over files with bounded numbers finds is a record or nothing.
LEMMA FilesLookupType ==
  ASSUME BoundedMax, NEW n \in Nat, NEW S \in SUBSET (0 .. n), NEW f \in [S -> Tables], NEW k \in Keys
  PROVE  Lookup(f, k) \in Records \cup {None}
PROOF
<1>1. CASE Hits(f, k) = {}
  BY <1>1, Zenon DEF Lookup
<1>2. CASE Hits(f, k) # {}
  <2> DEFINE H == Hits(f, k)
  <2>0. H \subseteq S
    BY Zenon DEF Hits
  <2> HIDE DEF H
  <2>1. H \in SUBSET Nat /\ \A i \in H : i \in S /\ i <= n
    BY <2>0
  <2>2. Max(H) \in S
    BY <1>2, <2>1, MaxOfBounded, Zenon DEF H
  <2> QED
    BY <1>2, <2>2, Zenon DEF Lookup, Tables, H
<1> QED
  BY <1>1, <1>2, Zenon

\* Replaying WALs, or merging SSTables, gives a table (RecoverFromWals, PrepareL0ToL1).
LEMMA FilesMergeType ==
  ASSUME BoundedMax, NEW n \in Nat, NEW S \in SUBSET (0 .. n), NEW f \in [S -> Tables]
  PROVE  Merge(f) \in Tables
PROOF
<1>1. \A k \in Keys : Lookup(f, k) \in Records \cup {None}
  BY FilesLookupType, Zenon
<1> QED
  BY <1>1, Zenon DEF Merge, Tables

\* What a merge writes is a table.
LEMMA FilesOutputType ==
  ASSUME NEW t \in Tables, NEW s
  PROVE  Output(t, s) \in Tables
  BY Zenon DEF Output, Tables, Records

\* A put changes one record of a table.
LEMMA InsertTable ==
  ASSUME NEW t \in Tables, NEW k \in Keys, NEW rec \in Records
  PROVE  Insert(t, k, rec) \in Tables
  BY Zenon DEF Insert, Tables

\* The table with no records.
LEMMA EmptyIsTable == EmptyTable \in Tables
  BY Zenon DEF EmptyTable, Tables

\* The number InitNextFileNumberFromDisk starts from is not below that of any file.
LEMMA DiskNumber ==
  ASSUME BoundedMax, NEW n \in Nat, NEW S \in SUBSET (0 .. n)
  PROVE  Max({0} \cup S) \in 0 .. n /\ \A i \in S : i <= Max({0} \cup S)
PROOF
<1>1. /\ {0} \cup S \in SUBSET Nat /\ {0} \cup S # {} /\ \A i \in {0} \cup S : i <= n
  OBVIOUS
<1>2. Max({0} \cup S) \in {0} \cup S /\ \A i \in {0} \cup S : i <= Max({0} \cup S)
  BY <1>1, MaxOfBounded, Zenon
<1> DEFINE m == Max({0} \cup S)
<1>3. m \in {0} \cup S /\ \A i \in {0} \cup S : i <= m
  BY <1>2, Zenon
<1> HIDE DEF m
<1>4. m \in 0 .. n /\ \A i \in S : i <= m
  BY <1>3
<1> QED
  BY <1>4, Zenon DEF m

\* Adding a file to the manifest or to the directory leaves the others as they are.
LEMMA AssignFacts ==
  ASSUME NEW f, NEW i, NEW v, NEW T, f \in [DOMAIN f -> T], v \in T
  PROVE  /\ DOMAIN Assign(f, i, v) = DOMAIN f \cup {i}
         /\ Assign(f, i, v) \in [DOMAIN Assign(f, i, v) -> T]
         /\ Assign(f, i, v)[i] = v
         /\ \A j \in DOMAIN f : j # i => Assign(f, i, v)[j] = f[j]
  BY Zenon DEF Assign

\* Erasing entries of the manifest or files of the directory leaves the others as they are.
LEMMA EraseFacts ==
  ASSUME NEW f, NEW S, NEW T, f \in [DOMAIN f -> T]
  PROVE  /\ DOMAIN Erase(f, S) = DOMAIN f \ S
         /\ Erase(f, S) \in [DOMAIN Erase(f, S) -> T]
         /\ \A j \in DOMAIN f \ S : Erase(f, S)[j] = f[j]
  BY Zenon DEF Erase

\* Readers are files of the directory, since the manifest's files are.
LEMMA ReadersOpen ==
  ASSUME ReadersKnown, ManifestFilesOpen
  PROVE  l0 \subseteq DOMAIN sst /\ l1 \subseteq DOMAIN sst
  BY Zenon DEF ReadersKnown, ManifestFilesOpen, LevelIds, Openable

\* The types without the readers, which ReadersOpen gives.
FieldTypes ==
  /\ mem \in Tables /\ imm \in Tables /\ last \in Tables
  /\ active_wal_id \in Nat /\ imm_wal_id \in Nat /\ next_file_number \in Nat
  /\ has_manifest \in BOOLEAN /\ closing \in BOOLEAN
  /\ sst_levels \in [DOMAIN sst_levels -> {0, 1}]
  /\ wal \in [DOMAIN wal -> Tables] /\ sst \in [DOMAIN sst -> Tables \cup {Broken}]
  /\ pc \in {"down"} \cup CtorLabels \cup UpLabels /\ starts \in 0 .. MaxStarts
  /\ ctx \in [new_sst_id : Nat, output : Tables, inputs : SUBSET Nat]

\* TypeOK follows, since readers are of files that the manifest knows (LoadSSTables).
LEMMA TypesFrom ==
  ASSUME FieldTypes, ReadersKnown, ManifestFilesOpen
  PROVE  TypeOK
  BY ReadersOpen, Zenon DEF FieldTypes, TypeOK

\* Every step keeps the types: what RecoverFromWals reads and what a merge writes are
\* tables again, and Broken is only ever found in a file.
LEMMA TypesStep ==
  ASSUME BoundedMax, Inv, [Next]_vars
  PROVE  FieldTypes'
PROOF
<1>0. FieldTypes
  BY Zenon DEF Inv, TypeOK, FieldTypes
<1>a. EmptyTable \in Tables /\ NoCtx \in [new_sst_id : Nat, output : Tables, inputs : SUBSET Nat]
  BY EmptyIsTable, Zenon DEF NoCtx
<1> USE RecoveryAssumption
<1>1. CASE CtorLoad
  <2> DEFINE bound == next_file_number + MaxLegacy
             found == DOMAIN sst \cup DOMAIN wal
  <2>1. bound \in Nat /\ found \in SUBSET (0 .. bound)
    BY <1>0 DEF Inv, NumbersKnown, FieldTypes
  <2>2. Max({0} \cup found) \in 0 .. bound
    <3> HIDE DEF bound, found
    <3> QED
      BY <2>1, DiskNumber, Zenon
  <2>3. next_file_number' \in Nat
    <3>1. next_file_number' \in {next_file_number, Max({0} \cup DOMAIN sst \cup DOMAIN wal)}
      BY <1>1, Zenon DEF CtorLoad, InitNextFileNumberFromDisk
    <3>2. {0} \cup DOMAIN sst \cup DOMAIN wal = {0} \cup found
      BY Zenon
    <3>3. Max({0} \cup found) \in Nat
      <4> HIDE DEF found
      <4> QED
        BY <2>1, <2>2
    <3> HIDE DEF found
    <3> QED
      BY <1>0, <3>1, <3>2, <3>3, Zenon DEF FieldTypes
  <2>4. sst_levels' \in [DOMAIN sst_levels' -> {0, 1}]
    <3>1. sst_levels' = sst_levels \/ sst_levels' = [i \in l0' |-> 0]
      BY <1>1, Zenon DEF CtorLoad
    <3>2. [i \in l0' |-> 0] \in [l0' -> {0, 1}] /\ DOMAIN [i \in l0' |-> 0] = l0'
      BY Zenon
    <3> QED
      BY <1>0, <3>1, <3>2, Zenon DEF FieldTypes
  <2>5. starts' \in 0 .. MaxStarts
    BY <1>0, <1>1 DEF CtorLoad, FieldTypes
  <2> QED
    BY <1>0, <1>1, <2>3, <2>4, <2>5, Zenon DEF CtorLoad, FieldTypes, CtorLabels
<1>2. CASE CtorAllocate
  BY <1>0, <1>2 DEF CtorAllocate, FieldTypes, CtorLabels
<1>3. CASE CtorOpenWal
  <2>1. wal' \in [DOMAIN wal' -> Tables]
    BY <1>0, <1>a, <1>3, AssignFacts, Zenon DEF CtorOpenWal, FieldTypes
  <2> QED
    BY <1>0, <1>3, <2>1, Zenon DEF CtorOpenWal, FieldTypes, CtorLabels
<1>4. CASE RecoverFromWals
  <2> DEFINE bound == next_file_number + MaxLegacy
             logs == Restrict(wal, DOMAIN wal)
  <2>1. bound \in Nat /\ DOMAIN wal \in SUBSET (0 .. bound) /\ logs \in [DOMAIN wal -> Tables]
    BY <1>0 DEF Inv, NumbersKnown, FieldTypes, Restrict
  <2>2. mem' = Merge(logs)
    BY <1>4, Zenon DEF RecoverFromWals, LoadLogs
  <2> HIDE DEF bound, logs
  <2>3. mem' \in Tables
    BY <2>1, <2>2, FilesMergeType, Zenon
  <2> QED
    BY <1>0, <1>4, <2>3, Zenon DEF RecoverFromWals, FieldTypes, UpLabels
<1>5. ASSUME NEW k \in Keys, NEW rec \in Records, PutInsert(k, rec) PROVE FieldTypes'
  <2>1. Insert(mem, k, rec) \in Tables /\ Insert(last, k, rec) \in Tables
    BY <1>0, InsertTable, Zenon DEF FieldTypes
  <2>2. wal' \in [DOMAIN wal' -> Tables]
    <3>1. CASE active_wal_id \in DOMAIN wal
      <4>1. Insert(wal[active_wal_id], k, rec) \in Tables
        BY <1>0, <3>1, InsertTable, Zenon DEF FieldTypes
      <4> QED
        BY <1>0, <1>5, <4>1, Zenon DEF PutInsert, FieldTypes
    <3>2. CASE active_wal_id \notin DOMAIN wal
      BY <1>0, <1>5, <3>2, Zenon DEF PutInsert, FieldTypes
    <3> QED
      BY <3>1, <3>2, Zenon
  <2> QED
    BY <1>0, <1>5, <2>1, <2>2, Zenon DEF PutInsert, FieldTypes
<1>6. ASSUME NEW k \in Keys, NEW rec \in Records, PutSwitch(k, rec) PROVE FieldTypes'
  <2> DEFINE first == Insert(EmptyTable, k, rec)
  <2>1. first \in Tables /\ Insert(last, k, rec) \in Tables
    BY <1>0, <1>a, InsertTable, Zenon DEF FieldTypes
  <2>2. wal' = Assign(wal, active_wal_id', first) /\ mem' = first
    BY <1>6, Zenon DEF PutSwitch
  <2> HIDE DEF first
  <2>3. wal' \in [DOMAIN wal' -> Tables]
    BY <1>0, <2>1, <2>2, AssignFacts, Zenon DEF FieldTypes
  <2>4. next_file_number' \in Nat /\ active_wal_id' \in Nat
    BY <1>0, <1>6 DEF PutSwitch, FieldTypes
  <2> QED
    BY <1>0, <1>6, <2>1, <2>2, <2>3, <2>4, Zenon DEF PutSwitch, FieldTypes
<1>7. CASE FlushPrepare
  <2>1. next_file_number' \in Nat /\ next_file_number' = next_file_number + 1
    BY <1>0, <1>7 DEF FlushPrepare, FieldTypes
  <2>2. ctx' \in [new_sst_id : Nat, output : Tables, inputs : SUBSET Nat]
    BY <1>a, <1>7, <2>1, Zenon DEF FlushPrepare
  <2> QED
    BY <1>0, <1>7, <2>1, <2>2, Zenon DEF FlushPrepare, FieldTypes, UpLabels, FlushLabels
<1>8. CASE FlushBuild
  <2>1. sst' \in [DOMAIN sst' -> Tables \cup {Broken}]
    <3>1. imm \in Tables \cup {Broken} /\ sst \in [DOMAIN sst -> Tables \cup {Broken}]
      BY <1>0, Zenon DEF FieldTypes
    <3> QED
      BY <3>1, <1>8, AssignFacts, Zenon DEF FlushBuild
  <2> QED
    BY <1>0, <1>8, <2>1, Zenon DEF FlushBuild, FieldTypes, UpLabels, FlushLabels
<1>9. CASE FlushAddSst
  <2>1. sst_levels' \in [DOMAIN sst_levels' -> {0, 1}]
    <3>1. 0 \in {0, 1} /\ sst_levels \in [DOMAIN sst_levels -> {0, 1}]
      BY <1>0, Zenon DEF FieldTypes
    <3> QED
      BY <3>1, <1>9, AssignFacts, Zenon DEF FlushAddSst
  <2> QED
    BY <1>0, <1>9, <2>1, Zenon DEF FlushAddSst, FieldTypes, UpLabels, FlushLabels
<1>10. CASE FlushUnlinkWal
  <2>1. wal' \in [DOMAIN wal' -> Tables]
    BY <1>0, <1>10, EraseFacts, Zenon DEF FlushUnlinkWal, FieldTypes
  <2>2. pc' \in UpLabels
    BY <1>10, Zenon DEF FlushUnlinkWal, UpLabels, MergeLabels
  <2>3. imm_wal_id' \in Nat
    BY <1>10, Zenon DEF FlushUnlinkWal
  <2> QED
    BY <1>0, <1>a, <1>10, <2>1, <2>2, <2>3, Zenon DEF FlushUnlinkWal, FieldTypes
<1>11. CASE MergePrepare
  <2> DEFINE in0 == Restrict(sst, l0)
             merged == Merge(in0)
             bound == next_file_number + MaxLegacy
  <2>1. bound \in Nat /\ l0 \in SUBSET (0 .. bound) /\ in0 \in [l0 -> Tables]
    <3>1. \A i \in l0 : i \in DOMAIN sst /\ sst[i] # Broken
      BY Zenon DEF Inv, ReadersKnown, ManifestFilesOpen, LevelIds, Openable
    <3>2. bound \in Nat /\ DOMAIN sst \subseteq 0 .. bound
      BY <1>0 DEF Inv, NumbersKnown, FieldTypes
    <3>3. \A i \in l0 : sst[i] \in Tables
      BY <1>0, <3>1, Zenon DEF FieldTypes
    <3>4. in0 \in [l0 -> Tables]
      BY <3>3, Zenon DEF Restrict
    <3> HIDE DEF bound, in0
    <3> QED
      BY <3>1, <3>2, <3>4, Zenon
  <2>2. ctx' = [new_sst_id |-> next_file_number + 1, output |-> Output(merged, Restrict(sst, l1)),
                inputs |-> LevelIds(0)]
    BY <1>11, Zenon DEF MergePrepare
  <2>3. merged \in Tables
    <3> HIDE DEF bound, in0
    <3> QED
      BY <2>1, FilesMergeType, Zenon
  <2> HIDE DEF bound, merged
  <2>4. LevelIds(0) \in SUBSET Nat
    <3>1. LevelIds(0) \subseteq DOMAIN sst
      BY Zenon DEF Inv, ManifestFilesOpen, LevelIds, Openable
    <3>2. DOMAIN sst \subseteq Nat
      BY <1>0 DEF Inv, NumbersKnown, FieldTypes
    <3> QED
      BY <3>1, <3>2, Zenon
  <2>5. next_file_number' \in Nat /\ next_file_number + 1 \in Nat
    BY <1>0, <1>11 DEF MergePrepare, FieldTypes
  <2>6. Output(merged, Restrict(sst, l1)) \in Tables
    BY <2>3, FilesOutputType, Zenon
  <2>7. ctx' \in [new_sst_id : Nat, output : Tables, inputs : SUBSET Nat]
    BY <2>2, <2>4, <2>5, <2>6, Zenon
  <2>8. pc' \in UpLabels
    BY <1>11, Zenon DEF MergePrepare, UpLabels, MergeLabels
  <2> QED
    BY <1>0, <1>11, <2>5, <2>7, <2>8, Zenon DEF MergePrepare, FieldTypes
<1>12. CASE MergeBuild
  <2>1. sst' \in [DOMAIN sst' -> Tables \cup {Broken}]
    <3>1. ctx.output \in Tables \cup {Broken} /\ sst \in [DOMAIN sst -> Tables \cup {Broken}]
      BY <1>0, Zenon DEF FieldTypes
    <3> QED
      BY <3>1, <1>12, AssignFacts, Zenon DEF MergeBuild
  <2> QED
    BY <1>0, <1>12, <2>1, Zenon DEF MergeBuild, FieldTypes, UpLabels, MergeLabels
<1>13. CASE MergeAddL1
  <2>1. sst_levels' \in [DOMAIN sst_levels' -> {0, 1}]
    <3>1. 1 \in {0, 1} /\ sst_levels \in [DOMAIN sst_levels -> {0, 1}]
      BY <1>0, Zenon DEF FieldTypes
    <3> QED
      BY <3>1, <1>13, AssignFacts, Zenon DEF MergeAddL1
  <2> QED
    BY <1>0, <1>13, <2>1, Zenon DEF MergeAddL1, FieldTypes, UpLabels, MergeLabels
<1>14. ASSUME NEW i \in 1 .. next_file_number, ConsumeL0(i) PROVE FieldTypes'
  <2>1. sst_levels' \in [DOMAIN sst_levels' -> {0, 1}]
    BY <1>0, <1>14, EraseFacts, Zenon DEF ConsumeL0, FieldTypes
  <2>2. ctx' \in [new_sst_id : Nat, output : Tables, inputs : SUBSET Nat]
    BY <1>0, <1>14, Zenon DEF ConsumeL0, FieldTypes
  <2> QED
    BY <1>0, <1>14, <2>1, <2>2, Zenon DEF ConsumeL0, FieldTypes, UpLabels, MergeLabels
<1>15. CASE UnlinkL0
  <2>1. sst' \in [DOMAIN sst' -> Tables \cup {Broken}]
    BY <1>0, <1>15, EraseFacts, Zenon DEF UnlinkL0, FieldTypes
  <2>2. ctx' \in [new_sst_id : Nat, output : Tables, inputs : SUBSET Nat]
    BY <1>0, <1>a, <1>15, Zenon DEF UnlinkL0, FieldTypes
  <2>3. pc' \in UpLabels
    BY <1>15, Zenon DEF UnlinkL0, UpLabels, MergeLabels
  <2> QED
    BY <1>0, <1>15, <2>1, <2>2, <2>3, Zenon DEF UnlinkL0, FieldTypes
<1>16. CASE Close
  BY <1>0, <1>a, <1>16, Zenon DEF Close, FieldTypes
<1>17. CASE Exit \/ Crash
  <2>1. /\ Nothing /\ pc' = "down" /\ UNCHANGED <<manifest, wal, history>>
        /\ sst' = sst \/ sst' = Assign(sst, ctx.new_sst_id, Broken)
    BY <1>17, Zenon DEF Exit, Crash
  <2>2. sst' \in [DOMAIN sst' -> Tables \cup {Broken}]
    <3>1. Broken \in Tables \cup {Broken} /\ sst \in [DOMAIN sst -> Tables \cup {Broken}]
      BY <1>0, Zenon DEF FieldTypes
    <3>2. Assign(sst, ctx.new_sst_id, Broken)
            \in [DOMAIN Assign(sst, ctx.new_sst_id, Broken) -> Tables \cup {Broken}]
      BY <3>1, AssignFacts, Zenon
    <3> QED
      BY <2>1, <3>1, <3>2, Zenon
  <2>3. active_wal_id' \in Nat /\ imm_wal_id' \in Nat
    BY <2>1, Zenon
  <2> QED
    BY <1>0, <1>a, <2>1, <2>2, <2>3, Zenon DEF FieldTypes
<1>18. CASE UNCHANGED vars
  BY <1>0, <1>18, Zenon DEF vars, FieldTypes
<1> QED
  BY <1>1, <1>2, <1>3, <1>4, <1>5, <1>6, <1>7, <1>8, <1>9, <1>10, <1>11, <1>12, <1>13, <1>14,
     <1>15, <1>16, <1>17, <1>18, Zenon DEF Next

\* Every step keeps file numbers fresh: AllocateFileNumber raises the counter before
\* the number names a file, and InitNextFileNumberFromDisk starts above every file.
LEMMA NumbersStep ==
  ASSUME BoundedMax, Inv, [Next]_vars
  PROVE  FileNumbersFresh' /\ NumbersKnown'
PROOF
<1>0. /\ next_file_number \in Nat /\ active_wal_id \in Nat /\ ctx.new_sst_id \in Nat
      /\ DOMAIN wal \cup DOMAIN sst \subseteq 0 .. next_file_number + MaxLegacy
      /\ pc # "down" => has_manifest
      /\ ~has_manifest => next_file_number = 0
      /\ has_manifest => \A i \in DOMAIN wal \cup DOMAIN sst : i <= next_file_number
      /\ active_wal_id <= next_file_number /\ ctx.new_sst_id <= next_file_number
  BY Zenon DEF Inv, TypeOK, NumbersKnown, FileNumbersFresh
<1>a. MaxLegacy \in Nat
  BY RecoveryAssumption, Zenon
\* A step that only uses numbers up to the counter.
<1>b. ASSUME next_file_number' \in Nat, next_file_number <= next_file_number',
             has_manifest, has_manifest',
             \A i \in DOMAIN wal' \cup DOMAIN sst' :
               i \in DOMAIN wal \cup DOMAIN sst \/ i \in 0 .. next_file_number',
             active_wal_id' <= next_file_number', ctx'.new_sst_id <= next_file_number'
      PROVE  FileNumbersFresh' /\ NumbersKnown'
  <2>1. \A i \in DOMAIN wal' \cup DOMAIN sst' : i \in 0 .. next_file_number'
    BY <1>0, <1>a, <1>b
  <2>2. 0 .. next_file_number' \subseteq 0 .. next_file_number' + MaxLegacy
    <3> DEFINE m == next_file_number'
    <3>1. m \in Nat
      BY <1>b, Zenon
    <3> HIDE DEF m
    <3>2. 0 .. m \subseteq 0 .. m + MaxLegacy
      BY <1>a, <3>1
    <3> QED
      BY <3>2, Zenon DEF m
  <2>3. \A i \in 0 .. next_file_number' : i <= next_file_number'
    BY <1>b
  <2> QED
    BY <1>b, <2>1, <2>2, <2>3, Zenon DEF FileNumbersFresh, NumbersKnown
<1>1. CASE CtorLoad
  <2> DEFINE bound == next_file_number + MaxLegacy
             found == DOMAIN sst \cup DOMAIN wal
             scan == Max({0} \cup found)
  <2>1. bound \in Nat /\ found \in SUBSET (0 .. bound)
    BY <1>0, <1>a
  <2>2. scan \in 0 .. bound /\ \A i \in found : i <= scan
    <3> HIDE DEF bound, found
    <3> QED
      BY <2>1, DiskNumber, Zenon
  <2>3. InitNextFileNumberFromDisk = scan
    <3>1. {0} \cup DOMAIN sst \cup DOMAIN wal = {0} \cup found
      BY Zenon
    <3> HIDE DEF found
    <3> QED
      BY <3>1, Zenon DEF InitNextFileNumberFromDisk, scan
  <2>4. /\ has_manifest' = TRUE /\ UNCHANGED <<files, active_wal_id, ctx>>
        /\ next_file_number' = IF has_manifest THEN next_file_number ELSE scan
    BY <1>1, <2>3, Zenon DEF CtorLoad
  <2> HIDE DEF scan
  <2>5. CASE has_manifest
    <3>1. next_file_number' = next_file_number
      BY <2>4, <2>5, Zenon
    <3> QED
      BY <1>0, <1>b, <2>4, <2>5, <3>1
  <2>6. CASE ~has_manifest
    <3>1. pc = "down" /\ next_file_number' = scan
      BY <1>0, <2>4, <2>6, Zenon
    <3>2. active_wal_id <= scan /\ ctx.new_sst_id <= scan
      BY <1>0, <2>1, <2>2, <2>6
    <3> QED
      BY <1>0, <1>a, <2>1, <2>2, <2>4, <3>1, <3>2 DEF FileNumbersFresh, NumbersKnown
  <2> QED
    BY <2>5, <2>6, Zenon
<1>2. CASE CtorAllocate
  BY <1>0, <1>b, <1>2 DEF CtorAllocate
<1>3. CASE CtorOpenWal
  <2>1. DOMAIN wal' \subseteq DOMAIN wal \cup {active_wal_id}
    BY <1>3, Zenon DEF CtorOpenWal, Assign
  <2> QED
    BY <1>0, <1>b, <1>3, <2>1 DEF CtorOpenWal
<1>4. CASE RecoverFromWals
  BY <1>0, <1>b, <1>4 DEF RecoverFromWals
<1>5. ASSUME NEW k \in Keys, NEW rec \in Records, PutInsert(k, rec)
      PROVE  FileNumbersFresh' /\ NumbersKnown'
  <2>1. DOMAIN wal' = DOMAIN wal
    BY <1>5, Zenon DEF PutInsert
  <2>2. has_manifest /\ UNCHANGED <<manifest, sst, active_wal_id, ctx>>
    BY <1>0, <1>5, Zenon DEF PutInsert, MayPut, Up, UpLabels, FlushLabels, MergeLabels
  <2> QED
    BY <1>0, <1>b, <2>1, <2>2
<1>6. ASSUME NEW k \in Keys, NEW rec \in Records, PutSwitch(k, rec)
      PROVE  FileNumbersFresh' /\ NumbersKnown'
  <2>1. DOMAIN wal' = DOMAIN wal \cup {active_wal_id'}
    BY <1>6, Zenon DEF PutSwitch, Assign
  <2>2. /\ has_manifest /\ UNCHANGED <<has_manifest, sst, ctx>>
        /\ next_file_number' = next_file_number + 1 /\ active_wal_id' = next_file_number'
    BY <1>0, <1>6, Zenon DEF PutSwitch, MayPut, Up, UpLabels, FlushLabels, MergeLabels
  <2> QED
    BY <1>0, <1>b, <2>1, <2>2
<1>7. CASE FlushPrepare
  <2>1. ctx'.new_sst_id = next_file_number'
    BY <1>7, Zenon DEF FlushPrepare, NoCtx
  <2> QED
    BY <1>0, <1>b, <1>7, <2>1 DEF FlushPrepare
<1>8. CASE FlushBuild \/ MergeBuild
  <2>1. /\ DOMAIN sst' = DOMAIN sst \cup {ctx.new_sst_id}
        /\ has_manifest /\ UNCHANGED <<manifest, wal, active_wal_id, ctx>>
    BY <1>0, <1>8, Zenon DEF FlushBuild, MergeBuild, Assign
  <2> QED
    BY <1>0, <1>b, <2>1
<1>9. CASE FlushAddSst \/ MergeAddL1
  BY <1>0, <1>b, <1>9 DEF FlushAddSst, MergeAddL1
<1>10. CASE FlushUnlinkWal
  <2>1. DOMAIN wal' \subseteq DOMAIN wal /\ ctx'.new_sst_id = 0
    BY <1>10, Zenon DEF FlushUnlinkWal, Erase, NoCtx
  <2> QED
    BY <1>0, <1>b, <1>10, <2>1 DEF FlushUnlinkWal
<1>11. CASE MergePrepare
  <2>1. ctx'.new_sst_id = next_file_number'
    BY <1>11, Zenon DEF MergePrepare
  <2> QED
    BY <1>0, <1>b, <1>11, <2>1 DEF MergePrepare
<1>12. ASSUME NEW i \in 1 .. next_file_number, ConsumeL0(i)
       PROVE  FileNumbersFresh' /\ NumbersKnown'
  <2>1. ctx'.new_sst_id = i
    BY <1>12, Zenon DEF ConsumeL0, Inv, TypeOK
  <2> QED
    BY <1>0, <1>b, <1>12, <2>1 DEF ConsumeL0
<1>13. CASE UnlinkL0
  <2>1. DOMAIN sst' \subseteq DOMAIN sst /\ ctx'.new_sst_id \in {0, ctx.new_sst_id}
    BY <1>13, Zenon DEF UnlinkL0, Erase, NoCtx, Inv, TypeOK
  <2> QED
    BY <1>0, <1>b, <1>13, <2>1 DEF UnlinkL0
<1>14. CASE Close
  BY <1>0, <1>b, <1>14 DEF Close
<1>15. CASE Exit \/ Crash
  <2>1. /\ Nothing /\ UNCHANGED <<manifest, wal>> /\ has_manifest
        /\ DOMAIN sst' \subseteq DOMAIN sst \cup {ctx.new_sst_id}
    <3>1. CASE Exit
      BY <1>0, <3>1, Zenon DEF Exit
    <3>2. CASE Crash
      <4>1. pc # "down"
        BY <3>2, RecoveryAssumption, Zenon
           DEF Crash, CtorLabels, UpLabels, FlushLabels, MergeLabels
      <4> QED
        BY <1>0, <3>2, <4>1, Zenon DEF Crash, Assign
    <3> QED
      BY <1>15, <3>1, <3>2, Zenon
  <2>2. ctx'.new_sst_id = 0 /\ active_wal_id' = 0
    BY <2>1, Zenon DEF NoCtx
  <2> QED
    BY <1>0, <1>b, <2>1, <2>2
<1>16. CASE UNCHANGED vars
  BY <1>16, Zenon DEF vars, Inv, FileNumbersFresh, NumbersKnown
<1> QED
  BY <1>1, <1>2, <1>3, <1>4, <1>5, <1>6, <1>7, <1>8, <1>9, <1>10, <1>11, <1>12, <1>13, <1>14,
     <1>15, <1>16, Zenon DEF Next

\* Every step keeps manifest, files and readers in agreement: AddSst comes after a
\* complete build, RemoveSst before the file is removed, and what a merge removes has
\* left L0 and was never in L1.
LEMMA ManifestStep ==
  ASSUME Inv, [Next]_vars
  PROVE  ManifestFilesOpen' /\ ReadersKnown' /\ WorkKnown'
PROOF
<1>0. /\ FieldTypes /\ ReadersKnown /\ WorkKnown
      /\ \A i \in DOMAIN sst_levels : i \in DOMAIN sst /\ sst[i] # Broken
      /\ \A i \in DOMAIN sst_levels : has_manifest => i <= next_file_number
  BY Zenon DEF Inv, TypeOK, FieldTypes, ManifestFilesOpen, FileNumbersFresh, Openable
<1>a. next_file_number \in Nat /\ (pc # "down" => has_manifest)
  BY <1>0, Zenon DEF Inv, NumbersKnown, FieldTypes
<1>b. ASSUME \A i \in DOMAIN sst_levels' : i \in DOMAIN sst' /\ sst'[i] # Broken
      PROVE  ManifestFilesOpen'
  BY <1>b, Zenon DEF ManifestFilesOpen, Openable
\* A step of the writer or of the constructor leaves all of it alone.
<1>c. ASSUME UNCHANGED <<l0, l1, sst_levels, sst, ctx>>,
             pc' \in {pc, "allocate", "open_wal", "replay", "idle", "unlink_wal", "prepare_l0"}
      PROVE  ManifestFilesOpen' /\ ReadersKnown' /\ WorkKnown'
  <2>1. ManifestFilesOpen'
    BY <1>0, <1>b, <1>c, Zenon
  <2>2. ReadersKnown'
    BY <1>0, <1>c, Zenon DEF ReadersKnown, LevelIds
  <2>3. WorkKnown'
    BY <1>0, <1>c, Zenon DEF WorkKnown, LevelIds, Openable
  <2> QED
    BY <2>1, <2>2, <2>3, Zenon
\* A number just taken is new to the manifest.
<1>d. has_manifest => next_file_number + 1 \notin DOMAIN sst_levels
  BY <1>0, <1>a
<1>1. CASE CtorLoad
  <2>1. CASE DOMAIN sst_levels # {}
    <3>1. /\ l0' = Openable(LevelIds(0)) /\ l1' = Openable(LevelIds(1))
          /\ UNCHANGED <<sst_levels, sst>> /\ pc' = "allocate"
      BY <1>1, <2>1, Zenon DEF CtorLoad
    <3>2. ReadersKnown'
      BY <3>1, Zenon DEF ReadersKnown, LevelIds, Openable
    <3> QED
      BY <1>0, <1>b, <3>1, <3>2, Zenon DEF WorkKnown
  <2>2. CASE DOMAIN sst_levels = {}
    <3>1. /\ l0' = Openable(DOMAIN sst) /\ l1' = {} /\ sst_levels' = [i \in l0' |-> 0]
          /\ UNCHANGED sst /\ pc' = "allocate"
      BY <1>1, <2>2, Zenon DEF CtorLoad
    <3>2. ReadersKnown'
      BY <3>1, Zenon DEF ReadersKnown, LevelIds
    <3>3. \A i \in DOMAIN sst_levels' : i \in DOMAIN sst' /\ sst'[i] # Broken
      BY <3>1, Zenon DEF Openable
    <3> QED
      BY <1>b, <3>1, <3>2, <3>3, Zenon DEF WorkKnown
  <2> QED
    BY <2>1, <2>2, Zenon
<1>2. CASE CtorAllocate \/ CtorOpenWal \/ RecoverFromWals \/ Close
  BY <1>2, <1>c, Zenon DEF CtorAllocate, CtorOpenWal, RecoverFromWals, Close
<1>3. ASSUME NEW k \in Keys, NEW rec \in Records, PutInsert(k, rec) \/ PutSwitch(k, rec)
      PROVE  ManifestFilesOpen' /\ ReadersKnown' /\ WorkKnown'
  <2>1. UNCHANGED <<l0, l1, sst_levels, sst, ctx, pc>>
    BY <1>3, Zenon DEF PutInsert, PutSwitch
  <2> QED
    BY <1>c, <2>1, Zenon
<1>4. CASE FlushPrepare
  <2>1. ctx'.new_sst_id = next_file_number + 1 /\ UNCHANGED <<l0, l1, sst_levels, sst>>
    BY <1>4, Zenon DEF FlushPrepare, NoCtx
  <2>2. ReadersKnown' /\ ManifestFilesOpen'
    BY <1>0, <1>b, <2>1, Zenon DEF ReadersKnown, LevelIds
  <2>3. pc' = "build" /\ has_manifest
    BY <1>4, <1>a, Zenon DEF FlushPrepare
  <2> QED
    BY <1>d, <2>1, <2>2, <2>3, Zenon DEF WorkKnown
<1>5. CASE FlushBuild \/ MergeBuild
  <2> DEFINE n == ctx.new_sst_id
  <2>1. PICK t \in Tables : sst' = Assign(sst, n, t)
    BY <1>0, <1>5, Zenon DEF FlushBuild, MergeBuild, FieldTypes
  <2>2. /\ n \notin DOMAIN sst_levels /\ UNCHANGED <<l0, l1, sst_levels, ctx>>
        /\ (pc = "build" /\ pc' = "add_sst") \/ (pc = "build_l0" /\ pc' = "add_l1")
    BY <1>0, <1>5, Zenon DEF FlushBuild, MergeBuild, WorkKnown
  <2>3. /\ n \in DOMAIN sst' /\ sst'[n] # Broken
        /\ \A i \in DOMAIN sst : i # n => i \in DOMAIN sst' /\ sst'[i] = sst[i]
    BY <2>1, RecoveryAssumption, Zenon DEF Assign
  <2>4. ReadersKnown' /\ ManifestFilesOpen'
    BY <1>0, <1>b, <2>2, <2>3, Zenon DEF ReadersKnown, LevelIds
  <2>5. n \in Openable(DOMAIN sst)'
    BY <2>3, Zenon DEF Openable
  <2>6. pc = "build_l0" => ctx.inputs \cap LevelIds(1) = {} /\ n \notin ctx.inputs
    BY <1>0, Zenon DEF WorkKnown
  <2> QED
    BY <2>2, <2>4, <2>5, <2>6, Zenon DEF WorkKnown, LevelIds
<1>6. CASE FlushAddSst
  <2> DEFINE n == ctx.new_sst_id
  <2>1. /\ n \notin DOMAIN sst_levels /\ n \in DOMAIN sst /\ sst[n] # Broken
        /\ sst_levels' = Assign(sst_levels, n, 0) /\ l0' = l0 \cup {n}
        /\ UNCHANGED <<l1, sst, ctx>> /\ pc' = "unlink_wal"
    BY <1>0, <1>6, Zenon DEF FlushAddSst, WorkKnown, Openable
  <2>2. ReadersKnown'
    BY <1>0, <2>1, Zenon DEF ReadersKnown, LevelIds, Assign
  <2>3. DOMAIN sst_levels' = DOMAIN sst_levels \cup {n}
    BY <2>1, Zenon DEF Assign
  <2>4. ManifestFilesOpen'
    BY <1>0, <1>b, <2>1, <2>3, Zenon
  <2> QED
    BY <2>1, <2>2, <2>4, Zenon DEF WorkKnown
<1>7. CASE FlushUnlinkWal
  <2>1. UNCHANGED <<l0, l1, sst_levels, sst>> /\ pc' \in {"prepare_l0", "idle"}
    BY <1>7, Zenon DEF FlushUnlinkWal
  <2>2. ReadersKnown' /\ ManifestFilesOpen'
    BY <1>0, <1>b, <2>1, Zenon DEF ReadersKnown, LevelIds
  <2> QED
    BY <2>1, <2>2, Zenon DEF WorkKnown
<1>8. CASE MergePrepare
  <2>1. /\ ctx'.new_sst_id = next_file_number + 1 /\ ctx'.inputs = LevelIds(0)
        /\ UNCHANGED <<l1, sst_levels, sst>> /\ l0' \subseteq l0
        /\ pc' = "build_l0" \/ (pc' = "consume" /\ l0' = {})
    BY <1>8, Zenon DEF MergePrepare
  <2>2. ReadersKnown' /\ ManifestFilesOpen'
    BY <1>0, <1>b, <2>1, Zenon DEF ReadersKnown, LevelIds
  <2>3. /\ ctx'.new_sst_id \notin DOMAIN sst_levels' /\ ctx'.new_sst_id \notin ctx'.inputs
    <3>1. has_manifest
      BY <1>8, <1>a, Zenon DEF MergePrepare
    <3> QED
      BY <1>d, <2>1, <3>1, Zenon DEF LevelIds
  <2>4. (ctx.inputs \cap LevelIds(1) = {})'
    BY <2>1 DEF LevelIds
  <2> QED
    BY <2>1, <2>2, <2>3, <2>4, Zenon DEF WorkKnown
<1>9. CASE MergeAddL1
  <2> DEFINE n == ctx.new_sst_id
  <2>1. /\ n \notin DOMAIN sst_levels /\ n \in DOMAIN sst /\ sst[n] # Broken
        /\ sst_levels' = Assign(sst_levels, n, 1) /\ l0' = {} /\ l1' = l1 \cup {n}
        /\ UNCHANGED <<sst, ctx>> /\ pc' = "consume"
        /\ ctx.inputs \cap LevelIds(1) = {} /\ n \notin ctx.inputs
    BY <1>0, <1>9, Zenon DEF MergeAddL1, WorkKnown, Openable
  <2>2. LevelIds(1)' = LevelIds(1) \cup {n} /\ DOMAIN sst_levels' = DOMAIN sst_levels \cup {n}
    BY <2>1, Zenon DEF LevelIds, Assign
  <2>3. ReadersKnown'
    BY <1>0, <2>1, <2>2, Zenon DEF ReadersKnown
  <2>4. ManifestFilesOpen'
    BY <1>0, <1>b, <2>1, <2>2, Zenon
  <2>5. (ctx.inputs \cap LevelIds(1) = {})'
    BY <2>1, <2>2, Zenon
  <2> QED
    BY <2>1, <2>3, <2>4, <2>5, Zenon DEF WorkKnown
<1>10. ASSUME NEW i \in 1 .. next_file_number, ConsumeL0(i)
       PROVE  ManifestFilesOpen' /\ ReadersKnown' /\ WorkKnown'
  <2>1. /\ i \in ctx.inputs /\ ctx.inputs \cap LevelIds(1) = {} /\ l0 = {}
        /\ sst_levels' = Erase(sst_levels, {i}) /\ UNCHANGED <<l0, l1, sst>>
        /\ pc' = "unlink_l0"
    BY <1>0, <1>10, Zenon DEF ConsumeL0, WorkKnown
  <2>2. ctx'.inputs = ctx.inputs /\ ctx'.new_sst_id = i
    BY <1>0, <1>10, Zenon DEF ConsumeL0, FieldTypes
  <2>3. /\ DOMAIN sst_levels' = DOMAIN sst_levels \ {i} /\ i \notin LevelIds(1)
        /\ LevelIds(1)' = LevelIds(1)
    BY <2>1, Zenon DEF LevelIds, Erase
  <2>4. ReadersKnown'
    BY <1>0, <2>1, <2>3, Zenon DEF ReadersKnown
  <2>5. ManifestFilesOpen'
    BY <1>0, <1>b, <2>1, <2>3, Zenon
  <2> QED
    BY <2>1, <2>2, <2>3, <2>4, <2>5, Zenon DEF WorkKnown
<1>11. CASE UnlinkL0
  <2> DEFINE n == ctx.new_sst_id
  <2>1. /\ n \notin DOMAIN sst_levels /\ ctx.inputs \cap LevelIds(1) = {} /\ l0 = {}
        /\ sst' = Erase(sst, {n}) /\ UNCHANGED <<l0, l1, sst_levels>>
        /\ pc' = "idle" \/ (pc' = "consume" /\ ctx' = [ctx EXCEPT !.inputs = ctx.inputs \ {n}])
    BY <1>0, <1>11, Zenon DEF UnlinkL0, WorkKnown
  <2>2. \A i \in DOMAIN sst_levels : i \in DOMAIN sst' /\ sst'[i] = sst[i]
    BY <1>0, <2>1, Zenon DEF Erase
  <2>3. ReadersKnown' /\ ManifestFilesOpen'
    BY <1>0, <1>b, <2>1, <2>2, Zenon DEF ReadersKnown, LevelIds
  <2>4. CASE pc' = "consume" /\ ctx' = [ctx EXCEPT !.inputs = ctx.inputs \ {n}]
    <3>1. ctx'.inputs \subseteq ctx.inputs
      BY <1>0, <2>4, Zenon DEF FieldTypes
    <3>2. (ctx.inputs \cap LevelIds(1) = {})'
      BY <2>1, <3>1, Zenon DEF LevelIds
    <3> QED
      BY <2>1, <2>3, <2>4, <3>2, Zenon DEF WorkKnown
  <2>5. CASE pc' = "idle"
    BY <2>3, <2>5, Zenon DEF WorkKnown
  <2> QED
    BY <2>1, <2>4, <2>5, Zenon
<1>12. CASE Exit \/ Crash
  <2>1. /\ l0' = {} /\ l1' = {} /\ UNCHANGED sst_levels /\ pc' = "down"
        /\ \/ UNCHANGED sst
           \/ pc \in {"build", "build_l0"} /\ sst' = Assign(sst, ctx.new_sst_id, Broken)
    BY <1>12, Zenon DEF Exit, Crash
  <2>2. \A i \in DOMAIN sst_levels : i \in DOMAIN sst' /\ sst'[i] = sst[i]
    <3>1. CASE UNCHANGED sst
      BY <1>0, <3>1, Zenon
    <3>2. CASE pc \in {"build", "build_l0"} /\ sst' = Assign(sst, ctx.new_sst_id, Broken)
      <4>1. ctx.new_sst_id \notin DOMAIN sst_levels
        BY <1>0, <3>2, Zenon DEF WorkKnown
      <4> QED
        BY <1>0, <3>2, <4>1, Zenon DEF Assign
    <3> QED
      BY <2>1, <3>1, <3>2, Zenon
  <2>3. ManifestFilesOpen' /\ ReadersKnown'
    BY <1>0, <1>b, <2>1, <2>2, Zenon DEF ReadersKnown
  <2> QED
    BY <2>1, <2>3, Zenon DEF WorkKnown
<1>13. CASE UNCHANGED vars
  BY <1>13, <1>c, Zenon DEF vars
<1> QED
  BY <1>1, <1>2, <1>3, <1>4, <1>5, <1>6, <1>7, <1>8, <1>9, <1>10, <1>11, <1>12, <1>13, Zenon
     DEF Next

\* A directory without a manifest satisfies the invariant.
LEMMA InitInv ==
  ASSUME BoundedMax, Init
  PROVE  Inv
PROOF
<1> USE RecoveryAssumption
<1>1. PICK n \in 0 .. MaxLegacy : sst \in [1 .. n -> Tables \ {EmptyTable}]
  BY Zenon DEF Init
<1>2. n \in Nat /\ DOMAIN sst = 1 .. n /\ 1 .. n \in SUBSET (0 .. n) /\ sst \in [1 .. n -> Tables]
  BY <1>1
<1>3. Merge(sst) \in Tables
  BY <1>2, FilesMergeType, Zenon
<1>4. FieldTypes
  <2>1. sst \in [DOMAIN sst -> Tables \cup {Broken}]
    BY <1>2, Zenon
  <2>2. NoCtx \in [new_sst_id : Nat, output : Tables, inputs : SUBSET Nat]
    BY EmptyIsTable, Zenon DEF NoCtx
  <2>3. wal \in [DOMAIN wal -> Tables] /\ sst_levels \in [DOMAIN sst_levels -> {0, 1}]
    BY DEF Init
  <2>4. 0 \in Nat /\ 0 \in 0 .. MaxStarts
    OBVIOUS
  <2> QED
    BY <1>3, <2>1, <2>2, <2>3, <2>4, EmptyIsTable, Zenon DEF Init, FieldTypes
<1>5. ManifestFilesOpen /\ ReadersKnown /\ WorkKnown /\ FileNumbersFresh
  BY DEF Init, ManifestFilesOpen, ReadersKnown, WorkKnown, FileNumbersFresh, Openable, LevelIds
<1>6. NumbersKnown
  <2>1. DOMAIN wal = {} /\ next_file_number = 0 /\ active_wal_id = 0 /\ ctx.new_sst_id = 0
        /\ pc = "down"
    BY DEF Init, NoCtx
  <2>2. 1 .. n \subseteq 0 .. 0 + MaxLegacy
    BY <1>1
  <2> QED
    BY <1>2, <2>1, <2>2 DEF NumbersKnown
<1> QED
  BY <1>4, <1>5, <1>6, TypesFrom, Zenon DEF Inv

-----------------------------------------------------------------------------
\* A search over files with bounded numbers: None when no file has the key, and
\* otherwise what the file with the largest number holds that has it.
LEMMA LookupNewest ==
  ASSUME BoundedMax, NEW n \in Nat, NEW f, DOMAIN f \subseteq 0 .. n, NEW k
  PROVE  /\ (\A i \in DOMAIN f : f[i][k] = None) => Lookup(f, k) = None
         /\ \/ \A i \in DOMAIN f : f[i][k] = None
            \/ \E i \in DOMAIN f : /\ f[i][k] # None /\ Lookup(f, k) = f[i][k]
                                   /\ \A j \in DOMAIN f : f[j][k] # None => j <= i
PROOF
<1>1. CASE Hits(f, k) = {}
  BY <1>1, Zenon DEF Lookup, Hits
<1>2. CASE Hits(f, k) # {}
  <2> DEFINE H == Hits(f, k)
             m == Max(H)
  <2>0. H \subseteq DOMAIN f
    BY Zenon DEF Hits
  <2>1. H \in SUBSET Nat /\ H # {} /\ \A i \in H : i <= n
    <3> HIDE DEF H
    <3>1. H \subseteq 0 .. n
      BY <2>0, Zenon
    <3> QED
      BY <1>2, <3>1 DEF H
  <2>2. m \in H /\ \A i \in H : i <= m
    <3> HIDE DEF H
    <3> QED
      BY <2>1, MaxOfBounded, Zenon
  <2>3. Lookup(f, k) = f[m][k]
    BY <1>2, Zenon DEF Lookup
  <2>4. m \in DOMAIN f /\ f[m][k] # None /\ \A j \in DOMAIN f : f[j][k] # None => j <= m
    <3> HIDE DEF m
    <3> QED
      BY <2>2, Zenon DEF Hits
  <2> HIDE DEF m
  <2> QED
    BY <2>3, <2>4, Zenon
<1> QED
  BY <1>1, <1>2, Zenon

\* Files that hold the same for a key give the same record, whatever files without the
\* key come or go.
LEMMA LookupSame ==
  ASSUME BoundedMax, NEW n \in Nat, NEW f, NEW g, NEW k,
         DOMAIN f \subseteq 0 .. n, DOMAIN g \subseteq 0 .. n,
         \A i \in DOMAIN f : f[i][k] # None => i \in DOMAIN g /\ g[i][k] = f[i][k],
         \A i \in DOMAIN g : g[i][k] # None => i \in DOMAIN f /\ f[i][k] = g[i][k]
  PROVE  Lookup(g, k) = Lookup(f, k)
PROOF
<1>1. CASE \A i \in DOMAIN f : f[i][k] = None
  <2>1. Lookup(f, k) = None
    BY <1>1, LookupNewest, Zenon
  <2>2. \A i \in DOMAIN g : g[i][k] = None
    BY <1>1, Zenon
  <2>3. Lookup(g, k) = None
    BY <2>2, LookupNewest, Zenon
  <2> QED
    BY <2>1, <2>3, Zenon
<1>2. CASE ~(\A i \in DOMAIN f : f[i][k] = None)
  <2>1. PICK i \in DOMAIN f : /\ f[i][k] # None /\ Lookup(f, k) = f[i][k]
                              /\ \A j \in DOMAIN f : f[j][k] # None => j <= i
    BY <1>2, LookupNewest
  <2>2. i \in DOMAIN g /\ g[i][k] # None /\ ~(\A j \in DOMAIN g : g[j][k] = None)
    BY <2>1, Zenon
  <2>3. PICK m \in DOMAIN g : /\ g[m][k] # None /\ Lookup(g, k) = g[m][k]
                              /\ \A j \in DOMAIN g : g[j][k] # None => j <= m
    BY <2>2, LookupNewest, Zenon
  <2>4. m \in DOMAIN f /\ f[m][k] # None
    BY <2>3, Zenon
  <2>5. i <= m /\ m <= i
    BY <2>1, <2>2, <2>3, <2>4, Zenon
  <2>6. i = m
    BY <2>5
  <2> QED
    BY <2>1, <2>3, <2>6, Zenon
<1> QED
  BY <1>1, <1>2, Zenon

\* A file with a number above the others decides where it has the key.
LEMMA LookupTop ==
  ASSUME BoundedMax, NEW f, DOMAIN f \subseteq Nat, NEW k, NEW m, m \in DOMAIN f,
         \A i \in DOMAIN f : i <= m, f[m][k] # None
  PROVE  Lookup(f, k) = f[m][k]
PROOF
<1>0. m \in Nat /\ DOMAIN f \subseteq 0 .. m
  OBVIOUS
<1>1. PICK i \in DOMAIN f : /\ f[i][k] # None /\ Lookup(f, k) = f[i][k]
                            /\ \A j \in DOMAIN f : f[j][k] # None => j <= i
  BY <1>0, LookupNewest, Zenon
<1>2. m <= i /\ i <= m
  BY <1>1, Zenon
<1>3. i = m
  BY <1>0, <1>2
<1> QED
  BY <1>1, <1>3, Zenon

\* A file added above the others is searched first.
LEMMA LookupAdd ==
  ASSUME BoundedMax, NEW f, NEW g, DOMAIN f \subseteq Nat, NEW m, m \in Nat, NEW k,
         DOMAIN g = DOMAIN f \cup {m}, \A i \in DOMAIN f : i < m /\ g[i] = f[i]
  PROVE  Lookup(g, k) = Over(g[m][k], Lookup(f, k))
PROOF
<1>1. /\ DOMAIN g \subseteq Nat /\ m \notin DOMAIN f /\ m \in DOMAIN g
      /\ DOMAIN g \subseteq 0 .. m /\ DOMAIN f \subseteq 0 .. m
  OBVIOUS
<1>2. \A i \in DOMAIN g : i <= m
  OBVIOUS
<1>3. CASE g[m][k] # None
  <2>1. Lookup(g, k) = g[m][k]
    BY <1>1, <1>2, <1>3, LookupTop, Zenon
  <2> QED
    BY <1>3, <2>1, Zenon DEF Over
<1>4. CASE g[m][k] = None
  <2>1. \A i \in DOMAIN f : f[i][k] # None => i \in DOMAIN g /\ g[i][k] = f[i][k]
    BY Zenon
  <2>2. \A i \in DOMAIN g : g[i][k] # None => i \in DOMAIN f /\ f[i][k] = g[i][k]
    BY <1>4, Zenon
  <2>3. Lookup(g, k) = Lookup(f, k)
    BY <1>1, <2>1, <2>2, LookupSame
  <2> QED
    BY <1>4, <2>3, Zenon DEF Over
<1> QED
  BY <1>3, <1>4, Zenon

\* One more file at a level, with a number above the others'.
OnTop(S, m, T) == S \subseteq Nat /\ m \in Nat /\ (\A j \in S : j < m) /\ T = S \cup {m}

\* The same for the SSTables of a level.
LEMMA LevelAdd ==
  ASSUME BoundedMax, NEW f, NEW S, NEW m, NEW T, OnTop(S, m, T), NEW k
  PROVE  Lookup(Restrict(f, T), k) = Over(f[m][k], Lookup(Restrict(f, S), k))
PROOF
<1> DEFINE a == Restrict(f, S)
           b == Restrict(f, T)
<1>1. /\ DOMAIN a \subseteq Nat /\ DOMAIN b = DOMAIN a \cup {m} /\ b[m] = f[m]
      /\ \A i \in DOMAIN a : i < m /\ b[i] = a[i]
  BY Zenon DEF Restrict, OnTop
<1> HIDE DEF a, b
<1>2. Lookup(b, k) = Over(b[m][k], Lookup(a, k))
  <2>1. m \in Nat
    BY Zenon DEF OnTop
  <2> QED
    BY <1>1, <2>1, LookupAdd
<1> QED
  BY <1>1, <1>2, Zenon DEF a, b

\* Numbers of files are bounded, before and after a step.
LEMMA CommonBound ==
  ASSUME Inv, Inv'
  PROVE  \E n \in Nat : /\ DOMAIN wal \subseteq 0 .. n /\ DOMAIN wal' \subseteq 0 .. n
                        /\ DOMAIN sst \subseteq 0 .. n /\ DOMAIN sst' \subseteq 0 .. n
PROOF
<1>1. /\ MaxLegacy \in Nat /\ next_file_number \in Nat /\ next_file_number' \in Nat
      /\ DOMAIN wal \cup DOMAIN sst \subseteq 0 .. next_file_number + MaxLegacy
      /\ DOMAIN wal' \cup DOMAIN sst' \subseteq 0 .. next_file_number' + MaxLegacy
  BY RecoveryAssumption, Zenon DEF Inv, TypeOK, NumbersKnown
<1>2. ASSUME NEW a \in Nat, NEW b \in Nat
      PROVE  /\ a + b + MaxLegacy \in Nat
             /\ 0 .. a + MaxLegacy \subseteq 0 .. (a + b + MaxLegacy)
             /\ 0 .. b + MaxLegacy \subseteq 0 .. (a + b + MaxLegacy)
  BY RecoveryAssumption
<1>3. /\ next_file_number + next_file_number' + MaxLegacy \in Nat
      /\ 0 .. next_file_number + MaxLegacy
           \subseteq 0 .. (next_file_number + next_file_number' + MaxLegacy)
      /\ 0 .. next_file_number' + MaxLegacy
           \subseteq 0 .. (next_file_number + next_file_number' + MaxLegacy)
  BY <1>1, <1>2, Zenon
<1> QED
  BY <1>1, <1>3, Zenon

\* The files of the levels are tables, and their numbers are below the counter.
LEMMA LevelFiles ==
  ASSUME Inv
  PROVE  /\ \A i \in DOMAIN sst_levels : i \in DOMAIN sst /\ sst[i] \in Tables /\ i \in Nat
         /\ has_manifest => \A i \in DOMAIN sst_levels : i < next_file_number + 1
         /\ LevelIds(0) \subseteq DOMAIN sst_levels /\ LevelIds(1) \subseteq DOMAIN sst_levels
         /\ l0 \subseteq LevelIds(0) /\ l1 \subseteq LevelIds(1)
         /\ DOMAIN sst \subseteq Nat /\ DOMAIN wal \subseteq Nat
         /\ next_file_number \in Nat /\ ctx.new_sst_id \in Nat
PROOF
<1>1. \A i \in DOMAIN sst_levels : i \in DOMAIN sst /\ sst[i] \in Tables
  BY Zenon DEF Inv, ManifestFilesOpen, Openable, TypeOK
<1>2. /\ DOMAIN sst \cup DOMAIN wal \subseteq 0 .. next_file_number + MaxLegacy
      /\ next_file_number \in Nat /\ ctx.new_sst_id \in Nat
  BY Zenon DEF Inv, TypeOK, NumbersKnown
<1>3. DOMAIN sst \subseteq Nat /\ DOMAIN wal \subseteq Nat
  BY <1>2, RecoveryAssumption
<1>4. has_manifest => \A i \in DOMAIN sst : i <= next_file_number
  BY Zenon DEF Inv, FileNumbersFresh
<1>5. has_manifest => \A i \in DOMAIN sst : i < next_file_number + 1
  BY <1>2, <1>3, <1>4
<1> QED
  BY <1>1, <1>2, <1>3, <1>5, Zenon DEF LevelIds, Inv, ReadersKnown

\* Every step keeps the readers and the work of the flush thread in agreement with the
\* manifest: one thread flushes and merges, so what it prepared is still true when it
\* publishes it.
LEMMA WorkStep ==
  ASSUME BoundedMax, Inv, Inv', WorkFollows, WalsFollow, [Next]_vars
  PROVE  WorkFollows'
PROOF
<1>0. /\ WorkKnown /\ (pc # "down" => has_manifest)
      /\ \A i \in DOMAIN sst_levels : i \in DOMAIN sst /\ sst[i] \in Tables /\ i \in Nat
      /\ has_manifest => \A i \in DOMAIN sst_levels : i < next_file_number + 1
      /\ l0 \subseteq DOMAIN sst_levels /\ l1 \subseteq DOMAIN sst_levels
  BY LevelFiles, Zenon DEF Inv, NumbersKnown
<1>a. ASSUME UNCHANGED sst_levels PROVE LevelIds(0)' = LevelIds(0) /\ LevelIds(1)' = LevelIds(1)
  BY <1>a, Zenon DEF LevelIds
<1>1. CASE CtorLoad
  <2>1. pc = "down" /\ pc' = "allocate" /\ UNCHANGED <<imm, imm_wal_id, sst>>
    BY <1>1, Zenon DEF CtorLoad
  <2>2. l0' = LevelIds(0)' /\ l1' = LevelIds(1)'
    <3>1. CASE DOMAIN sst_levels # {}
      <4>1. /\ l0' = Openable(LevelIds(0)) /\ l1' = Openable(LevelIds(1))
            /\ UNCHANGED sst_levels
        BY <1>1, <3>1, Zenon DEF CtorLoad
      <4>2. Openable(LevelIds(0)) = LevelIds(0) /\ Openable(LevelIds(1)) = LevelIds(1)
        BY Zenon DEF Inv, ManifestFilesOpen, Openable, LevelIds
      <4> QED
        BY <1>a, <4>1, <4>2, Zenon
    <3>2. CASE DOMAIN sst_levels = {}
      <4>1. l1' = {} /\ sst_levels' = [i \in l0' |-> 0]
        BY <1>1, <3>2, Zenon DEF CtorLoad
      <4> QED
        BY <4>1 DEF LevelIds
    <3> QED
      BY <3>1, <3>2, Zenon
  <2> QED
    BY <2>1, <2>2, Zenon DEF WorkFollows, FlushLabels
<1>2. CASE CtorAllocate \/ CtorOpenWal \/ RecoverFromWals
  <2>1. /\ pc \in CtorLabels /\ pc' \in {"open_wal", "replay", "idle"}
        /\ UNCHANGED <<l0, l1, sst_levels, imm, imm_wal_id, sst>>
    BY <1>2, Zenon DEF CtorAllocate, CtorOpenWal, RecoverFromWals, CtorLabels
  <2>2. l0 = LevelIds(0) /\ l1 = LevelIds(1)
    BY <2>1, Zenon DEF WorkFollows, CtorLabels
  <2> QED
    BY <1>a, <2>1, <2>2, Zenon DEF WorkFollows, FlushLabels
<1>3. ASSUME NEW k \in Keys, NEW rec \in Records, PutInsert(k, rec) PROVE WorkFollows'
  <2>1. UNCHANGED <<imm, imm_wal_id, l0, l1, manifest, sst, pc, ctx>>
    BY <1>3, Zenon DEF PutInsert
  <2> QED
    BY <1>a, <2>1, Zenon DEF WorkFollows
<1>4. ASSUME NEW k \in Keys, NEW rec \in Records, PutSwitch(k, rec) PROVE WorkFollows'
  <2>1. /\ UNCHANGED <<l0, l1, sst_levels, sst, pc, ctx>> /\ imm_wal_id = 0
        /\ imm_wal_id' = active_wal_id /\ Up
    BY <1>4, Zenon DEF PutSwitch, MayPut
  <2>2. active_wal_id # 0
    BY <2>1, Zenon DEF WalsFollow, Up, UpLabels, FlushLabels, MergeLabels
  <2>3. pc \notin {"build", "add_sst", "unlink_wal"}
    BY <2>1, Zenon DEF WorkFollows, FlushLabels
  <2> QED
    BY <1>a, <2>1, <2>2, <2>3, Zenon DEF WorkFollows
<1>5. CASE FlushPrepare
  <2>1. /\ pc = "idle" /\ pc' = "build" /\ ctx'.new_sst_id = next_file_number + 1
        /\ UNCHANGED <<l0, l1, sst_levels, sst, imm, imm_wal_id>> /\ imm_wal_id # 0
    BY <1>5, Zenon DEF FlushPrepare, NoCtx
  <2>2. \A j \in l0 : j < next_file_number + 1
    BY <1>0, <2>1, Zenon
  <2> QED
    BY <1>a, <2>1, <2>2, Zenon DEF WorkFollows
<1>6. CASE FlushBuild
  <2>1. /\ pc = "build" /\ pc' = "add_sst" /\ sst' = Assign(sst, ctx.new_sst_id, imm)
        /\ UNCHANGED <<l0, l1, sst_levels, ctx, imm, imm_wal_id>>
    BY <1>6, Zenon DEF FlushBuild
  <2>2. sst'[ctx.new_sst_id] = imm
    BY <2>1, Zenon DEF Assign
  <2> QED
    BY <1>a, <2>1, <2>2, Zenon DEF WorkFollows, FlushLabels
<1>7. CASE FlushAddSst
  <2> DEFINE m == ctx.new_sst_id
  <2>1. /\ pc = "add_sst" /\ pc' = "unlink_wal" /\ l0' = l0 \cup {m}
        /\ sst_levels' = Assign(sst_levels, m, 0)
        /\ UNCHANGED <<l1, sst, ctx, imm, imm_wal_id>> /\ imm_wal_id # 0
    BY <1>7, Zenon DEF FlushAddSst, WorkFollows, FlushLabels
  <2>2. /\ l0 = LevelIds(0) /\ l1 = LevelIds(1) /\ sst[m] = imm
        /\ m \notin DOMAIN sst_levels /\ m \in DOMAIN sst /\ \A j \in l0 : j < m
    BY <1>0, <2>1, Zenon DEF WorkFollows, WorkKnown, Openable
  <2>3. LevelIds(0)' = LevelIds(0) \cup {m} /\ LevelIds(1)' = LevelIds(1)
    BY <2>1, <2>2 DEF LevelIds, Assign
  <2>4. ASSUME NEW k \in Keys, imm[k] # None PROVE Lookup(Restrict(sst, l0'), k) = imm[k]
    <3> DEFINE f == Restrict(sst, l0')
    <3>2. DOMAIN f = l0 \cup {m} /\ m \in DOMAIN f /\ f[m] = imm
      BY <2>1, <2>2, Zenon DEF Restrict
    <3>4. DOMAIN f \subseteq Nat /\ m \in Nat
      BY <1>0, <2>2, <3>2, LevelFiles, Zenon
    <3>5. \A i \in DOMAIN f : i <= m
      BY <2>2, <3>2, <3>4
    <3> HIDE DEF f
    <3>6. Lookup(f, k) = f[m][k]
      BY <2>4, <3>2, <3>4, <3>5, LookupTop, Zenon
    <3> QED
      BY <3>2, <3>6, Zenon DEF f
  <2> QED
    BY <2>1, <2>2, <2>3, <2>4, Zenon DEF WorkFollows
<1>8. CASE FlushUnlinkWal
  <2>1. /\ pc = "unlink_wal" /\ pc' \in {"prepare_l0", "idle"} /\ imm' = EmptyTable
        /\ UNCHANGED <<l0, l1, sst_levels, sst>>
    BY <1>8, Zenon DEF FlushUnlinkWal
  <2> QED
    BY <1>a, <2>1, Zenon DEF WorkFollows, FlushLabels
<1>9. CASE MergePrepare
  <2>1. /\ pc = "prepare_l0" /\ UNCHANGED <<l1, sst_levels, sst, imm, imm_wal_id>>
        /\ ctx' = [new_sst_id |-> next_file_number + 1, inputs |-> LevelIds(0),
                   output |-> Output(Merge(Restrict(sst, l0)), Restrict(sst, l1))]
        /\ pc' = "consume" \/ (pc' = "build_l0" /\ UNCHANGED l0)
    BY <1>9, Zenon DEF MergePrepare
  <2>2. /\ ctx'.inputs = LevelIds(0) /\ ctx'.new_sst_id = next_file_number + 1
        /\ ctx'.output = Output(Merge(Restrict(sst, l0)), Restrict(sst, l1))
    BY <2>1, Zenon
  <2>3. \A j \in l1 : j < ctx'.new_sst_id
    BY <1>0, <2>1, <2>2, Zenon
  <2> QED
    BY <1>a, <2>1, <2>2, <2>3, Zenon DEF WorkFollows, FlushLabels
<1>10. CASE MergeBuild
  <2> DEFINE m == ctx.new_sst_id
  <2>1. /\ pc = "build_l0" /\ pc' = "add_l1" /\ sst' = Assign(sst, m, ctx.output)
        /\ UNCHANGED <<l0, l1, sst_levels, ctx, imm, imm_wal_id>>
        /\ m \notin DOMAIN sst_levels
    BY <1>0, <1>10, Zenon DEF MergeBuild, WorkKnown
  <2>2. /\ sst'[m] = ctx.output
        /\ Restrict(sst', l0) = Restrict(sst, l0) /\ Restrict(sst', l1) = Restrict(sst, l1)
    BY <1>0, <2>1, Zenon DEF Assign, Restrict
  <2> QED
    BY <1>a, <2>1, <2>2, Zenon DEF WorkFollows, FlushLabels
<1>11. CASE MergeAddL1
  <2> DEFINE m == ctx.new_sst_id
  <2>1. /\ pc = "add_l1" /\ pc' = "consume" /\ l1' = l1 \cup {m}
        /\ sst_levels' = Assign(sst_levels, m, 1) /\ m \notin DOMAIN sst_levels
        /\ UNCHANGED <<ctx, imm, imm_wal_id>>
    BY <1>0, <1>11, Zenon DEF MergeAddL1, WorkKnown
  <2>2. LevelIds(1)' = LevelIds(1) \cup {m} /\ LevelIds(0)' = LevelIds(0)
    BY <2>1 DEF LevelIds, Assign
  <2> QED
    BY <2>1, <2>2, Zenon DEF WorkFollows, FlushLabels
<1>12. ASSUME NEW i \in 1 .. next_file_number, ConsumeL0(i) PROVE WorkFollows'
  <2>1. /\ pc = "consume" /\ pc' = "unlink_l0" /\ i \in ctx.inputs
        /\ sst_levels' = Erase(sst_levels, {i}) /\ ctx' = [ctx EXCEPT !.new_sst_id = i]
        /\ UNCHANGED <<l0, l1, imm, imm_wal_id>> /\ ctx.inputs \cap LevelIds(1) = {}
    BY <1>0, <1>12, Zenon DEF ConsumeL0, WorkKnown
  <2>2. ctx'.inputs = ctx.inputs
    BY <2>1, Zenon DEF Inv, TypeOK
  <2>3. LevelIds(1)' = LevelIds(1) /\ LevelIds(0)' \subseteq LevelIds(0)
    BY <2>1, Zenon DEF LevelIds, Erase
  <2> QED
    BY <2>1, <2>2, <2>3, Zenon DEF WorkFollows, FlushLabels
<1>13. CASE UnlinkL0
  <2> DEFINE left == ctx.inputs \ {ctx.new_sst_id}
  <2>1. /\ pc = "unlink_l0" /\ UNCHANGED <<l0, l1, sst_levels, imm, imm_wal_id>> /\ l0 = {}
        /\ ctx' = IF left = {} THEN NoCtx ELSE [ctx EXCEPT !.inputs = left]
        /\ pc' = IF left = {} THEN "idle" ELSE "consume"
        /\ ctx.new_sst_id \notin DOMAIN sst_levels
    BY <1>0, <1>13, Zenon DEF UnlinkL0, WorkKnown
  <2>2. LevelIds(0) \subseteq left /\ l1 = LevelIds(1)
    BY <2>1, Zenon DEF WorkFollows, LevelIds
  <2>3. CASE left = {}
    BY <1>a, <2>1, <2>2, <2>3, Zenon DEF WorkFollows, FlushLabels
  <2>4. CASE left # {}
    <3>1. ctx'.inputs = left
      BY <2>1, <2>4, Zenon DEF Inv, TypeOK
    <3> QED
      BY <1>a, <2>1, <2>2, <2>4, <3>1, Zenon DEF WorkFollows, FlushLabels
  <2> QED
    BY <2>3, <2>4, Zenon
<1>14. CASE Close
  <2>1. /\ pc = "idle" /\ UNCHANGED <<l0, l1, sst_levels, sst, pc, ctx>>
        /\ imm_wal_id' = active_wal_id \/ UNCHANGED <<imm, imm_wal_id>>
    BY <1>14, Zenon DEF Close
  <2>2. active_wal_id # 0
    BY <2>1, Zenon DEF WalsFollow, Up, UpLabels
  <2> QED
    BY <1>a, <2>1, <2>2, Zenon DEF WorkFollows, FlushLabels
<1>15. CASE Exit \/ Crash
  <2>1. imm' = EmptyTable /\ pc' = "down"
    BY <1>15, Zenon DEF Exit, Crash
  <2> QED
    BY <2>1, Zenon DEF WorkFollows, FlushLabels
<1>16. CASE UNCHANGED vars
  BY <1>a, <1>16, Zenon DEF vars, WorkFollows
<1> QED
  BY <1>1, <1>2, <1>3, <1>4, <1>5, <1>6, <1>7, <1>8, <1>9, <1>10, <1>11, <1>12, <1>13, <1>14,
     <1>15, <1>16, Zenon DEF Next

\* Every step keeps the active WAL the newest one, and writes to it only for a put.
LEMMA WalsStep ==
  ASSUME Inv, Inv', WorkFollows, WalsFollow, [Next]_vars
  PROVE  WalsFollow'
PROOF
<1>0. /\ next_file_number \in Nat /\ active_wal_id \in Nat /\ imm_wal_id \in Nat
      /\ DOMAIN wal \subseteq Nat /\ (pc # "down" => has_manifest)
      /\ has_manifest => \A i \in DOMAIN wal : i <= next_file_number
      /\ active_wal_id <= next_file_number
  BY LevelFiles, Zenon DEF Inv, TypeOK, NumbersKnown, FileNumbersFresh
<1>a. \A l : l \in UpLabels => l \notin {"down", "allocate", "open_wal", "replay"}
  BY Zenon DEF UpLabels, FlushLabels, MergeLabels
\* A number just taken is above every WAL.
<1>b. ASSUME has_manifest
      PROVE  /\ next_file_number + 1 # 0 /\ next_file_number + 1 \notin DOMAIN wal
             /\ active_wal_id < next_file_number + 1
             /\ \A i \in DOMAIN wal : i <= next_file_number + 1
  BY <1>0, <1>b
\* The steps of the flush thread that leave the WALs alone.
<1>c. ASSUME UNCHANGED <<mem, active_wal_id, imm_wal_id, wal, closing, starts>>, Up, Up'
      PROVE  WalsFollow'
  BY <1>a, <1>c, Zenon DEF WalsFollow, Up, Own
<1>1. CASE CtorLoad
  <2>1. /\ pc = "down" /\ pc' = "allocate"
        /\ UNCHANGED <<mem, active_wal_id, imm_wal_id, wal, closing>>
    BY <1>1, Zenon DEF CtorLoad
  <2>2. ~Up /\ ~Up'
    BY <1>a, <2>1, Zenon DEF Up
  <2> QED
    BY <2>1, <2>2, Zenon DEF WalsFollow, Own
<1>2. CASE CtorAllocate
  <2>1. /\ pc = "allocate" /\ pc' = "open_wal" /\ active_wal_id' = next_file_number + 1
        /\ UNCHANGED <<mem, imm_wal_id, wal, closing, starts>> /\ has_manifest
    BY <1>0, <1>2, Zenon DEF CtorAllocate
  <2>2. ~Up /\ ~Up'
    BY <1>a, <2>1, Zenon DEF Up
  <2> QED
    BY <1>b, <2>1, <2>2, Zenon DEF WalsFollow, Own
<1>3. CASE CtorOpenWal
  <2>1. /\ pc = "open_wal" /\ pc' = "replay" /\ active_wal_id \notin DOMAIN wal
        /\ UNCHANGED <<mem, active_wal_id, imm_wal_id, closing, starts>>
        /\ wal' = Assign(wal, active_wal_id, EmptyTable)
    BY <1>3, Zenon DEF CtorOpenWal, WalsFollow
  <2>2. ~Up /\ ~Up'
    BY <1>a, <2>1, Zenon DEF Up
  <2>3. /\ DOMAIN wal' = DOMAIN wal \cup {active_wal_id} /\ wal'[active_wal_id] = EmptyTable
        /\ imm_wal_id = 0 /\ active_wal_id # 0 /\ 0 \notin DOMAIN wal'
    BY <2>1, <2>2, Zenon DEF Assign, WalsFollow
  <2>4. \A i \in DOMAIN wal' : i <= active_wal_id'
    <3>1. \A i \in DOMAIN wal : i <= active_wal_id
      BY <2>1, Zenon DEF WalsFollow
    <3> QED
      BY <1>0, <2>1, <2>3, <3>1
  <2>5. \A i \in Own' : wal'[i] = EmptyTable
    BY <2>1, <2>3, Zenon DEF Own
  <2> QED
    BY <2>1, <2>2, <2>3, <2>4, <2>5, Zenon DEF WalsFollow
<1>4. CASE RecoverFromWals
  <2>1. /\ pc = "replay" /\ pc' = "idle"
        /\ UNCHANGED <<active_wal_id, imm_wal_id, wal, closing, starts>>
    BY <1>4, Zenon DEF RecoverFromWals
  <2>2. ~Up /\ Up'
    BY <1>a, <2>1, Zenon DEF Up, UpLabels
  <2>3. imm_wal_id < active_wal_id
    <3>1. imm_wal_id = 0 /\ active_wal_id # 0
      BY <2>1, <2>2, Zenon DEF WalsFollow
    <3> QED
      BY <1>0, <3>1
  <2> QED
    BY <2>1, <2>2, <2>3, Zenon DEF WalsFollow, Own
<1>5. ASSUME NEW k \in Keys, NEW rec \in Records, PutInsert(k, rec) PROVE WalsFollow'
  <2>1. /\ Up /\ ~closing /\ starts \in WriteLives
        /\ UNCHANGED <<active_wal_id, imm_wal_id, pc, closing, starts>>
        /\ DOMAIN wal' = DOMAIN wal
    BY <1>5, Zenon DEF PutInsert, MayPut
  <2> QED
    BY <1>a, <2>1, Zenon DEF WalsFollow, Up
<1>6. ASSUME NEW k \in Keys, NEW rec \in Records, PutSwitch(k, rec) PROVE WalsFollow'
  <2>1. /\ Up /\ ~closing /\ starts \in WriteLives /\ imm_wal_id' = active_wal_id
        /\ active_wal_id' = next_file_number + 1 /\ UNCHANGED <<pc, closing, starts>>
        /\ DOMAIN wal' = DOMAIN wal \cup {next_file_number + 1}
    BY <1>6, Zenon DEF PutSwitch, MayPut, Assign
  <2>2. has_manifest
    BY <1>0, <1>a, <2>1, Zenon DEF Up
  <2>3. next_file_number + 1 <= next_file_number + 1
    BY <1>0
  <2> QED
    BY <1>a, <1>b, <2>1, <2>2, <2>3, Zenon DEF WalsFollow, Up
<1>7. CASE \/ FlushPrepare \/ FlushBuild \/ FlushAddSst \/ MergePrepare \/ MergeBuild
           \/ MergeAddL1 \/ UnlinkL0
  <2>1. /\ UNCHANGED <<mem, active_wal_id, imm_wal_id, wal, closing, starts>>
        /\ pc \in UpLabels /\ pc' \in UpLabels
    BY <1>7, Zenon DEF FlushPrepare, FlushBuild, FlushAddSst, MergePrepare, MergeBuild,
       MergeAddL1, UnlinkL0, UpLabels, FlushLabels, MergeLabels
  <2> QED
    BY <1>c, <2>1, Zenon DEF Up
<1>8. ASSUME NEW i \in 1 .. next_file_number, ConsumeL0(i) PROVE WalsFollow'
  <2>1. /\ UNCHANGED <<mem, active_wal_id, imm_wal_id, wal, closing, starts>>
        /\ pc \in UpLabels /\ pc' \in UpLabels
    BY <1>8, Zenon DEF ConsumeL0, UpLabels, MergeLabels
  <2> QED
    BY <1>c, <2>1, Zenon DEF Up
<1>9. CASE FlushUnlinkWal
  <2>1. /\ pc \in UpLabels /\ pc' \in UpLabels /\ imm_wal_id' = 0
        /\ UNCHANGED <<mem, active_wal_id, closing, starts>>
        /\ DOMAIN wal' = DOMAIN wal \ {imm_wal_id} /\ \A i \in DOMAIN wal' : wal'[i] = wal[i]
    BY <1>9, Zenon DEF FlushUnlinkWal, Erase, UpLabels, FlushLabels, MergeLabels
  <2>2. ~closing => active_wal_id \in DOMAIN wal' /\ imm_wal_id' < active_wal_id
    <3>1. ~closing => active_wal_id \in DOMAIN wal /\ imm_wal_id < active_wal_id
      BY <2>1, Zenon DEF WalsFollow, Up
    <3> QED
      BY <1>0, <2>1, <3>1
  <2>3. starts \notin WriteLives => \A i \in Own' : wal'[i] = EmptyTable
    <3>1. Own' \subseteq Own
      BY <2>1, Zenon DEF Own, WalsFollow
    <3> QED
      BY <2>1, <3>1, Zenon DEF WalsFollow, Own
  <2> QED
    BY <1>a, <2>1, <2>2, <2>3, Zenon DEF WalsFollow, Up
<1>10. CASE Close
  <2>1. /\ pc = "idle" /\ closing' /\ UNCHANGED <<active_wal_id, wal, pc, starts>>
        /\ mem' = EmptyTable /\ imm_wal_id' \in {active_wal_id, imm_wal_id}
    BY <1>10, Zenon DEF Close
  <2>2. Up /\ Up' /\ Own' \subseteq Own
    BY <2>1, Zenon DEF Up, UpLabels, Own
  <2> QED
    BY <1>a, <2>1, <2>2, Zenon DEF WalsFollow, Up
<1>11. CASE Exit \/ Crash
  <2>1. /\ mem' = EmptyTable /\ active_wal_id' = 0 /\ imm_wal_id' = 0 /\ closing' = FALSE
        /\ pc' = "down" /\ UNCHANGED wal
    BY <1>11, Zenon DEF Exit, Crash
  <2>2. ~Up' /\ Own' = {}
    BY <1>a, <2>1, Zenon DEF Up, Own, WalsFollow
  <2> QED
    BY <2>1, <2>2, Zenon DEF WalsFollow
<1>12. CASE UNCHANGED vars
  BY <1>12, Zenon DEF vars, WalsFollow, Up, Own
<1> QED
  BY <1>1, <1>2, <1>3, <1>4, <1>5, <1>6, <1>7, <1>8, <1>9, <1>10, <1>11, <1>12, Zenon DEF Next

\* Only the first process meets a directory without a manifest.
LEMMA UntouchedStep ==
  ASSUME Inv, Inv', Untouched, [Next]_vars
  PROVE  Untouched'
PROOF
<1>1. CASE UNCHANGED vars
  BY <1>1, Zenon DEF vars, Untouched
<1>2. CASE Exit \/ Crash
  <2>1. pc # "down" /\ UNCHANGED has_manifest
    BY <1>2, RecoveryAssumption, Zenon
       DEF Exit, Crash, CtorLabels, UpLabels, FlushLabels, MergeLabels
  <2> QED
    BY <2>1, Zenon DEF Inv, NumbersKnown, Untouched
<1>3. CASE pc' # "down"
  BY <1>3, Zenon DEF Inv, NumbersKnown, Untouched
<1>4. CASE Next /\ ~(Exit \/ Crash)
  <2>1. pc' # "down"
    <3>1. CASE CtorLoad \/ CtorAllocate \/ CtorOpenWal \/ RecoverFromWals
      BY <3>1, Zenon DEF CtorLoad, CtorAllocate, CtorOpenWal, RecoverFromWals
    <3>2. CASE \E k \in Keys, rec \in Records : PutInsert(k, rec) \/ PutSwitch(k, rec)
      BY <3>2, Zenon
         DEF PutInsert, PutSwitch, MayPut, Up, UpLabels, FlushLabels, MergeLabels
    <3>3. CASE FlushPrepare \/ FlushBuild \/ FlushAddSst \/ FlushUnlinkWal
      BY <3>3, Zenon DEF FlushPrepare, FlushBuild, FlushAddSst, FlushUnlinkWal
    <3>4. CASE MergePrepare \/ MergeBuild \/ MergeAddL1
      BY <3>4, Zenon DEF MergePrepare, MergeBuild, MergeAddL1
    <3>5. CASE UnlinkL0 \/ Close \/ \E i \in 1 .. next_file_number : ConsumeL0(i)
      BY <3>5, Zenon DEF ConsumeL0, UnlinkL0, Close
    <3> QED
      BY <1>4, <3>1, <3>2, <3>3, <3>4, <3>5, Zenon DEF Next
  <2> QED
    BY <1>3, <2>1, Zenon
<1> QED
  BY <1>1, <1>2, <1>4, Zenon

\* Once something may be left, something may be left ever after.
LEMMA UnspoiledBefore ==
  ASSUME Inv, Inv', [Next]_vars, Unspoiled'
  PROVE  Unspoiled
PROOF
<1>0. starts \in Nat /\ WriteLives \subseteq Nat
  BY RecoveryAssumption DEF Inv, TypeOK
<1>1. CASE CrashAt = {}
  BY <1>1, Zenon DEF Unspoiled
<1>2. CASE CtorLoad
  <2>1. starts' = starts + 1
    BY <1>2, Zenon DEF CtorLoad
  <2>2. CrashAt # {} => \A a \in WriteLives : starts + 1 < a \/ starts + 1 = a
    BY <2>1, Zenon DEF Unspoiled
  <2> QED
    BY <1>0, <2>2 DEF Unspoiled
<1>3. CASE UNCHANGED starts /\ (pc # "down" \/ pc' = "down")
  BY <1>3, Zenon DEF Unspoiled
<1>4. CASE ~CtorLoad
  <2>1. UNCHANGED starts /\ (pc # "down" \/ pc' = "down")
    <3>1. CASE CtorAllocate \/ CtorOpenWal \/ RecoverFromWals
      BY <3>1, Zenon DEF CtorAllocate, CtorOpenWal, RecoverFromWals
    <3>2. CASE \E k \in Keys, rec \in Records : PutInsert(k, rec) \/ PutSwitch(k, rec)
      BY <3>2, Zenon
         DEF PutInsert, PutSwitch, MayPut, Up, UpLabels, FlushLabels, MergeLabels
    <3>3. CASE FlushPrepare \/ FlushBuild \/ FlushAddSst \/ FlushUnlinkWal
      BY <3>3, Zenon DEF FlushPrepare, FlushBuild, FlushAddSst, FlushUnlinkWal
    <3>4. CASE MergePrepare \/ MergeBuild \/ MergeAddL1
      BY <3>4, Zenon DEF MergePrepare, MergeBuild, MergeAddL1
    <3>5. CASE UnlinkL0 \/ Close \/ Exit \/ Crash \/ \E i \in 1 .. next_file_number : ConsumeL0(i)
      BY <3>5, Zenon DEF ConsumeL0, UnlinkL0, Close, Exit, Crash
    <3>6. CASE UNCHANGED vars
      BY <3>6, Zenon DEF vars
    <3> QED
      BY <1>4, <3>1, <3>2, <3>3, <3>4, <3>5, <3>6, Zenon DEF Next
  <2> QED
    BY <1>3, <2>1, Zenon
<1> QED
  BY <1>2, <1>4, Zenon

\* As long as nothing has been left behind, the only SSTable the manifest does not name
\* is the one the flush thread is about to publish or to remove.
LEMMA LeftFilesStep ==
  ASSUME Inv, Inv', WorkFollows, WalsFollow, Untouched, NothingLeft, Unspoiled', [Next]_vars
  PROVE  (has_manifest =>
            Unlisted \subseteq IF pc \in {"add_sst", "add_l1", "unlink_l0"}
                                 THEN {ctx.new_sst_id} ELSE {})'
PROOF
<1> DEFINE Free == {"add_sst", "add_l1", "unlink_l0"}
<1>0. /\ pc # "down" => has_manifest
      /\ has_manifest => Unlisted \subseteq IF pc \in Free THEN {ctx.new_sst_id} ELSE {}
  BY Zenon DEF Inv, NumbersKnown, NothingLeft
\* A step that changes neither the SSTables nor the manifest.
<1>a. ASSUME UNCHANGED <<sst, sst_levels>>, has_manifest, pc \notin Free PROVE Unlisted' = {}
  BY <1>0, <1>a, Zenon DEF Unlisted, Openable
<1>b. ASSUME UNCHANGED <<sst, sst_levels, ctx, has_manifest, pc>>
      PROVE  (has_manifest => Unlisted \subseteq IF pc \in Free THEN {ctx.new_sst_id} ELSE {})'
  BY <1>0, <1>b, Zenon DEF Unlisted, Openable
<1>1. CASE CtorLoad
  <2>1. pc = "down" /\ UNCHANGED sst
    BY <1>1, Zenon DEF CtorLoad
  <2>2. CASE DOMAIN sst_levels # {}
    <3>1. has_manifest
      BY <2>2 DEF Untouched
    <3>2. UNCHANGED sst_levels
      BY <1>1, <2>2, Zenon DEF CtorLoad
    <3> QED
      BY <1>a, <2>1, <3>1, <3>2, Zenon
  <2>3. CASE DOMAIN sst_levels = {}
    <3>1. DOMAIN sst_levels' = Openable(DOMAIN sst)
      BY <1>1, <2>3, Zenon DEF CtorLoad
    <3>2. Unlisted' = {}
      BY <2>1, <3>1, Zenon DEF Unlisted, Openable
    <3> QED
      BY <3>2, Zenon
  <2> QED
    BY <2>2, <2>3, Zenon
<1>2. CASE CtorAllocate \/ CtorOpenWal \/ RecoverFromWals \/ Close \/ FlushPrepare
  <2>1. UNCHANGED <<sst, sst_levels>> /\ pc # "down" /\ pc \notin Free
    BY <1>2, Zenon DEF CtorAllocate, CtorOpenWal, RecoverFromWals, Close, FlushPrepare
  <2> QED
    BY <1>0, <1>a, <2>1, Zenon
<1>3. ASSUME NEW k \in Keys, NEW rec \in Records, PutInsert(k, rec) \/ PutSwitch(k, rec)
      PROVE  (has_manifest => Unlisted \subseteq IF pc \in Free THEN {ctx.new_sst_id} ELSE {})'
  <2>1. UNCHANGED <<sst, sst_levels, ctx, has_manifest, pc>>
    BY <1>3, Zenon DEF PutInsert, PutSwitch
  <2> QED
    BY <1>b, <2>1, Zenon
<1>4. CASE FlushBuild \/ MergeBuild
  <2>1. PICK t \in Tables : sst' = Assign(sst, ctx.new_sst_id, t)
    BY <1>4, Zenon DEF FlushBuild, MergeBuild, Inv, TypeOK
  <2>2. /\ pc \notin Free /\ pc # "down" /\ pc' \in Free /\ UNCHANGED <<sst_levels, ctx>>
    BY <1>4, Zenon DEF FlushBuild, MergeBuild
  <2>3. Unlisted = {}
    BY <1>0, <2>2, Zenon
  <2>4. Unlisted' \subseteq {ctx.new_sst_id}
    BY <2>1, <2>2, <2>3, Zenon DEF Unlisted, Openable, Assign
  <2> QED
    BY <2>2, <2>4, Zenon
<1>5. CASE FlushAddSst \/ MergeAddL1
  <2>1. /\ pc # "down" /\ UNCHANGED sst
        /\ DOMAIN sst_levels' = DOMAIN sst_levels \cup {ctx.new_sst_id}
    BY <1>5, Zenon DEF FlushAddSst, MergeAddL1, Assign
  <2>2. Unlisted \subseteq {ctx.new_sst_id}
    BY <1>0, <2>1, Zenon
  <2>3. Unlisted' = {}
    BY <2>1, <2>2, Zenon DEF Unlisted, Openable
  <2> QED
    BY <2>3, Zenon
<1>6. CASE FlushUnlinkWal \/ MergePrepare
  <2>1. UNCHANGED <<sst, sst_levels>> /\ pc # "down" /\ pc \notin Free
    BY <1>6, Zenon DEF FlushUnlinkWal, MergePrepare
  <2> QED
    BY <1>0, <1>a, <2>1, Zenon
<1>7. ASSUME NEW i \in 1 .. next_file_number, ConsumeL0(i)
      PROVE  (has_manifest => Unlisted \subseteq IF pc \in Free THEN {ctx.new_sst_id} ELSE {})'
  <2>1. /\ pc = "consume" /\ pc' \in Free /\ UNCHANGED sst
        /\ DOMAIN sst_levels' = DOMAIN sst_levels \ {i} /\ ctx'.new_sst_id = i
    BY <1>7, Zenon DEF ConsumeL0, Erase, Inv, TypeOK
  <2>2. Unlisted = {}
    BY <1>0, <2>1, Zenon
  <2>3. Unlisted' \subseteq {i}
    BY <2>1, <2>2, Zenon DEF Unlisted, Openable
  <2> QED
    BY <2>1, <2>3, Zenon
<1>8. CASE UnlinkL0
  <2>1. pc = "unlink_l0" /\ sst' = Erase(sst, {ctx.new_sst_id}) /\ UNCHANGED sst_levels
    BY <1>8, Zenon DEF UnlinkL0
  <2>2. Unlisted \subseteq {ctx.new_sst_id}
    BY <1>0, <2>1, Zenon
  <2>3. Unlisted' = {}
    BY <2>1, <2>2, Zenon DEF Unlisted, Openable, Erase
  <2> QED
    BY <2>3, Zenon
<1>9. CASE Exit
  <2>1. UNCHANGED <<sst, sst_levels>> /\ pc = "idle"
    BY <1>9, Zenon DEF Exit
  <2> QED
    BY <1>0, <1>a, <2>1, Zenon
<1>10. CASE Crash
  <2>1. starts \notin WriteLives
    BY <1>10, RecoveryAssumption DEF Crash, Unspoiled, Inv, TypeOK
  <2>2. pc \in {"down", "idle", "allocate", "open_wal", "replay"}
    BY <2>1, Zenon DEF NothingLeft, CtorLabels
  <2>3. UNCHANGED <<sst, sst_levels>> /\ pc # "down"
    BY <1>10, <2>2, RecoveryAssumption, Zenon
       DEF Crash, CtorLabels, UpLabels, FlushLabels, MergeLabels
  <2> QED
    BY <1>0, <1>a, <2>2, <2>3, Zenon
<1>11. CASE UNCHANGED vars
  BY <1>11, <1>b, Zenon DEF vars
<1> QED
  BY <1>1, <1>2, <1>3, <1>4, <1>5, <1>6, <1>7, <1>8, <1>9, <1>10, <1>11, Zenon DEF Next

\* As long as nothing has been left behind, the WALs found are empty, the MemTable is
\* what its WAL holds, and a process that puts nothing flushes nothing.
LEMMA LeftWalsStep ==
  ASSUME Inv, Inv', WorkFollows, WalsFollow, WalsFollow', NothingLeft, Unspoiled', [Next]_vars
  PROVE  /\ \A i \in Found' : wal'[i] = EmptyTable
         /\ Up' => mem' = IF active_wal_id' \in DOMAIN wal' /\ active_wal_id' # imm_wal_id'
                            THEN wal'[active_wal_id'] ELSE EmptyTable
         /\ starts' \notin WriteLives => /\ pc' \in {"down", "idle"} \cup CtorLabels
                                         /\ imm_wal_id' = 0
PROOF
<1> DEFINE Goal == /\ \A i \in Found : wal[i] = EmptyTable
                   /\ Up => mem = IF active_wal_id \in DOMAIN wal /\ active_wal_id # imm_wal_id
                                    THEN wal[active_wal_id] ELSE EmptyTable
                   /\ starts \notin WriteLives => /\ pc \in {"down", "idle"} \cup CtorLabels
                                                  /\ imm_wal_id = 0
<1>0. Goal /\ 0 \notin DOMAIN wal /\ wal \in [DOMAIN wal -> Tables] /\ mem \in Tables
  BY Zenon DEF NothingLeft, WalsFollow, Inv, TypeOK
<1>a. \A l : l \in UpLabels => l \notin {"down", "allocate", "open_wal", "replay"}
  BY Zenon DEF UpLabels, FlushLabels, MergeLabels
<1> SUFFICES Goal'
  BY Zenon
<1>1. CASE CtorLoad
  <2>1. /\ pc = "down" /\ pc' = "allocate" /\ UNCHANGED <<active_wal_id, imm_wal_id, wal>>
    BY <1>1, Zenon DEF CtorLoad
  <2>2. ~Up /\ ~Up'
    BY <1>a, <2>1, Zenon DEF Up
  <2> QED
    BY <1>0, <2>1, <2>2, Zenon DEF Found, WalsFollow, CtorLabels
<1>2. CASE CtorAllocate
  <2>1. pc = "allocate" /\ pc' = "open_wal" /\ UNCHANGED <<imm_wal_id, wal>>
    BY <1>2, Zenon DEF CtorAllocate
  <2>2. ~Up /\ ~Up' /\ active_wal_id = 0 /\ imm_wal_id = 0
    BY <1>a, <2>1, Zenon DEF Up, WalsFollow
  <2> QED
    BY <1>0, <2>1, <2>2, Zenon DEF Found, CtorLabels
<1>3. CASE CtorOpenWal
  <2>1. /\ pc = "open_wal" /\ pc' = "replay" /\ UNCHANGED <<active_wal_id, imm_wal_id>>
        /\ wal' = Assign(wal, active_wal_id, EmptyTable)
    BY <1>3, Zenon DEF CtorOpenWal, WalsFollow
  <2>2. ~Up /\ ~Up' /\ imm_wal_id = 0
    BY <1>a, <2>1, Zenon DEF Up, WalsFollow
  <2> QED
    BY <1>0, <2>1, <2>2, Zenon DEF Found, Assign, CtorLabels
<1>4. CASE RecoverFromWals
  <2>1. /\ pc = "replay" /\ pc' = "idle" /\ mem' = Merge(Restrict(wal, DOMAIN wal))
        /\ UNCHANGED <<active_wal_id, imm_wal_id, wal>>
    BY <1>4, Zenon DEF RecoverFromWals, LoadLogs
  <2>2. /\ imm_wal_id = 0 /\ active_wal_id # 0 /\ active_wal_id \in DOMAIN wal
        /\ wal[active_wal_id] = EmptyTable
    BY <1>a, <2>1, Zenon DEF Up, WalsFollow
  <2>3. \A i \in DOMAIN wal : wal[i] = EmptyTable
    BY <1>0, <2>2, Zenon DEF Found
  <2>4. mem' = EmptyTable
    BY <2>1, <2>3, Zenon DEF Merge, Lookup, Hits, Restrict, EmptyTable
  <2> QED
    BY <1>0, <2>1, <2>2, <2>4, Zenon DEF Found
<1>5. ASSUME NEW k \in Keys, NEW rec \in Records, PutInsert(k, rec) PROVE Goal'
  <2>1. /\ Up /\ ~closing /\ starts \in WriteLives
        /\ UNCHANGED <<active_wal_id, imm_wal_id, pc, starts>>
        /\ wal' = [wal EXCEPT ![active_wal_id] = Insert(@, k, rec)]
        /\ mem' = Insert(mem, k, rec)
    BY <1>5, Zenon DEF PutInsert, MayPut
  <2>2. active_wal_id \in DOMAIN wal /\ active_wal_id # imm_wal_id
    <3>1. active_wal_id \in DOMAIN wal /\ imm_wal_id < active_wal_id
      BY <2>1, Zenon DEF WalsFollow
    <3> QED
      BY <3>1 DEF Inv, TypeOK
  <2>3. mem = wal[active_wal_id]
    BY <1>0, <2>1, <2>2, Zenon
  <2>4. wal'[active_wal_id] = mem' /\ DOMAIN wal' = DOMAIN wal
    BY <2>1, <2>2, <2>3, Zenon
  <2>5. \A i \in Found' : wal'[i] = EmptyTable
    BY <1>0, <2>1, <2>4, Zenon DEF Found
  <2> QED
    BY <2>1, <2>2, <2>4, <2>5, Zenon
<1>6. ASSUME NEW k \in Keys, NEW rec \in Records, PutSwitch(k, rec) PROVE Goal'
  <2>1. /\ starts \in WriteLives /\ UNCHANGED starts
        /\ imm_wal_id = 0 /\ imm_wal_id' = active_wal_id
        /\ active_wal_id' = next_file_number + 1
        /\ wal' = Assign(wal, active_wal_id', mem')
    BY <1>6, Zenon DEF PutSwitch, MayPut
  <2>2. /\ DOMAIN wal' = DOMAIN wal \cup {active_wal_id'} /\ wal'[active_wal_id'] = mem'
        /\ \A i \in DOMAIN wal : i # active_wal_id' => wal'[i] = wal[i]
    BY <2>1, Zenon DEF Assign
  <2>3. active_wal_id' # imm_wal_id'
    <3>1. active_wal_id \in Nat /\ next_file_number \in Nat /\ active_wal_id <= next_file_number
      BY Zenon DEF Inv, TypeOK, NumbersKnown
    <3> QED
      BY <2>1, <3>1
  <2>4. \A i \in Found' : wal'[i] = EmptyTable
    BY <1>0, <2>1, <2>2, Zenon DEF Found
  <2> QED
    BY <2>1, <2>2, <2>3, <2>4, Zenon
<1>7. CASE \/ FlushPrepare \/ FlushBuild \/ FlushAddSst \/ MergePrepare \/ MergeBuild
           \/ MergeAddL1 \/ UnlinkL0
  <2>1. /\ UNCHANGED <<mem, active_wal_id, imm_wal_id, wal, starts>>
        /\ pc \in UpLabels /\ (pc = "idle" => imm_wal_id # 0)
    BY <1>7, Zenon DEF FlushPrepare, FlushBuild, FlushAddSst, MergePrepare, MergeBuild,
       MergeAddL1, UnlinkL0, UpLabels, FlushLabels, MergeLabels
  <2>2. starts \in WriteLives
    BY <1>0, <1>a, <2>1, Zenon DEF CtorLabels
  <2> QED
    BY <1>0, <2>1, <2>2, Zenon DEF Up, Found
<1>8. ASSUME NEW i \in 1 .. next_file_number, ConsumeL0(i) PROVE Goal'
  <2>1. /\ UNCHANGED <<mem, active_wal_id, imm_wal_id, wal, starts>> /\ pc = "consume"
    BY <1>8, Zenon DEF ConsumeL0
  <2>2. starts \in WriteLives /\ Up
    BY <1>0, <2>1, Zenon DEF CtorLabels, Up, UpLabels, MergeLabels
  <2> QED
    BY <1>0, <2>1, <2>2, Zenon DEF Found
<1>9. CASE FlushUnlinkWal
  <2>1. /\ pc = "unlink_wal" /\ imm_wal_id' = 0 /\ UNCHANGED <<mem, active_wal_id, starts>>
        /\ DOMAIN wal' = DOMAIN wal \ {imm_wal_id} /\ \A i \in DOMAIN wal' : wal'[i] = wal[i]
    BY <1>9, Zenon DEF FlushUnlinkWal, Erase
  <2>2. starts \in WriteLives /\ Up
    BY <1>0, <2>1, Zenon DEF CtorLabels, Up, UpLabels, FlushLabels
  <2>3. active_wal_id # 0
    BY <2>1, Zenon DEF WalsFollow
  <2>4. \A i \in Found' : wal'[i] = EmptyTable
    BY <1>0, <2>1, Zenon DEF Found
  <2>5. mem' = IF active_wal_id' \in DOMAIN wal' /\ active_wal_id' # imm_wal_id'
                 THEN wal'[active_wal_id'] ELSE EmptyTable
    BY <1>0, <2>1, <2>2, <2>3, Zenon
  <2> QED
    BY <2>1, <2>2, <2>4, <2>5, Zenon
<1>10. CASE Close
  <2>1. /\ pc = "idle" /\ UNCHANGED <<active_wal_id, wal, pc, starts>> /\ imm_wal_id = 0
        /\ IF mem # EmptyTable THEN imm_wal_id' = active_wal_id /\ mem' = EmptyTable
                               ELSE UNCHANGED <<mem, imm_wal_id>>
    BY <1>10, Zenon DEF Close
  <2>2. Up /\ Up'
    BY <2>1, Zenon DEF Up, UpLabels
  <2>3. starts \notin WriteLives => mem = EmptyTable
    BY <1>0, <2>1, <2>2, Zenon DEF WalsFollow, Own
  <2>4. CASE mem = EmptyTable
    BY <1>0, <2>1, <2>2, <2>4, Zenon DEF Found
  <2>5. CASE mem # EmptyTable
    <3>1. \A i \in Found' : wal'[i] = EmptyTable
      BY <1>0, <2>1, <2>5, Zenon DEF Found
    <3> QED
      BY <2>1, <2>3, <2>5, <3>1, Zenon
  <2> QED
    BY <2>4, <2>5, Zenon
<1>11. CASE Exit
  <2>1. /\ pc = "idle" /\ closing /\ imm_wal_id = 0 /\ pc' = "down" /\ UNCHANGED wal
        /\ imm_wal_id' = 0
    BY <1>11, Zenon DEF Exit
  <2>2. Up /\ ~Up' /\ mem = EmptyTable /\ active_wal_id # 0
    BY <1>a, <2>1, Zenon DEF Up, UpLabels, WalsFollow
  <2>3. \A i \in DOMAIN wal : wal[i] = EmptyTable
    BY <1>0, <2>1, <2>2, Zenon DEF Found
  <2> QED
    BY <2>1, <2>2, <2>3, Zenon DEF Found
<1>12. CASE Crash
  <2>1. starts \notin WriteLives
    BY <1>12, RecoveryAssumption DEF Crash, Unspoiled, Inv, TypeOK
  <2>2. \A i \in DOMAIN wal : wal[i] = EmptyTable
    BY <1>0, <2>1, Zenon DEF Found, Own, WalsFollow
  <2>3. pc' = "down" /\ UNCHANGED wal /\ imm_wal_id' = 0 /\ ~Up'
    BY <1>a, <1>12, Zenon DEF Crash, Up
  <2> QED
    BY <2>2, <2>3, Zenon DEF Found
<1>13. CASE UNCHANGED vars
  BY <1>0, <1>13, Zenon DEF vars, Found, Up
<1> QED
  BY <1>1, <1>2, <1>3, <1>4, <1>5, <1>6, <1>7, <1>8, <1>9, <1>10, <1>11, <1>12, <1>13, Zenon
     DEF Next

-----------------------------------------------------------------------------
\* What lies below a record shows only through what can be seen of it.
LEMMA OverView ==
  ASSUME NEW a, NEW x, NEW y, Visible(x) = Visible(y)
  PROVE  Visible(Over(a, x)) = Visible(Over(a, y))
  BY Zenon DEF Over

\* A search over three sources, from either end.
LEMMA OverOver ==
  ASSUME NEW a, NEW b, NEW c
  PROVE  Over(Over(a, b), c) = Over(a, Over(b, c))
  BY Zenon DEF Over

\* Replacing L0 by the output of its merge shows the same values, although tombstones
\* with no value to hide in L1 are dropped (PrepareL0ToL1).
LEMMA OutputView ==
  ASSUME NEW f, NEW g, NEW k \in Keys,
         Lookup(f, k) \in Records \cup {None}, Lookup(g, k) \in Records \cup {None}
  PROVE  /\ Visible(Over(Output(Merge(f), g)[k], Lookup(g, k)))
              = Visible(Over(Lookup(f, k), Lookup(g, k)))
         /\ Output(Merge(f), g)[k] # None => Output(Merge(f), g)[k] = Lookup(f, k)
PROOF
<1>1. Output(Merge(f), g)[k] = IF Lookup(f, k) = Deletion /\ Lookup(g, k) \notin Values
                                 THEN None ELSE Lookup(f, k)
  BY Zenon DEF Output, Merge, HasVisibleValueInL1
<1>2. CASE Lookup(f, k) = Deletion /\ Lookup(g, k) \notin Values
  <2>1. Lookup(g, k) \in {Deletion, None}
    BY <1>2, Zenon DEF Records
  <2>2. Output(Merge(f), g)[k] = None
    BY <1>1, <1>2, Zenon
  <2> QED
    BY <1>2, <2>1, <2>2, RecordAssumption, Zenon DEF Over, Visible
<1>3. CASE ~(Lookup(f, k) = Deletion /\ Lookup(g, k) \notin Values)
  <2>1. Output(Merge(f), g)[k] = Lookup(f, k)
    BY <1>1, <1>3, Zenon
  <2> QED
    BY <2>1, Zenon
<1> QED
  BY <1>2, <1>3, Zenon

\* What the levels hold for a key is a record or nothing.
LEMMA LevelTypes ==
  ASSUME BoundedMax, Inv, NEW S, S \subseteq DOMAIN sst_levels, NEW k \in Keys
  PROVE  Lookup(Restrict(sst, S), k) \in Records \cup {None}
PROOF
<1>1. PICK n \in Nat : DOMAIN sst \subseteq 0 .. n
  <2>1. next_file_number + MaxLegacy \in Nat
    BY RecoveryAssumption DEF Inv, TypeOK
  <2> QED
    BY <2>1, Zenon DEF Inv, NumbersKnown
<1>2. S \in SUBSET (0 .. n) /\ \A i \in S : sst[i] \in Tables
  BY <1>1, LevelFiles, Zenon
<1>3. Restrict(sst, S) \in [S -> Tables]
  BY <1>2, Zenon DEF Restrict
<1> QED
  BY <1>2, <1>3, FilesLookupType, Zenon

\* Publishing a merge shows the same values as the levels it replaces (InstallL0ToL1).
LEMMA MergeView ==
  ASSUME BoundedMax, Inv, Inv', WorkFollows, MergeAddL1 \/ (MergePrepare /\ pc' = "consume"),
         NEW k \in Keys
  PROVE  Visible(InLevels(l0, l1, k)') = Visible(InLevels(l0, l1, k))
PROOF
<1> DEFINE f == Restrict(sst, l0)
           g == Restrict(sst, l1)
           out == Output(Merge(f), g)
<1>0. /\ l0 \subseteq DOMAIN sst_levels /\ l1 \subseteq DOMAIN sst_levels
      /\ \A i \in DOMAIN sst_levels : i \in DOMAIN sst
  BY LevelFiles, Zenon
<1>1. Lookup(f, k) \in Records \cup {None} /\ Lookup(g, k) \in Records \cup {None}
  BY <1>0, LevelTypes, Zenon
<1>2. Visible(Over(out[k], Lookup(g, k))) = Visible(InLevels(l0, l1, k))
  <2> HIDE DEF f, g
  <2>1. Visible(Over(out[k], Lookup(g, k))) = Visible(Over(Lookup(f, k), Lookup(g, k)))
    BY <1>1, OutputView, Zenon
  <2> QED
    BY <2>1, Zenon DEF InLevels, f, g
<1>3. l0' = {} /\ UNCHANGED sst
  BY Zenon DEF MergeAddL1, MergePrepare
<1>4. InLevels(l0, l1, k)' = Lookup(Restrict(sst, l1'), k)
  <2>1. Lookup(Restrict(sst, l0'), k) = None
    BY <1>3, Zenon DEF Restrict, Lookup, Hits
  <2> QED
    BY <1>3, <2>1, Zenon DEF InLevels, Over
<1>5. CASE MergePrepare /\ pc' = "consume"
  <2>1. out = EmptyTable /\ l1' = l1
    BY <1>5, Zenon DEF MergePrepare
  <2>2. out[k] = None
    BY <2>1, Zenon DEF EmptyTable
  <2> HIDE DEF f, out
  <2> QED
    BY <1>2, <1>4, <2>1, <2>2, Zenon DEF Over, g
<1>6. CASE MergeAddL1
  <2> DEFINE m == ctx.new_sst_id
  <2>1. /\ pc = "add_l1" /\ l1' = l1 \cup {m} /\ m \in DOMAIN sst
        /\ sst[m] = out /\ \A j \in l1 : j < m
    BY <1>6, Zenon DEF MergeAddL1, WorkFollows, Inv, WorkKnown, Openable
  <2>3. OnTop(l1, m, l1')
    BY <1>0, <2>1, LevelFiles, Zenon DEF OnTop
  <2> HIDE DEF m, out
  <2>4. Lookup(Restrict(sst, l1'), k) = Over(sst[m][k], Lookup(Restrict(sst, l1), k))
    BY <2>3, LevelAdd, SMT
  <2> QED
    BY <1>2, <1>4, <2>1, <2>4, Zenon
<1> QED
  BY <1>5, <1>6, Zenon

\* Publishing a flush shows what imm_ shows already (MinorCompaction).
LEMMA FlushView ==
  ASSUME BoundedMax, Inv, Inv', WorkFollows, FlushAddSst, NEW k \in Keys
  PROVE  InLevels(l0, l1, k)' = Over(imm[k], InLevels(l0, l1, k))
PROOF
<1> DEFINE m == ctx.new_sst_id
           below == Lookup(Restrict(sst, l0), k)
<1>1. /\ pc = "add_sst" /\ l0' = l0 \cup {m} /\ m \in DOMAIN sst
      /\ sst[m] = imm /\ (\A j \in l0 : j < m) /\ UNCHANGED <<sst, l1>>
  BY Zenon DEF FlushAddSst, WorkFollows, Inv, WorkKnown, Openable
<1>3. OnTop(l0, m, l0')
  BY <1>1, LevelFiles, Zenon DEF OnTop
<1> HIDE DEF m
<1>4. Lookup(Restrict(sst, l0'), k) = Over(sst[m][k], Lookup(Restrict(sst, l0), k))
  BY <1>3, LevelAdd, SMT
<1>5. InLevels(l0, l1, k)' = Over(Over(imm[k], below), Lookup(Restrict(sst, l1), k))
  BY <1>1, <1>4, Zenon DEF InLevels
<1> QED
  BY <1>5, OverOver DEF InLevels

\* Every step of a process that has opened the directory keeps what Get answers equal to
\* what was put last, and opening it gets there from the files alone.
LEMMA ViewStep ==
  ASSUME BoundedMax, Inv, Inv', WorkFollows, WalsFollow, FilesCurrent, RecoversLatest, [Next]_vars
  PROVE  RecoversLatest'
PROOF
<1> DEFINE Levels(k) == InLevels(l0, l1, k)
<1>0. /\ mem \in Tables /\ imm \in Tables /\ last \in Tables
      /\ l0 \subseteq DOMAIN sst_levels /\ l1 \subseteq DOMAIN sst_levels
      /\ \A i \in DOMAIN sst_levels : i \in DOMAIN sst
  BY LevelFiles, Zenon DEF Inv, TypeOK
<1>a. \A k \in Keys : Find(k) = Over(mem[k], Over(imm[k], Levels(k)))
  BY Zenon DEF Find, InLevels
<1>b. \A k \in Keys : Find(k)' = Over(mem'[k], Over(imm'[k], Levels(k)'))
  BY Zenon DEF Find, InLevels
<1>c. ASSUME Up, UNCHANGED <<mem, imm, last>>,
             \A k \in Keys : Visible(Levels(k)') = Visible(Levels(k))
      PROVE  RecoversLatest'
  <2> SUFFICES ASSUME NEW k \in Keys PROVE Visible(Find(k)') = Visible(last'[k])
    BY Zenon DEF RecoversLatest
  <2>1. Visible(Find(k)) = Visible(last[k])
    BY <1>c, Zenon DEF RecoversLatest
  <2> DEFINE x == Levels(k)
             y == Levels(k)'
  <2>2. Find(k) = Over(mem[k], Over(imm[k], x)) /\ Find(k)' = Over(mem[k], Over(imm[k], y))
    BY <1>a, <1>b, <1>c, Zenon
  <2>3. Visible(y) = Visible(x)
    BY <1>c, Zenon
  <2> HIDE DEF x, y
  <2>4. Visible(Over(imm[k], y)) = Visible(Over(imm[k], x))
    BY <2>3, OverView, Zenon
  <2>5. Visible(Over(mem[k], Over(imm[k], y))) = Visible(Over(mem[k], Over(imm[k], x)))
    BY <2>4, OverView, Zenon
  <2> QED
    BY <1>c, <2>1, <2>2, <2>5, Zenon
\* The levels show the same when their files stay.
<1>d. ASSUME UNCHANGED <<l0, l1>>, \A i \in l0 \cup l1 : sst'[i] = sst[i]
      PROVE  \A k \in Keys : Levels(k)' = Levels(k)
  <2>1. Restrict(sst', l0) = Restrict(sst, l0) /\ Restrict(sst', l1) = Restrict(sst, l1)
    BY <1>d, Zenon DEF Restrict
  <2> QED
    BY <1>d, <2>1, Zenon DEF InLevels
<1>e. \A l : l \in UpLabels => l \notin {"down", "allocate", "open_wal", "replay"}
  BY Zenon DEF UpLabels, FlushLabels, MergeLabels
<1>1. CASE CtorLoad \/ CtorAllocate \/ CtorOpenWal \/ Exit \/ Crash
  <2>1. pc' \in {"down", "allocate", "open_wal", "replay"}
    BY <1>1, Zenon DEF CtorLoad, CtorAllocate, CtorOpenWal, Exit, Crash
  <2> QED
    BY <1>e, <2>1, Zenon DEF RecoversLatest, Up
<1>2. CASE RecoverFromWals
  <2>1. /\ pc = "replay" /\ UNCHANGED <<imm, imm_wal_id, l0, l1, wal, sst, last>>
        /\ mem' = Merge(Restrict(wal, DOMAIN wal))
    BY <1>2, Zenon DEF RecoverFromWals, LoadLogs
  <2>2. imm = EmptyTable
    <3>1. imm_wal_id = 0
      BY <1>e, <2>1, Zenon DEF WalsFollow, Up
    <3> QED
      BY <3>1, Zenon DEF WorkFollows
  <2>3. Restrict(wal, DOMAIN wal) = wal
    BY Zenon DEF Restrict, Inv, TypeOK
  <2>4. \A k \in Keys : mem'[k] = Lookup(wal, k) /\ imm'[k] = None
    BY <2>1, <2>2, <2>3, Zenon DEF Merge, EmptyTable
  <2>5. \A k \in Keys : Find(k)' = Over(Lookup(wal, k), Levels(k))
    BY <1>b, <1>d, <2>1, <2>4, Zenon DEF Over
  <2>6. \A k \in Keys : Visible(Over(Lookup(wal, k), Levels(k))) = Visible(last[k])
    BY <2>1, Zenon DEF FilesCurrent, CtorLabels
  <2> QED
    BY <2>1, <2>5, <2>6, Zenon DEF RecoversLatest
<1>3. ASSUME NEW q \in Keys, NEW rec \in Records, PutInsert(q, rec) PROVE RecoversLatest'
  <2>1. /\ Up /\ mem' = Insert(mem, q, rec) /\ last' = Insert(last, q, rec)
        /\ UNCHANGED <<imm, l0, l1, sst>>
    BY <1>3, Zenon DEF PutInsert, MayPut
  <2>2. ASSUME NEW k \in Keys PROVE Visible(Find(k)') = Visible(last'[k])
    <3>1. Find(k)' = Over(mem'[k], Over(imm[k], Levels(k)))
      BY <1>b, <1>d, <2>1, Zenon
    <3>2. CASE k = q
      <4>1. mem'[k] = rec /\ last'[k] = rec /\ rec # None
        BY <1>0, <2>1, <3>2, RecordAssumption, Zenon DEF Insert, Tables, Records
      <4> QED
        BY <3>1, <4>1, Zenon DEF Over
    <3>3. CASE k # q
      <4>1. mem'[k] = mem[k] /\ last'[k] = last[k]
        BY <1>0, <2>1, <3>3, Zenon DEF Insert, Tables
      <4> QED
        BY <1>a, <2>1, <3>1, <4>1, Zenon DEF RecoversLatest
    <3> QED
      BY <3>2, <3>3, Zenon
  <2> QED
    BY <2>2, Zenon DEF RecoversLatest
<1>4. ASSUME NEW q \in Keys, NEW rec \in Records, PutSwitch(q, rec) PROVE RecoversLatest'
  <2>1. /\ Up /\ mem' = Insert(EmptyTable, q, rec) /\ last' = Insert(last, q, rec)
        /\ imm' = mem /\ imm_wal_id = 0 /\ UNCHANGED <<l0, l1, sst>>
    BY <1>4, Zenon DEF PutSwitch, MayPut
  <2>2. ASSUME NEW k \in Keys PROVE Visible(Find(k)') = Visible(last'[k])
    <3>1. Find(k)' = Over(mem'[k], Over(mem[k], Levels(k))) /\ imm[k] = None
      BY <1>b, <1>d, <2>1, Zenon DEF WorkFollows, EmptyTable
    <3>2. CASE k = q
      <4>1. mem'[k] = rec /\ last'[k] = rec /\ rec # None
        BY <1>0, <2>1, <3>2, RecordAssumption, Zenon DEF Insert, EmptyTable, Tables, Records
      <4> QED
        BY <3>1, <4>1, Zenon DEF Over
    <3>3. CASE k # q
      <4>1. mem'[k] = None /\ last'[k] = last[k]
        BY <1>0, <2>1, <3>3, Zenon DEF Insert, EmptyTable, Tables
      <4>2. Find(k)' = Find(k)
        BY <1>a, <3>1, <4>1, Zenon DEF Over
      <4> QED
        BY <2>1, <4>1, <4>2, Zenon DEF RecoversLatest
    <3> QED
      BY <3>2, <3>3, Zenon
  <2> QED
    BY <2>2, Zenon DEF RecoversLatest
<1>5. CASE FlushPrepare \/ FlushBuild \/ MergeBuild \/ UnlinkL0
  <2>1. /\ pc \in UpLabels /\ UNCHANGED <<mem, imm, last, l0, l1>>
        /\ \A i \in DOMAIN sst_levels : sst'[i] = sst[i]
    <3>1. CASE FlushPrepare
      BY <3>1, Zenon DEF FlushPrepare, UpLabels
    <3>2. CASE FlushBuild \/ MergeBuild
      <4>1. ctx.new_sst_id \notin DOMAIN sst_levels
        BY <3>2, Zenon DEF FlushBuild, MergeBuild, Inv, WorkKnown
      <4>2. \A i \in DOMAIN sst : i # ctx.new_sst_id => sst'[i] = sst[i]
        BY <3>2, Zenon DEF FlushBuild, MergeBuild, Assign
      <4> QED
        BY <1>0, <3>2, <4>1, <4>2, Zenon
           DEF FlushBuild, MergeBuild, UpLabels, FlushLabels, MergeLabels
    <3>3. CASE UnlinkL0
      <4>1. ctx.new_sst_id \notin DOMAIN sst_levels
        BY <3>3, Zenon DEF UnlinkL0, Inv, WorkKnown
      <4>2. \A i \in DOMAIN sst : i # ctx.new_sst_id => sst'[i] = sst[i]
        BY <3>3, Zenon DEF UnlinkL0, Erase
      <4> QED
        BY <1>0, <3>3, <4>1, <4>2, Zenon DEF UnlinkL0, UpLabels, MergeLabels
    <3> QED
      BY <1>5, <3>1, <3>2, <3>3, Zenon
  <2>2. \A k \in Keys : Levels(k)' = Levels(k)
    BY <1>0, <1>d, <2>1, Zenon
  <2> HIDE DEF Levels
  <2> QED
    BY <1>c, <2>1, <2>2, Zenon DEF Up
<1>6. ASSUME NEW i \in 1 .. next_file_number, ConsumeL0(i) PROVE RecoversLatest'
  <2>1. pc \in UpLabels /\ UNCHANGED <<mem, imm, last, l0, l1, sst>>
    BY <1>6, Zenon DEF ConsumeL0, UpLabels, MergeLabels
  <2>2. \A k \in Keys : Levels(k)' = Levels(k)
    BY <1>d, <2>1, Zenon
  <2> HIDE DEF Levels
  <2> QED
    BY <1>c, <2>1, <2>2, Zenon DEF Up
<1>7. CASE FlushAddSst
  <2>1. Up /\ UNCHANGED <<mem, imm, last>>
    BY <1>7, Zenon DEF FlushAddSst, Up, UpLabels, FlushLabels
  <2>2. ASSUME NEW k \in Keys PROVE Find(k)' = Find(k)
    <3>1. Levels(k)' = Over(imm[k], Levels(k))
      BY <1>7, FlushView, Zenon
    <3> HIDE DEF Levels
    <3> QED
      BY <1>a, <1>b, <2>1, <3>1, Zenon DEF Over
  <2> QED
    BY <2>1, <2>2, Zenon DEF RecoversLatest
<1>8. CASE FlushUnlinkWal
  <2>1. /\ pc = "unlink_wal" /\ imm' = EmptyTable /\ UNCHANGED <<mem, last, l0, l1, sst>>
    BY <1>8, Zenon DEF FlushUnlinkWal
  <2>2. ASSUME NEW k \in Keys PROVE Find(k)' = Find(k)
    <3>1. imm[k] # None => Levels(k) = imm[k]
      BY <2>1, Zenon DEF WorkFollows, InLevels, Over
    <3>2. Levels(k)' = Levels(k) /\ imm'[k] = None
      BY <1>d, <2>1, Zenon DEF EmptyTable
    <3> HIDE DEF Levels
    <3> QED
      BY <1>a, <1>b, <2>1, <3>1, <3>2, Zenon DEF Over
  <2> QED
    BY <2>1, <2>2, Zenon DEF RecoversLatest, Up, UpLabels, FlushLabels
<1>9. CASE MergePrepare
  <2>1. pc \in UpLabels /\ UNCHANGED <<mem, imm, last, l1, sst>>
        /\ (pc' = "consume" \/ UNCHANGED l0)
    BY <1>9, Zenon DEF MergePrepare, UpLabels, MergeLabels
  <2>2. \A k \in Keys : Visible(Levels(k)') = Visible(Levels(k))
    BY <1>9, <1>d, <2>1, MergeView, Zenon
  <2> HIDE DEF Levels
  <2> QED
    BY <1>c, <2>1, <2>2, Zenon DEF Up
<1>10. CASE MergeAddL1
  <2>1. pc \in UpLabels /\ UNCHANGED <<mem, imm, last>>
    BY <1>10, Zenon DEF MergeAddL1, UpLabels, MergeLabels
  <2>2. \A k \in Keys : Visible(Levels(k)') = Visible(Levels(k))
    BY <1>10, MergeView, Zenon
  <2> HIDE DEF Levels
  <2> QED
    BY <1>c, <2>1, <2>2, Zenon DEF Up
<1>11. CASE Close
  <2>1. /\ Up /\ imm_wal_id = 0 /\ UNCHANGED <<l0, l1, sst, last>>
        /\ (imm' = mem /\ mem' = EmptyTable) \/ UNCHANGED <<mem, imm>>
    BY <1>11, Zenon DEF Close, Up, UpLabels
  <2>2. imm = EmptyTable
    BY <2>1, Zenon DEF WorkFollows
  <2>3. ASSUME NEW k \in Keys PROVE Find(k)' = Find(k)
    <3>1. Levels(k)' = Levels(k) /\ imm[k] = None
      BY <1>d, <2>1, <2>2, Zenon DEF EmptyTable
    <3>2. (imm'[k] = mem[k] /\ mem'[k] = None) \/ (mem'[k] = mem[k] /\ imm'[k] = imm[k])
      BY <2>1, Zenon DEF EmptyTable
    <3> HIDE DEF Levels
    <3> QED
      BY <1>a, <1>b, <3>1, <3>2, Zenon DEF Over
  <2> QED
    BY <2>1, <2>3, Zenon DEF RecoversLatest
<1>12. CASE UNCHANGED vars
  BY <1>12, Zenon DEF vars, RecoversLatest, Find, Up
<1> QED
  BY <1>1, <1>2, <1>3, <1>4, <1>5, <1>6, <1>7, <1>8, <1>9, <1>10, <1>11, <1>12, Zenon DEF Next

-----------------------------------------------------------------------------
\* A put is the newest record of its key in the WALs, and changes no other.
LEMMA WalPut ==
  ASSUME BoundedMax, Inv, Inv', WalsFollow, NEW q \in Keys, NEW rec \in Records,
         PutInsert(q, rec) \/ PutSwitch(q, rec), NEW k \in Keys
  PROVE  /\ k = q => Lookup(wal', k) = rec
         /\ k # q => Lookup(wal', k) = Lookup(wal, k)
PROOF
<1>0. /\ rec # None /\ wal \in [DOMAIN wal -> Tables] /\ DOMAIN wal \subseteq Nat
      /\ active_wal_id \in Nat /\ next_file_number \in Nat
  BY LevelFiles, RecordAssumption, Zenon DEF Records, Inv, TypeOK
<1>a. Up /\ ~closing
  BY Zenon DEF PutInsert, PutSwitch, MayPut
<1>1. CASE PutInsert(q, rec)
  <2> DEFINE m == active_wal_id
  <2>1. /\ wal' = [wal EXCEPT ![m] = Insert(@, q, rec)] /\ m \in DOMAIN wal
        /\ \A i \in DOMAIN wal : i <= m
    BY <1>1, <1>a, Zenon DEF PutInsert, WalsFollow, Up, UpLabels, FlushLabels, MergeLabels
  <2>2. /\ DOMAIN wal' = DOMAIN wal /\ \A i \in DOMAIN wal : i # m => wal'[i] = wal[i]
        /\ wal'[m] = Insert(wal[m], q, rec) /\ wal[m] \in Tables
    BY <1>0, <2>1, Zenon
  <2>3. wal'[m][q] = rec /\ (k # q => wal'[m][k] = wal[m][k])
    BY <2>2, Zenon DEF Insert, Tables
  <2>4. Lookup(wal', q) = wal'[m][q]
    <3>1. DOMAIN wal' \subseteq Nat /\ m \in DOMAIN wal' /\ \A i \in DOMAIN wal' : i <= m
      BY <1>0, <2>1, <2>2, Zenon
    <3>2. wal'[m][q] # None
      BY <1>0, <2>3, Zenon
    <3> HIDE DEF m
    <3> QED
      BY <3>1, <3>2, LookupTop, Zenon
  <2>5. ASSUME k # q PROVE Lookup(wal', k) = Lookup(wal, k)
    <3>1. \A i \in DOMAIN wal : wal'[i][k] = wal[i][k]
      BY <2>2, <2>3, <2>5, Zenon
    <3>2. PICK n \in Nat : DOMAIN wal \subseteq 0 .. n
      BY CommonBound, Zenon
    <3> QED
      BY <2>2, <3>1, <3>2, LookupSame
  <2> QED
    BY <2>3, <2>4, <2>5, Zenon
<1>2. CASE PutSwitch(q, rec)
  <2> DEFINE m == next_file_number + 1
             first == Insert(EmptyTable, q, rec)
  <2>1. wal' = Assign(wal, m, first)
    BY <1>2, Zenon DEF PutSwitch
  <2>2. m \in Nat /\ \A i \in DOMAIN wal : i < m
    <3>1. has_manifest
      BY <1>a, Zenon DEF Inv, NumbersKnown, Up, UpLabels, FlushLabels, MergeLabels
    <3>2. \A i \in DOMAIN wal : i <= next_file_number
      BY <3>1, Zenon DEF Inv, FileNumbersFresh
    <3> QED
      BY <1>0, <3>2
  <2>3. first[q] = rec /\ (k # q => first[k] = None)
    BY Zenon DEF Insert, EmptyTable
  <2> HIDE DEF m, first
  <2>4. DOMAIN wal' = DOMAIN wal \cup {m} /\ wal'[m] = first
    BY <2>1, Zenon DEF Assign
  <2>5. \A i \in DOMAIN wal : i < m /\ wal'[i] = wal[i]
    <3>1. \A i \in DOMAIN wal : i # m
      BY <1>0, <2>2
    <3> QED
      BY <2>1, <2>2, <3>1, Zenon DEF Assign
  <2>6. Lookup(wal', k) = Over(wal'[m][k], Lookup(wal, k))
    BY <1>0, <2>2, <2>4, <2>5, LookupAdd
  <2> QED
    BY <1>0, <2>3, <2>4, <2>6, Zenon DEF Over
<1> QED
  BY <1>1, <1>2, Zenon

\* A new WAL is empty, and shows nothing.
LEMMA WalOpen ==
  ASSUME BoundedMax, Inv, Inv', WalsFollow, CtorOpenWal, NEW k \in Keys
  PROVE  Lookup(wal', k) = Lookup(wal, k)
PROOF
<1>1. active_wal_id \notin DOMAIN wal /\ wal' = Assign(wal, active_wal_id, EmptyTable)
  BY Zenon DEF CtorOpenWal, WalsFollow
<1>2. /\ DOMAIN wal' = DOMAIN wal \cup {active_wal_id} /\ wal'[active_wal_id] = EmptyTable
      /\ \A i \in DOMAIN wal : wal'[i] = wal[i]
  BY <1>1, Zenon DEF Assign
<1>3. \A i \in DOMAIN wal' : wal'[i][k] # None => i \in DOMAIN wal /\ wal[i][k] = wal'[i][k]
  BY <1>2, Zenon DEF EmptyTable
<1>4. \A i \in DOMAIN wal : wal[i][k] # None => i \in DOMAIN wal' /\ wal'[i][k] = wal[i][k]
  BY <1>2, Zenon
<1>5. PICK n \in Nat : DOMAIN wal \subseteq 0 .. n /\ DOMAIN wal' \subseteq 0 .. n
  BY CommonBound, Zenon
<1> QED
  BY <1>3, <1>4, <1>5, LookupSame

\* A process that puts before the last process finds nothing left behind.
LEMMA WriterUnspoiled ==
  ASSUME Inv, Trusted, starts \in WriteLives, starts < MaxStarts, pc # "down"
  PROVE  Unspoiled
PROOF
<1>1. WriteLives \subseteq Nat /\ starts \in Nat /\ MaxStarts \in Nat
  BY RecoveryAssumption DEF Inv, TypeOK
<1>2. CrashAt = {} \/ \A a, b \in WriteLives : a < b => b = MaxStarts
  BY Zenon DEF Trusted
<1>3. CrashAt = {} \/ \A a \in WriteLives : ~(a < starts)
  BY <1>1, <1>2
<1> QED
  BY <1>1, <1>3 DEF Unspoiled

\* The WAL that a flush removes hides nothing older: it is empty, or nothing was left
\* behind and only the active WAL remains.
LEMMA WalUnlink ==
  ASSUME BoundedMax, Inv, Inv', WorkFollows, WalsFollow, Trusted, Unspoiled => NothingLeft,
         FlushUnlinkWal, starts < MaxStarts
  PROVE  \/ \A k \in Keys : Lookup(wal', k) = Lookup(wal, k)
         \/ /\ NothingLeft
            /\ \A k \in Keys : /\ Lookup(wal', k) # None => Lookup(wal', k) = Lookup(wal, k)
                               /\ mem[k] # None => Lookup(wal', k) # None
PROOF
<1>0. /\ pc = "unlink_wal" /\ DOMAIN wal' = DOMAIN wal \ {imm_wal_id} /\ imm_wal_id # 0
      /\ \A i \in DOMAIN wal' : wal'[i] = wal[i]
      /\ active_wal_id # 0 /\ \A i \in DOMAIN wal : i <= active_wal_id
  BY Zenon DEF FlushUnlinkWal, Erase, WorkFollows, FlushLabels, WalsFollow
<1>a. PICK n \in Nat : DOMAIN wal \subseteq 0 .. n /\ DOMAIN wal' \subseteq 0 .. n
  BY CommonBound, Zenon
<1>1. CASE starts \notin WriteLives
  <2> SUFFICES ASSUME NEW k \in Keys PROVE Lookup(wal', k) = Lookup(wal, k)
    BY Zenon
  <2>1. \A i \in DOMAIN wal : i = imm_wal_id => wal[i][k] = None
    BY <1>1, Zenon DEF WalsFollow, Own, EmptyTable
  <2>2. \A i \in DOMAIN wal : wal[i][k] # None => i \in DOMAIN wal' /\ wal'[i][k] = wal[i][k]
    BY <1>0, <2>1, Zenon
  <2>3. \A i \in DOMAIN wal' : wal'[i][k] # None => i \in DOMAIN wal /\ wal[i][k] = wal'[i][k]
    BY <1>0, Zenon
  <2> QED
    BY <1>a, <2>2, <2>3, LookupSame
<1>2. CASE starts \in WriteLives
  <2>1. NothingLeft
    BY <1>0, <1>2, WriterUnspoiled, Zenon
  <2> SUFFICES ASSUME NEW k \in Keys
               PROVE  /\ Lookup(wal', k) # None => Lookup(wal', k) = Lookup(wal, k)
                      /\ mem[k] # None => Lookup(wal', k) # None
    BY <2>1, Zenon
  <2> DEFINE m == active_wal_id
  <2>2. ASSUME NEW i \in DOMAIN wal', wal'[i][k] # None PROVE i = m
    <3>1. i \in DOMAIN wal /\ i # imm_wal_id /\ wal[i][k] # None
      BY <1>0, <2>2, Zenon
    <3>2. wal[i] # EmptyTable
      BY <3>1, Zenon DEF EmptyTable
    <3> QED
      BY <2>1, <3>1, <3>2, Zenon DEF NothingLeft, Found
  <2>3. ASSUME m \in DOMAIN wal', wal'[m][k] # None
        PROVE  Lookup(wal', k) = wal'[m][k] /\ Lookup(wal, k) = wal'[m][k]
    <3>1. DOMAIN wal \subseteq Nat /\ DOMAIN wal' \subseteq Nat
      BY <1>0, LevelFiles, Zenon
    <3>2. m \in DOMAIN wal /\ wal'[m] = wal[m] /\ \A i \in DOMAIN wal' : i <= m
      BY <1>0, <2>3, Zenon
    <3>3. wal[m][k] # None
      BY <2>3, <3>2, Zenon
    <3> HIDE DEF m
    <3>4. Lookup(wal, k) = wal[m][k]
      BY <1>0, <3>1, <3>2, <3>3, LookupTop, Zenon DEF m
    <3>5. Lookup(wal', k) = wal'[m][k]
      BY <2>3, <3>1, <3>2, LookupTop, Zenon
    <3> QED
      BY <3>2, <3>4, <3>5, Zenon
  <2>4. (\A i \in DOMAIN wal' : wal'[i][k] = None) => Lookup(wal', k) = None
    BY Zenon DEF Lookup, Hits
  <2>5. Lookup(wal', k) # None => Lookup(wal', k) = Lookup(wal, k)
    BY <2>2, <2>3, <2>4, Zenon
  <2>6. mem[k] # None => m \in DOMAIN wal' /\ wal'[m][k] # None
    <3>1. mem = IF m \in DOMAIN wal /\ m # imm_wal_id THEN wal[m] ELSE EmptyTable
      BY <1>0, <2>1, Zenon DEF NothingLeft, Up, UpLabels, FlushLabels
    <3>2. mem[k] # None => m \in DOMAIN wal /\ m # imm_wal_id /\ mem = wal[m]
      BY <3>1, Zenon DEF EmptyTable
    <3> QED
      BY <1>0, <3>2, Zenon
  <2> QED
    BY <2>3, <2>5, <2>6, Zenon
<1> QED
  BY <1>1, <1>2, Zenon

\* Every step keeps the WALs' records the last ones put, and what is in memory in a WAL.
LEMMA WalsCurrentStep ==
  ASSUME BoundedMax, Inv, Inv', WorkFollows, WalsFollow, Trusted, Unspoiled => NothingLeft,
         WalsCurrent, [Next]_vars
  PROVE  WalsCurrent'
PROOF
<1>0. mem \in Tables /\ imm \in Tables /\ last \in Tables /\ starts \in Nat /\ MaxStarts \in Nat
  BY RecoveryAssumption DEF Inv, TypeOK
<1> SUFFICES ASSUME starts' < MaxStarts, NEW k \in Keys
             PROVE  /\ Lookup(wal', k) # None => Visible(Lookup(wal', k)) = Visible(last'[k])
                    /\ Over(mem'[k], imm'[k]) # None => Lookup(wal', k) # None
  BY Zenon DEF WalsCurrent
<1> DEFINE Goal == /\ Lookup(wal', k) # None => Visible(Lookup(wal', k)) = Visible(last'[k])
                   /\ Over(mem'[k], imm'[k]) # None => Lookup(wal', k) # None
<1>a. ASSUME starts < MaxStarts
      PROVE  /\ Lookup(wal, k) # None => Visible(Lookup(wal, k)) = Visible(last[k])
             /\ Over(mem[k], imm[k]) # None => Lookup(wal, k) # None
  BY <1>a, Zenon DEF WalsCurrent
\* The steps after which the WALs show the same.
<1>b. ASSUME starts < MaxStarts, last' = last, Lookup(wal', k) = Lookup(wal, k),
             Over(mem'[k], imm'[k]) # None => Over(mem[k], imm[k]) # None \/ Lookup(wal, k) # None
      PROVE  Goal
  BY <1>a, <1>b, Zenon
<1>c. \A l : l \in UpLabels => l \notin {"down", "allocate", "open_wal", "replay"}
  BY Zenon DEF UpLabels, FlushLabels, MergeLabels
<1>1. CASE CtorLoad
  <2>1. starts' = starts + 1 /\ UNCHANGED <<mem, imm, wal, last>>
    BY <1>1, Zenon DEF CtorLoad
  <2>2. starts < MaxStarts
    BY <1>0, <2>1
  <2> QED
    BY <1>b, <2>1, <2>2, Zenon
<1>2. CASE \/ CtorAllocate \/ FlushPrepare \/ FlushBuild \/ FlushAddSst \/ MergePrepare
           \/ MergeBuild \/ MergeAddL1 \/ UnlinkL0
  <2>1. UNCHANGED <<mem, imm, wal, last, starts>>
    BY <1>2, Zenon DEF CtorAllocate, FlushPrepare, FlushBuild, FlushAddSst, MergePrepare,
       MergeBuild, MergeAddL1, UnlinkL0
  <2> QED
    BY <1>b, <2>1, Zenon
<1>3. CASE CtorOpenWal
  <2>1. UNCHANGED <<mem, imm, last, starts>>
    BY <1>3, Zenon DEF CtorOpenWal
  <2>2. Lookup(wal', k) = Lookup(wal, k)
    BY <1>3, WalOpen, Zenon
  <2> QED
    BY <1>b, <2>1, <2>2, Zenon
<1>4. CASE RecoverFromWals
  <2>1. /\ pc = "replay" /\ UNCHANGED <<imm, wal, last, starts>>
        /\ mem' = Merge(Restrict(wal, DOMAIN wal))
    BY <1>4, Zenon DEF RecoverFromWals, LoadLogs
  <2>2. imm = EmptyTable
    <3>1. imm_wal_id = 0
      BY <1>c, <2>1, Zenon DEF WalsFollow, Up
    <3> QED
      BY <3>1, Zenon DEF WorkFollows
  <2>3. Restrict(wal, DOMAIN wal) = wal
    BY Zenon DEF Restrict, Inv, TypeOK
  <2>4. mem'[k] = Lookup(wal, k) /\ imm'[k] = None
    BY <2>1, <2>2, <2>3, Zenon DEF Merge, EmptyTable
  <2>5. Over(mem'[k], imm'[k]) # None => Lookup(wal, k) # None
    BY <2>4, Zenon DEF Over
  <2> QED
    BY <1>b, <2>1, <2>5, Zenon
<1>5. ASSUME NEW q \in Keys, NEW rec \in Records, PutInsert(q, rec) \/ PutSwitch(q, rec)
      PROVE  Goal
  <2>1. /\ last' = Insert(last, q, rec) /\ UNCHANGED starts /\ rec # None
        /\ (mem' = Insert(mem, q, rec) /\ imm' = imm)
             \/ (mem' = Insert(EmptyTable, q, rec) /\ imm' = mem)
    BY <1>5, RecordAssumption, Zenon DEF PutInsert, PutSwitch, Records
  <2>2. CASE k = q
    <3>1. Lookup(wal', k) = rec
      BY <1>5, <2>2, WalPut, Zenon
    <3>2. last'[k] = rec
      BY <1>0, <2>1, <2>2, Zenon DEF Insert, Tables
    <3> QED
      BY <2>1, <3>1, <3>2, Zenon
  <2>3. CASE k # q
    <3>1. Lookup(wal', k) = Lookup(wal, k)
      BY <1>5, <2>3, WalPut, Zenon
    <3>2. last'[k] = last[k]
      BY <1>0, <2>1, <2>3, Zenon DEF Insert, Tables
    <3>3. (mem'[k] = mem[k] /\ imm'[k] = imm[k]) \/ (mem'[k] = None /\ imm'[k] = mem[k])
      BY <1>0, <2>1, <2>3, Zenon DEF Insert, EmptyTable, Tables
    <3>4. Over(mem'[k], imm'[k]) # None => Over(mem[k], imm[k]) # None
      BY <3>3, Zenon DEF Over
    <3> QED
      BY <1>a, <2>1, <3>1, <3>2, <3>4, Zenon
  <2> QED
    BY <2>2, <2>3, Zenon
<1>6. CASE FlushUnlinkWal
  <2>1. UNCHANGED <<mem, last, starts>> /\ imm'[k] = None
    BY <1>6, Zenon DEF FlushUnlinkWal, EmptyTable
  <2>2. Over(mem'[k], imm'[k]) = mem[k] /\ (mem[k] # None => Over(mem[k], imm[k]) # None)
    BY <2>1, Zenon DEF Over
  <2>3. \/ Lookup(wal', k) = Lookup(wal, k)
        \/ /\ Lookup(wal', k) # None => Lookup(wal', k) = Lookup(wal, k)
           /\ mem[k] # None => Lookup(wal', k) # None
    BY <1>6, <2>1, WalUnlink, Zenon
  <2> QED
    BY <1>a, <2>1, <2>2, <2>3, Zenon
<1>7. ASSUME NEW i \in 1 .. next_file_number, ConsumeL0(i) PROVE Goal
  <2>1. UNCHANGED <<mem, imm, wal, last, starts>>
    BY <1>7, Zenon DEF ConsumeL0
  <2> QED
    BY <1>b, <2>1, Zenon
<1>8. CASE Close
  <2>1. /\ UNCHANGED <<wal, last, starts>>
        /\ (imm' = mem /\ mem' = EmptyTable) \/ UNCHANGED <<mem, imm>>
    BY <1>8, Zenon DEF Close
  <2>2. (mem'[k] = mem[k] /\ imm'[k] = imm[k]) \/ (mem'[k] = None /\ imm'[k] = mem[k])
    BY <2>1, Zenon DEF EmptyTable
  <2>3. Over(mem'[k], imm'[k]) # None => Over(mem[k], imm[k]) # None
    BY <2>2, Zenon DEF Over
  <2> QED
    BY <1>b, <2>1, <2>3, Zenon
<1>9. CASE Exit \/ Crash
  <2>1. UNCHANGED <<wal, last, starts>> /\ mem'[k] = None /\ imm'[k] = None
    BY <1>9, Zenon DEF Exit, Crash, EmptyTable
  <2>2. Over(mem'[k], imm'[k]) = None
    BY <2>1, Zenon DEF Over
  <2> QED
    BY <1>b, <2>1, <2>2, Zenon
<1>10. CASE UNCHANGED vars
  BY <1>b, <1>10, Zenon DEF vars
<1> QED
  BY <1>1, <1>2, <1>3, <1>4, <1>5, <1>6, <1>7, <1>8, <1>9, <1>10, Zenon DEF Next

\* While a process runs, the WALs and the SSTables it has open would give what was put
\* last, had it to be opened again.
LEMMA FilesSuffice ==
  ASSUME Inv, WalsCurrent, FilesCurrent, RecoversLatest, pc # "down", starts < MaxStarts,
         NEW k \in Keys
  PROVE  Visible(Over(Lookup(wal, k), InLevels(l0, l1, k))) = Visible(last[k])
PROOF
<1>1. CASE pc \in CtorLabels
  BY <1>1, Zenon DEF FilesCurrent
<1>2. CASE Up
  <2>1. CASE Lookup(wal, k) # None
    BY <2>1, Zenon DEF WalsCurrent, Over
  <2>2. CASE Lookup(wal, k) = None
    <3>1. mem[k] = None /\ imm[k] = None
      BY <2>2, Zenon DEF WalsCurrent, Over
    <3>2. Find(k) = InLevels(l0, l1, k)
      BY <3>1, Zenon DEF Find, InLevels, Over
    <3> QED
      BY <1>2, <2>2, <3>2, Zenon DEF RecoversLatest, Over
  <2> QED
    BY <2>1, <2>2, Zenon
<1> QED
  BY <1>1, <1>2, Zenon DEF Inv, TypeOK, Up

\* Every step keeps the SSTables unknown to the manifest harmless: what a flush or a
\* merge writes before it is published tells what the WALs or the levels tell.
LEMMA UnlistedStep ==
  ASSUME BoundedMax, Inv, Inv', WorkFollows, WalsFollow, Untouched, Trusted, Unspoiled => NothingLeft,
         WalsCurrent, UnlistedHarmless, FilesCurrent, RecoversLatest, [Next]_vars
  PROVE  UnlistedHarmless'
PROOF
<1>0. /\ mem \in Tables /\ imm \in Tables /\ last \in Tables /\ starts \in Nat
      /\ MaxStarts \in Nat /\ (pc # "down" => has_manifest)
  BY RecoveryAssumption DEF Inv, TypeOK, NumbersKnown
<1> SUFFICES ASSUME starts' < MaxStarts, has_manifest', NEW i \in Unlisted', NEW k \in Keys
             PROVE  \/ pc' = "unlink_l0" /\ i = ctx'.new_sst_id
                    \/ Lookup(wal', k) # None \/ sst'[i][k] = None
                    \/ Visible(sst'[i][k]) = Visible(last'[k])
  BY Zenon DEF UnlistedHarmless
<1> DEFINE Goal == \/ pc' = "unlink_l0" /\ i = ctx'.new_sst_id
                   \/ Lookup(wal', k) # None \/ sst'[i][k] = None
                   \/ Visible(sst'[i][k]) = Visible(last'[k])
<1>a. i \in DOMAIN sst' /\ sst'[i] # Broken /\ i \notin DOMAIN sst_levels'
  BY Zenon DEF Unlisted, Openable
\* A file that was there before the step, and still is.
<1>b. ASSUME starts < MaxStarts, has_manifest, i \in DOMAIN sst, i \notin DOMAIN sst_levels,
             sst'[i] = sst[i], last'[k] = last[k], Lookup(wal', k) = Lookup(wal, k),
             pc # "unlink_l0" \/ i # ctx.new_sst_id
      PROVE  Goal
  <2>1. i \in Unlisted
    BY <1>a, <1>b, Zenon DEF Unlisted, Openable
  <2>2. Lookup(wal, k) # None \/ sst[i][k] = None \/ Visible(sst[i][k]) = Visible(last[k])
    BY <1>b, <2>1, Zenon DEF UnlistedHarmless
  <2> QED
    BY <1>b, <2>2, Zenon
<1>1. CASE CtorLoad
  <2>1. pc = "down" /\ UNCHANGED <<sst, wal, last>> /\ starts < MaxStarts
    BY <1>1, Zenon DEF CtorLoad
  <2>2. CASE DOMAIN sst_levels # {}
    <3>1. has_manifest
      BY <2>2 DEF Untouched
    <3>2. UNCHANGED sst_levels
      BY <1>1, <2>2, Zenon DEF CtorLoad
    <3> QED
      BY <1>a, <1>b, <2>1, <3>1, <3>2, Zenon
  <2>3. CASE DOMAIN sst_levels = {}
    <3>1. DOMAIN sst_levels' = Openable(DOMAIN sst)
      BY <1>1, <2>3, Zenon DEF CtorLoad
    <3> QED
      BY <1>a, <2>1, <3>1, Zenon DEF Openable
  <2> QED
    BY <2>2, <2>3, Zenon
<1>2. CASE CtorAllocate \/ RecoverFromWals \/ Close \/ FlushPrepare \/ MergePrepare \/ Exit
  <2>1. UNCHANGED <<sst, sst_levels, wal, last, starts>> /\ pc \notin {"down", "unlink_l0"}
    BY <1>2, Zenon DEF CtorAllocate, RecoverFromWals, Close, FlushPrepare, MergePrepare, Exit
  <2> QED
    BY <1>0, <1>a, <1>b, <2>1, Zenon
<1>3. CASE CtorOpenWal
  <2>1. UNCHANGED <<sst, sst_levels, last, starts>> /\ pc \notin {"down", "unlink_l0"}
    BY <1>3, Zenon DEF CtorOpenWal
  <2>2. Lookup(wal', k) = Lookup(wal, k)
    BY <1>3, WalOpen, Zenon
  <2> QED
    BY <1>0, <1>a, <1>b, <2>1, <2>2, Zenon
<1>4. ASSUME NEW q \in Keys, NEW rec \in Records, PutInsert(q, rec) \/ PutSwitch(q, rec)
      PROVE  Goal
  <2>1. /\ last' = Insert(last, q, rec) /\ rec # None
        /\ UNCHANGED <<sst, sst_levels, has_manifest, starts, pc, ctx>>
    BY <1>4, RecordAssumption, Zenon DEF PutInsert, PutSwitch, Records
  <2>2. CASE k = q
    <3>1. Lookup(wal', k) = rec
      BY <1>4, <2>2, WalPut, Zenon
    <3> QED
      BY <2>1, <3>1, Zenon
  <2>3. CASE k # q
    <3>1. Lookup(wal', k) = Lookup(wal, k)
      BY <1>4, <2>3, WalPut, Zenon
    <3>2. last'[k] = last[k]
      BY <1>0, <2>1, <2>3, Zenon DEF Insert, Tables
    <3> QED
      BY <1>a, <1>b, <2>1, <3>1, <3>2, Zenon
  <2> QED
    BY <2>2, <2>3, Zenon
<1>5. CASE FlushBuild \/ MergeBuild
  <2>1. /\ UNCHANGED <<wal, sst_levels, last, starts>> /\ pc \notin {"down", "unlink_l0"}
        /\ FlushBuild => sst' = Assign(sst, ctx.new_sst_id, imm)
        /\ MergeBuild => sst' = Assign(sst, ctx.new_sst_id, ctx.output) /\ pc = "build_l0"
    BY <1>5, Zenon DEF FlushBuild, MergeBuild
  <2>2. CASE i # ctx.new_sst_id
    <3> DEFINE t == IF FlushBuild THEN imm ELSE ctx.output
    <3>0. sst' = Assign(sst, ctx.new_sst_id, t)
      BY <1>5, <2>1, Zenon
    <3> HIDE DEF t
    <3>1. i \in DOMAIN sst /\ sst'[i] = sst[i]
      BY <1>a, <2>2, <3>0, Zenon DEF Assign
    <3> QED
      BY <1>0, <1>a, <1>b, <2>1, <3>1, Zenon
  <2>3. CASE i = ctx.new_sst_id /\ FlushBuild
    <3>1. sst'[i] = imm
      BY <2>1, <2>3, Zenon DEF Assign
    <3>2. imm[k] # None => Lookup(wal, k) # None
      BY <2>1, Zenon DEF WalsCurrent, Over
    <3> QED
      BY <2>1, <3>1, <3>2, Zenon
  <2>4. CASE i = ctx.new_sst_id /\ MergeBuild
    <3> DEFINE f == Restrict(sst, l0)
               g == Restrict(sst, l1)
    <3>1. sst'[i] = Output(Merge(f), g)
      BY <2>1, <2>4, Zenon DEF Assign, WorkFollows
    <3>2. Lookup(f, k) \in Records \cup {None} /\ Lookup(g, k) \in Records \cup {None}
      BY LevelFiles, LevelTypes, Zenon
    <3>3. InLevels(l0, l1, k) = Over(Lookup(f, k), Lookup(g, k))
      BY Zenon DEF InLevels
    <3> HIDE DEF f, g
    <3>4. sst'[i][k] # None => sst'[i][k] = Lookup(f, k)
      BY <3>1, <3>2, OutputView, Zenon
    <3>5. Visible(Over(Lookup(wal, k), InLevels(l0, l1, k))) = Visible(last[k])
      BY <2>1, FilesSuffice, Zenon
    <3> QED
      BY <2>1, <3>3, <3>4, <3>5, Zenon DEF Over
  <2> QED
    BY <1>5, <2>2, <2>3, <2>4, Zenon
<1>6. CASE FlushAddSst \/ MergeAddL1
  <2>1. /\ pc \notin {"down", "unlink_l0"} /\ UNCHANGED <<sst, wal, last, starts>>
        /\ DOMAIN sst_levels' = DOMAIN sst_levels \cup {ctx.new_sst_id}
    BY <1>6, Zenon DEF FlushAddSst, MergeAddL1, Assign
  <2> QED
    BY <1>0, <1>a, <1>b, <2>1, Zenon
<1>7. CASE FlushUnlinkWal
  <2>1. pc = "unlink_wal" /\ UNCHANGED <<sst, sst_levels, last, starts>>
    BY <1>7, Zenon DEF FlushUnlinkWal
  <2>2. Lookup(wal', k) = Lookup(wal, k) \/ NothingLeft
    BY <1>7, <2>1, WalUnlink, Zenon
  <2>3. CASE NothingLeft
    <3>1. Unlisted = {}
      BY <1>0, <2>1, <2>3, Zenon DEF NothingLeft
    <3> QED
      BY <1>a, <2>1, <3>1, Zenon DEF Unlisted, Openable
  <2> QED
    BY <1>0, <1>a, <1>b, <2>1, <2>2, <2>3, Zenon
<1>8. ASSUME NEW j \in 1 .. next_file_number, ConsumeL0(j) PROVE Goal
  <2>1. /\ pc = "consume" /\ pc' = "unlink_l0" /\ UNCHANGED <<sst, wal, last, starts>>
        /\ DOMAIN sst_levels' = DOMAIN sst_levels \ {j} /\ ctx'.new_sst_id = j
    BY <1>8, Zenon DEF ConsumeL0, Erase, Inv, TypeOK
  <2>2. CASE i = j
    BY <2>1, <2>2, Zenon
  <2>3. CASE i # j
    BY <1>0, <1>a, <1>b, <2>1, <2>3, Zenon
  <2> QED
    BY <2>2, <2>3, Zenon
<1>9. CASE UnlinkL0
  <2>1. /\ pc = "unlink_l0" /\ UNCHANGED <<sst_levels, wal, last, starts>>
        /\ DOMAIN sst' = DOMAIN sst \ {ctx.new_sst_id}
        /\ \A j \in DOMAIN sst' : sst'[j] = sst[j]
    BY <1>9, Zenon DEF UnlinkL0, Erase
  <2> QED
    BY <1>0, <1>a, <1>b, <2>1, Zenon
<1>10. CASE Crash
  <2>1. /\ pc \in CrashAt /\ UNCHANGED <<sst_levels, wal, last, starts>>
        /\ sst' = sst \/ sst' = Assign(sst, ctx.new_sst_id, Broken)
    BY <1>10, Zenon DEF Crash
  <2>2. pc \notin {"down", "unlink_l0"}
    BY <2>1, RecoveryAssumption, Zenon DEF Trusted, CtorLabels, UpLabels, FlushLabels, MergeLabels
  <2>3. i \in DOMAIN sst /\ sst'[i] = sst[i]
    BY <1>a, <2>1, Zenon DEF Assign
  <2> QED
    BY <1>0, <1>a, <1>b, <2>1, <2>2, <2>3, Zenon
<1>11. CASE UNCHANGED vars
  <2>1. UNCHANGED <<sst, sst_levels, has_manifest, wal, last, starts, pc, ctx>>
    BY <1>11, Zenon DEF vars, manifest, files, history
  <2> QED
    BY <1>a, <1>b, <2>1, Zenon
<1> QED
  BY <1>1, <1>2, <1>3, <1>4, <1>5, <1>6, <1>7, <1>8, <1>9, <1>10, <1>11, Zenon DEF Next

\* Every step keeps the files sufficient for the next process: closing and crashing leave
\* what the running process could have been opened from, and LoadSSTables takes it up.
LEMMA FilesStep ==
  ASSUME BoundedMax, Inv, Inv', WorkFollows, WalsFollow, Untouched, Trusted,
         WalsCurrent, UnlistedHarmless, FilesCurrent, RecoversLatest, [Next]_vars
  PROVE  FilesCurrent'
PROOF
<1>0. /\ starts \in Nat /\ MaxStarts \in Nat /\ (pc # "down" => has_manifest)
      /\ \A l : l \in UpLabels => l \notin {"down", "allocate", "open_wal", "replay"}
  BY RecoveryAssumption DEF Inv, TypeOK, NumbersKnown, UpLabels, FlushLabels, MergeLabels
<1>1. CASE CtorLoad
  <2>1. /\ pc = "down" /\ starts < MaxStarts /\ pc' = "allocate" /\ UNCHANGED <<sst, wal, last>>
    BY <1>1, Zenon DEF CtorLoad
  <2> SUFFICES ASSUME NEW k \in Keys
               PROVE  Visible(Over(Lookup(wal, k), InLevels(l0, l1, k)')) = Visible(last[k])
    BY <2>1, Zenon DEF FilesCurrent
  <2>2. CASE DOMAIN sst_levels # {}
    <3>1. has_manifest
      BY <2>2 DEF Untouched
    <3>2. l0' = Openable(LevelIds(0)) /\ l1' = Openable(LevelIds(1))
      BY <1>1, <2>2, Zenon DEF CtorLoad
    <3>3. l0' = LevelIds(0) /\ l1' = LevelIds(1)
      BY <3>2, Zenon DEF Inv, ManifestFilesOpen, Openable, LevelIds
    <3>4. InLevels(l0, l1, k)' = InLevels(LevelIds(0), LevelIds(1), k)
      BY <2>1, <3>3, Zenon DEF InLevels
    <3> QED
      BY <2>1, <3>1, <3>4, Zenon DEF FilesCurrent
  <2>3. CASE DOMAIN sst_levels = {}
    <3> DEFINE f == Restrict(sst, l0')
    <3>1. l0' = Openable(DOMAIN sst) /\ l1' = {}
      BY <1>1, <2>3, Zenon DEF CtorLoad
    <3>2. Lookup(Restrict(sst, {}), k) = None
      BY Zenon DEF Restrict, Lookup, Hits
    <3>3. InLevels(l0, l1, k)' = Lookup(f, k)
      BY <2>1, <3>1, <3>2, Zenon DEF InLevels, Over
    <3>4. CASE has_manifest
      <4>1. LevelIds(0) = {} /\ LevelIds(1) = {}
        BY <2>3, Zenon DEF LevelIds
      <4>2. InLevels(LevelIds(0), LevelIds(1), k) = None
        BY <3>2, <4>1, Zenon DEF InLevels, Over
      <4>3. Visible(Over(Lookup(wal, k), None)) = Visible(last[k])
        BY <2>1, <3>4, <4>2, Zenon DEF FilesCurrent
      <4>4. CASE Lookup(wal, k) # None
        BY <3>3, <4>3, <4>4, Zenon DEF Over
      <4>5. CASE Lookup(wal, k) = None
        <5>1. \A i \in l0' : sst[i][k] = None \/ Visible(sst[i][k]) = Visible(last[k])
          BY <2>1, <2>3, <3>1, <3>4, <4>5, Zenon DEF UnlistedHarmless, Unlisted
        <5>2. DOMAIN f = l0' /\ \A i \in l0' : f[i] = sst[i]
          BY Zenon DEF Restrict
        <5>3. PICK n \in Nat : DOMAIN sst \subseteq 0 .. n
          BY CommonBound, Zenon
        <5>4. DOMAIN f \subseteq 0 .. n
          BY <3>1, <5>2, <5>3, Zenon DEF Openable
        <5> HIDE DEF f
        <5>5. Lookup(f, k) = None \/ \E i \in DOMAIN f : f[i][k] # None /\ Lookup(f, k) = f[i][k]
          BY <5>3, <5>4, LookupNewest, Zenon
        <5>6. ASSUME NEW i \in DOMAIN f, f[i][k] # None, Lookup(f, k) = f[i][k]
              PROVE  Visible(Lookup(f, k)) = Visible(last[k])
          <6>1. f[i] = sst[i] /\ i \in l0'
            BY <5>2, <5>6, Zenon
          <6>2. Visible(sst[i][k]) = Visible(last[k])
            BY <5>1, <5>6, <6>1, Zenon
          <6> QED
            BY <5>6, <6>1, <6>2, Zenon
        <5>7. Lookup(f, k) = None \/ Visible(Lookup(f, k)) = Visible(last[k])
          BY <5>5, <5>6, Zenon
        <5> QED
          BY <3>3, <4>3, <4>5, <5>7, Zenon DEF Over
      <4> QED
        BY <4>4, <4>5, Zenon
    <3>5. CASE ~has_manifest
      <4>1. wal = <<>> /\ sst \in [DOMAIN sst -> Tables] /\ last = Merge(sst)
        BY <3>5, Zenon DEF Untouched
      <4>2. Lookup(wal, k) = None
        <5>1. DOMAIN wal = {}
          BY <4>1
        <5> QED
          BY <5>1, Zenon DEF Lookup, Hits
      <4>3. l0' = DOMAIN sst
        BY <3>1, <4>1, RecoveryAssumption, Zenon DEF Openable
      <4>4. f = sst
        BY <4>1, <4>3, Zenon DEF Restrict
      <4>5. Lookup(f, k) = last[k]
        BY <4>1, <4>4, Zenon DEF Merge
      <4> QED
        BY <3>3, <4>2, <4>5, Zenon DEF Over
    <3> QED
      BY <3>4, <3>5, Zenon
  <2> QED
    BY <2>2, <2>3, Zenon
<1>2. CASE CtorAllocate
  <2>1. /\ pc = "allocate" /\ pc' # "down" /\ UNCHANGED <<l0, l1, sst, wal, last>>
    BY <1>2, Zenon DEF CtorAllocate
  <2> QED
    BY <2>1, Zenon DEF FilesCurrent, InLevels, CtorLabels
<1>3. CASE CtorOpenWal
  <2>1. /\ pc = "open_wal" /\ pc' # "down" /\ UNCHANGED <<l0, l1, sst, last>>
    BY <1>3, Zenon DEF CtorOpenWal
  <2>2. \A k \in Keys : Lookup(wal', k) = Lookup(wal, k)
    BY <1>3, WalOpen, Zenon
  <2> QED
    BY <2>1, <2>2, Zenon DEF FilesCurrent, InLevels, CtorLabels
<1>4. CASE Exit \/ Crash
  <2>1. /\ pc # "down" /\ pc \notin {"consume", "unlink_l0"} /\ pc' = "down"
        /\ UNCHANGED <<sst_levels, wal, last, starts>>
    BY <1>4, RecoveryAssumption, Zenon
       DEF Exit, Crash, Trusted, CtorLabels, UpLabels, FlushLabels, MergeLabels
  <2>2. l0 = LevelIds(0) /\ l1 = LevelIds(1)
    BY <2>1, Zenon DEF WorkFollows
  <2>3. LevelIds(0)' = l0 /\ LevelIds(1)' = l1
    BY <2>1, <2>2, Zenon DEF LevelIds
  <2>4. \A i \in DOMAIN sst_levels : sst'[i] = sst[i]
    <3>1. sst' = sst \/ (pc \in {"build", "build_l0"} /\ sst' = Assign(sst, ctx.new_sst_id, Broken))
      BY <1>4, Zenon DEF Exit, Crash
    <3>2. CASE sst' = Assign(sst, ctx.new_sst_id, Broken) /\ pc \in {"build", "build_l0"}
      <4>1. ctx.new_sst_id \notin DOMAIN sst_levels
        BY <3>2, Zenon DEF Inv, WorkKnown
      <4> QED
        BY <3>2, <4>1, LevelFiles, Zenon DEF Assign
    <3> QED
      BY <3>1, <3>2, Zenon
  <2>5. Restrict(sst', l0) = Restrict(sst, l0) /\ Restrict(sst', l1) = Restrict(sst, l1)
    BY <2>2, <2>4, Zenon DEF LevelIds, Restrict
  <2>6. ASSUME starts < MaxStarts, NEW k \in Keys
        PROVE  Visible(Over(Lookup(wal', k), InLevels(LevelIds(0), LevelIds(1), k)'))
                 = Visible(last'[k])
    <3>1. InLevels(LevelIds(0), LevelIds(1), k)' = InLevels(l0, l1, k)
      BY <2>3, <2>5, Zenon DEF InLevels
    <3>2. Visible(Over(Lookup(wal, k), InLevels(l0, l1, k))) = Visible(last[k])
      BY <2>1, <2>6, FilesSuffice, Zenon
    <3> QED
      BY <2>1, <3>1, <3>2, Zenon
  <2> QED
    BY <2>1, <2>6, Zenon DEF FilesCurrent, CtorLabels
<1>5. CASE pc' \in UpLabels
  BY <1>0, <1>5, Zenon DEF FilesCurrent, CtorLabels
<1>6. CASE Next /\ ~(CtorLoad \/ CtorAllocate \/ CtorOpenWal \/ Exit \/ Crash)
  <2>1. CASE \E k \in Keys, rec \in Records : PutInsert(k, rec) \/ PutSwitch(k, rec)
    <3>1. pc' \in UpLabels
      BY <2>1, Zenon DEF PutInsert, PutSwitch, MayPut, Up
    <3> QED
      BY <1>5, <3>1, Zenon
  <2>2. CASE ~\E k \in Keys, rec \in Records : PutInsert(k, rec) \/ PutSwitch(k, rec)
    <3>1. pc' \in UpLabels
      BY <1>6, <2>2, Zenon DEF Next, RecoverFromWals, FlushPrepare, FlushBuild, FlushAddSst,
         FlushUnlinkWal, MergePrepare, MergeBuild, MergeAddL1, ConsumeL0, UnlinkL0, Close,
         UpLabels, FlushLabels, MergeLabels
    <3> QED
      BY <1>5, <3>1, Zenon
  <2> QED
    BY <2>1, <2>2, Zenon
<1>7. CASE UNCHANGED vars
  BY <1>7, Zenon DEF vars, FilesCurrent, InLevels, LevelIds
<1> QED
  BY <1>1, <1>2, <1>3, <1>4, <1>6, <1>7, Zenon

-----------------------------------------------------------------------------
\* Every step keeps the directory, the manifest and the readers in agreement.
LEMMA InvStep ==
  ASSUME BoundedMax, Inv, [Next]_vars
  PROVE  Inv'
PROOF
<1>1. FieldTypes' /\ FileNumbersFresh' /\ NumbersKnown'
  BY TypesStep, NumbersStep, Zenon
<1>2. ManifestFilesOpen' /\ ReadersKnown' /\ WorkKnown'
  BY ManifestStep, Zenon
<1>3. l0' \subseteq DOMAIN sst' /\ l1' \subseteq DOMAIN sst'
  BY <1>2, Zenon DEF ReadersKnown, ManifestFilesOpen, LevelIds, Openable
<1> QED
  BY <1>1, <1>2, <1>3, Zenon DEF Inv, TypeOK, FieldTypes

\* The directory as the first process finds it: new, or SSTables without a manifest.
LEMMA InitRecovery ==
  ASSUME BoundedMax, Init
  PROVE  RecoveryInv
PROOF
<1>1. Inv
  BY InitInv, Zenon
<1>2. /\ pc = "down" /\ ~has_manifest /\ wal = <<>> /\ sst_levels = <<>> /\ ~closing
      /\ mem = EmptyTable /\ imm = EmptyTable /\ active_wal_id = 0 /\ imm_wal_id = 0
      /\ last = Merge(sst) /\ ~Up
  BY Zenon DEF Init, Up, UpLabels, FlushLabels, MergeLabels
<1>3. DOMAIN wal = {} /\ DOMAIN sst_levels = {}
  BY <1>2
<1>4. WorkFollows /\ WalsFollow
  BY <1>2, <1>3, Zenon DEF WorkFollows, WalsFollow, FlushLabels, Own
<1>5. Untouched
  <2>1. PICK n \in 0 .. MaxLegacy : sst \in [1 .. n -> Tables \ {EmptyTable}]
    BY Zenon DEF Init
  <2>2. sst \in [DOMAIN sst -> Tables]
    BY <2>1, Zenon
  <2> QED
    BY <1>2, <2>2, Zenon DEF Untouched
<1>6. NothingLeft
  BY <1>2, <1>3, Zenon DEF NothingLeft, Found
<1>7. \A k \in Keys : Lookup(wal, k) = None /\ Over(mem[k], imm[k]) = None
  BY <1>2, <1>3, Zenon DEF Lookup, Hits, EmptyTable, Over
<1>8. WalsCurrent /\ UnlistedHarmless /\ FilesCurrent /\ RecoversLatest
  BY <1>2, <1>7, Zenon DEF WalsCurrent, UnlistedHarmless, FilesCurrent, RecoversLatest, CtorLabels
<1> QED
  BY <1>1, <1>4, <1>5, <1>6, <1>8, Zenon DEF RecoveryInv

-----------------------------------------------------------------------------
WF == INSTANCE WellFoundedInduction

\* The hypothesis of the lemmas: the numbers are well-founded, so count down from the bound.
LEMMA BoundedMaxHolds == BoundedMax
PROOF
<1> SUFFICES ASSUME NEW n \in Nat, NEW S \in SUBSET Nat, S # {}, \A i \in S : i <= n
             PROVE  Max(S) \in S /\ \A i \in S : i <= Max(S)
  BY Zenon DEF BoundedMax
<1> DEFINE T == {j \in Nat : n - j \in S}
<1>1. T \subseteq Nat /\ T # {}
  <2>1. PICK i \in S : TRUE
    BY Zenon
  <2>2. n - i \in T
    BY <2>1
  <2> QED
    BY <2>2, Zenon
<1>2. PICK x \in T : \A y \in T : ~(<<y, x>> \in WF!OpToRel(<, Nat))
  <2> HIDE DEF T
  <2> QED
    BY <1>1, WF!WFMin, WF!NatLessThanWellFounded, Zenon
<1>3. \A y \in T : ~(y < x)
  BY <1>2, Zenon DEF WF!OpToRel
<1>4. n - x \in S
  BY Zenon
<1>5. \A i \in S : n - x >= i
  <2>1. TAKE i \in S
  <2>2. n - i \in T
    OBVIOUS
  <2>3. ~(n - i < x) /\ x \in Nat /\ i \in Nat
    BY <1>3, <2>2, Zenon
  <2> HIDE DEF T
  <2> QED
    BY <2>3
<1> QED
  BY <1>4, <1>5, Zenon DEF Max

\* RecoveryInv is inductive: it holds at every moment of every sequence of processes,
\* whichever of them put and wherever they crash (DBImpl's constructor, RecoveryLoader,
\* MinorCompaction, CompactL0ToL1 and the destructor).
THEOREM RecoveryInvariance == Spec => []RecoveryInv
PROOF
<1>1. RecoveryInv /\ [Next]_vars => RecoveryInv'
  <2> SUFFICES ASSUME RecoveryInv, [Next]_vars PROVE RecoveryInv'
    BY Zenon
  <2>0. BoundedMax
    BY BoundedMaxHolds
  <2>1. Inv /\ WorkFollows /\ WalsFollow /\ Untouched /\ (Unspoiled => NothingLeft)
    BY Zenon DEF RecoveryInv
  <2>2. Inv'
    BY <2>0, <2>1, InvStep, Zenon
  <2>3. WorkFollows' /\ WalsFollow' /\ Untouched'
    BY <2>0, <2>1, <2>2, WorkStep, WalsStep, UntouchedStep, Zenon
  <2>4. ASSUME Unspoiled' PROVE NothingLeft'
    <3>1. NothingLeft
      BY <2>1, <2>2, <2>4, UnspoiledBefore, Zenon
    <3>2. (has_manifest =>
             Unlisted \subseteq IF pc \in {"add_sst", "add_l1", "unlink_l0"}
                                  THEN {ctx.new_sst_id} ELSE {})'
      BY <2>1, <2>2, <2>4, <3>1, LeftFilesStep, Zenon
    <3>3. /\ \A i \in Found' : wal'[i] = EmptyTable
          /\ Up' => mem' = IF active_wal_id' \in DOMAIN wal' /\ active_wal_id' # imm_wal_id'
                             THEN wal'[active_wal_id'] ELSE EmptyTable
          /\ starts' \notin WriteLives => /\ pc' \in {"down", "idle"} \cup CtorLabels
                                          /\ imm_wal_id' = 0
      BY <2>1, <2>2, <2>3, <2>4, <3>1, LeftWalsStep, Zenon
    <3> QED
      BY <3>2, <3>3, Zenon DEF NothingLeft
  <2>5. ASSUME Trusted
        PROVE  WalsCurrent' /\ UnlistedHarmless' /\ FilesCurrent' /\ RecoversLatest'
    <3>1. WalsCurrent /\ UnlistedHarmless /\ FilesCurrent /\ RecoversLatest
      BY <2>5, Zenon DEF RecoveryInv
    <3>2. WalsCurrent'
      BY <2>0, <2>1, <2>2, <2>5, <3>1, WalsCurrentStep, Zenon
    <3>3. UnlistedHarmless'
      BY <2>0, <2>1, <2>2, <2>5, <3>1, UnlistedStep, Zenon
    <3>4. FilesCurrent' /\ RecoversLatest'
      BY <2>0, <2>1, <2>2, <2>5, <3>1, FilesStep, ViewStep, Zenon
    <3> QED
      BY <3>2, <3>3, <3>4, Zenon
  <2> QED
    BY <2>2, <2>3, <2>4, <2>5, Zenon DEF RecoveryInv, Trusted
<1>2. Init => RecoveryInv
  BY BoundedMaxHolds, InitRecovery, Zenon
<1> QED
  BY <1>1, <1>2, PTL DEF Spec

\* Nothing acknowledged is lost, nothing deleted comes back and nothing overwritten shows
\* again in a process that opens the directory, as long as recovery can be trusted: every
\* process closes in order or, when they may crash, none does while consume_l0 runs and
\* only one of them puts before the last.
THEOREM LatestRecovered == Spec => [](Trusted => RecoversLatest)
PROOF
<1>1. RecoveryInv => (Trusted => RecoversLatest)
  BY Zenon DEF RecoveryInv
<1> QED
  BY <1>1, RecoveryInvariance, PTL

\* Inv holds at every moment of every sequence of processes.
THEOREM Invariance == Spec => []Inv
PROOF
<1>1. RecoveryInv => Inv
  BY Zenon DEF RecoveryInv
<1> QED
  BY <1>1, RecoveryInvariance, PTL

\* No file number is used twice, wherever earlier processes crashed: a new WAL or
\* SSTable never lands on a file that is there (AllocateFileNumber,
\* InitNextFileNumberFromDisk).
THEOREM NumbersNeverReused == Spec => []FileNumbersFresh
PROOF
<1>1. Inv => FileNumbersFresh
  BY Zenon DEF Inv
<1> QED
  BY <1>1, Invariance, PTL

\* Every SSTable the manifest names exists and is complete, at every moment, so that
\* LoadSSTables skips none after a crash.
THEOREM ManifestNeverDangles == Spec => []ManifestFilesOpen
PROOF
<1>1. Inv => ManifestFilesOpen
  BY Zenon DEF Inv
<1> QED
  BY <1>1, Invariance, PTL

\* Type correctness, for every number of processes and every bound.
THEOREM RecoveryTypes == Spec => []TypeOK
PROOF
<1>1. Inv => TypeOK
  BY Zenon DEF Inv
<1> QED
  BY <1>1, Invariance, PTL
=============================================================================
