---------------------------- MODULE DBImplTypes -----------------------------
(***************************************************************************)
(* Proofs about DBImpl, first part: the types of the variables, the threads' *)
(* labels and the destructor; every step keeps the file numbers, levels_ and *)
(* the manifest in agreement, and a flush keeps its file; and every step     *)
(* keeps the WALs and SSTables of the directory accounted for.  For every    *)
(* set of threads, keys and values, every MemTable size and with or without  *)
(* failing builds.                                                           *)
(***************************************************************************)
EXTENDS DBImpl, TLAPS, WellFoundedInduction

-----------------------------------------------------------------------------
(* The newest-first search, for every set of keys and values (module LSM).    *)

\* A non-empty set of numbers with an upper bound has a largest element, which is
\* the one Max chooses.
LEMMA MaxOfBounded ==
  ASSUME NEW S \in SUBSET Nat, S # {}, NEW n \in Nat, \A i \in S : i <= n
  PROVE  Max(S) \in S /\ \A i \in S : i <= Max(S)
PROOF
<1> DEFINE T == {j \in Nat : n - j \in S}
<1>1. T \subseteq Nat /\ T # {}
  <2>1. PICK i \in S : TRUE
    BY Zenon
  <2>2. n - i \in T
    BY <2>1
  <2> QED
    BY <2>2, Zenon
<1>2. PICK x \in T : \A y \in T : ~(<<y, x>> \in OpToRel(<, Nat))
  <2> HIDE DEF T
  <2> QED
    BY <1>1, WFMin, NatLessThanWellFounded, Zenon
<1>3. \A y \in T : ~(y < x)
  BY <1>2, Zenon DEF OpToRel
<1>4. n - x \in S
  BY Zenon
<1>5. \A i \in S : n - x >= i
  <2>1. TAKE i \in S
  <2>2. n - i \in T
    OBVIOUS
  <2>3. ~(n - i < x) /\ x \in Nat /\ i \in Nat
    BY <1>3, <2>2, Zenon
  <2> HIDE DEF T
  <2> QED
    BY <2>3
<1> QED
  BY <1>4, <1>5, Zenon DEF Max

\* Nothing is found in an empty level.
LEMMA LookupEmpty == \A k : Lookup(<<>>, k) = None
  BY DEF Lookup, Hits

\* A search finds a record or nothing.
LEMMA LookupType ==
  ASSUME NEW s \in Seq(Tables), NEW k \in Keys
  PROVE  Lookup(s, k) \in Records \cup {None}
PROOF
<1>1. CASE Hits(s, k) = {}
  BY <1>1, Zenon DEF Lookup
<1>2. CASE Hits(s, k) # {}
  <2>1. Len(s) \in Nat /\ Hits(s, k) \in SUBSET Nat /\ \A i \in Hits(s, k) : i <= Len(s)
    BY DEF Hits
  <2>2. Max(Hits(s, k)) \in Hits(s, k)
    BY <1>2, <2>1, MaxOfBounded, Zenon
  <2> QED
    BY <1>2, <2>2 DEF Lookup, Hits, Tables
<1> QED
  BY <1>1, <1>2, Zenon

\* The table appended last is searched first, and the rest of the level only where
\* it has no record.
LEMMA LookupAppend ==
  ASSUME NEW s \in Seq(Tables), NEW t \in Tables, NEW k \in Keys
  PROVE  Lookup(Append(s, t), k) = Over(t[k], Lookup(s, k))
PROOF
<1> DEFINE n == Len(s) + 1
           a == Append(s, t)
<1>1. /\ n \in Nat /\ DOMAIN a = 1 .. n /\ a[n] = t
      /\ DOMAIN s = 1 .. (n - 1) /\ \A i \in DOMAIN s : a[i] = s[i]
  OBVIOUS
<1>2. CASE t[k] # None
  <2>1. n \in Hits(a, k) /\ Hits(a, k) \in SUBSET Nat /\ \A i \in Hits(a, k) : i <= n
    BY <1>1, <1>2 DEF Hits
  <2>2. Max(Hits(a, k)) = n
    <3>1. Max(Hits(a, k)) \in Hits(a, k) /\ \A i \in Hits(a, k) : i <= Max(Hits(a, k))
      BY <1>1, <2>1, MaxOfBounded, Zenon
    <3> HIDE DEF a
    <3> QED
      BY <2>1, <3>1, <1>1
  <2> QED
    BY <1>1, <1>2, <2>1, <2>2, Zenon DEF Lookup, Over
<1>3. CASE t[k] = None
  <2>1. Hits(a, k) = Hits(s, k)
    BY <1>1, <1>3 DEF Hits
  <2>2. CASE Hits(s, k) = {}
    BY <1>3, <2>1, <2>2, Zenon DEF Lookup, Over
  <2>3. CASE Hits(s, k) # {}
    <3>1. Hits(s, k) \in SUBSET Nat /\ \A i \in Hits(s, k) : i <= n
      BY <1>1 DEF Hits
    <3>2. Max(Hits(s, k)) \in Hits(s, k)
      BY <1>1, <2>3, <3>1, MaxOfBounded, Zenon
    <3>3. a[Max(Hits(s, k))] = s[Max(Hits(s, k))]
      BY <1>1, <3>2, Zenon DEF Hits
    <3> QED
      BY <1>3, <2>1, <2>3, <3>3, Zenon DEF Lookup, Over
  <2> QED
    BY <2>2, <2>3, Zenon
<1> QED
  BY <1>2, <1>3, Zenon

\* A compaction writes records or nothing.
LEMMA OutputType ==
  ASSUME NEW s0 \in Seq(Tables), NEW s1 \in Seq(Tables)
  PROVE  Output(Merge(s0), s1) \in Tables
  BY LookupType, Zenon DEF Output, Merge, Tables, Records

\* The merged table above L1 shows what L0 above L1 showed: a tombstone is left out
\* only where L1 has no value for it to hide (PrepareL0ToL1).
LEMMA OutputKeepsView ==
  ASSUME NEW s0 \in Seq(Tables), NEW s1 \in Seq(Tables), NEW k \in Keys
  PROVE  Visible(Over(Output(Merge(s0), s1)[k], Lookup(s1, k)))
           = Visible(Over(Lookup(s0, k), Lookup(s1, k)))
  BY LookupType, RecordAssumption, Zenon
     DEF Output, Merge, HasVisibleValueInL1, Visible, Over, Records

-----------------------------------------------------------------------------
(* DBImpl.                                                                    *)

USE DEF store_vars, disk_vars, flag_vars, read_vars, Goto, Flushers, Mergers

\* The tables behind the readers of a level (levels_) form a stack that can be searched.
LEMMA LevelType ==
  ASSUME TypeOK, NEW l \in Seq(Nat), Range(l) \subseteq DOMAIN sst
  PROVE  Level(l) \in Seq(Tables) /\ Len(Level(l)) = Len(l)
PROOF
<1>1. l \in [1 .. Len(l) -> Nat] /\ Len(l) \in Nat
  OBVIOUS
<1>2. \A i \in 1 .. Len(l) : sst[l[i]] \in Tables
  BY <1>1, Zenon DEF TypeOK, DiskTypeOK, Range
<1>3. Level(l) \in [1 .. Len(l) -> Tables]
  BY <1>1, <1>2, Zenon DEF Level
<1> QED
  BY <1>1, <1>3

\* MemTable::Put leaves a table.
LEMMA InsertType ==
  ASSUME NEW t \in Tables, NEW k \in Keys, NEW rec \in Records
  PROVE  Insert(t, k, rec) \in Tables
  BY Zenon DEF Insert, Tables

\* A read answers with a value or nothing for each key: Get and NewIterator hide
\* tombstones.
LEMMA AnswerType ==
  ASSUME TypeOK, FilesKnown, pc[Dtor] # "closed", NEW K \in SUBSET Keys, NEW s \in Tables
  PROVE  AnswerOf(K, s) \in [Keys -> Values \cup {None}]
PROOF
<1>1. Level(l0) \in Seq(Tables) /\ Level(l1) \in Seq(Tables)
  BY LevelType, Zenon DEF TypeOK, StoreTypeOK, FilesKnown, LevelIds
<1>2. \A k \in Keys : /\ Lookup(Level(l0), k) \in Records \cup {None}
                      /\ Lookup(Level(l1), k) \in Records \cup {None}
  BY <1>1, LookupType, Zenon
<1>3. \A k \in Keys : ImmRecord(k) \in Records \cup {None}
  BY Zenon DEF TypeOK, StoreTypeOK, ImmRecord, Tables
<1> QED
  BY <1>2, <1>3, Zenon DEF AnswerOf, BelowMem, Over, Visible, Tables, Records


\* Moving one thread to a label of its own, and waking the waiting ones (notify_all),
\* keeps every thread at a label of its code.
LEMMA PcStep ==
  ASSUME PcTypeOK, NEW t \in Threads, NEW label \in LabelsOf(t),
         pc' = [pc EXCEPT ![t] = label] \/ pc' = [Woken EXCEPT ![t] = label],
         bg_stopped' \in BOOLEAN, bg_compaction_scheduled' \in BOOLEAN,
         write_mu' \in Writers \cup {NoThread}
  PROVE  PcTypeOK'
PROOF
<1>1. \A u \in Threads : Woken[u] \in LabelsOf(u)
  BY Zenon DEF PcTypeOK, Woken, LabelsOf, MinorLabels, MergeLabels
<1>2. \A u \in Threads : pc'[u] \in LabelsOf(u)
  BY <1>1, Zenon DEF PcTypeOK, Woken
<1>3. pc' = [u \in Threads |-> pc'[u]]
  BY Zenon DEF PcTypeOK, Woken
<1>4. \A u \in Threads : LabelsOf(u)' = LabelsOf(u)
  BY Zenon DEF LabelsOf
<1> QED
  BY <1>2, <1>3, <1>4, Zenon DEF PcTypeOK

\* The steps of a flush and of a merge, and the return from them.
LEMMA MinorMoves ==
  ASSUME PcTypeOK, NEW t \in Flushers, NEW label \in MinorLabels \cup {"prepare_l0", Return(t)},
         Goto(t, label), UNCHANGED <<bg_stopped, bg_compaction_scheduled, write_mu>>
  PROVE  PcTypeOK'
PROOF
<1>1. t \in Threads /\ label \in LabelsOf(t)
  BY ThreadAssumption, Zenon DEF LabelsOf, Threads, Mergers, Flushers, MinorLabels, MergeLabels, Return
<1> QED
  BY <1>1, PcStep, Zenon DEF PcTypeOK, Goto

\* The same for a merge, which a caller may run as well.
LEMMA MergeMoves ==
  ASSUME PcTypeOK, NEW t \in Mergers, NEW label \in MergeLabels \cup {Return(t)},
         Goto(t, label), UNCHANGED <<bg_stopped, bg_compaction_scheduled, write_mu>>
  PROVE  PcTypeOK'
PROOF
<1>1. t \in Threads /\ label \in LabelsOf(t)
  BY ThreadAssumption, Zenon DEF LabelsOf, Threads, Mergers, Flushers, MinorLabels, MergeLabels, Return
<1> QED
  BY <1>1, PcStep, Zenon DEF PcTypeOK, Goto

\* Every action keeps every thread at a label of its code, and write_mu_ with a writer.
LEMMA PcTypeStep == PcTypeOK /\ [Next]_vars => PcTypeOK'
PROOF
<1> SUFFICES ASSUME PcTypeOK, [Next]_vars PROVE PcTypeOK'
  BY Zenon
<1> USE ThreadAssumption
<1>1. ASSUME NEW w \in Writers, NEW k \in Keys, NEW rec \in Records, PutLock(w, k, rec)
      PROVE PcTypeOK'
  BY <1>1, PcStep, Zenon DEF PcTypeOK, PutLock, LabelsOf, Threads, MinorLabels, MergeLabels, Return
<1>2. ASSUME NEW w \in Writers, PutHasRoom(w) PROVE PcTypeOK'
  BY <1>2, PcStep, Zenon DEF PcTypeOK, PutHasRoom, LabelsOf, Threads, MinorLabels, MergeLabels, Return
<1>3. ASSUME NEW w \in Writers, PutWait(w) PROVE PcTypeOK'
  BY <1>3, PcStep, Zenon DEF PcTypeOK, PutWait, LabelsOf, Threads, MinorLabels, MergeLabels, Return
<1>4. ASSUME NEW w \in Writers, PutSwitch(w) PROVE PcTypeOK'
  BY <1>4, PcStep, Zenon DEF PcTypeOK, PutSwitch, LabelsOf, Threads, MinorLabels, MergeLabels, Return
<1>5. ASSUME NEW w \in Writers, PutInsert(w) PROVE PcTypeOK'
  BY <1>5, PcStep, Zenon DEF PcTypeOK, PutInsert, LabelsOf, Threads, MinorLabels, MergeLabels, Return
<1>6. ASSUME NEW r \in Readers, NEW k \in Keys, GetMem(r, k) PROVE PcTypeOK'
  BY <1>6, PcStep, ZenonT(30) DEF PcTypeOK, GetMem, LabelsOf, Threads, MinorLabels, MergeLabels
<1>7. ASSUME NEW r \in Readers, IterMem(r) PROVE PcTypeOK'
  BY <1>7, PcStep, ZenonT(30) DEF PcTypeOK, IterMem, LabelsOf, Threads, MinorLabels, MergeLabels, Return
<1>8. ASSUME NEW r \in Readers, ReadRest(r) PROVE PcTypeOK'
  BY <1>8, PcStep, Zenon DEF PcTypeOK, ReadRest, LabelsOf, Threads, MinorLabels, MergeLabels, Return
<1>9. ASSUME NEW s \in Syncers, SyncCall(s) PROVE PcTypeOK'
  BY <1>9, PcStep, Zenon DEF PcTypeOK, SyncCall, LabelsOf, Threads, MinorLabels, MergeLabels, Return
<1>10. ASSUME NEW s \in Syncers, SyncCheck(s) PROVE PcTypeOK'
  BY <1>10, PcStep, Zenon DEF PcTypeOK, SyncCheck, LabelsOf, Threads, MinorLabels, MergeLabels, Return
<1>11. ASSUME NEW t \in Threads, SpuriousWakeup(t) PROVE PcTypeOK'
  BY <1>11, PcStep, ZenonT(30) DEF PcTypeOK, SpuriousWakeup, LabelsOf, Threads, MinorLabels, MergeLabels, Return
<1>12. CASE BgCheck
  BY <1>12, PcStep, Zenon DEF PcTypeOK, BgCheck, LabelsOf, Threads, MinorLabels, MergeLabels, Return
<1>13. CASE BgFinish
  BY <1>13, PcStep, Zenon DEF PcTypeOK, BgFinish, LabelsOf, Threads, MinorLabels, MergeLabels, Return
<1>14. ASSUME NEW t \in Flushers, MinorPrepare(t) PROVE PcTypeOK'
  BY <1>14, MinorMoves, Zenon DEF MinorPrepare, MinorLabels, flag_vars
<1>15. ASSUME NEW t \in Flushers, MinorBuild(t) PROVE PcTypeOK'
  BY <1>15, MinorMoves, Zenon DEF MinorBuild, MinorLabels, flag_vars
<1>16. ASSUME NEW t \in Flushers, MinorInstall(t) PROVE PcTypeOK'
  BY <1>16, MinorMoves, Zenon DEF MinorInstall, MinorLabels, flag_vars
<1>17. ASSUME NEW c \in Compactors, CompactCall(c) PROVE PcTypeOK'
  BY <1>17, MergeMoves, Zenon DEF CompactCall, MergeLabels, Mergers, flag_vars
<1>18. ASSUME NEW t \in Mergers, MergePrepare(t) PROVE PcTypeOK'
  BY <1>18, MergeMoves, Zenon DEF MergePrepare, MergeLabels, flag_vars
<1>19. ASSUME NEW t \in Mergers, MergeBuild(t) PROVE PcTypeOK'
  BY <1>19, MergeMoves, Zenon DEF MergeBuild, MergeLabels, flag_vars
<1>20. ASSUME NEW t \in Mergers, MergeInstall(t) PROVE PcTypeOK'
  BY <1>20, MergeMoves, Zenon DEF MergeInstall, MergeLabels, flag_vars
<1>21. CASE DtorStop
  BY <1>21, PcStep, Zenon DEF PcTypeOK, DtorStop, LabelsOf, Threads, MinorLabels, MergeLabels, Return
<1>22. CASE DtorJoin
  BY <1>22, PcStep, ZenonT(30) DEF PcTypeOK, DtorJoin, LabelsOf, Threads, MinorLabels, MergeLabels, Return
<1>23. CASE DtorFinish
  BY <1>23, PcStep, Zenon DEF PcTypeOK, DtorFinish, LabelsOf, Threads, MinorLabels, MergeLabels, Return
<1>24. CASE UNCHANGED vars
  BY <1>24, Zenon DEF PcTypeOK, vars, LabelsOf
<1> QED
  BY <1>1, <1>2, <1>3, <1>4, <1>5, <1>6, <1>7, <1>8, <1>9, <1>10, <1>11, <1>12, <1>13, <1>14,
     <1>15, <1>16, <1>17, <1>18, <1>19, <1>20, <1>21, <1>22, <1>23, <1>24, ZenonT(30)
     DEF Next, PutStep, MinorStep, MergeStep, DtorStep

\* The labels at which a thread holds a flush or a merge.
Work == {"build_minor", "install_minor", "build_l0", "install_l0"}

\* A step that moves no data and neither begins nor ends a flush or a merge.
Quiet ==
  /\ UNCHANGED <<store_vars, disk_vars, mctx, cctx, last>>
  /\ \A t \in Mergers : pc[t] \in Work \/ pc'[t] \in Work => pc'[t] = pc[t]
  /\ Open' => Open
  /\ pc'[Dtor] = "closed" <=> pc[Dtor] = "closed"

\* Locking, waiting, reading and waking are quiet; the other actions of DBImpl
\* are the ones an invariant about data has to look at.
LEMMA NextCases ==
  ASSUME TypeOK, [Next]_vars
  PROVE  \/ Quiet
         \/ \E w \in Writers : PutSwitch(w) \/ PutInsert(w)
         \/ \E t \in Flushers : MinorPrepare(t) \/ MinorBuild(t) \/ MinorInstall(t)
         \/ \E t \in Mergers : MergePrepare(t) \/ MergeBuild(t) \/ MergeInstall(t)
         \/ DtorJoin \/ DtorFinish
PROOF
<1> USE ThreadAssumption DEF TypeOK, PcTypeOK, Quiet, Work, Open, Threads
<1>1. ASSUME NEW w \in Writers, NEW k \in Keys, NEW rec \in Records, PutLock(w, k, rec) PROVE Quiet
  BY <1>1, Zenon DEF PutLock
<1>2. ASSUME NEW w \in Writers, PutHasRoom(w) PROVE Quiet
  BY <1>2, Zenon DEF PutHasRoom
<1>3. ASSUME NEW w \in Writers, PutWait(w) PROVE Quiet
  BY <1>3, Zenon DEF PutWait
<1>4. ASSUME NEW r \in Readers, NEW k \in Keys, GetMem(r, k) PROVE Quiet
  BY <1>4, Zenon DEF GetMem
<1>5. ASSUME NEW r \in Readers, IterMem(r) PROVE Quiet
  BY <1>5, Zenon DEF IterMem
<1>6. ASSUME NEW r \in Readers, ReadRest(r) PROVE Quiet
  BY <1>6, Zenon DEF ReadRest
<1>7. ASSUME NEW s \in Syncers, SyncCall(s) PROVE Quiet
  BY <1>7, Zenon DEF SyncCall
<1>8. ASSUME NEW s \in Syncers, SyncCheck(s) PROVE Quiet
  BY <1>8, Zenon DEF SyncCheck
<1>9. ASSUME NEW t \in Threads, SpuriousWakeup(t) PROVE Quiet
  BY <1>9, Zenon DEF SpuriousWakeup
<1>10. ASSUME BgCheck PROVE Quiet
  BY <1>10, Zenon DEF BgCheck
<1>11. ASSUME BgFinish PROVE Quiet
  BY <1>11, Zenon DEF BgFinish, Woken
<1>12. ASSUME NEW c \in Compactors, CompactCall(c) PROVE Quiet
  BY <1>12, Zenon DEF CompactCall
<1>13. ASSUME DtorStop PROVE Quiet
  BY <1>13, Zenon DEF DtorStop, Woken
<1>14. ASSUME UNCHANGED vars PROVE Quiet
  BY <1>14, Zenon DEF vars
<1> QED
  BY <1>1, <1>2, <1>3, <1>4, <1>5, <1>6, <1>7, <1>8, <1>9, <1>10, <1>11, <1>12, <1>13, <1>14, ZenonT(30)
     DEF Next, PutStep, MinorStep, MergeStep, DtorStep

\* A Put under way keeps the database open and has its record in hand.
LEMMA PutUnderWay ==
  ASSUME Inv, NEW w \in Writers, pc[w] # "idle"
  PROVE  pc[Dtor] = "idle" /\ mem \in Tables /\ arg[w] \in Keys \X Records
  BY ThreadAssumption, Zenon DEF Inv, DtorAlone, Threads, TypeOK, StoreTypeOK, Open

\* A flush or merge under way keeps the readers from being deleted.
LEMMA MergeUnderWay ==
  ASSUME Inv, NEW t \in Mergers, pc[t] \in Work \cup {"minor", "prepare_l0"}
  PROVE  /\ pc[Dtor] # "closed" /\ (t # Dtor => Open)
         /\ Level(l0) \in Seq(Tables) /\ Len(Level(l0)) = Len(l0)
         /\ Level(l1) \in Seq(Tables) /\ Len(Level(l1)) = Len(l1)
PROOF
<1>1. pc[Dtor] # "closed" /\ (t # Dtor => Open)
  BY ThreadAssumption, Zenon DEF Inv, DtorAlone, Threads, Work, Open
<1>2. Range(l0) \subseteq DOMAIN sst /\ Range(l1) \subseteq DOMAIN sst
  BY <1>1, Zenon DEF Inv, FilesKnown, LevelIds
<1> QED
  BY <1>1, <1>2, LevelType, Zenon DEF Inv, TypeOK, StoreTypeOK

\* Every action keeps the types of mem_, imm_ and levels_.
LEMMA StoreTypeStep ==
  ASSUME Inv, [Next]_vars
  PROVE  StoreTypeOK'
PROOF
<1> USE ThreadAssumption DEF StoreTypeOK, Open
<1>0. StoreTypeOK /\ DiskTypeOK /\ PcTypeOK /\ LocalTypeOK
  BY Zenon DEF Inv, TypeOK
<1>e. EmptyTable \in Tables
  BY Zenon DEF EmptyTable, Tables
<1>1. CASE Quiet
  BY <1>0, <1>1, Zenon DEF Quiet
<1>2. ASSUME NEW w \in Writers, PutSwitch(w) PROVE StoreTypeOK'
  BY <1>0, <1>e, <1>2, PutUnderWay
     DEF PutSwitch, AllocateFileNumber, DiskTypeOK, PcTypeOK, Threads, Woken
<1>3. ASSUME NEW w \in Writers, PutInsert(w) PROVE StoreTypeOK'
  <2>1. pc[Dtor] = "idle" /\ mem \in Tables /\ arg[w][1] \in Keys /\ arg[w][2] \in Records
    BY <1>3, PutUnderWay, Zenon DEF PutInsert
  <2>2. mem' \in Tables /\ last' \in Tables
    BY <1>0, <2>1, <1>3, InsertType, Zenon DEF PutInsert
  <2> QED
    BY <1>0, <2>1, <2>2, <1>3, Zenon DEF PutInsert
<1>4. ASSUME NEW t \in Flushers, MinorPrepare(t) PROVE StoreTypeOK'
  BY <1>0, <1>4, Zenon DEF MinorPrepare, PcTypeOK, Threads, Return
<1>5. ASSUME NEW t \in Flushers, MinorBuild(t) PROVE StoreTypeOK'
  BY <1>0, <1>5, ZenonT(30) DEF MinorBuild, PcTypeOK, Threads, Return
<1>6. ASSUME NEW t \in Flushers, MinorInstall(t) PROVE StoreTypeOK'
  <2>1. mctx[t].new_sst_id \in Nat
    BY <1>0, <1>6, Zenon DEF LocalTypeOK
  <2> QED
    BY <1>0, <2>1, <1>6 DEF MinorInstall, PcTypeOK, Threads, Return
<1>7. ASSUME NEW t \in Mergers, MergePrepare(t) PROVE StoreTypeOK'
  BY <1>0, <1>7, ZenonT(30) DEF MergePrepare, PcTypeOK, Threads, Return
<1>8. ASSUME NEW t \in Mergers, MergeBuild(t) PROVE StoreTypeOK'
  BY <1>0, <1>8, ZenonT(30) DEF MergeBuild, PcTypeOK, Threads, Return
<1>9. ASSUME NEW t \in Mergers, MergeInstall(t) PROVE StoreTypeOK'
  <2>1. cctx[t].new_sst_id \in Nat
    BY <1>0, <1>9, Zenon DEF LocalTypeOK
  <2>2. <<>> \in Seq(Nat) /\ Append(l1, cctx[t].new_sst_id) \in Seq(Nat)
    BY <1>0, <2>1
  <2>3. l0' \in {l0, <<>>} /\ l1' \in {l1, Append(l1, cctx[t].new_sst_id)}
    BY <1>9, Zenon DEF MergeInstall
  <2> QED
    BY <1>0, <2>2, <2>3, <1>9, Zenon DEF MergeInstall, PcTypeOK, Threads, Return
<1>10. CASE DtorJoin
  BY <1>0, <1>10, Zenon DEF DtorJoin, PcTypeOK, Threads
<1>11. CASE DtorFinish
  BY <1>0, <1>11 DEF DtorFinish, PcTypeOK, Threads
<1> QED
  BY NextCases, <1>1, <1>2, <1>3, <1>4, <1>5, <1>6, <1>7, <1>8, <1>9, <1>10, <1>11, ZenonT(30) DEF Inv

\* Every action keeps the types of the manifest and of the directory.
LEMMA DiskTypeStep ==
  ASSUME Inv, [Next]_vars
  PROVE  DiskTypeOK'
PROOF
<1> USE DEF DiskTypeOK
<1>0. StoreTypeOK /\ DiskTypeOK /\ PcTypeOK /\ LocalTypeOK
  BY Zenon DEF Inv, TypeOK
<1>e. EmptyTable \in Tables
  BY Zenon DEF EmptyTable, Tables
<1>1. CASE Quiet
  BY <1>0, <1>1, Zenon DEF Quiet
<1>2. ASSUME NEW w \in Writers, PutSwitch(w) PROVE DiskTypeOK'
  BY <1>0, <1>e, <1>2 DEF PutSwitch, AllocateFileNumber, Assign
<1>3. ASSUME NEW w \in Writers, PutInsert(w) PROVE DiskTypeOK'
  <2>1. arg[w][1] \in Keys /\ arg[w][2] \in Records
    BY <1>3, PutUnderWay, Zenon DEF PutInsert
  <2>2. wal' \in [DOMAIN wal -> Tables]
    BY <1>0, <2>1, <1>3, InsertType, Zenon DEF PutInsert
  <2> QED
    BY <1>0, <2>2, <1>3, Zenon DEF PutInsert
<1>4. ASSUME NEW t \in Flushers, MinorPrepare(t) PROVE DiskTypeOK'
  BY <1>0, <1>4 DEF MinorPrepare, AllocateFileNumber
<1>5. ASSUME NEW t \in Flushers, MinorBuild(t) PROVE DiskTypeOK'
  <2>1. mctx[t].new_sst_id \in Nat /\ mctx[t].flushing_imm \in Tables
    BY <1>0, <1>5, Zenon DEF LocalTypeOK
  <2> QED
    BY <1>0, <2>1, <1>5, Zenon DEF MinorBuild, Assign
<1>6. ASSUME NEW t \in Flushers, MinorInstall(t) PROVE DiskTypeOK'
  <2>1. mctx[t].new_sst_id \in Nat
    BY <1>0, <1>6, Zenon DEF LocalTypeOK
  <2>2. DOMAIN sst_levels' \subseteq Nat /\ sst_levels' \in [DOMAIN sst_levels' -> {0, 1}]
    BY <1>0, <2>1, <1>6, Zenon DEF MinorInstall, Assign
  <2>3. DOMAIN wal' \subseteq Nat /\ wal' \in [DOMAIN wal' -> Tables]
    BY <1>0, <2>1, <1>6, Zenon DEF MinorInstall, Erase
  <2> QED
    BY <1>0, <2>1, <2>2, <2>3, <1>6, Zenon DEF MinorInstall
<1>7. ASSUME NEW t \in Mergers, MergePrepare(t) PROVE DiskTypeOK'
  BY <1>0, <1>7 DEF MergePrepare, AllocateFileNumber
<1>8. ASSUME NEW t \in Mergers, MergeBuild(t) PROVE DiskTypeOK'
  <2>1. cctx[t].new_sst_id \in Nat /\ cctx[t].output \in Tables
    BY <1>0, <1>8, Zenon DEF LocalTypeOK
  <2> QED
    BY <1>0, <2>1, <1>8, Zenon DEF MergeBuild, Assign
<1>9. ASSUME NEW t \in Mergers, MergeInstall(t) PROVE DiskTypeOK'
  <2>1. cctx[t].new_sst_id \in Nat
    BY <1>0, <1>9, Zenon DEF LocalTypeOK
  <2>2. DOMAIN sst_levels' \subseteq Nat /\ sst_levels' \in [DOMAIN sst_levels' -> {0, 1}]
    <3> DEFINE published == Assign(sst_levels, cctx[t].new_sst_id, 1)
    <3>1. \/ sst_levels' = sst_levels
          \/ \E lv \in {sst_levels, published} : sst_levels' = Erase(lv, cctx[t].l0_input_ids)
      BY <1>9, Zenon DEF MergeInstall
    <3>2. DOMAIN published \subseteq Nat /\ published \in [DOMAIN published -> {0, 1}]
      BY <1>0, <2>1, Zenon DEF Assign
    <3> HIDE DEF published
    <3> QED
      BY <1>0, <3>1, <3>2, Zenon DEF Erase
  <2>3. DOMAIN sst' \subseteq Nat /\ sst' \in [DOMAIN sst' -> Tables]
    BY <1>0, <1>9, Zenon DEF MergeInstall, Erase
  <2> QED
    BY <1>0, <2>2, <2>3, <1>9, Zenon DEF MergeInstall
<1>10. CASE DtorJoin
  BY <1>0, <1>10, Zenon DEF DtorJoin
<1>11. CASE DtorFinish
  BY <1>0, <1>11, Zenon DEF DtorFinish
<1> QED
  BY NextCases, <1>1, <1>2, <1>3, <1>4, <1>5, <1>6, <1>7, <1>8, <1>9, <1>10, <1>11, ZenonT(30) DEF Inv

\* Every action keeps the types of the locals of Put, Get, MinorCompaction and
\* CompactL0ToL1.
LEMMA LocalTypeStep ==
  ASSUME Inv, [Next]_vars
  PROVE  LocalTypeOK'
PROOF
<1> USE ThreadAssumption DEF LocalTypeOK
<1>0. StoreTypeOK /\ DiskTypeOK /\ PcTypeOK /\ LocalTypeOK /\ TypeOK
  BY Zenon DEF Inv, TypeOK
<1>e. /\ EmptyTable \in Tables
      /\ NoMinor \in [flushing_imm : Tables, new_sst_id : Nat, old_wal_id : Nat]
  BY Zenon DEF EmptyTable, Tables, NoMinor
<1>f. NoMerge \in [l0_input_ids : SUBSET Nat, expected_l0_reader_count : Nat,
                   new_sst_id : Nat, output : Tables]
  BY <1>e, Zenon DEF NoMerge
<1>g. Open => \A K \in SUBSET Keys : MemSnapshot(K) \in Tables
  BY <1>0, Zenon DEF MemSnapshot, StoreTypeOK, Tables
<1>1. ASSUME NEW w \in Writers, NEW k \in Keys, NEW rec \in Records, PutLock(w, k, rec)
      PROVE LocalTypeOK'
  BY <1>0, <1>1, Zenon DEF PutLock
<1>2. ASSUME NEW w \in Writers, PutHasRoom(w) PROVE LocalTypeOK'
  BY <1>0, <1>2, Zenon DEF PutHasRoom
<1>3. ASSUME NEW w \in Writers, PutWait(w) PROVE LocalTypeOK'
  BY <1>0, <1>3, Zenon DEF PutWait
<1>4. ASSUME NEW w \in Writers, PutSwitch(w) PROVE LocalTypeOK'
  BY <1>0, <1>4, Zenon DEF PutSwitch
<1>5. ASSUME NEW w \in Writers, PutInsert(w) PROVE LocalTypeOK'
  BY <1>0, <1>5, Zenon DEF PutInsert
<1>6. ASSUME NEW r \in Readers, NEW k \in Keys, GetMem(r, k) PROVE LocalTypeOK'
  <2>1. Open /\ pc[Dtor] # "closed" /\ {k} \in SUBSET Keys
    BY <1>6, Zenon DEF GetMem, MayCall, Open
  <2>2. MemSnapshot({k}) \in Tables
    BY <1>g, <2>1, Zenon
  <2>3. AnswerOf({k}, MemSnapshot({k})) \in [Keys -> Values \cup {None}]
    BY <1>0, <2>1, <2>2, AnswerType, Zenon DEF Inv
  <2>4. /\ want' \in {want, [want EXCEPT ![r] = {k}]}
        /\ seen' \in {seen, [seen EXCEPT ![r] = MemSnapshot({k})]}
        /\ answer' \in {answer, [answer EXCEPT ![r] = AnswerOf({k}, MemSnapshot({k}))]}
        /\ UNCHANGED <<arg, mctx, cctx>>
    BY <1>6, Zenon DEF GetMem
  <2>5. want' \in [Readers -> SUBSET Keys]
    BY <1>0, <2>1, <2>4
  <2>6. seen' \in [Readers -> Tables]
    BY <1>0, <2>2, <2>4
  <2>7. answer' \in [Readers -> [Keys -> Values \cup {None}]]
    <3> DEFINE A == [Keys -> Values \cup {None}]
               a == AnswerOf({k}, MemSnapshot({k}))
    <3>1. answer \in [Readers -> A]
      BY <1>0, Zenon
    <3>2. a \in A /\ answer' \in {answer, [answer EXCEPT ![r] = a]}
      BY <2>3, <2>4, Zenon
    <3> HIDE DEF A, a
    <3>3. answer' \in [Readers -> A]
      BY <3>1, <3>2, Zenon
    <3> QED
      BY <3>3, Zenon DEF A
  <2> QED
    BY <1>0, <2>4, <2>5, <2>6, <2>7, Zenon
<1>7. ASSUME NEW r \in Readers, IterMem(r) PROVE LocalTypeOK'
  <2>1. MemSnapshot(Keys) \in Tables
    BY <1>g, <1>7, Zenon DEF IterMem, MayCall, Open
  <2> QED
    BY <1>0, <2>1, <1>7, Zenon DEF IterMem
<1>8. ASSUME NEW r \in Readers, ReadRest(r) PROVE LocalTypeOK'
  <2>1. pc[Dtor] # "closed" /\ want[r] \in SUBSET Keys /\ seen[r] \in Tables
    BY <1>0, <1>8, Zenon DEF ReadRest, Inv, DtorAlone, Threads
  <2>2. AnswerOf(want[r], seen[r]) \in [Keys -> Values \cup {None}]
    BY <1>0, <2>1, AnswerType, Zenon DEF Inv
  <2> QED
    BY <1>0, <1>e, <2>2, <1>8, Zenon DEF ReadRest
<1>9. ASSUME NEW s \in Syncers, SyncCall(s) PROVE LocalTypeOK'
  BY <1>0, <1>9, Zenon DEF SyncCall
<1>10. ASSUME NEW s \in Syncers, SyncCheck(s) PROVE LocalTypeOK'
  BY <1>0, <1>10, Zenon DEF SyncCheck
<1>11. ASSUME NEW t \in Threads, SpuriousWakeup(t) PROVE LocalTypeOK'
  BY <1>0, <1>11, Zenon DEF SpuriousWakeup
<1>12. CASE BgCheck
  BY <1>0, <1>12, Zenon DEF BgCheck
<1>13. CASE BgFinish
  BY <1>0, <1>13, Zenon DEF BgFinish
<1>14. ASSUME NEW t \in Flushers, MinorPrepare(t) PROVE LocalTypeOK'
  <2>1. CASE imm # Null
    BY <1>0, <2>1, <1>14, SMTT(30) DEF MinorPrepare, AllocateFileNumber, StoreTypeOK, DiskTypeOK
  <2>2. CASE imm = Null
    BY <1>0, <2>2, <1>14, Zenon DEF MinorPrepare
  <2> QED
    BY <2>1, <2>2, Zenon
<1>15. ASSUME NEW t \in Flushers, MinorBuild(t) PROVE LocalTypeOK'
  BY <1>0, <1>e, <1>15 DEF MinorBuild
<1>16. ASSUME NEW t \in Flushers, MinorInstall(t) PROVE LocalTypeOK'
  BY <1>0, <1>e, <1>16, Zenon DEF MinorInstall
<1>17. ASSUME NEW c \in Compactors, CompactCall(c) PROVE LocalTypeOK'
  BY <1>0, <1>17, Zenon DEF CompactCall
<1>18. ASSUME NEW t \in Mergers, MergePrepare(t) PROVE LocalTypeOK'
  <2> DEFINE ctx == [l0_input_ids |-> LevelIds(0), expected_l0_reader_count |-> Len(l0),
                    new_sst_id |-> IF Merge(Level(l0)) = EmptyTable THEN 0 ELSE next_file_number',
                    output |-> Output(Merge(Level(l0)), Level(l1))]
  <2>1. Output(Merge(Level(l0)), Level(l1)) \in Tables
    BY <1>18, MergeUnderWay, OutputType, Zenon DEF MergePrepare
  <2>2. LevelIds(0) \in SUBSET Nat /\ Len(l0) \in Nat
    BY <1>0 DEF LevelIds, DiskTypeOK, StoreTypeOK
  <2>3. Merge(Level(l0)) # EmptyTable => UNCHANGED cctx \/ next_file_number' \in Nat
    BY <1>0, <1>18, SMTT(30) DEF MergePrepare, AllocateFileNumber, DiskTypeOK
  <2>4. UNCHANGED cctx \/ cctx' = [cctx EXCEPT ![t] = ctx]
    BY <1>18, Zenon DEF MergePrepare
  <2>5. UNCHANGED cctx \/ ctx \in [l0_input_ids : SUBSET Nat, expected_l0_reader_count : Nat,
                                   new_sst_id : Nat, output : Tables]
    BY <2>1, <2>2, <2>3, Zenon
  <2>6. UNCHANGED <<arg, want, seen, answer, mctx>>
    BY <1>18, Zenon DEF MergePrepare
  <2> HIDE DEF ctx
  <2> QED
    BY <1>0, <2>4, <2>5, <2>6, SMTT(30)
<1>19. ASSUME NEW t \in Mergers, MergeBuild(t) PROVE LocalTypeOK'
  BY <1>0, <1>f, <1>19, SMTT(30) DEF MergeBuild
<1>20. ASSUME NEW t \in Mergers, MergeInstall(t) PROVE LocalTypeOK'
  BY <1>0, <1>f, <1>20, Zenon DEF MergeInstall
<1>21. CASE DtorStop
  BY <1>0, <1>21, Zenon DEF DtorStop
<1>22. CASE DtorJoin
  BY <1>0, <1>22, Zenon DEF DtorJoin
<1>23. CASE DtorFinish
  BY <1>0, <1>23, Zenon DEF DtorFinish
<1>24. CASE UNCHANGED vars
  BY <1>0, <1>24, Zenon DEF vars
<1> QED
  BY <1>1, <1>2, <1>3, <1>4, <1>5, <1>6, <1>7, <1>8, <1>9, <1>10, <1>11, <1>12, <1>13, <1>14,
     <1>15, <1>16, <1>17, <1>18, <1>19, <1>20, <1>21, <1>22, <1>23, <1>24, Zenon
     DEF Next, PutStep, MinorStep, MergeStep, DtorStep

\* Every action respects the destructor: no call begins once it has started, and the
\* background thread is gone before it flushes.
LEMMA DtorAloneStep ==
  ASSUME Inv, [Next]_vars
  PROVE  DtorAlone'
PROOF
<1> USE ThreadAssumption DEF DtorAlone, Threads
<1>0. DtorAlone /\ PcTypeOK /\ LocalTypeOK
  BY Zenon DEF Inv, TypeOK
<1>1. ASSUME NEW w \in Writers, NEW k \in Keys, NEW rec \in Records, PutLock(w, k, rec)
      PROVE DtorAlone'
  BY <1>0, <1>1, Zenon DEF PutLock, PcTypeOK, LocalTypeOK, MayCallAndAllocate, MayCall
<1>2. ASSUME NEW w \in Writers, PutHasRoom(w) PROVE DtorAlone'
  BY <1>0, <1>2, Zenon DEF PutHasRoom, PcTypeOK
<1>3. ASSUME NEW w \in Writers, PutWait(w) PROVE DtorAlone'
  BY <1>0, <1>3, Zenon DEF PutWait, PcTypeOK
<1>4. ASSUME NEW w \in Writers, PutSwitch(w) PROVE DtorAlone'
  BY <1>0, <1>4, Zenon DEF PutSwitch, PcTypeOK, Woken
<1>5. ASSUME NEW w \in Writers, PutInsert(w) PROVE DtorAlone'
  BY <1>0, <1>5, Zenon DEF PutInsert, PcTypeOK, LocalTypeOK
<1>6. ASSUME NEW r \in Readers, NEW k \in Keys, GetMem(r, k) PROVE DtorAlone'
  BY <1>0, <1>6, ZenonT(30) DEF GetMem, PcTypeOK, MayCall
<1>7. ASSUME NEW r \in Readers, IterMem(r) PROVE DtorAlone'
  BY <1>0, <1>7, ZenonT(30) DEF IterMem, PcTypeOK, MayCall
<1>8. ASSUME NEW r \in Readers, ReadRest(r) PROVE DtorAlone'
  BY <1>0, <1>8, Zenon DEF ReadRest, PcTypeOK
<1>9. ASSUME NEW s \in Syncers, SyncCall(s) PROVE DtorAlone'
  BY <1>0, <1>9, ZenonT(30) DEF SyncCall, PcTypeOK, MayCall
<1>10. ASSUME NEW s \in Syncers, SyncCheck(s) PROVE DtorAlone'
  BY <1>0, <1>10, Zenon DEF SyncCheck, PcTypeOK
<1>11. ASSUME NEW t \in Threads, SpuriousWakeup(t) PROVE DtorAlone'
  BY <1>0, <1>11, Zenon DEF SpuriousWakeup, PcTypeOK
<1>12. CASE BgCheck
  BY <1>0, <1>12, Zenon DEF BgCheck, PcTypeOK
<1>13. CASE BgFinish
  BY <1>0, <1>13, Zenon DEF BgFinish, PcTypeOK, Woken
<1>14. ASSUME NEW t \in Flushers, MinorPrepare(t) PROVE DtorAlone'
  BY <1>0, <1>14, Zenon DEF MinorPrepare, PcTypeOK, Return
<1>15. ASSUME NEW t \in Flushers, MinorBuild(t) PROVE DtorAlone'
  BY <1>0, <1>15, ZenonT(30) DEF MinorBuild, PcTypeOK, Return
<1>16. ASSUME NEW t \in Flushers, MinorInstall(t) PROVE DtorAlone'
  BY <1>0, <1>16, Zenon DEF MinorInstall, PcTypeOK, Return
<1>17. ASSUME NEW c \in Compactors, CompactCall(c) PROVE DtorAlone'
  BY <1>0, <1>17, ZenonT(30) DEF CompactCall, PcTypeOK, MayCall, MayCallAndAllocate
<1>18. ASSUME NEW t \in Mergers, MergePrepare(t) PROVE DtorAlone'
  BY <1>0, <1>18, ZenonT(30) DEF MergePrepare, PcTypeOK, Return
<1>19. ASSUME NEW t \in Mergers, MergeBuild(t) PROVE DtorAlone'
  BY <1>0, <1>19, ZenonT(30) DEF MergeBuild, PcTypeOK, Return
<1>20. ASSUME NEW t \in Mergers, MergeInstall(t) PROVE DtorAlone'
  BY <1>0, <1>20, Zenon DEF MergeInstall, PcTypeOK, Return
<1>21. CASE DtorStop
  BY <1>0, <1>21, Zenon DEF DtorStop, PcTypeOK, Woken
<1>22. CASE DtorJoin
  BY <1>0, <1>22, Zenon DEF DtorJoin, PcTypeOK
<1>23. CASE DtorFinish
  BY <1>0, <1>23, Zenon DEF DtorFinish, PcTypeOK
<1>24. CASE UNCHANGED vars
  BY <1>0, <1>24, Zenon DEF vars
<1> QED
  BY <1>1, <1>2, <1>3, <1>4, <1>5, <1>6, <1>7, <1>8, <1>9, <1>10, <1>11, <1>12, <1>13, <1>14,
     <1>15, <1>16, <1>17, <1>18, <1>19, <1>20, <1>21, <1>22, <1>23, <1>24, ZenonT(30)
     DEF Next, PutStep, MinorStep, MergeStep, DtorStep

-----------------------------------------------------------------------------
(* File numbers, levels_, the manifest, and a flush's file.                 *)

\* A file about to be installed is still so while its thread stays where it is.
LEMMA StaysInFlight ==
  ASSUME NEW i, InFlight(i),
         \A t \in Flushers : pc[t] = "install_minor" /\ mctx[t].new_sst_id = i
                              => pc'[t] = pc[t] /\ mctx'[t] = mctx[t],
         \A t \in Mergers : pc[t] = "install_l0" /\ cctx[t].new_sst_id = i
                             => pc'[t] = pc[t] /\ cctx'[t] = cctx[t]
  PROVE  InFlight(i)'
PROOF
<1>1. ASSUME NEW t \in Flushers, pc[t] = "install_minor", mctx[t].new_sst_id = i
      PROVE  InFlight(i)'
  <2>1. pc'[t] = "install_minor" /\ mctx'[t].new_sst_id = i
    BY <1>1, Zenon
  <2> QED
    BY <2>1, Zenon DEF InFlight
<1>2. ASSUME NEW t \in Mergers, pc[t] = "install_l0", cctx[t].new_sst_id = i
      PROVE  InFlight(i)'
  <2>1. pc'[t] = "install_l0" /\ cctx'[t].new_sst_id = i
    BY <1>2, Zenon
  <2> QED
    BY <2>1, Zenon DEF InFlight
<1> QED
  BY <1>1, <1>2, Zenon DEF InFlight

USE DEF store_vars, disk_vars, flag_vars, read_vars, Goto, Flushers, Mergers

\* Publishing a number newer than a whole level (levels_[n].push_back) keeps the level
\* in ascending order.
LEMMA AppendFacts ==
  ASSUME NEW s \in Seq(Nat), NEW e \in Nat
  PROVE  /\ Range(Append(s, e)) = Range(s) \cup {e}
         /\ Ascending(s) /\ (\A j \in Range(s) : j < e) => Ascending(Append(s, e))
PROOF
<1>1. /\ Len(s) \in Nat /\ DOMAIN s = 1 .. Len(s)
      /\ DOMAIN Append(s, e) = DOMAIN s \cup {Len(s) + 1}
      /\ Append(s, e)[Len(s) + 1] = e /\ \A i \in DOMAIN s : Append(s, e)[i] = s[i]
  OBVIOUS
<1>2. Len(s) + 1 \notin DOMAIN s
  BY <1>1
<1>3. Range(Append(s, e)) = Range(s) \cup {e}
  BY <1>1, ZenonT(30) DEF Range
<1>4. ASSUME Ascending(s), \A j \in Range(s) : j < e,
             NEW i \in DOMAIN Append(s, e), NEW j \in DOMAIN Append(s, e), i < j
      PROVE  Append(s, e)[i] < Append(s, e)[j]
  <2>1. i \in DOMAIN s
    BY <1>1, <1>4
  <2>2. CASE j \in DOMAIN s
    BY <1>1, <1>4, <2>1, <2>2, Zenon DEF Ascending
  <2>3. CASE j = Len(s) + 1
    BY <1>1, <1>4, <2>1, <2>3, Zenon DEF Range
  <2> QED
    BY <1>1, <1>4, <2>2, <2>3, Zenon
<1> QED
  BY <1>3, <1>4, Zenon DEF Ascending

\* At most one of the background thread and the destructor is flushing or merging.
LEMMA OneFlusher ==
  ASSUME Inv, NEW t \in Flushers, pc[t] \in Work \cup {"minor", "prepare_l0"},
         NEW u \in Flushers, pc[u] \in Work \cup {"minor", "prepare_l0"}
  PROVE  u = t
  BY ThreadAssumption, Zenon DEF Inv, DtorAlone, Work

\* Every action keeps the readers in memory equal to the files of the manifest.
LEMMA FilesKnownStep ==
  ASSUME Inv, [Next]_vars
  PROVE  FilesKnown'
PROOF
<1> USE ThreadAssumption DEF FilesKnown, LevelIds
<1>0. StoreTypeOK /\ DiskTypeOK /\ PcTypeOK /\ LocalTypeOK /\ FilesKnown
  BY Zenon DEF Inv, TypeOK
<1>1. CASE Quiet
  BY <1>0, <1>1, Zenon DEF Quiet, Ascending
<1>2. ASSUME NEW w \in Writers, PutSwitch(w) PROVE FilesKnown'
  BY <1>0, <1>2, PutUnderWay DEF PutSwitch, AllocateFileNumber, DiskTypeOK, Ascending
<1>3. ASSUME NEW w \in Writers, PutInsert(w) PROVE FilesKnown'
  BY <1>0, <1>3, PutUnderWay, Zenon DEF PutInsert, Ascending
<1>4. ASSUME NEW t \in Flushers, MinorPrepare(t) PROVE FilesKnown'
  <2>1. pc[Dtor] # "closed"
    BY <1>4, MergeUnderWay, Zenon DEF MinorPrepare, Work
  <2>2. next_file_number' \in {next_file_number, next_file_number + 1}
    BY <1>4, Zenon DEF MinorPrepare, AllocateFileNumber
  <2>3. UNCHANGED <<l0, l1, sst_levels, sst>>
    BY <1>4, Zenon DEF MinorPrepare
  <2> QED
    BY <1>0, <2>1, <2>2, <2>3 DEF DiskTypeOK, Ascending
<1>5. ASSUME NEW t \in Flushers, MinorBuild(t) PROVE FilesKnown'
  <2>1. DOMAIN sst \subseteq DOMAIN sst'
    BY <1>5, Zenon DEF MinorBuild, Assign
  <2>2. pc[Dtor] # "closed"
    BY <1>5, MergeUnderWay, Zenon DEF MinorBuild, Work
  <2> QED
    BY <1>0, <2>1, <2>2, <1>5, Zenon DEF MinorBuild, Ascending
<1>6. ASSUME NEW t \in Flushers, MinorInstall(t) PROVE FilesKnown'
  <2> DEFINE i == mctx[t].new_sst_id
  <2>1. /\ i \in Nat /\ i \in DOMAIN sst \cap (1 .. next_file_number)
        /\ i \notin DOMAIN sst_levels /\ \A j \in LevelIds(0) : j < i
    BY <1>0, <1>6, Zenon DEF MinorInstall, Inv, FlushOwnsFile, FlushOwns, Flushing, LocalTypeOK
  <2>2. Range(l0) = LevelIds(0) /\ Range(l1) = LevelIds(1)
    BY <1>0, <1>6, MergeUnderWay, Zenon DEF MinorInstall, Work
  <2>3. /\ l0' = Append(l0, i) /\ UNCHANGED <<l1, next_file_number, sst>>
        /\ sst_levels' = Assign(sst_levels, i, 0)
    BY <1>6, Zenon DEF MinorInstall
  <2>4. Range(l0') = Range(l0) \cup {i} /\ Ascending(l0')
    BY <1>0, <2>1, <2>2, <2>3, AppendFacts, ZenonT(30) DEF StoreTypeOK
  <2>5. LevelIds(0)' = LevelIds(0) \cup {i} /\ LevelIds(1)' = LevelIds(1)
    BY <1>0, <2>1, <2>3 DEF Assign, DiskTypeOK
  <2>6. DOMAIN sst_levels' = DOMAIN sst_levels \cup {i}
    BY <2>3, Zenon DEF Assign
  <2> HIDE DEF i
  <2> QED
    BY <1>0, <2>1, <2>2, <2>3, <2>4, <2>5, <2>6, ZenonT(30) DEF Ascending
<1>7. ASSUME NEW t \in Mergers, MergePrepare(t) PROVE FilesKnown'
  <2>1. pc[Dtor] # "closed"
    BY <1>7, MergeUnderWay, Zenon DEF MergePrepare, Work
  <2>2. next_file_number' \in {next_file_number, next_file_number + 1}
    BY <1>7, Zenon DEF MergePrepare, AllocateFileNumber
  <2>3. UNCHANGED <<l0, l1, sst_levels, sst>>
    BY <1>7, Zenon DEF MergePrepare
  <2> QED
    BY <1>0, <2>1, <2>2, <2>3 DEF DiskTypeOK, Ascending
<1>8. ASSUME NEW t \in Mergers, MergeBuild(t) PROVE FilesKnown'
  <2>1. DOMAIN sst \subseteq DOMAIN sst'
    BY <1>8, Zenon DEF MergeBuild, Assign
  <2>2. pc[Dtor] # "closed"
    BY <1>8, MergeUnderWay, Zenon DEF MergeBuild, Work
  <2> QED
    BY <1>0, <2>1, <2>2, <1>8, Zenon DEF MergeBuild, Ascending
<1>9. ASSUME NEW t \in Mergers, MergeInstall(t) PROVE FilesKnown'
  <2> DEFINE ctx == cctx[t]  i == ctx.new_sst_id  ids == ctx.l0_input_ids
  <2>1. /\ i \in 0 .. next_file_number /\ i \notin DOMAIN sst_levels /\ i \notin ids
        /\ ctx.output # EmptyTable => i # 0 /\ i \in DOMAIN sst
    BY <1>9, Zenon DEF MergeInstall, Inv, MergeStillValid, MergeOwns, OutputStands, Merging
  <2>2. Range(l0) = LevelIds(0) /\ Range(l1) = LevelIds(1)
    BY <1>0, <1>9, MergeUnderWay, Zenon DEF MergeInstall, Work
  <2>3. CASE SameInputs(ctx)
    <3>1. /\ l0' = <<>> /\ l1' = IF ctx.output # EmptyTable THEN Append(l1, i) ELSE l1
          /\ sst_levels' = Erase(IF ctx.output # EmptyTable THEN Assign(sst_levels, i, 1)
                                                            ELSE sst_levels, ids)
          /\ sst' = Erase(sst, ids) /\ UNCHANGED next_file_number
      BY <2>3, <1>9, Zenon DEF MergeInstall
    <3>2. LevelIds(0) = ids
      BY <2>3, Zenon DEF SameInputs
    <3>3. Range(l0') = {} /\ Ascending(l0')
      BY <3>1 DEF Range, Ascending
    <3>4. CASE ctx.output # EmptyTable
      <4>1. l1' = Append(l1, i) /\ sst_levels' = Erase(Assign(sst_levels, i, 1), ids)
        BY <3>1, <3>4, Zenon
      <4>2. DOMAIN sst_levels' = (DOMAIN sst_levels \cup {i}) \ ids
        BY <4>1, Zenon DEF Assign, Erase
      <4>3. \A j \in DOMAIN sst_levels' : sst_levels'[j] = IF j = i THEN 1 ELSE sst_levels[j]
        BY <4>1, Zenon DEF Assign, Erase
      <4>4. LevelIds(0)' = {} /\ LevelIds(1)' = LevelIds(1) \cup {i}
        BY <1>0, <2>1, <3>2, <4>2, <4>3, SMTT(30) DEF DiskTypeOK
      <4>5. \A j \in LevelIds(1) : j < i
        BY <2>3, <3>2, <3>4, <1>9, ZenonT(30)
           DEF MergeInstall, Inv, MergeStillValid, MergeOwns, OutputStands, Merging
      <4>6. i \in Nat /\ l1 \in Seq(Nat)
        BY <1>0, <2>1, SMTT(30) DEF StoreTypeOK, DiskTypeOK
      <4>7. Range(l1') = Range(l1) \cup {i} /\ Ascending(l1')
        BY <1>0, <2>2, <4>1, <4>5, <4>6, AppendFacts, Zenon
      <4>8. DOMAIN sst' = DOMAIN sst \ ids
        BY <3>1, Zenon DEF Erase
      <4>9. i \in DOMAIN sst \cap (1 .. next_file_number)
        BY <1>0, <2>1, <3>4 DEF DiskTypeOK
      <4> HIDE DEF i, ids, ctx
      <4> QED
        BY <1>0, <2>2, <3>1, <3>3, <4>2, <4>4, <4>7, <4>8, <4>9, ZenonT(30)
    <3>5. CASE ctx.output = EmptyTable
      <4>1. l1' = l1 /\ sst_levels' = Erase(sst_levels, ids)
        BY <3>1, <3>5, Zenon
      <4>2. LevelIds(0)' = {} /\ LevelIds(1)' = LevelIds(1)
        BY <1>0, <3>2, <4>1 DEF Erase, DiskTypeOK
      <4>3. DOMAIN sst_levels' = DOMAIN sst_levels \ ids /\ DOMAIN sst' = DOMAIN sst \ ids
        BY <3>1, <4>1, Zenon DEF Erase
      <4> HIDE DEF i, ids, ctx
      <4> QED
        BY <1>0, <2>2, <3>1, <3>3, <4>1, <4>2, <4>3, ZenonT(30) DEF Ascending
    <3> QED
      BY <3>4, <3>5, Zenon
  <2>4. CASE ~SameInputs(ctx)
    <3>1. UNCHANGED <<l0, l1, sst_levels, next_file_number>> /\ sst' = Erase(sst, {i})
      BY <2>4, <1>9, Zenon DEF MergeInstall
    <3>2. DOMAIN sst' = DOMAIN sst \ {i}
      BY <3>1, Zenon DEF Erase
    <3> HIDE DEF i, ids, ctx
    <3> QED
      BY <1>0, <2>1, <2>2, <3>1, <3>2, Zenon DEF Ascending
  <2> QED
    BY <2>3, <2>4, Zenon
<1>10. CASE DtorJoin
  BY <1>0, <1>10, Zenon DEF DtorJoin, PcTypeOK, Ascending
<1>11. CASE DtorFinish
  BY <1>0, <1>11 DEF DtorFinish, PcTypeOK, Threads, Ascending
<1> QED
  BY NextCases, <1>1, <1>2, <1>3, <1>4, <1>5, <1>6, <1>7, <1>8, <1>9, <1>10, <1>11, ZenonT(30) DEF Inv

\* What PrepareL0ToL1 leaves in the context of a merge that goes on: the inputs are all
\* of L0, and the output has a new number unless nothing was merged.
LEMMA PrepareEffect ==
  ASSUME PcTypeOK, LocalTypeOK, NEW t \in Mergers, MergePrepare(t), Merging(t)',
         NEW merged, merged = Merge(Level(l0)), NEW out, out = Output(merged, Level(l1))
  PROVE  /\ l0 # <<>>
         /\ next_file_number' = IF merged = EmptyTable THEN next_file_number
                                                       ELSE next_file_number + 1
         /\ cctx'[t] = [l0_input_ids |-> LevelIds(0), expected_l0_reader_count |-> Len(l0),
                        new_sst_id |-> IF merged = EmptyTable THEN 0 ELSE next_file_number + 1,
                        output |-> out]
         /\ pc'[t] = IF out = EmptyTable THEN "install_l0" ELSE "build_l0"
PROOF
<1> DEFINE new == IF merged = EmptyTable THEN 0 ELSE next_file_number'
           ctx == [l0_input_ids |-> LevelIds(0), expected_l0_reader_count |-> Len(l0),
                   new_sst_id |-> new, output |-> out]
<1>1. t \in DOMAIN pc /\ t \in DOMAIN cctx
  BY Zenon DEF PcTypeOK, LocalTypeOK, Threads
<1>2. ~(pc' = [pc EXCEPT ![t] = Return(t)])
  BY <1>1, Zenon DEF Merging, Return
<1>3. /\ l0 # <<>>
      /\ IF merged = EmptyTable THEN UNCHANGED next_file_number ELSE AllocateFileNumber
      /\ cctx' = [cctx EXCEPT ![t] = ctx]
      /\ pc' = [pc EXCEPT ![t] = IF ctx.output = EmptyTable THEN "install_l0" ELSE "build_l0"]
  BY <1>2, Zenon DEF MergePrepare
<1>4. next_file_number' = IF merged = EmptyTable THEN next_file_number ELSE next_file_number + 1
  BY <1>3, Zenon DEF AllocateFileNumber
<1>5. new = IF merged = EmptyTable THEN 0 ELSE next_file_number + 1
  BY <1>4, Zenon
<1>6. ctx.output = out
  BY Zenon
<1> HIDE DEF ctx
<1>7. cctx'[t] = ctx /\ pc'[t] = IF out = EmptyTable THEN "install_l0" ELSE "build_l0"
  BY <1>1, <1>3, <1>6, ZenonT(30)
<1> HIDE DEF new
<1> QED
  BY <1>3, <1>4, <1>5, <1>7, Zenon DEF ctx

\* A flush keeps its file when nothing it relies on moves and no merge is given its number.
LEMMA FlushKept ==
  ASSUME Inv, NEW f \in Flushers, Flushing(f), UNCHANGED imm, mctx'[f] = mctx[f],
         next_file_number' \in {next_file_number, next_file_number + 1},
         mctx[f].new_sst_id \notin DOMAIN sst_levels', LevelIds(0)' \subseteq LevelIds(0),
         \A u \in Mergers : Merging(u)' =>
           \/ Merging(u) /\ cctx'[u] = cctx[u]
           \/ /\ mctx[f].new_sst_id # cctx'[u].new_sst_id
              /\ mctx[f].new_sst_id \notin cctx'[u].l0_input_ids,
         pc'[f] = "install_minor" => /\ mctx[f].new_sst_id \in DOMAIN sst'
                                     /\ sst'[mctx[f].new_sst_id] = imm
  PROVE  FlushOwns(f)'
PROOF
<1>1. FlushOwns(f) /\ next_file_number \in Nat
  BY Zenon DEF Inv, FlushOwnsFile, TypeOK, DiskTypeOK
<1> QED
  BY <1>1, SMTT(40) DEF FlushOwns

\* Every action leaves a flush that is under way (MinorCompaction) with its imm_ and
\* its file number.
LEMMA FlushOwnsFileStep ==
  ASSUME Inv, [Next]_vars
  PROVE  FlushOwnsFile'
PROOF
<1> SUFFICES ASSUME NEW f \in Flushers, Flushing(f)'
             PROVE  FlushOwns(f)'
  BY Zenon DEF FlushOwnsFile
<1> USE ThreadAssumption
<1> DEFINE i == mctx[f].new_sst_id
<1>0. StoreTypeOK /\ DiskTypeOK /\ PcTypeOK /\ LocalTypeOK
  BY Zenon DEF Inv, TypeOK
<1>a. Flushing(f) => /\ i \in 1 .. next_file_number /\ i \notin DOMAIN sst_levels /\ imm # Null
                     /\ mctx[f].flushing_imm = imm
                     /\ \A u \in Mergers : Merging(u) => i # cctx[u].new_sst_id /\ i \notin cctx[u].l0_input_ids
                     /\ pc[f] = "install_minor" => i \in DOMAIN sst /\ sst[i] = imm
  BY Zenon DEF Inv, FlushOwnsFile, FlushOwns
<1>1. CASE Quiet
  <2>1. Flushing(f) /\ pc'[f] = pc[f] /\ \A u \in Mergers : Merging(u)' => Merging(u)
    BY <1>1, Zenon DEF Quiet, Flushing, Merging, Work
  <2> QED
    BY <1>a, <2>1, <1>1, FlushKept, Zenon DEF Quiet, LevelIds
<1>2. ASSUME NEW w \in Writers, PutSwitch(w) PROVE FlushOwns(f)'
  <2>1. Flushing(f) /\ imm = Null
    BY <1>0, <1>2, Zenon DEF PutSwitch, Flushing, PcTypeOK, Threads, Woken
  <2> QED
    BY <1>a, <2>1, Zenon
<1>3. ASSUME NEW w \in Writers, PutInsert(w) PROVE FlushOwns(f)'
  <2>1. Flushing(f) /\ pc'[f] = pc[f] /\ \A u \in Mergers : Merging(u)' => Merging(u)
    BY <1>0, <1>3, ZenonT(30) DEF PutInsert, Flushing, Merging, PcTypeOK, Threads
  <2> QED
    BY <1>a, <2>1, <1>3, FlushKept, Zenon DEF PutInsert, LevelIds
<1>4. ASSUME NEW t \in Flushers, MinorPrepare(t) PROVE FlushOwns(f)'
  <2>1. f = t /\ imm # Null
    <3>1. CASE f # t
      <4>1. Flushing(f)
        BY <1>0, <3>1, <1>4, Zenon DEF MinorPrepare, Flushing, PcTypeOK, Threads
      <4> QED
        BY <3>1, <4>1, <1>4, OneFlusher, Zenon DEF MinorPrepare, Flushing, Work
    <3>2. CASE f = t /\ imm = Null
      BY <1>0, <3>2, <1>4, Zenon DEF MinorPrepare, Flushing, PcTypeOK, Threads, Return
    <3> QED
      BY <3>1, <3>2, Zenon
  <2>2. /\ mctx'[f] = [flushing_imm |-> imm, new_sst_id |-> next_file_number + 1,
                       old_wal_id |-> imm_wal_id]
        /\ next_file_number' = next_file_number + 1 /\ pc'[f] = "build_minor"
        /\ UNCHANGED <<imm, sst_levels, cctx>>
    BY <1>0, <2>1, <1>4, ZenonT(30) DEF MinorPrepare, AllocateFileNumber, LocalTypeOK, PcTypeOK, Threads
  <2>3. next_file_number \in Nat /\ DOMAIN sst_levels \subseteq 1 .. next_file_number
    BY <1>0, Zenon DEF DiskTypeOK, Inv, FilesKnown
  <2>4. \A u \in Mergers : Merging(u)' => Merging(u)
    BY <1>0, <2>1, <2>2, <1>4, Zenon DEF MinorPrepare, Merging, PcTypeOK, Threads
  <2>5. \A u \in Mergers : Merging(u) => /\ cctx[u].new_sst_id \in 0 .. next_file_number
                                         /\ cctx[u].l0_input_ids \subseteq 1 .. next_file_number
    BY Zenon DEF Inv, MergeStillValid, MergeOwns
  <2> QED
    BY <2>1, <2>2, <2>3, <2>4, <2>5, SMTT(40) DEF FlushOwns, LevelIds
<1>5. ASSUME NEW t \in Flushers, MinorBuild(t) PROVE FlushOwns(f)'
  <2>1. f = t /\ Flushing(f)
    <3>1. CASE f # t
      <4>1. Flushing(f)
        BY <1>0, <3>1, <1>5, Zenon DEF MinorBuild, Flushing, PcTypeOK, Threads
      <4> QED
        BY <3>1, <4>1, <1>5, OneFlusher, Zenon DEF MinorBuild, Flushing, Work
    <3> QED
      BY <3>1, <1>5, Zenon DEF MinorBuild, Flushing
  <2>2. /\ sst' = Assign(sst, i, mctx[t].flushing_imm) /\ pc' = [pc EXCEPT ![t] = "install_minor"]
        /\ UNCHANGED <<mctx, imm, next_file_number, sst_levels, cctx>>
    BY <1>0, <2>1, <1>5, Zenon DEF MinorBuild, Flushing, PcTypeOK, Threads, Return
  <2>3. \A u \in Mergers : Merging(u)' => Merging(u)
    BY <1>0, <2>1, <2>2, Zenon DEF Merging, PcTypeOK, Threads
  <2>4. i \in DOMAIN sst' /\ sst'[i] = imm
    BY <1>a, <2>1, <2>2, Zenon DEF Assign
  <2> QED
    BY <1>a, <2>1, <2>2, <2>3, <2>4, FlushKept, Zenon DEF LevelIds
<1>6. ASSUME NEW t \in Flushers, MinorInstall(t) PROVE FlushOwns(f)'
  <2>1. f # t
    BY <1>0, <1>6, Zenon DEF MinorInstall, Flushing, PcTypeOK, Threads, Return
  <2>2. Flushing(f)
    BY <1>0, <2>1, <1>6, Zenon DEF MinorInstall, Flushing, PcTypeOK, Threads
  <2> QED
    BY <2>1, <2>2, <1>6, OneFlusher, Zenon DEF MinorInstall, Flushing, Work
<1>7. ASSUME NEW t \in Mergers, MergePrepare(t) PROVE FlushOwns(f)'
  <2>1. Flushing(f) /\ pc'[f] = pc[f] /\ f # t
    BY <1>0, <1>7, Zenon DEF MergePrepare, Flushing, PcTypeOK, Threads, Return
  <2>2. /\ next_file_number' \in {next_file_number, next_file_number + 1}
        /\ UNCHANGED <<imm, mctx, sst_levels, sst>>
    BY <1>7, Zenon DEF MergePrepare, AllocateFileNumber
  <2>3. \A u \in Mergers : u # t => (Merging(u)' => Merging(u)) /\ cctx'[u] = cctx[u]
    BY <1>0, <1>7, Zenon DEF MergePrepare, Merging, PcTypeOK, Threads, LocalTypeOK
  <2>4. Merging(t)' => /\ cctx'[t].new_sst_id \in {0, next_file_number + 1}
                       /\ cctx'[t].l0_input_ids = LevelIds(0)
    <3> SUFFICES ASSUME Merging(t)'
                 PROVE  /\ cctx'[t].new_sst_id \in {0, next_file_number + 1}
                        /\ cctx'[t].l0_input_ids = LevelIds(0)
      BY Zenon
    <3> DEFINE merged == Merge(Level(l0))  out == Output(merged, Level(l1))
               new == IF merged = EmptyTable THEN 0 ELSE next_file_number + 1
    <3>1. cctx'[t] = [l0_input_ids |-> LevelIds(0), expected_l0_reader_count |-> Len(l0),
                      new_sst_id |-> new, output |-> out]
      BY <1>0, <1>7, PrepareEffect
    <3>2. new \in {0, next_file_number + 1}
      BY Zenon
    <3> HIDE DEF merged, out, new
    <3> QED
      BY <3>1, <3>2
  <2>5. next_file_number \in Nat /\ i \notin {0, next_file_number + 1} /\ i \notin LevelIds(0)
    BY <1>0, <1>a, <2>1, SMTT(30) DEF DiskTypeOK, LevelIds
  <2>6. \A u \in Mergers : Merging(u)' => \/ Merging(u) /\ cctx'[u] = cctx[u]
                                          \/ i # cctx'[u].new_sst_id /\ i \notin cctx'[u].l0_input_ids
    BY <2>3, <2>4, <2>5, Zenon
  <2> HIDE DEF i
  <2>7. LevelIds(0)' \subseteq LevelIds(0)
    BY <2>2, Zenon DEF LevelIds
  <2> QED
    BY <1>a, <2>1, <2>2, <2>6, <2>7, FlushKept, Zenon DEF i
<1>8. ASSUME NEW t \in Mergers, MergeBuild(t) PROVE FlushOwns(f)'
  <2>1. Flushing(f) /\ pc'[f] = pc[f] /\ f # t
    BY <1>0, <1>8, Zenon DEF MergeBuild, Flushing, PcTypeOK, Threads, Return
  <2>2. UNCHANGED <<imm, mctx, sst_levels, next_file_number>>
    BY <1>8, Zenon DEF MergeBuild
  <2>3. \A u \in Mergers : Merging(u)' => Merging(u) /\ cctx'[u] = cctx[u]
    BY <1>0, <1>8, Zenon DEF MergeBuild, Merging, PcTypeOK, Threads, LocalTypeOK, Return
  <2>4. i # cctx[t].new_sst_id
    BY <1>a, <2>1, <1>8, Zenon DEF MergeBuild, Merging
  <2>5. i \in DOMAIN sst => i \in DOMAIN sst' /\ sst'[i] = sst[i]
    BY <2>4, <1>8, Zenon DEF MergeBuild, Assign
  <2> QED
    BY <1>a, <2>1, <2>2, <2>3, <2>5, FlushKept, ZenonT(30) DEF LevelIds
<1>9. ASSUME NEW t \in Mergers, MergeInstall(t) PROVE FlushOwns(f)'
  <2>1. Flushing(f) /\ pc'[f] = pc[f] /\ f # t
    BY <1>0, <1>9, Zenon DEF MergeInstall, Flushing, PcTypeOK, Threads, Return
  <2>2. UNCHANGED <<imm, mctx, next_file_number>>
    BY <1>9, Zenon DEF MergeInstall
  <2>3. \A u \in Mergers : Merging(u)' => Merging(u) /\ cctx'[u] = cctx[u]
    BY <1>0, <1>9, Zenon DEF MergeInstall, Merging, PcTypeOK, Threads, LocalTypeOK, Return
  <2>4. i # cctx[t].new_sst_id /\ i \notin cctx[t].l0_input_ids
    BY <1>a, <2>1, <1>9, Zenon DEF MergeInstall, Merging
  <2>5. i \in DOMAIN sst => i \in DOMAIN sst' /\ sst'[i] = sst[i]
    BY <2>4, <1>9, ZenonT(30) DEF MergeInstall, Erase
  <2>6. i \notin DOMAIN sst_levels' /\ LevelIds(0)' \subseteq LevelIds(0)
    <3>1. /\ DOMAIN sst_levels' \subseteq DOMAIN sst_levels \cup {cctx[t].new_sst_id}
          /\ \A j \in DOMAIN sst_levels' :
               sst_levels'[j] = 0 => j \in DOMAIN sst_levels /\ sst_levels[j] = 0
      <4> DEFINE g == Assign(sst_levels, cctx[t].new_sst_id, 1)
      <4>1. \/ UNCHANGED sst_levels
            \/ sst_levels' = Erase(sst_levels, cctx[t].l0_input_ids)
            \/ sst_levels' = Erase(g, cctx[t].l0_input_ids)
        BY <1>9, Zenon DEF MergeInstall
      <4>2. /\ DOMAIN g = DOMAIN sst_levels \cup {cctx[t].new_sst_id}
            /\ \A j \in DOMAIN g : g[j] = 0 => j \in DOMAIN sst_levels /\ sst_levels[j] = 0
        BY DEF Assign
      <4> HIDE DEF g
      <4> QED
        BY <4>1, <4>2, Zenon DEF Erase
    <3> QED
      BY <1>a, <2>1, <2>4, <3>1, Zenon DEF LevelIds
  <2> QED
    BY <1>a, <2>1, <2>2, <2>3, <2>5, <2>6, FlushKept, ZenonT(30)
<1>10. CASE DtorJoin
  BY <1>0, <1>10, Zenon DEF DtorJoin, Flushing, PcTypeOK, Threads
<1>11. CASE DtorFinish
  <2>1. pc[Bg] = "done"
    BY <1>11, Zenon DEF DtorFinish, Inv, DtorAlone
  <2> QED
    BY <1>0, <2>1, <1>11, Zenon DEF DtorFinish, Flushing, PcTypeOK, Threads
<1> QED
  BY NextCases, <1>1, <1>2, <1>3, <1>4, <1>5, <1>6, <1>7, <1>8, <1>9, <1>10, <1>11, ZenonT(30) DEF Inv

-----------------------------------------------------------------------------
(* The files of the directory.                                              *)

\* What happens outside the WALs, mem_ and imm_ keeps them as they are.
LEMMA WalsSame ==
  ASSUME WalsKept, next_file_number \in Nat,
         UNCHANGED <<mem, imm, active_wal_id, imm_wal_id, live_wals, wal>>,
         next_file_number' \in {next_file_number, next_file_number + 1},
         Open' => Open,
         \A t \in Flushers : Flushing(t)' => \/ Flushing(t) /\ mctx'[t] = mctx[t]
                                             \/ mctx'[t].old_wal_id = imm_wal_id
  PROVE  WalsKept'
PROOF
<1>1. active_wal_id \in 1 .. next_file_number'
  BY DEF WalsKept
<1> QED
  BY <1>1, Zenon DEF WalsKept

\* Every action keeps the WALs of the directory those of mem_ and imm_.
LEMMA WalsKeptStep ==
  ASSUME Inv, WalsKept, [Next]_vars
  PROVE  WalsKept'
PROOF
<1> USE ThreadAssumption
<1>0. StoreTypeOK /\ DiskTypeOK /\ PcTypeOK /\ LocalTypeOK /\ next_file_number \in Nat
  BY Zenon DEF Inv, TypeOK, DiskTypeOK
<1>a. \A t \in Flushers : Flushing(t) => imm # Null
  BY Zenon DEF Inv, FlushOwnsFile, FlushOwns
<1>1. CASE Quiet
  <2>1. \A t \in Flushers : Flushing(t)' => Flushing(t)
    BY <1>1, Zenon DEF Quiet, Flushing, Work
  <2> QED
    BY <1>0, <1>1, <2>1, WalsSame, Zenon DEF Quiet
<1>2. ASSUME NEW w \in Writers, PutSwitch(w) PROVE WalsKept'
  <2> DEFINE n == next_file_number + 1  a == active_wal_id
  <2>1. /\ imm = Null /\ imm' = mem /\ imm_wal_id' = a /\ active_wal_id' = n
        /\ next_file_number' = n /\ mem' = EmptyTable /\ wal' = Assign(wal, n, EmptyTable)
        /\ live_wals' = live_wals \cup {n}
    BY <1>2, Zenon DEF PutSwitch, AllocateFileNumber
  <2>2. Open /\ mem \in Tables /\ mem # Null
    BY <1>2, PutUnderWay, BoundAssumption, Zenon DEF PutSwitch, Open
  <2>3. a \in 1 .. next_file_number /\ DOMAIN wal = {a} /\ live_wals = {a} /\ wal[a] = mem
    BY <2>1, <2>2, Zenon DEF WalsKept
  <2>4. n \in 1 .. n /\ a < n /\ a # n
    BY <1>0, <2>3
  <2>5. \A t \in Flushers : ~Flushing(t)'
    BY <1>0, <1>2, <1>a, <2>1, Zenon DEF PutSwitch, Flushing, PcTypeOK, Threads, Woken
  <2> HIDE DEF n, a
  <2>6. DOMAIN wal' = {n} \cup {a} /\ wal'[n] = EmptyTable /\ wal'[a] = mem
    BY <2>1, <2>3, <2>4, Zenon DEF Assign
  <2> QED
    BY <2>1, <2>2, <2>3, <2>4, <2>5, <2>6, Zenon DEF WalsKept
<1>3. ASSUME NEW w \in Writers, PutInsert(w) PROVE WalsKept'
  <2> DEFINE a == active_wal_id
  <2>1. Open
    BY <1>3, PutUnderWay, Zenon DEF PutInsert, Open
  <2>2. /\ a \in DOMAIN wal /\ wal[a] = mem
        /\ imm # Null => imm_wal_id < a /\ imm_wal_id \in DOMAIN wal
    BY <2>1, Zenon DEF WalsKept
  <2>3. imm # Null => imm_wal_id # a
    BY <1>0, <2>2 DEF StoreTypeOK
  <2>4. /\ wal' = [wal EXCEPT ![a] = Insert(@, arg[w][1], arg[w][2])]
        /\ mem' = Insert(mem, arg[w][1], arg[w][2])
        /\ UNCHANGED <<imm, active_wal_id, imm_wal_id, next_file_number, live_wals, mctx>>
    BY <1>3, Zenon DEF PutInsert
  <2>5. DOMAIN wal' = DOMAIN wal /\ wal'[a] = mem' /\ (imm # Null => wal'[imm_wal_id] = wal[imm_wal_id])
    BY <2>2, <2>3, <2>4, Zenon
  <2>6. \A t \in Flushers : Flushing(t)' => Flushing(t)
    BY <1>0, <1>3, Zenon DEF PutInsert, Flushing, PcTypeOK, Threads
  <2> HIDE DEF a
  <2> QED
    BY <2>1, <2>4, <2>5, <2>6, Zenon DEF WalsKept, a
<1>4. ASSUME NEW t \in Flushers, MinorPrepare(t) PROVE WalsKept'
  <2>1. /\ UNCHANGED <<mem, imm, active_wal_id, imm_wal_id, live_wals, wal>>
        /\ next_file_number' \in {next_file_number, next_file_number + 1}
    BY <1>4, Zenon DEF MinorPrepare, AllocateFileNumber
  <2>2. Open' => Open
    BY <1>0, <1>4, Zenon DEF MinorPrepare, PcTypeOK, Threads, Open, Return
  <2>3. ASSUME NEW u \in Flushers, Flushing(u)'
        PROVE  (Flushing(u) /\ mctx'[u] = mctx[u]) \/ mctx'[u].old_wal_id = imm_wal_id
    <3>1. CASE u # t
      BY <1>0, <1>4, <2>3, <3>1, Zenon DEF MinorPrepare, PcTypeOK, LocalTypeOK, Threads, Flushing
    <3>2. CASE u = t
      <4>1. imm # Null
        BY <1>0, <1>4, <2>3, <3>2, Zenon DEF MinorPrepare, PcTypeOK, Threads, Flushing, Return
      <4>2. mctx'[u] = [flushing_imm |-> imm, new_sst_id |-> next_file_number', old_wal_id |-> imm_wal_id]
        BY <1>0, <1>4, <3>2, <4>1, Zenon DEF MinorPrepare, LocalTypeOK
      <4> QED
        BY <4>2
    <3> QED
      BY <3>1, <3>2, Zenon
  <2> QED
    BY <1>0, <2>1, <2>2, <2>3, WalsSame, Zenon
<1>5. ASSUME NEW t \in Flushers, MinorBuild(t) PROVE WalsKept'
  <2>1. /\ UNCHANGED <<mem, imm, active_wal_id, imm_wal_id, live_wals, wal>>
        /\ next_file_number' = next_file_number
    BY <1>5, Zenon DEF MinorBuild
  <2>2. Open' => Open
    BY <1>0, <1>5, Zenon DEF MinorBuild, PcTypeOK, Threads, Open, Return
  <2>3. \A u \in Flushers : Flushing(u)' => Flushing(u) /\ mctx'[u] = mctx[u]
    BY <1>0, <1>5, Zenon DEF MinorBuild, PcTypeOK, LocalTypeOK, Threads, Flushing, Return
  <2> QED
    BY <1>0, <2>1, <2>2, <2>3, WalsSame, Zenon
<1>6. ASSUME NEW t \in Flushers, MinorInstall(t) PROVE WalsKept'
  <2> DEFINE a == active_wal_id  b == imm_wal_id
  <2>1. \A u \in Flushers : ~Flushing(u)'
    <3> SUFFICES ASSUME NEW u \in Flushers, Flushing(u)' PROVE FALSE
      BY Zenon
    <3>1. u # t
      BY <1>0, <1>6, Zenon DEF MinorInstall, PcTypeOK, Threads, Flushing, Return
    <3>2. Flushing(u)
      BY <1>0, <1>6, <3>1, Zenon DEF MinorInstall, PcTypeOK, Threads, Flushing
    <3> QED
      BY <1>6, <3>1, <3>2, OneFlusher, Zenon DEF MinorInstall, Flushing, Work
  <2>2. /\ imm' = Null /\ wal' = Erase(wal, {b}) /\ live_wals' = live_wals \ {b}
        /\ UNCHANGED <<mem, active_wal_id, next_file_number>>
    BY <1>6, Zenon DEF MinorInstall, WalsKept, Flushing
  <2>3. ASSUME Open' PROVE Open /\ imm # Null
    <3>1. t # Dtor
      BY <1>0, <1>6, <2>3, Zenon DEF MinorInstall, PcTypeOK, Threads, Open, Return
    <3> QED
      BY <1>6, <1>a, <3>1, MergeUnderWay, Zenon DEF MinorInstall, Work, Flushing
  <2>4. ASSUME Open' PROVE DOMAIN wal = {a} \cup {b} /\ live_wals = {a} \cup {b} /\ b < a /\ wal[a] = mem
    BY <2>3, <2>4, Zenon DEF WalsKept
  <2>5. ASSUME Open' PROVE DOMAIN wal' = {a} /\ live_wals' = {a} /\ wal'[a] = mem
    <3>1. a # b
      BY <1>0, <2>4, <2>5 DEF StoreTypeOK
    <3>2. ({a} \cup {b}) \ {b} = {a}
      BY <3>1
    <3> QED
      BY <2>2, <2>4, <2>5, <3>2, Zenon DEF Erase
  <2> HIDE DEF a, b
  <2> QED
    BY <2>1, <2>2, <2>5, Zenon DEF WalsKept, a
<1>7. ASSUME NEW t \in Mergers, MergePrepare(t) PROVE WalsKept'
  <2>1. /\ UNCHANGED <<mem, imm, active_wal_id, imm_wal_id, live_wals, wal, mctx>>
        /\ next_file_number' \in {next_file_number, next_file_number + 1}
    BY <1>7, Zenon DEF MergePrepare, AllocateFileNumber
  <2>2. Open' => Open
    BY <1>0, <1>7, Zenon DEF MergePrepare, PcTypeOK, Threads, Open, Return
  <2>3. \A u \in Flushers : Flushing(u)' => Flushing(u)
    BY <1>0, <1>7, Zenon DEF MergePrepare, PcTypeOK, Threads, Flushing, Return
  <2> QED
    BY <1>0, <2>1, <2>2, <2>3, WalsSame, Zenon
<1>8. ASSUME NEW t \in Mergers, MergeBuild(t) PROVE WalsKept'
  <2>1. UNCHANGED <<mem, imm, active_wal_id, imm_wal_id, live_wals, wal, mctx, next_file_number>>
    BY <1>8, Zenon DEF MergeBuild
  <2>2. Open' => Open
    BY <1>0, <1>8, Zenon DEF MergeBuild, PcTypeOK, Threads, Open, Return
  <2>3. \A u \in Flushers : Flushing(u)' => Flushing(u)
    BY <1>0, <1>8, Zenon DEF MergeBuild, PcTypeOK, Threads, Flushing, Return
  <2> QED
    BY <1>0, <2>1, <2>2, <2>3, WalsSame, Zenon
<1>9. ASSUME NEW t \in Mergers, MergeInstall(t) PROVE WalsKept'
  <2>1. UNCHANGED <<mem, imm, active_wal_id, imm_wal_id, live_wals, wal, mctx, next_file_number>>
    BY <1>9, Zenon DEF MergeInstall
  <2>2. Open' => Open
    BY <1>0, <1>9, Zenon DEF MergeInstall, PcTypeOK, Threads, Open, Return
  <2>3. \A u \in Flushers : Flushing(u)' => Flushing(u)
    BY <1>0, <1>9, Zenon DEF MergeInstall, PcTypeOK, Threads, Flushing, Return
  <2> QED
    BY <1>0, <2>1, <2>2, <2>3, WalsSame, Zenon
<1>10. CASE DtorJoin
  BY <1>0, <1>10, Zenon DEF DtorJoin, WalsKept, PcTypeOK, Threads, Flushing, Open
<1>11. CASE DtorFinish
  <2>1. pc[Bg] = "done"
    BY <1>11, Zenon DEF DtorFinish, Inv, DtorAlone
  <2> QED
    BY <1>0, <1>11, <2>1, Zenon DEF DtorFinish, WalsKept, PcTypeOK, Threads, Flushing, Open
<1> QED
  BY NextCases, <1>1, <1>2, <1>3, <1>4, <1>5, <1>6, <1>7, <1>8, <1>9, <1>10, <1>11, ZenonT(30) DEF Inv

\* Allocating numbers and handing out work to threads changes no SSTable.
LEMMA SstsSame ==
  ASSUME SstsKept, next_file_number \in Nat, UNCHANGED <<sst, sst_levels>>,
         next_file_number' \in {next_file_number, next_file_number + 1},
         \A t \in Flushers : pc[t] = "install_minor" => pc'[t] = pc[t] /\ mctx'[t] = mctx[t],
         \A t \in Mergers : pc[t] = "install_l0" => pc'[t] = pc[t] /\ cctx'[t] = cctx[t],
         \A t \in Mergers : Merging(t)' => Merging(t) /\ cctx'[t] = cctx[t]
  PROVE  SstsKept'
PROOF
<1>1. DOMAIN sst \subseteq 1 .. next_file_number'
  <2>1. DOMAIN sst \subseteq 1 .. next_file_number
    BY Zenon DEF SstsKept
  <2>2. 1 .. next_file_number \subseteq 1 .. next_file_number'
    OBVIOUS
  <2> QED
    BY <2>1, <2>2, Zenon
<1>2. \A i \in DOMAIN sst \ DOMAIN sst_levels : InFlight(i)'
  BY StaysInFlight, Zenon DEF SstsKept
<1>3. LevelIds(0)' = LevelIds(0)
  BY Zenon DEF LevelIds
<1> QED
  BY <1>1, <1>2, <1>3, Zenon DEF SstsKept

\* Every action keeps the SSTables outside the manifest those about to be installed.
LEMMA SstsKeptStep ==
  ASSUME Inv, SstsKept, [Next]_vars
  PROVE  SstsKept'
PROOF
<1> USE ThreadAssumption
<1>0. DiskTypeOK /\ PcTypeOK /\ LocalTypeOK /\ next_file_number \in Nat
  BY Zenon DEF Inv, TypeOK, DiskTypeOK
<1>1. CASE Quiet
  <2>1. /\ \A t \in Flushers : pc[t] = "install_minor" => pc'[t] = pc[t]
        /\ \A t \in Mergers : pc[t] = "install_l0" => pc'[t] = pc[t]
        /\ \A t \in Mergers : Merging(t)' => Merging(t)
    BY <1>1, Zenon DEF Quiet, Merging, Work
  <2> QED
    BY <1>0, <1>1, <2>1, SstsSame, Zenon DEF Quiet
<1>2. ASSUME NEW w \in Writers, PutSwitch(w) PROVE SstsKept'
  <2>1. /\ \A t \in Flushers : pc[t] = "install_minor" => pc'[t] = pc[t]
        /\ \A t \in Mergers : pc[t] = "install_l0" => pc'[t] = pc[t]
        /\ \A t \in Mergers : Merging(t)' => Merging(t)
    BY <1>0, <1>2, Zenon DEF PutSwitch, Merging, PcTypeOK, Threads, Woken
  <2> QED
    BY <1>0, <1>2, <2>1, SstsSame, Zenon DEF PutSwitch, AllocateFileNumber
<1>3. ASSUME NEW w \in Writers, PutInsert(w) PROVE SstsKept'
  <2>1. /\ \A t \in Flushers : pc[t] = "install_minor" => pc'[t] = pc[t]
        /\ \A t \in Mergers : pc[t] = "install_l0" => pc'[t] = pc[t]
        /\ \A t \in Mergers : Merging(t)' => Merging(t)
    BY <1>0, <1>3, Zenon DEF PutInsert, Merging, PcTypeOK, Threads
  <2> QED
    BY <1>0, <1>3, <2>1, SstsSame, Zenon DEF PutInsert
<1>4. ASSUME NEW t \in Flushers, MinorPrepare(t) PROVE SstsKept'
  <2>1. /\ UNCHANGED <<sst, sst_levels, cctx>>
        /\ next_file_number' \in {next_file_number, next_file_number + 1}
    BY <1>4, Zenon DEF MinorPrepare, AllocateFileNumber
  <2>2. \A u \in Flushers : pc[u] = "install_minor" => pc'[u] = pc[u] /\ mctx'[u] = mctx[u]
    BY <1>0, <1>4, Zenon DEF MinorPrepare, PcTypeOK, LocalTypeOK, Threads
  <2>3. /\ \A u \in Mergers : pc[u] = "install_l0" => pc'[u] = pc[u]
        /\ \A u \in Mergers : Merging(u)' => Merging(u)
    BY <1>0, <1>4, Zenon DEF MinorPrepare, PcTypeOK, Threads, Merging, Return
  <2> QED
    BY <1>0, <2>1, <2>2, <2>3, SstsSame, Zenon
<1>5. ASSUME NEW t \in Flushers, MinorBuild(t) PROVE SstsKept'
  <2> DEFINE i == mctx[t].new_sst_id
  <2>1. /\ UNCHANGED <<sst_levels, cctx, next_file_number>>
        /\ \A u \in Mergers : pc[u] = "install_l0" => pc'[u] = pc[u]
        /\ \A u \in Mergers : Merging(u)' => Merging(u)
    BY <1>0, <1>5, Zenon DEF MinorBuild, PcTypeOK, Threads, Merging, Return
  <2>2. \A u \in Flushers : pc[u] = "install_minor" => pc'[u] = pc[u] /\ mctx'[u] = mctx[u]
    BY <1>0, <1>5, Zenon DEF MinorBuild, PcTypeOK, LocalTypeOK, Threads
  <2>3. CASE UNCHANGED sst
    BY <1>0, <2>1, <2>2, <2>3, SstsSame, Zenon
  <2>4. CASE sst' = Assign(sst, i, mctx[t].flushing_imm) /\ Goto(t, "install_minor") /\ UNCHANGED mctx
    <3>1. i \in 1 .. next_file_number /\ \A u \in Mergers : Merging(u) => i # cctx[u].new_sst_id
      BY <1>5, Zenon DEF MinorBuild, Inv, FlushOwnsFile, FlushOwns, Flushing
    <3>2. DOMAIN sst' = DOMAIN sst \cup {i} /\ pc'[t] = "install_minor"
      BY <1>0, <2>4, Zenon DEF Assign, PcTypeOK, Threads
    <3> HIDE DEF i
    <3>3. \A j \in DOMAIN sst \ DOMAIN sst_levels : InFlight(j)'
      BY <2>1, <2>2, StaysInFlight, Zenon DEF SstsKept
    <3>4. \A j \in {i} : InFlight(j)'
      BY <2>4, <3>2, Zenon DEF InFlight, i
    <3>5. DOMAIN sst' \subseteq 1 .. next_file_number
      BY <3>1, <3>2, Zenon DEF SstsKept
    <3>6. \A j \in DOMAIN sst' \ DOMAIN sst_levels : InFlight(j)'
      BY <3>2, <3>3, <3>4, Zenon
    <3>7. LevelIds(0)' = LevelIds(0)
      BY <2>1, Zenon DEF LevelIds
    <3>8. \A u \in Mergers : Merging(u) /\ cctx[u].output = EmptyTable => cctx[u].new_sst_id \notin DOMAIN sst'
      BY <3>1, <3>2, Zenon DEF SstsKept
    <3> QED
      BY <2>1, <3>5, <3>6, <3>7, <3>8, Zenon DEF SstsKept
  <2> QED
    BY <1>5, <2>3, <2>4, Zenon DEF MinorBuild
<1>6. ASSUME NEW t \in Flushers, MinorInstall(t) PROVE SstsKept'
  <2> DEFINE i == mctx[t].new_sst_id
  <2>1. /\ UNCHANGED <<sst, cctx, next_file_number>> /\ sst_levels' = Assign(sst_levels, i, 0)
        /\ \A u \in Mergers : pc[u] = "install_l0" => pc'[u] = pc[u]
        /\ \A u \in Mergers : Merging(u)' => Merging(u) /\ u # t
    BY <1>0, <1>6, Zenon DEF MinorInstall, PcTypeOK, Threads, Merging, Return
  <2>2. \A u \in Flushers : u # t => pc'[u] = pc[u] /\ mctx'[u] = mctx[u]
    BY <1>0, <1>6, Zenon DEF MinorInstall, PcTypeOK, LocalTypeOK, Threads
  <2>3. DOMAIN sst_levels' = DOMAIN sst_levels \cup {i}
    BY <2>1, Zenon DEF Assign
  <2>4. \A j \in DOMAIN sst' \ DOMAIN sst_levels' : InFlight(j)'
    BY <2>1, <2>2, <2>3, StaysInFlight, Zenon DEF SstsKept
  <2>5. ASSUME Compactors = {}, NEW u \in Mergers, Merging(u)' PROVE FALSE
    BY <1>6, <2>1, <2>5, OneFlusher, Zenon DEF MinorInstall, Merging, Work
  <2> HIDE DEF i
  <2> QED
    BY <2>1, <2>4, <2>5, Zenon DEF SstsKept
<1>7. ASSUME NEW t \in Mergers, MergePrepare(t) PROVE SstsKept'
  <2> DEFINE merged == Merge(Level(l0))  out == Output(merged, Level(l1))
             new == IF merged = EmptyTable THEN 0 ELSE next_file_number + 1
  <2>1. /\ UNCHANGED <<sst, sst_levels, mctx>>
        /\ next_file_number' \in {next_file_number, next_file_number + 1}
    BY <1>7, Zenon DEF MergePrepare, AllocateFileNumber
  <2>2. /\ \A u \in Flushers : pc[u] = "install_minor" => pc'[u] = pc[u]
        /\ \A u \in Mergers : u # t => pc'[u] = pc[u] /\ cctx'[u] = cctx[u]
        /\ pc[t] = "prepare_l0"
    BY <1>0, <1>7, Zenon DEF MergePrepare, PcTypeOK, LocalTypeOK, Threads
  <2>3. DOMAIN sst \subseteq 1 .. next_file_number /\ DOMAIN sst \subseteq 1 .. next_file_number'
    BY <1>0, <2>1 DEF SstsKept
  <2>4. \A j \in DOMAIN sst \ DOMAIN sst_levels : InFlight(j)'
    BY <2>1, <2>2, StaysInFlight, Zenon DEF SstsKept
  <2>5. ASSUME Merging(t)'
        PROVE  cctx'[t].new_sst_id \notin DOMAIN sst /\ cctx'[t].l0_input_ids = LevelIds(0)
    <3>1. cctx'[t] = [l0_input_ids |-> LevelIds(0), expected_l0_reader_count |-> Len(l0),
                      new_sst_id |-> new, output |-> out]
      BY <1>0, <1>7, <2>5, PrepareEffect
    <3>2. new \in {0, next_file_number + 1}
      BY Zenon
    <3> HIDE DEF merged, out, new
    <3>3. new \notin DOMAIN sst
      BY <1>0, <2>3, <3>2
    <3> QED
      BY <3>1, <3>3
  <2>6. \A u \in Mergers : u # t /\ Merging(u)' => Merging(u)
    BY <2>2, Zenon DEF Merging
  <2> HIDE DEF merged, out, new
  <2> QED
    BY <2>1, <2>2, <2>3, <2>4, <2>5, <2>6, Zenon DEF SstsKept, LevelIds
<1>8. ASSUME NEW t \in Mergers, MergeBuild(t) PROVE SstsKept'
  <2> DEFINE i == cctx[t].new_sst_id
  <2>1. /\ UNCHANGED <<sst_levels, mctx, next_file_number>>
        /\ \A u \in Flushers : pc[u] = "install_minor" => pc'[u] = pc[u]
    BY <1>0, <1>8, Zenon DEF MergeBuild, PcTypeOK, Threads
  <2>2. /\ \A u \in Mergers : pc[u] = "install_l0" => pc'[u] = pc[u] /\ cctx'[u] = cctx[u]
        /\ \A u \in Mergers : Merging(u)' => Merging(u) /\ cctx'[u] = cctx[u]
    BY <1>0, <1>8, Zenon DEF MergeBuild, PcTypeOK, LocalTypeOK, Threads, Merging, Return
  <2>3. CASE UNCHANGED sst
    BY <1>0, <2>1, <2>2, <2>3, SstsSame, Zenon
  <2>4. CASE sst' = Assign(sst, i, cctx[t].output) /\ Goto(t, "install_l0") /\ UNCHANGED cctx
    <3>1. MergeOwns(t) /\ pc[t] = "build_l0"
      BY <1>8, Zenon DEF MergeBuild, Inv, MergeStillValid, Merging
    <3>2. /\ i \in 0 .. next_file_number /\ i # 0 /\ cctx[t].output # EmptyTable
          /\ \A u \in Mergers : Merging(u) /\ cctx[u].new_sst_id = i => u = t
      BY <3>1, Zenon DEF MergeOwns
    <3>3. i \in 1 .. next_file_number
      BY <1>0, <3>2
    <3>4. DOMAIN sst' = DOMAIN sst \cup {i} /\ pc'[t] = "install_l0"
      BY <1>0, <2>4, Zenon DEF Assign, PcTypeOK, Threads
    <3> HIDE DEF i
    <3>5. \A j \in DOMAIN sst \ DOMAIN sst_levels : InFlight(j)'
      BY <2>1, <2>2, StaysInFlight, Zenon DEF SstsKept
    <3>7. \A j \in {i} : InFlight(j)'
      BY <2>4, <3>4, Zenon DEF InFlight, i
    <3>6. ASSUME NEW u \in Mergers, Merging(u), cctx[u].output = EmptyTable
          PROVE  cctx[u].new_sst_id \notin DOMAIN sst'
      BY <3>2, <3>4, <3>6, Zenon DEF SstsKept
    <3>8. DOMAIN sst' \subseteq 1 .. next_file_number
      BY <3>3, <3>4, Zenon DEF SstsKept
    <3>9. \A j \in DOMAIN sst' \ DOMAIN sst_levels : InFlight(j)'
      BY <3>4, <3>5, <3>7, Zenon
    <3>10. LevelIds(0)' = LevelIds(0)
      BY <2>1, Zenon DEF LevelIds
    <3> QED
      BY <2>1, <2>2, <3>6, <3>8, <3>9, <3>10, Zenon DEF SstsKept
  <2> QED
    BY <1>8, <2>3, <2>4, Zenon DEF MergeBuild
<1>9. ASSUME NEW t \in Mergers, MergeInstall(t) PROVE SstsKept'
  <2> DEFINE i == cctx[t].new_sst_id  ins == cctx[t].l0_input_ids
             published == IF cctx[t].output # EmptyTable THEN Assign(sst_levels, i, 1) ELSE sst_levels
  <2>1. /\ UNCHANGED <<mctx, next_file_number>> /\ pc[t] = "install_l0"
        /\ \A u \in Flushers : pc[u] = "install_minor" => pc'[u] = pc[u]
    BY <1>0, <1>9, Zenon DEF MergeInstall, PcTypeOK, Threads
  <2>2. /\ \A u \in Mergers : u # t => pc'[u] = pc[u] /\ cctx'[u] = cctx[u]
        /\ ~Merging(t)'
    BY <1>0, <1>9, Zenon DEF MergeInstall, PcTypeOK, LocalTypeOK, Threads, Merging, Return
  <2>3. DOMAIN sst' \subseteq DOMAIN sst
    BY <1>9, Zenon DEF MergeInstall, Erase
  <2>4. ASSUME NEW j \in DOMAIN sst' \ DOMAIN sst_levels'
        PROVE  j \notin DOMAIN sst_levels /\ j # i
    <3>1. CASE sst_levels' = Erase(published, ins) /\ sst' = Erase(sst, ins)
      <4>1. j \notin ins /\ j \notin DOMAIN published
        BY <2>4, <3>1, Zenon DEF Erase
      <4>2. CASE cctx[t].output # EmptyTable
        BY <4>1, <4>2, Zenon DEF Assign
      <4>3. CASE cctx[t].output = EmptyTable
        BY <2>1, <2>3, <2>4, <4>1, <4>3, Zenon DEF SstsKept, Merging
      <4> QED
        BY <4>2, <4>3, Zenon
    <3>2. CASE sst' = Erase(sst, {i}) /\ UNCHANGED sst_levels
      BY <2>4, <3>2, Zenon DEF Erase
    <3> QED
      BY <1>9, <3>1, <3>2, Zenon DEF MergeInstall
  <2>5. \A j \in DOMAIN sst' \ DOMAIN sst_levels' : InFlight(j)'
    BY <2>1, <2>2, <2>3, <2>4, StaysInFlight, Zenon DEF SstsKept
  <2>6. \A u \in Mergers : Merging(u)' => Merging(u) /\ u # t /\ cctx'[u] = cctx[u]
    BY <2>2, Zenon DEF Merging
  <2>7. ASSUME Compactors = {}, NEW u \in Mergers, Merging(u)' PROVE FALSE
    BY <2>1, <2>6, <2>7, OneFlusher, Zenon DEF Merging, Work
  <2> HIDE DEF i, ins, published
  <2> QED
    BY <2>1, <2>3, <2>5, <2>6, <2>7, Zenon DEF SstsKept
<1>10. CASE DtorJoin
  <2>1. /\ \A t \in Flushers : pc[t] = "install_minor" => pc'[t] = pc[t]
        /\ \A t \in Mergers : pc[t] = "install_l0" => pc'[t] = pc[t]
        /\ \A t \in Mergers : Merging(t)' => Merging(t)
    BY <1>0, <1>10, Zenon DEF DtorJoin, Merging, PcTypeOK, Threads
  <2> QED
    BY <1>0, <1>10, <2>1, SstsSame, Zenon DEF DtorJoin
<1>11. CASE DtorFinish
  <2>1. /\ \A t \in Flushers : pc[t] = "install_minor" => pc'[t] = pc[t]
        /\ \A t \in Mergers : pc[t] = "install_l0" => pc'[t] = pc[t]
        /\ \A t \in Mergers : Merging(t)' => Merging(t)
    BY <1>0, <1>11, Zenon DEF DtorFinish, Merging, PcTypeOK, Threads
  <2> QED
    BY <1>0, <1>11, <2>1, SstsSame, Zenon DEF DtorFinish
<1> QED
  BY NextCases, <1>1, <1>2, <1>3, <1>4, <1>5, <1>6, <1>7, <1>8, <1>9, <1>10, <1>11, ZenonT(30) DEF Inv
=============================================================================
