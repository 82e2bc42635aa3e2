---------------------------- MODULE DBImplProofs ----------------------------
(***************************************************************************)
(* Proofs about DBImpl, second part: every step keeps what a merge relies on *)
(* between PrepareL0ToL1 and InstallL0ToL1; the inductive invariant Inv, and *)
(* with it last write wins and the agreement of levels_ with the manifest;   *)
(* DirInv, and with it what recovery would read from the directory; and Put, *)
(* Get and NewIterator implement one atomic map (KVStore).                   *)
(***************************************************************************)
EXTENDS DBImplTypes

USE DEF store_vars, disk_vars, flag_vars, read_vars, Goto, Flushers, Mergers

-----------------------------------------------------------------------------
(* What a merge relies on.                                                  *)

\* Writing or removing a file outside the manifest changes no table of L0 or L1.
LEMMA LevelsKept ==
  ASSUME Inv, pc[Dtor] # "closed", UNCHANGED <<l0, l1>>,
         \A j \in DOMAIN sst_levels : sst'[j] = sst[j]
  PROVE  Level(l0)' = Level(l0) /\ Level(l1)' = Level(l1)
PROOF
<1>1. /\ \A j \in DOMAIN l0 : l0[j] \in DOMAIN sst_levels
      /\ \A j \in DOMAIN l1 : l1[j] \in DOMAIN sst_levels
  BY Zenon DEF Inv, FilesKnown, LevelIds, Range
<1>2. \A j \in DOMAIN l0 : sst'[l0[j]] = sst[l0[j]]
  BY <1>1, Zenon
<1>3. \A j \in DOMAIN l1 : sst'[l1[j]] = sst[l1[j]]
  BY <1>1, Zenon
<1> QED
  BY <1>2, <1>3, Zenon DEF Level

\* A merge keeps its file when no other merge is given its number.
LEMMA MergeKept ==
  ASSUME Inv, NEW m \in Mergers, Merging(m), pc'[m] = pc[m], cctx'[m] = cctx[m],
         next_file_number' \in {next_file_number, next_file_number + 1},
         cctx[m].new_sst_id \notin DOMAIN sst_levels',
         \A u \in Mergers : Merging(u)' => \/ Merging(u) /\ cctx'[u] = cctx[u]
                                           \/ cctx'[u].new_sst_id # cctx[m].new_sst_id
                                           \/ cctx'[u].new_sst_id = 0,
         cctx[m].output # EmptyTable /\ cctx[m].new_sst_id \in DOMAIN sst =>
           /\ cctx[m].new_sst_id \in DOMAIN sst'
           /\ sst'[cctx[m].new_sst_id] = sst[cctx[m].new_sst_id]
  PROVE  MergeOwns(m)'
PROOF
<1>1. MergeOwns(m) /\ next_file_number \in Nat
  BY Zenon DEF Inv, MergeStillValid, TypeOK, DiskTypeOK
<1> QED
  BY <1>1, SMTT(40) DEF MergeOwns

\* Every action leaves a merge that is under way (CompactL0ToL1) valid, or changes L0
\* so that InstallL0ToL1 will refuse it.
LEMMA MergeStillValidStep ==
  ASSUME Inv, [Next]_vars
  PROVE  MergeStillValid'
PROOF
<1> SUFFICES ASSUME NEW m \in Mergers, Merging(m)'
             PROVE  MergeOwns(m)' /\ OutputStands(m)'
  BY Zenon DEF MergeStillValid
<1> USE ThreadAssumption
<1> DEFINE i == cctx[m].new_sst_id
<1>0. StoreTypeOK /\ DiskTypeOK /\ PcTypeOK /\ LocalTypeOK
  BY Zenon DEF Inv, TypeOK
<1>a. Merging(m) => OutputStands(m) /\ i \notin DOMAIN sst_levels
  BY Zenon DEF Inv, MergeStillValid, MergeOwns
<1>1. CASE Quiet
  <2>1. Merging(m) /\ pc'[m] = pc[m] /\ \A u \in Mergers : Merging(u)' => Merging(u)
    BY <1>0, <1>1, Zenon DEF Quiet, Merging, Work
  <2>2. UNCHANGED <<cctx, l0, l1, sst_levels, sst>>
    BY <1>1, Zenon DEF Quiet
  <2>3. next_file_number' \in {next_file_number, next_file_number + 1}
    BY <1>1, Zenon DEF Quiet, AllocateFileNumber
  <2>4. MergeOwns(m)'
    BY <1>a, <2>1, <2>2, <2>3, MergeKept, Zenon
  <2>5. OutputStands(m)'
    BY <1>a, <2>1, <2>2, Zenon DEF OutputStands, LevelIds, Level
  <2> QED
    BY <2>4, <2>5, Zenon
<1>2. ASSUME NEW w \in Writers, PutSwitch(w) PROVE MergeOwns(m)' /\ OutputStands(m)'
  <2>1. Merging(m) /\ pc'[m] = pc[m] /\ \A u \in Mergers : Merging(u)' => Merging(u)
    BY <1>0, <1>2, Zenon DEF PutSwitch, Merging, PcTypeOK, Threads, Woken
  <2>2. UNCHANGED <<cctx, l0, l1, sst_levels, sst>>
    BY <1>2, Zenon DEF PutSwitch
  <2>3. next_file_number' \in {next_file_number, next_file_number + 1}
    BY <1>2, Zenon DEF PutSwitch, AllocateFileNumber
  <2>4. MergeOwns(m)'
    BY <1>a, <2>1, <2>2, <2>3, MergeKept, Zenon
  <2>5. OutputStands(m)'
    BY <1>a, <2>1, <2>2, Zenon DEF OutputStands, LevelIds, Level
  <2> QED
    BY <2>4, <2>5, Zenon
<1>3. ASSUME NEW w \in Writers, PutInsert(w) PROVE MergeOwns(m)' /\ OutputStands(m)'
  <2>1. Merging(m) /\ pc'[m] = pc[m] /\ \A u \in Mergers : Merging(u)' => Merging(u)
    BY <1>0, <1>3, Zenon DEF PutInsert, Merging, PcTypeOK, Threads
  <2>2. UNCHANGED <<cctx, l0, l1, sst_levels, sst>>
    BY <1>3, Zenon DEF PutInsert
  <2>3. next_file_number' \in {next_file_number, next_file_number + 1}
    BY <1>3, ZenonT(30) DEF PutInsert, AllocateFileNumber
  <2>4. MergeOwns(m)'
    BY <1>a, <2>1, <2>2, <2>3, MergeKept, Zenon
  <2>5. OutputStands(m)'
    BY <1>a, <2>1, <2>2, Zenon DEF OutputStands, LevelIds, Level
  <2> QED
    BY <2>4, <2>5, Zenon
<1>4. ASSUME NEW t \in Flushers, MinorPrepare(t) PROVE MergeOwns(m)' /\ OutputStands(m)'
  <2>1. Merging(m) /\ pc'[m] = pc[m] /\ \A u \in Mergers : Merging(u)' => Merging(u)
    BY <1>0, <1>4, ZenonT(30) DEF MinorPrepare, Merging, PcTypeOK, Threads, Return
  <2>2. UNCHANGED <<cctx, l0, l1, sst_levels, sst>>
    BY <1>4, Zenon DEF MinorPrepare
  <2>3. next_file_number' \in {next_file_number, next_file_number + 1}
    BY <1>4, Zenon DEF MinorPrepare, AllocateFileNumber
  <2>4. MergeOwns(m)'
    BY <1>a, <2>1, <2>2, <2>3, MergeKept, Zenon
  <2>5. OutputStands(m)'
    BY <1>a, <2>1, <2>2, Zenon DEF OutputStands, LevelIds, Level
  <2> QED
    BY <2>4, <2>5, Zenon
<1>5. ASSUME NEW t \in Flushers, MinorBuild(t) PROVE MergeOwns(m)' /\ OutputStands(m)'
  <2>1. Merging(m) /\ pc'[m] = pc[m] /\ \A u \in Mergers : Merging(u)' => Merging(u)
    BY <1>0, <1>5, ZenonT(30) DEF MinorBuild, Merging, PcTypeOK, Threads, Return
  <2>2. UNCHANGED <<cctx, l0, l1, sst_levels, next_file_number>>
    BY <1>5, Zenon DEF MinorBuild
  <2>3. FlushOwns(t) /\ pc[Dtor] # "closed"
    BY <1>5, MergeUnderWay, Zenon DEF MinorBuild, Inv, FlushOwnsFile, Flushing, Work
  <2>4. \A j : j # mctx[t].new_sst_id /\ j \in DOMAIN sst => j \in DOMAIN sst' /\ sst'[j] = sst[j]
    BY <1>5, ZenonT(30) DEF MinorBuild, Assign
  <2>5. i # mctx[t].new_sst_id /\ mctx[t].new_sst_id \notin DOMAIN sst_levels
    BY <2>1, <2>3, Zenon DEF FlushOwns
  <2>6. MergeOwns(m)'
    BY <1>a, <2>1, <2>2, <2>4, <2>5, MergeKept, Zenon
  <2>7. Level(l0)' = Level(l0) /\ Level(l1)' = Level(l1)
    BY <2>2, <2>3, <2>4, <2>5, LevelsKept, Zenon DEF Inv, FilesKnown
  <2> QED
    BY <1>a, <2>1, <2>2, <2>6, <2>7, Zenon DEF OutputStands, LevelIds
<1>6. ASSUME NEW t \in Flushers, MinorInstall(t) PROVE MergeOwns(m)' /\ OutputStands(m)'
  <2> DEFINE n == mctx[t].new_sst_id
  <2>1. Merging(m) /\ pc'[m] = pc[m] /\ \A u \in Mergers : Merging(u)' => Merging(u)
    BY <1>0, <1>6, Zenon DEF MinorInstall, Merging, PcTypeOK, Threads, Return
  <2>2. UNCHANGED <<cctx, sst, next_file_number>> /\ sst_levels' = Assign(sst_levels, n, 0)
    BY <1>6, Zenon DEF MinorInstall
  <2>3. i # n /\ n \notin cctx[m].l0_input_ids
    BY <2>1, <1>6, Zenon DEF MinorInstall, Inv, FlushOwnsFile, FlushOwns, Flushing
  <2>4. DOMAIN sst_levels' = DOMAIN sst_levels \cup {n} /\ n \in LevelIds(0)'
    BY <2>2, Zenon DEF Assign, LevelIds
  <2>5. MergeOwns(m)'
    BY <1>a, <2>1, <2>2, <2>3, <2>4, MergeKept, Zenon
  <2> QED
    BY <2>2, <2>3, <2>4, <2>5, Zenon DEF OutputStands
<1>7. ASSUME NEW t \in Mergers, MergePrepare(t) PROVE MergeOwns(m)' /\ OutputStands(m)'
  <2> DEFINE merged == Merge(Level(l0))  out == Output(merged, Level(l1))
             id == IF merged = EmptyTable THEN 0 ELSE next_file_number + 1
  <2>0. /\ next_file_number \in Nat /\ DOMAIN sst_levels \subseteq 1 .. next_file_number
        /\ Range(l0) = LevelIds(0) /\ l0 \in Seq(Nat)
    BY <1>0, <1>7, MergeUnderWay, Zenon DEF MergePrepare, Inv, FilesKnown, Work, DiskTypeOK, StoreTypeOK
  <2>1. /\ UNCHANGED <<l0, l1, sst_levels, sst>>
        /\ next_file_number' \in {next_file_number, next_file_number + 1}
    BY <1>7, Zenon DEF MergePrepare, AllocateFileNumber
  <2>2. \A u \in Mergers :
          u # t => (Merging(u)' <=> Merging(u)) /\ pc'[u] = pc[u] /\ cctx'[u] = cctx[u]
    <3>0. \E label : pc' = [pc EXCEPT ![t] = label]
      BY <1>7, Zenon DEF MergePrepare
    <3>1. \A u \in Mergers : u # t => pc'[u] = pc[u]
      BY <1>0, <3>0, Zenon DEF PcTypeOK, Threads
    <3>2. \E c : cctx' = cctx \/ cctx' = [cctx EXCEPT ![t] = c]
      BY <1>7, Zenon DEF MergePrepare
    <3>3. \A u \in Mergers : u # t => cctx'[u] = cctx[u]
      BY <1>0, <3>2, Zenon DEF LocalTypeOK
    <3> QED
      BY <3>1, <3>3, Zenon DEF Merging
  <2>3. Merging(t)' => /\ l0 # <<>>
                       /\ next_file_number' = IF merged = EmptyTable THEN next_file_number
                                                                     ELSE next_file_number + 1
                       /\ cctx'[t] = [l0_input_ids |-> LevelIds(0), expected_l0_reader_count |-> Len(l0),
                                      new_sst_id |-> id, output |-> out]
                       /\ pc'[t] = IF out = EmptyTable THEN "install_l0" ELSE "build_l0"
    BY <1>0, <1>7, PrepareEffect
  <2>4. \A u \in Mergers : Merging(u) => cctx[u].new_sst_id \in 0 .. next_file_number
    BY Zenon DEF Inv, MergeStillValid, MergeOwns
  <2>5. CASE m # t
    <3>1. Merging(m) /\ pc'[m] = pc[m] /\ cctx'[m] = cctx[m]
      BY <2>2, <2>5, Zenon
    <3>2. Merging(t)' => cctx'[t].new_sst_id = 0 \/ cctx'[t].new_sst_id # cctx[m].new_sst_id
      BY <2>0, <2>3, <2>4, <3>1, SMTT(40)
    <3>3. MergeOwns(m)'
      BY <1>a, <2>1, <2>2, <3>1, <3>2, MergeKept, Zenon
    <3> QED
      BY <1>a, <2>1, <3>1, <3>3, Zenon DEF OutputStands, LevelIds, Level
  <2>6. CASE m = t
    <3>1. Merging(t)'
      BY <2>6, Zenon
    <3>2. LevelIds(0) # {} /\ LevelIds(0) \subseteq 1 .. next_file_number
      <4>1. l0[1] \in Range(l0)
        BY <2>0, <2>3, <3>1, SMTT(40) DEF Range
      <4> QED
        BY <2>0, <4>1, Zenon DEF LevelIds
    <3>3. out # EmptyTable => merged # EmptyTable
      BY RecordAssumption, Zenon DEF Output, EmptyTable
    <3>a. /\ cctx'[t].l0_input_ids = LevelIds(0) /\ cctx'[t].new_sst_id = id
          /\ cctx'[t].output = out /\ (pc'[t] = "build_l0" <=> out # EmptyTable)
          /\ next_file_number' = IF merged = EmptyTable THEN next_file_number
                                                        ELSE next_file_number + 1
      <4> HIDE DEF out, merged, id
      <4>1. cctx'[t] = [l0_input_ids |-> LevelIds(0), expected_l0_reader_count |-> Len(l0),
                        new_sst_id |-> id, output |-> out]
        BY <2>3, <3>1, Zenon
      <4>2. pc'[t] = IF out = EmptyTable THEN "install_l0" ELSE "build_l0"
        BY <2>3, <3>1, Zenon
      <4>3. pc'[t] = "build_l0" <=> out # EmptyTable
        BY <4>2, Zenon
      <4>4. /\ cctx'[t].l0_input_ids = LevelIds(0) /\ cctx'[t].new_sst_id = id
            /\ cctx'[t].output = out
        BY <4>1, SMTT(40)
      <4>5. next_file_number' = IF merged = EmptyTable THEN next_file_number
                                                      ELSE next_file_number + 1
        BY <2>3, <3>1, Zenon
      <4> QED
        BY <4>3, <4>4, <4>5, Zenon
    <3>b. out = Output(Merge(Level(l0)), Level(l1))
      BY Zenon
    <3> HIDE DEF out, merged
    <3>4. id \in 0 .. next_file_number' /\ id \notin DOMAIN sst_levels /\ id \notin LevelIds(0)
      <4>1. next_file_number \in Nat /\ DOMAIN sst_levels \subseteq 1 .. next_file_number
        BY <2>0, Zenon
      <4>2. id \in 0 .. next_file_number' /\ id \notin 1 .. next_file_number
        BY <3>a, <4>1, SMTT(40)
      <4> QED
        BY <3>2, <4>1, <4>2, Zenon
    <3>5. \A u \in Mergers : Merging(u)' /\ cctx'[u].new_sst_id = id => u = t \/ id = 0
      BY <2>0, <2>2, <2>4, SMTT(40)
    <3>7. out # EmptyTable => id # 0 /\ \A j \in LevelIds(1) : j < id
      BY <2>0, <3>3 DEF LevelIds
    <3>8. LevelIds(0) \subseteq 1 .. next_file_number'
      BY <2>0, <2>1, <3>2
    <3>9. /\ LevelIds(0)' = LevelIds(0) /\ LevelIds(1)' = LevelIds(1)
          /\ Level(l0)' = Level(l0) /\ Level(l1)' = Level(l1)
      BY <2>1, Zenon DEF LevelIds, Level
    <3>10. pc'[t] = "install_l0" => out = EmptyTable
      BY <2>3, <3>1, Zenon
    <3>11. OutputStands(t)'
      BY <3>a, <3>b, <3>7, <3>9, Zenon DEF OutputStands
    <3> HIDE DEF id
    <3>12. MergeOwns(t)'
      BY <2>1, <3>2, <3>4, <3>5, <3>a, <3>7, <3>8, <3>10, ZenonT(30) DEF MergeOwns
    <3> QED
      BY <2>6, <3>11, <3>12, Zenon
  <2> QED
    BY <2>5, <2>6, Zenon
<1>8. ASSUME NEW t \in Mergers, MergeBuild(t) PROVE MergeOwns(m)' /\ OutputStands(m)'
  <2> DEFINE n == cctx[t].new_sst_id
  <2>1. MergeOwns(t) /\ Merging(t) /\ n # 0 /\ pc[Dtor] # "closed"
    BY <1>8, MergeUnderWay, Zenon DEF MergeBuild, Inv, MergeStillValid, MergeOwns, Merging, Work
  <2>2. /\ Merging(m) /\ cctx'[m] = cctx[m]
        /\ \A u \in Mergers : Merging(u)' => Merging(u) /\ cctx'[u] = cctx[u]
    <3>1. \A u \in Mergers : u # t => pc'[u] = pc[u]
      BY <1>0, <1>8, Zenon DEF MergeBuild, PcTypeOK, Threads
    <3>2. \A u \in Mergers : u # t => cctx'[u] = cctx[u]
      BY <1>0, <1>8, Zenon DEF MergeBuild, LocalTypeOK
    <3>3. Merging(t)' => cctx'[t] = cctx[t]
      BY <1>0, <1>8, Zenon DEF MergeBuild, Merging, PcTypeOK, Threads, Return
    <3> QED
      BY <2>1, <3>1, <3>2, <3>3, Zenon DEF Merging
  <2>3. UNCHANGED <<l0, l1, sst_levels, next_file_number>>
    BY <1>8, Zenon DEF MergeBuild
  <2>4. \A j : j # n /\ j \in DOMAIN sst => j \in DOMAIN sst' /\ sst'[j] = sst[j]
    BY <1>8, ZenonT(30) DEF MergeBuild, Assign
  <2>5. Level(l0)' = Level(l0) /\ Level(l1)' = Level(l1)
    BY <2>1, <2>3, <2>4, LevelsKept, Zenon DEF Inv, FilesKnown, MergeOwns
  <2>6. OutputStands(m)'
    BY <1>a, <2>2, <2>3, <2>5, Zenon DEF OutputStands, LevelIds
  <2>7. CASE m # t
    <3>1. i # n /\ pc'[m] = pc[m]
      <4>1. i # n
        BY <2>1, <2>2, <2>7, Zenon DEF MergeOwns
      <4>2. pc'[m] = pc[m]
        BY <1>0, <2>7, <1>8, Zenon DEF MergeBuild, PcTypeOK, Threads
      <4> QED
        BY <4>1, <4>2, Zenon
    <3>2. MergeOwns(m)'
      BY <1>a, <2>2, <2>3, <2>4, <3>1, MergeKept, ZenonT(30)
    <3> QED
      BY <2>6, <3>2, Zenon
  <2>8. CASE m = t
    <3>1. sst' = Assign(sst, n, cctx[t].output) /\ UNCHANGED cctx /\ pc'[t] = "install_l0"
      BY <1>0, <2>8, <1>8, Zenon DEF MergeBuild, Merging, PcTypeOK, Threads, Return
    <3>2. n \in DOMAIN sst' /\ sst'[n] = cctx[t].output
      BY <3>1, Zenon DEF Assign
    <3> QED
      BY <2>1, <2>2, <2>3, <2>6, <2>8, <3>1, <3>2, ZenonT(30) DEF MergeOwns
  <2> QED
    BY <2>7, <2>8, Zenon
<1>9. ASSUME NEW t \in Mergers, MergeInstall(t) PROVE MergeOwns(m)' /\ OutputStands(m)'
  <2> DEFINE ctx == cctx[t]  n == cctx[t].new_sst_id  ids == cctx[t].l0_input_ids
  <2>1. /\ m # t /\ Merging(m) /\ pc'[m] = pc[m] /\ cctx'[m] = cctx[m]
        /\ \A u \in Mergers : Merging(u)' => Merging(u) /\ cctx'[u] = cctx[u]
    BY <1>0, <1>9, Zenon DEF MergeInstall, Merging, PcTypeOK, Threads, Return, LocalTypeOK
  <2>2. MergeOwns(t) /\ MergeOwns(m) /\ Merging(t) /\ pc[Dtor] # "closed"
    BY <2>1, <1>9, MergeUnderWay, Zenon DEF MergeInstall, Inv, MergeStillValid, Merging, Work
  <2>3. i # n \/ n = 0
    BY <2>1, <2>2, Zenon DEF MergeOwns
  <2>4. CASE SameInputs(ctx)
    <3>1. /\ LevelIds(0) = ids /\ sst' = Erase(sst, ids) /\ UNCHANGED next_file_number
          /\ sst_levels' = Erase(IF ctx.output # EmptyTable THEN Assign(sst_levels, n, 1)
                                                            ELSE sst_levels, ids)
      BY <2>4, <1>9, Zenon DEF MergeInstall, SameInputs
    <3>2. i \notin ids
      BY <1>a, <2>1, <3>1, Zenon DEF LevelIds
    <3>3. ctx.output # EmptyTable => i # n
      BY <2>2, <2>3, Zenon DEF MergeOwns
    <3>4. i \notin DOMAIN sst_levels'
      BY <1>a, <2>1, <3>1, <3>3, Zenon DEF Assign, Erase
    <3>5. i \in DOMAIN sst => i \in DOMAIN sst' /\ sst'[i] = sst[i]
      BY <3>1, <3>2, Zenon DEF Erase
    <3>6. MergeOwns(m)'
      BY <2>1, <3>1, <3>4, <3>5, MergeKept, Zenon
    <3>7. LevelIds(0)' = {}
      <4>1. CASE ctx.output # EmptyTable
        BY <3>1, <4>1 DEF LevelIds, Assign, Erase
      <4>2. CASE ctx.output = EmptyTable
        BY <3>1, <4>2, Zenon DEF LevelIds, Erase
      <4> QED
        BY <4>1, <4>2, Zenon
    <3>8. cctx'[m].l0_input_ids # {}
      BY <2>1, <2>2, Zenon DEF MergeOwns
    <3> QED
      BY <3>6, <3>7, <3>8, Zenon DEF OutputStands
  <2>5. CASE ~SameInputs(ctx)
    <3>1. UNCHANGED <<l0, l1, sst_levels, next_file_number>> /\ sst' = Erase(sst, {n})
      BY <2>5, <1>9, Zenon DEF MergeInstall
    <3>2. \A j : j # n /\ j \in DOMAIN sst => j \in DOMAIN sst' /\ sst'[j] = sst[j]
      BY <3>1, Zenon DEF Erase
    <3>3. cctx[m].output # EmptyTable => i # n
      BY <2>2, <2>3, Zenon DEF MergeOwns
    <3>4. MergeOwns(m)'
      <4>1. i \notin DOMAIN sst_levels'
        BY <1>a, <2>1, <3>1, Zenon
      <4>2. cctx[m].output # EmptyTable /\ i \in DOMAIN sst => i \in DOMAIN sst' /\ sst'[i] = sst[i]
        BY <3>2, <3>3, Zenon
      <4> QED
        <5>1. next_file_number' \in {next_file_number, next_file_number + 1}
          BY <3>1, Zenon
        <5>2. \A u \in Mergers : Merging(u)' => Merging(u) /\ cctx'[u] = cctx[u]
          BY <2>1, Zenon
        <5>3. Merging(m) /\ pc'[m] = pc[m] /\ cctx'[m] = cctx[m]
          BY <2>1, Zenon
        <5> QED
          BY <4>1, <4>2, <5>1, <5>2, <5>3, MergeKept, ZenonT(30)
    <3>5. Level(l0)' = Level(l0) /\ Level(l1)' = Level(l1)
      BY <2>2, <3>1, <3>2, LevelsKept, ZenonT(30) DEF Inv, FilesKnown, MergeOwns
    <3> QED
      BY <1>a, <2>1, <3>1, <3>4, <3>5, ZenonT(30) DEF OutputStands, LevelIds
  <2> QED
    BY <2>4, <2>5, Zenon
<1>10. CASE DtorJoin
  <2>1. Merging(m) /\ pc'[m] = pc[m] /\ \A u \in Mergers : Merging(u)' => Merging(u)
    BY <1>0, <1>10, ZenonT(30) DEF DtorJoin, Merging, PcTypeOK, Threads
  <2>2. UNCHANGED <<cctx, l0, l1, sst_levels, sst>>
    BY <1>10, Zenon DEF DtorJoin
  <2>3. next_file_number' \in {next_file_number, next_file_number + 1}
    BY <1>10, Zenon DEF DtorJoin, AllocateFileNumber
  <2>4. MergeOwns(m)'
    BY <1>a, <2>1, <2>2, <2>3, MergeKept, Zenon
  <2>5. OutputStands(m)'
    BY <1>a, <2>1, <2>2, Zenon DEF OutputStands, LevelIds, Level
  <2> QED
    BY <2>4, <2>5, Zenon
<1>11. CASE DtorFinish
  <2>1. pc[Bg] = "done" /\ \A c \in Compactors : pc[c] = "idle"
    BY <1>11, Zenon DEF DtorFinish, Inv, DtorAlone, Threads
  <2> QED
    BY <1>0, <2>1, <1>11, Zenon DEF DtorFinish, Merging, PcTypeOK, Threads
<1> QED
  BY NextCases, <1>1, <1>2, <1>3, <1>4, <1>5, <1>6, <1>7, <1>8, <1>9, <1>10, <1>11, ZenonT(30) DEF Inv

\* BuildMinorSST and BuildL0ToL1SST write only a file that no level refers to.
LEMMA BuildsKeepLevels ==
  ASSUME Inv, \/ \E t \in Flushers : MinorBuild(t)
              \/ \E t \in Mergers : MergeBuild(t)
  PROVE  Level(l0)' = Level(l0) /\ Level(l1)' = Level(l1)
PROOF
<1>1. PICK i, x : /\ sst' = sst \/ sst' = Assign(sst, i, x)
                  /\ i \notin DOMAIN sst_levels /\ pc[Dtor] # "closed" /\ UNCHANGED <<l0, l1>>
  <2>1. ASSUME NEW t \in Flushers, MinorBuild(t)
        PROVE  /\ mctx[t].new_sst_id \notin DOMAIN sst_levels /\ pc[Dtor] # "closed"
               /\ UNCHANGED <<l0, l1>>
               /\ sst' = sst \/ sst' = Assign(sst, mctx[t].new_sst_id, mctx[t].flushing_imm)
    BY <2>1, MergeUnderWay, Zenon DEF MinorBuild, Inv, FlushOwnsFile, FlushOwns, Flushing, Work
  <2>2. ASSUME NEW t \in Mergers, MergeBuild(t)
        PROVE  /\ cctx[t].new_sst_id \notin DOMAIN sst_levels /\ pc[Dtor] # "closed"
               /\ UNCHANGED <<l0, l1>>
               /\ sst' = sst \/ sst' = Assign(sst, cctx[t].new_sst_id, cctx[t].output)
    BY <2>2, MergeUnderWay, Zenon DEF MergeBuild, Inv, MergeStillValid, MergeOwns, Merging, Work
  <2> QED
    BY <2>1, <2>2, Zenon
<1>2. \A j \in DOMAIN sst_levels : sst'[j] = sst[j]
  BY <1>1, Zenon DEF Assign, Inv, FilesKnown
<1> QED
  BY <1>1, <1>2, LevelsKept, Zenon

-----------------------------------------------------------------------------
(* The invariant, and what follows from it.                                 *)

\* A reader appended to a level adds its table at the end.
LEMMA AppendTable ==
  ASSUME NEW f, NEW l \in Seq(Nat), NEW i \in Nat, NEW s \in Seq(Tables), NEW x \in Tables,
         s = [j \in DOMAIN l |-> f[l[j]]], f[i] = x
  PROVE  [j \in DOMAIN Append(l, i) |-> f[Append(l, i)[j]]] = Append(s, x)
PROOF
<1> DEFINE n == Len(l) + 1
           a == [j \in DOMAIN Append(l, i) |-> f[Append(l, i)[j]]]
<1>1. Len(l) \in Nat /\ DOMAIN l = 1 .. Len(l) /\ DOMAIN Append(l, i) = 1 .. n
  OBVIOUS
<1>2. Len(s) = Len(l) /\ DOMAIN s = 1 .. Len(l)
  BY <1>1
<1>3. Append(s, x) \in Seq(Tables) /\ Len(Append(s, x)) = n
  BY <1>2
<1>4. Append(s, x) \in [1 .. n -> Tables]
  <2>1. \A q \in Seq(Tables) : q \in [1 .. Len(q) -> Tables]
    OBVIOUS
  <2> DEFINE q == Append(s, x)
  <2>2. q \in Seq(Tables) /\ Len(q) = n
    BY <1>3, Zenon
  <2> HIDE DEF q, n
  <2>3. q \in [1 .. n -> Tables]
    BY <2>1, <2>2, Zenon
  <2> QED
    BY <2>3, Zenon DEF q
<1>5. \A j \in 1 .. n : Append(s, x)[j] = a[j]
  <2>1. SUFFICES ASSUME NEW j \in 1 .. n PROVE Append(s, x)[j] = f[Append(l, i)[j]]
    BY <1>1, Zenon
  <2>2. CASE j = n
    <3>1. Append(s, x)[j] = x /\ Append(l, i)[j] = i
      BY <1>1, <1>2, <2>2
    <3> QED
      BY <3>1, Zenon
  <2>3. CASE j # n
    <3>1. j \in 1 .. Len(l)
      BY <1>1, <2>3
    <3>2. Append(s, x)[j] = s[j] /\ Append(l, i)[j] = l[j]
      BY <1>1, <1>2, <3>1
    <3> QED
      BY <1>1, <3>1, <3>2, Zenon
  <2> QED
    BY <2>2, <2>3, Zenon
<1>6. a = [j \in 1 .. n |-> a[j]]
  BY <1>1, Zenon
<1>7. Append(s, x) = [j \in 1 .. n |-> Append(s, x)[j]]
  BY <1>4, Zenon
<1> DEFINE b == Append(s, x)
<1>8. (\A j \in 1 .. n : b[j] = a[j]) /\ b = [j \in 1 .. n |-> b[j]]
  BY <1>5, <1>7, Zenon
<1> HIDE DEF a, b, n
<1>9. a = b
  BY <1>6, <1>8, Zenon
<1> QED
  BY <1>9, Zenon DEF a, b

\* Every action keeps last write wins: PutInsert changes both sides alike, and the
\* switch, the flush and the merge change neither.
LEMMA ReadsLatestStep ==
  ASSUME Inv, [Next]_vars
  PROVE  ReadsLatest'
PROOF
<1> SUFFICES ASSUME Open', NEW k \in Keys
             PROVE  (Visible(Find(k)) = Visible(last[k]))'
  BY Zenon DEF ReadsLatest
<1> USE ThreadAssumption
<1>0. StoreTypeOK /\ DiskTypeOK /\ PcTypeOK /\ LocalTypeOK
  BY Zenon DEF Inv, TypeOK
<1>a. Open => Visible(Find(k)) = Visible(last[k])
  BY Zenon DEF Inv, ReadsLatest
<1>b. Open => pc[Dtor] # "closed"
  BY Zenon DEF Open
<1>c. ASSUME Open, UNCHANGED <<mem, imm, last>>,
             Level(l0)' = Level(l0), Level(l1)' = Level(l1)
      PROVE  (Visible(Find(k)) = Visible(last[k]))'
  BY <1>a, <1>c, Zenon DEF Find, BelowMem, ImmRecord
<1>t. Open => mem[k] \in Records \cup {None}
  BY <1>0, Zenon DEF StoreTypeOK, Tables
<1>1. CASE Quiet
  <2>1. Open
    BY <1>0, <1>1, Zenon DEF Quiet, Open
  <2>2. UNCHANGED <<mem, imm, last, l0, l1, sst>>
    BY <1>1, Zenon DEF Quiet
  <2> QED
    BY <1>c, <2>1, <2>2, Zenon DEF Level
<1>2. ASSUME NEW w \in Writers, PutSwitch(w) PROVE (Visible(Find(k)) = Visible(last[k]))'
  <2>1. Open /\ mem[k] \in Records \cup {None}
    BY <1>t, <1>2, PutUnderWay, Zenon DEF PutSwitch, Open
  <2>2. /\ imm = Null /\ imm' = mem /\ mem' = EmptyTable /\ UNCHANGED <<l0, l1, sst, last>>
    BY <1>2, Zenon DEF PutSwitch
  <2>3. mem \in Tables /\ mem # Null
    BY <1>0, <2>1, BoundAssumption, Zenon DEF StoreTypeOK
  <2> QED
    BY <1>a, <2>1, <2>2, <2>3, Zenon DEF Find, BelowMem, ImmRecord, Level, EmptyTable, Over
<1>3. ASSUME NEW w \in Writers, PutInsert(w) PROVE (Visible(Find(k)) = Visible(last[k]))'
  <2>1. /\ Open /\ arg[w][1] \in Keys /\ arg[w][2] \in Records /\ mem \in Tables
        /\ last \in Tables
    BY <1>0, <1>3, PutUnderWay, Zenon DEF PutInsert, Open, StoreTypeOK
  <2>2. /\ UNCHANGED <<imm, l0, l1, sst>>
        /\ mem' = Insert(mem, arg[w][1], arg[w][2])
        /\ last' = Insert(last, arg[w][1], arg[w][2])
    BY <1>3, Zenon DEF PutInsert
  <2>3. BelowMem(k)' = BelowMem(k)
    BY <2>2, Zenon DEF BelowMem, ImmRecord, Level
  <2>4. CASE k = arg[w][1]
    <3>1. mem'[k] = arg[w][2] /\ last'[k] = arg[w][2] /\ arg[w][2] # None
      BY <2>1, <2>2, <2>4, RecordAssumption, Zenon DEF Insert, Tables, Records
    <3> QED
      BY <3>1, Zenon DEF Find, Over
  <2>5. CASE k # arg[w][1]
    <3>1. mem'[k] = mem[k] /\ last'[k] = last[k]
      BY <2>1, <2>2, <2>5, Zenon DEF Insert, Tables
    <3> QED
      BY <1>a, <2>1, <2>3, <3>1, Zenon DEF Find
  <2> QED
    BY <2>4, <2>5, Zenon
<1>4. ASSUME NEW t \in Flushers, MinorPrepare(t) PROVE (Visible(Find(k)) = Visible(last[k]))'
  <2>1. Open
    BY <1>0, <1>4, Zenon DEF MinorPrepare, Open, PcTypeOK, Threads, Return
  <2>2. UNCHANGED <<mem, imm, last, l0, l1, sst>>
    BY <1>4, Zenon DEF MinorPrepare
  <2> QED
    BY <1>c, <2>1, <2>2, Zenon DEF Level
<1>5. ASSUME NEW t \in Flushers, MinorBuild(t) PROVE (Visible(Find(k)) = Visible(last[k]))'
  <2>1. Open
    BY <1>0, <1>5, Zenon DEF MinorBuild, Open, PcTypeOK, Threads, Return
  <2>2. UNCHANGED <<mem, imm, last, l0, l1>>
    BY <1>5, Zenon DEF MinorBuild
  <2>3. Level(l0)' = Level(l0) /\ Level(l1)' = Level(l1)
    BY <1>5, BuildsKeepLevels, Zenon
  <2> QED
    BY <1>c, <2>1, <2>2, <2>3, Zenon
<1>6. ASSUME NEW t \in Flushers, MinorInstall(t) PROVE (Visible(Find(k)) = Visible(last[k]))'
  <2> DEFINE i == mctx[t].new_sst_id
  <2>1. Open
    BY <1>0, <1>6, Zenon DEF MinorInstall, Open, PcTypeOK, Threads, Return
  <2>2. /\ l0' = Append(l0, i) /\ imm' = Null /\ UNCHANGED <<mem, last, l1, sst>>
    BY <1>6, Zenon DEF MinorInstall
  <2>3. i \in Nat /\ i \in DOMAIN sst /\ sst[i] = imm /\ imm # Null /\ imm \in Tables
    BY <1>0, <1>6, Zenon
       DEF MinorInstall, Inv, FlushOwnsFile, FlushOwns, Flushing, LocalTypeOK, StoreTypeOK
  <2>4. Level(l0) \in Seq(Tables) /\ Len(Level(l0)) = Len(l0)
    BY <1>6, MergeUnderWay, Zenon DEF MinorInstall, Work
  <2>5. Level(l0)' = Append(Level(l0), imm)
    <3>1. l0 \in Seq(Nat)
      BY <1>0, Zenon DEF StoreTypeOK
    <3>2. Level(l0) = [j \in DOMAIN l0 |-> sst[l0[j]]]
      BY Zenon DEF Level
    <3>3. [j \in DOMAIN Append(l0, i) |-> sst[Append(l0, i)[j]]] = Append(Level(l0), imm)
      <4> DEFINE f == sst
                 s == Level(l0)
                 x == imm
      <4>1. l0 \in Seq(Nat) /\ i \in Nat /\ s \in Seq(Tables) /\ x \in Tables
        BY <2>3, <2>4, <3>1, Zenon
      <4>2. s = [j \in DOMAIN l0 |-> f[l0[j]]] /\ f[i] = x
        BY <2>3, <2>4, <3>1, <3>2, ZenonT(30)
      <4> HIDE DEF f, s, x
      <4>3. [j \in DOMAIN Append(l0, i) |-> f[Append(l0, i)[j]]] = Append(s, x)
        BY <4>1, <4>2, AppendTable, SMTT(40)
      <4> QED
        BY <4>3, Zenon DEF f, s, x
    <3> QED
      BY <2>2, <3>3, Zenon DEF Level
  <2>6. Level(l1)' = Level(l1)
    BY <2>2, Zenon DEF Level
  <2>7. Lookup(Level(l0)', k) = Over(imm[k], Lookup(Level(l0), k))
    BY <2>3, <2>4, <2>5, LookupAppend, Zenon
  <2>8. BelowMem(k)' = Over(None, Over(Lookup(Level(l0)', k), Lookup(Level(l1)', k)))
    BY <2>2, Zenon DEF BelowMem, ImmRecord
  <2> QED
    BY <1>a, <2>1, <2>2, <2>3, <2>6, <2>7, <2>8, Zenon DEF Find, BelowMem, ImmRecord, Over
<1>7. ASSUME NEW t \in Mergers, MergePrepare(t) PROVE (Visible(Find(k)) = Visible(last[k]))'
  <2>1. Open
    <3>1. CASE t = Dtor
      <4>1. pc'[Dtor] \in {"finish", "install_l0", "build_l0"}
        BY <1>0, <1>7, <3>1, Zenon DEF MergePrepare, Return, PcTypeOK, Threads
      <4> QED
        BY <4>1, Zenon DEF Open
    <3>2. CASE t # Dtor
      <4>1. \E label : pc' = [pc EXCEPT ![t] = label]
        BY <1>7, Zenon DEF MergePrepare
      <4> QED
        BY <1>0, <3>2, <4>1, Zenon DEF Open, PcTypeOK, Threads
    <3> QED
      BY <3>1, <3>2, Zenon
  <2>2. UNCHANGED <<mem, imm, last, l0, l1, sst>>
    BY <1>7, Zenon DEF MergePrepare
  <2> QED
    BY <1>c, <2>1, <2>2, Zenon DEF Level
<1>8. ASSUME NEW t \in Mergers, MergeBuild(t) PROVE (Visible(Find(k)) = Visible(last[k]))'
  <2>1. Open
    BY <1>0, <1>8, Zenon DEF MergeBuild, Open, PcTypeOK, Threads, Return
  <2>2. UNCHANGED <<mem, imm, last, l0, l1>>
    BY <1>8, Zenon DEF MergeBuild
  <2>3. Level(l0)' = Level(l0) /\ Level(l1)' = Level(l1)
    BY <1>8, BuildsKeepLevels, Zenon
  <2> QED
    BY <1>c, <2>1, <2>2, <2>3, Zenon
<1>9. ASSUME NEW t \in Mergers, MergeInstall(t) PROVE (Visible(Find(k)) = Visible(last[k]))'
  <2> DEFINE ctx == cctx[t]  n == cctx[t].new_sst_id  ids == cctx[t].l0_input_ids
  <2>1. Open
    BY <1>0, <1>9, Zenon DEF MergeInstall, Open, PcTypeOK, Threads, Return
  <2>2. UNCHANGED <<mem, imm, last>>
    BY <1>9, Zenon DEF MergeInstall
  <2>3. MergeOwns(t) /\ OutputStands(t) /\ FilesKnown
    BY <1>9, Zenon DEF MergeInstall, Inv, MergeStillValid, Merging
  <2>4. /\ Level(l0) \in Seq(Tables) /\ Level(l1) \in Seq(Tables) /\ Len(Level(l1)) = Len(l1)
    BY <1>9, MergeUnderWay, Zenon DEF MergeInstall, Work
  <2>5. CASE ~SameInputs(ctx)
    <3>1. UNCHANGED <<l0, l1>> /\ sst' = Erase(sst, {n})
      BY <2>5, <1>9, Zenon DEF MergeInstall
    <3>2. \A j \in DOMAIN sst_levels : sst'[j] = sst[j]
      BY <2>3, <3>1, Zenon DEF Erase, MergeOwns, FilesKnown
    <3>3. Level(l0)' = Level(l0) /\ Level(l1)' = Level(l1)
      BY <1>b, <2>1, <3>1, <3>2, LevelsKept, Zenon
    <3> QED
      BY <1>c, <2>1, <2>2, <3>3, Zenon
  <2>6. CASE SameInputs(ctx)
    <3>1. /\ l0' = <<>> /\ l1' = IF ctx.output # EmptyTable THEN Append(l1, n) ELSE l1
          /\ sst' = Erase(sst, ids) /\ LevelIds(0) = ids
      BY <2>6, <1>9, Zenon DEF MergeInstall, SameInputs
    <3>2. ctx.output = Output(Merge(Level(l0)), Level(l1)) /\ ctx.output \in Tables
      BY <1>0, <2>3, <3>1, Zenon DEF OutputStands, LocalTypeOK
    <3>3. \A j \in 1 .. Len(l1) : l1[j] \in DOMAIN sst /\ l1[j] \notin ids
      <4>1. Range(l1) = LevelIds(1)
        BY <1>b, <2>1, <2>3, Zenon DEF FilesKnown
      <4>2. \A j \in LevelIds(1) : j \in DOMAIN sst /\ j \notin LevelIds(0)
        BY <2>3, SMTT(40) DEF LevelIds, FilesKnown
      <4>3. \A j \in 1 .. Len(l1) : l1[j] \in Range(l1)
        BY <1>0, SMTT(40) DEF StoreTypeOK, Range
      <4> QED
        BY <3>1, <4>1, <4>2, <4>3, Zenon
    <3>4. l1 \in Seq(Nat) /\ Len(l1) \in Nat /\ DOMAIN l1 = 1 .. Len(l1)
      BY <1>0 DEF StoreTypeOK
    <3>5. Lookup(Level(l0)', k) = None
      <4>1. Level(l0)' = <<>>
        BY <3>1 DEF Level
      <4> QED
        BY <4>1, LookupEmpty, Zenon
    <3>6. Lookup(Level(l1)', k) = Over(ctx.output[k], Lookup(Level(l1), k))
      <4>1. CASE ctx.output = EmptyTable
        <5>1. \A j \in DOMAIN l1 : sst'[l1[j]] = sst[l1[j]]
          BY <3>1, <3>3, <3>4, Zenon DEF Erase
        <5>2. Level(l1)' = Level(l1)
          BY <3>1, <4>1, <5>1, Zenon DEF Level
        <5> QED
          BY <4>1, <5>2, Zenon DEF EmptyTable, Over
      <4>2. CASE ctx.output # EmptyTable
        <5>1. n \in Nat /\ n \in DOMAIN sst /\ sst[n] = ctx.output /\ n \notin ids
          BY <1>0, <2>3, <4>2, <1>9, ZenonT(30) DEF MergeInstall, MergeOwns, LocalTypeOK
        <5>2. sst'[n] = ctx.output /\ \A j \in 1 .. Len(l1) : sst'[l1[j]] = sst[l1[j]]
          BY <3>1, <3>3, <5>1, Zenon DEF Erase
        <5>3. Level(l1)' = Append(Level(l1), ctx.output)
          <6>1. Level(l1) = [j \in DOMAIN l1 |-> sst'[l1[j]]]
            BY <3>4, <5>2, Zenon DEF Level
          <6>3. l1' = Append(l1, n)
            BY <3>1, <4>2, Zenon
          <6> HIDE DEF n, ids, ctx
          <6>2. [j \in DOMAIN Append(l1, n) |-> sst'[Append(l1, n)[j]]] = Append(Level(l1), ctx.output)
            <7> DEFINE f == sst'
                       s == Level(l1)
                       x == ctx.output
            <7>1. l1 \in Seq(Nat) /\ n \in Nat /\ s \in Seq(Tables) /\ x \in Tables
              BY <2>4, <3>2, <3>4, <5>1, Zenon
            <7>2. s = [j \in DOMAIN l1 |-> f[l1[j]]] /\ f[n] = x
              BY <5>2, <6>1, ZenonT(30)
            <7> HIDE DEF f, s, x
            <7>3. [j \in DOMAIN Append(l1, n) |-> f[Append(l1, n)[j]]] = Append(s, x)
              BY <7>1, <7>2, AppendTable, SMTT(40)
            <7> QED
              BY <7>3, Zenon DEF f, s, x
          <6>4. Level(l1)' = [j \in DOMAIN l1' |-> sst'[l1'[j]]]
            BY Zenon DEF Level
          <6> QED
            BY <6>2, <6>3, <6>4, Zenon
        <5> QED
          BY <2>4, <3>2, <5>3, LookupAppend, Zenon
      <4> QED
        BY <4>1, <4>2, Zenon
    <3>7. Visible(Over(ctx.output[k], Lookup(Level(l1), k)))
            = Visible(Over(Lookup(Level(l0), k), Lookup(Level(l1), k)))
      BY <2>4, <3>2, OutputKeepsView, SMTT(40)
    <3>8. BelowMem(k)' = Over(ImmRecord(k), Over(ctx.output[k], Lookup(Level(l1), k)))
      BY <2>2, <3>5, <3>6, Zenon DEF BelowMem, ImmRecord, Over
    <3> HIDE DEF ctx, n, ids
    <3> QED
      BY <1>a, <2>1, <2>2, <3>7, <3>8, ZenonT(30) DEF Find, BelowMem, Over
  <2> QED
    BY <2>5, <2>6, Zenon
<1>10. CASE DtorJoin
  BY <1>0, <1>10, Zenon DEF DtorJoin, Open, PcTypeOK, Threads
<1>11. CASE DtorFinish
  BY <1>0, <1>11, Zenon DEF DtorFinish, Open, PcTypeOK, Threads
<1> QED
  BY NextCases, <1>1, <1>2, <1>3, <1>4, <1>5, <1>6, <1>7, <1>8, <1>9, <1>10, <1>11, ZenonT(30) DEF Inv

\* The invariant holds in a database that has just been created.
LEMMA InitInv == Init => Inv
PROOF
<1> SUFFICES ASSUME Init PROVE Inv
  BY Zenon
<1> USE ThreadAssumption DEF Init
<1>1. EmptyTable \in Tables
  BY Zenon DEF EmptyTable, Tables
<1>2. StoreTypeOK
  BY <1>1 DEF StoreTypeOK
<1>3. DiskTypeOK
  BY <1>1, SMTT(40) DEF DiskTypeOK
<1>4. PcTypeOK
  <2>1. \A t \in Threads : pc[t] = IF t = Bg THEN "check" ELSE "idle"
    BY Zenon
  <2>2. \A t \in Threads : pc[t] \in LabelsOf(t)
    BY <2>1, Zenon DEF LabelsOf, Threads
  <2>3. pc = [t \in Threads |-> pc[t]]
    BY <2>1, Zenon
  <2>4. /\ bg_stopped \in BOOLEAN /\ bg_compaction_scheduled \in BOOLEAN
        /\ write_mu \in Writers \cup {NoThread}
    BY Zenon
  <2> HIDE DEF Init
  <2> QED
    BY <2>2, <2>3, <2>4, Zenon DEF PcTypeOK
<1>5. LocalTypeOK
  <2>1. NoMinor \in [flushing_imm : Tables, new_sst_id : Nat, old_wal_id : Nat]
    BY <1>1, Zenon DEF NoMinor
  <2>2. NoMerge \in [l0_input_ids : SUBSET Nat, expected_l0_reader_count : Nat,
                     new_sst_id : Nat, output : Tables]
    BY <1>1, Zenon DEF NoMerge
  <2>3. EmptyTable \in [Keys -> Values \cup {None}]
    BY Zenon DEF EmptyTable
  <2> QED
    BY <1>1, <2>1, <2>2, <2>3, Zenon DEF LocalTypeOK
<1>6. \A t \in Threads : pc[t] = IF t = Bg THEN "check" ELSE "idle"
  BY Zenon
<1>7. DtorAlone
  BY <1>6, Zenon DEF DtorAlone, Threads
<1>8. FilesKnown
  BY SMTT(40) DEF FilesKnown, Range, LevelIds, Ascending
<1>9. FlushOwnsFile /\ MergeStillValid
  BY <1>6, Zenon DEF FlushOwnsFile, Flushing, MergeStillValid, Merging, Threads
<1>10. ReadsLatest
  <2>1. \A k \in Keys : Find(k) = None /\ last[k] = None
    BY LookupEmpty, SMTT(40) DEF Find, BelowMem, ImmRecord, Level, EmptyTable, Over
  <2> QED
    BY <2>1, Zenon DEF ReadsLatest
<1> QED
  BY <1>2, <1>3, <1>4, <1>5, <1>7, <1>8, <1>9, <1>10, ZenonT(30) DEF Inv, TypeOK

\* Every step of any thread keeps the invariant.
LEMMA InvStep == Inv /\ [Next]_vars => Inv'
  BY StoreTypeStep, DiskTypeStep, PcTypeStep, LocalTypeStep, DtorAloneStep, FilesKnownStep,
     FlushOwnsFileStep, MergeStillValidStep, ReadsLatestStep, ZenonT(30)
     DEF Inv, TypeOK

\* Inv holds in every reachable state: a flush or a merge under way can always be
\* installed, however Put, readers, Sync, the background thread, callers of
\* CompactL0ToL1 and the destructor interleave.
THEOREM Invariance == Spec => []Inv
  BY InitInv, InvStep, PTL DEF Spec

\* Every variable of DBImpl keeps its type.
THEOREM TypeCorrect == Spec => []TypeOK
PROOF
<1>1. Inv => TypeOK
  BY Zenon DEF Inv
<1> QED
  BY <1>1, Invariance, PTL

\* Last write wins: a search through mem_, imm_, L0 and L1 finds what was put last.
THEOREM LastWriteWins == Spec => []ReadsLatest
PROOF
<1>1. Inv => ReadsLatest
  BY Zenon DEF Inv
<1> QED
  BY <1>1, Invariance, PTL

\* The readers in memory are the manifest's files in file-number order, the order
\* in which LoadSSTables would load them again.
THEOREM MemoryFollowsManifest == Spec => []LevelsFollowManifest
PROOF
<1>1. Inv => LevelsFollowManifest
  BY Zenon DEF Inv, FilesKnown, LevelsFollowManifest, Open
<1> QED
  BY <1>1, Invariance, PTL

-----------------------------------------------------------------------------
(* What recovery would read from the directory.                             *)

\* A search of a stack finds the record of the highest number that has one.
LEMMA StackTop ==
  ASSUME NEW f, NEW k, DOMAIN f \subseteq Nat, NEW i \in DOMAIN f, f[i][k] # None,
         \A j \in DOMAIN f : f[j][k] # None => j <= i
  PROVE  Lookup(f, k) = f[i][k]
PROOF
<1>1. Hits(f, k) \in SUBSET Nat /\ i \in Hits(f, k) /\ \A j \in Hits(f, k) : j <= i
  BY Zenon DEF Hits
<1>2. Max(Hits(f, k)) \in Hits(f, k) /\ \A j \in Hits(f, k) : j <= Max(Hits(f, k))
  BY <1>1, MaxOfBounded, Zenon
<1>3. Max(Hits(f, k)) = i
  BY <1>1, <1>2
<1> QED
  BY <1>1, <1>3, Zenon DEF Lookup

\* The WALs replay to what mem_ and imm_ hold.
LEMMA WalsReplay ==
  ASSUME Inv, WalsKept, Open, NEW k \in Keys
  PROVE  Lookup(wal, k) = Over(mem[k], ImmRecord(k))
PROOF
<1> DEFINE a == active_wal_id  b == imm_wal_id
<1>1. /\ a \in Nat /\ b \in Nat /\ DOMAIN wal = {a} \cup (IF imm = Null THEN {} ELSE {b})
      /\ wal[a] = mem /\ (imm # Null => b < a /\ wal[b] = imm)
  BY Zenon DEF Inv, TypeOK, StoreTypeOK, WalsKept
<1>2. DOMAIN wal \subseteq Nat /\ a \in DOMAIN wal /\ \A j \in DOMAIN wal : j <= a
  BY <1>1
<1> HIDE DEF a, b
<1>3. CASE mem[k] # None
  BY <1>1, <1>2, <1>3, StackTop, Zenon DEF Over
<1>4. CASE mem[k] = None /\ imm # Null /\ imm[k] # None
  <2>1. b \in DOMAIN wal /\ \A j \in DOMAIN wal : wal[j][k] # None => j = b
    BY <1>1, <1>4, Zenon
  <2>2. \A j \in DOMAIN wal : wal[j][k] # None => j <= b
    BY <1>1, <2>1
  <2>3. Lookup(wal, k) = imm[k]
    <3>1. wal[b][k] # None /\ wal[b][k] = imm[k]
      BY <1>1, <1>4, Zenon
    <3> QED
      BY <1>2, <2>1, <2>2, <3>1, StackTop, Zenon
  <2> QED
    BY <1>4, <2>3, Zenon DEF Over, ImmRecord
<1>5. CASE mem[k] = None /\ ImmRecord(k) = None
  <2>1. Hits(wal, k) = {}
    BY <1>1, <1>5, Zenon DEF Hits, ImmRecord
  <2> QED
    BY <1>5, <2>1, Zenon DEF Lookup, Over
<1> QED
  BY <1>3, <1>4, <1>5, Zenon DEF ImmRecord

\* A level loaded in the order of the file numbers is the level in memory.
LEMMA LevelReload ==
  ASSUME NEW l \in Seq(Nat), Ascending(l), NEW k
  PROVE  Lookup(Restrict(sst, Range(l)), k) = Lookup(Level(l), k)
PROOF
<1> DEFINE f == Restrict(sst, Range(l))  s == Level(l)
<1>1. /\ Len(l) \in Nat /\ DOMAIN l = 1 .. Len(l) /\ \A p \in DOMAIN l : l[p] \in Nat
      /\ \A j \in Range(l) : j \in Nat /\ \E p \in DOMAIN l : j = l[p]
  BY DEF Range
<1>2. /\ DOMAIN f = Range(l) /\ DOMAIN s = DOMAIN l /\ \A p \in DOMAIN l : l[p] \in Range(l)
      /\ \A p \in DOMAIN l : s[p] = sst[l[p]] /\ f[l[p]] = sst[l[p]]
  BY Zenon DEF Restrict, Level, Range
<1> HIDE DEF f, s
<1>3. CASE Hits(s, k) = {}
  <2>1. ASSUME NEW j \in DOMAIN f PROVE f[j][k] = None
    <3>1. PICK p \in DOMAIN l : j = l[p]
      BY <1>1, <1>2, Zenon
    <3>2. s[p][k] = None
      BY <1>2, <1>3, Zenon DEF Hits
    <3> QED
      BY <1>2, <3>1, <3>2, Zenon
  <2>2. Hits(f, k) = {}
    BY <2>1, Zenon DEF Hits
  <2> QED
    BY <1>3, <2>2, Zenon DEF Lookup, f, s
<1>4. CASE Hits(s, k) # {}
  <2> DEFINE m == Max(Hits(s, k))
  <2>1. Hits(s, k) \in SUBSET Nat /\ \A p \in Hits(s, k) : p <= Len(l)
    BY <1>1, <1>2 DEF Hits
  <2>2. m \in Hits(s, k) /\ \A p \in Hits(s, k) : p <= m
    BY <1>1, <1>4, <2>1, MaxOfBounded, Zenon
  <2> HIDE DEF m
  <2>3. m \in DOMAIN l /\ s[m][k] # None /\ f[l[m]] = s[m] /\ l[m] \in DOMAIN f
    BY <1>2, <2>2, Zenon DEF Hits
  <2>4. ASSUME NEW j \in DOMAIN f, f[j][k] # None PROVE j <= l[m]
    <3>1. PICK p \in DOMAIN l : j = l[p]
      BY <1>1, <1>2, Zenon
    <3>2. p <= m
      BY <1>2, <2>2, <2>4, <3>1, Zenon DEF Hits
    <3>3. p < m => l[p] < l[m]
      BY <2>3, Zenon DEF Ascending
    <3> QED
      BY <1>1, <2>3, <3>1, <3>2, <3>3
  <2>5. Lookup(f, k) = f[l[m]][k]
    <3>1. DOMAIN f \subseteq Nat /\ f[l[m]][k] # None
      BY <1>1, <1>2, <2>3, Zenon
    <3> QED
      BY <2>3, <2>4, <3>1, StackTop, Zenon
  <2> QED
    BY <1>4, <2>3, <2>5, Zenon DEF Lookup, m, f, s
<1> QED
  BY <1>3, <1>4, Zenon

\* While the manifest names an SSTable, the directory gives back what Get finds.
LEMMA ReloadedIsFound ==
  ASSUME Inv, WalsKept, Open, DOMAIN sst_levels # {}, NEW k \in Keys
  PROVE  Recovered(k) = Find(k)
PROOF
<1>1. sst_levels # [i \in {} |-> 0]
  BY Zenon
<1>2. /\ l0 \in Seq(Nat) /\ l1 \in Seq(Nat) /\ Ascending(l0) /\ Ascending(l1)
      /\ Range(l0) = LevelIds(0) /\ Range(l1) = LevelIds(1)
      /\ LevelIds(0) \cap DOMAIN sst = LevelIds(0) /\ LevelIds(1) \cap DOMAIN sst = LevelIds(1)
  BY Zenon DEF Inv, TypeOK, StoreTypeOK, FilesKnown, Open, LevelIds
<1>3. /\ RecoveredLevel(0) = Restrict(sst, Range(l0))
      /\ RecoveredLevel(1) = Restrict(sst, Range(l1))
  BY <1>1, <1>2, Zenon DEF RecoveredLevel
<1>4. /\ Lookup(RecoveredLevel(0), k) = Lookup(Level(l0), k)
      /\ Lookup(RecoveredLevel(1), k) = Lookup(Level(l1), k)
  BY <1>2, <1>3, LevelReload, Zenon
<1>5. Lookup(wal, k) = Over(mem[k], ImmRecord(k))
  BY WalsReplay, Zenon
<1> DEFINE x == mem[k]  y == ImmRecord(k)  z == Over(Lookup(Level(l0), k), Lookup(Level(l1), k))
<1>6. Recovered(k) = Over(Over(x, y), z) /\ Find(k) = Over(x, Over(y, z))
  BY <1>4, <1>5, Zenon DEF Recovered, Find, BelowMem
<1> HIDE DEF x, y, z
<1> QED
  BY <1>6 DEF Over

\* L0 and L1 are two levels.
LEMMA LevelsDiffer == 0 # 1
  OBVIOUS

\* With no caller of CompactL0ToL1, an empty manifest leaves at most the file that a
\* flush of imm_ has built, and imm_'s WAL is above it.
LEMMA EmptyManifestReload ==
  ASSUME Inv, WalsKept, SstsKept, Open, DOMAIN sst_levels = {}, Compactors = {}, NEW k \in Keys
  PROVE  Recovered(k) = Find(k)
PROOF
<1>1. LevelIds(0) = {} /\ LevelIds(1) = {}
  BY Zenon DEF LevelIds
<1>2. \A t \in Mergers : ~Merging(t)
  BY <1>1, Zenon DEF SstsKept, Inv, MergeStillValid, MergeOwns
<1>3. ASSUME NEW i \in DOMAIN sst PROVE sst[i][k] = ImmRecord(k)
  <2>1. InFlight(i)
    BY Zenon DEF SstsKept
  <2>2. PICK t \in Flushers : pc[t] = "install_minor" /\ mctx[t].new_sst_id = i
    BY <1>2, <2>1, Zenon DEF InFlight, Merging
  <2> QED
    BY <2>2, Zenon DEF Inv, FlushOwnsFile, FlushOwns, Flushing, ImmRecord
<1>4. Lookup(Level(l0), k) = None /\ Lookup(Level(l1), k) = None
  <2>1. DOMAIN l0 = {} /\ DOMAIN l1 = {}
    BY <1>1, Zenon DEF Inv, FilesKnown, Open, Range
  <2> QED
    BY <2>1, Zenon DEF Lookup, Hits, Level
<1>5. sst_levels = [i \in {} |-> 0]
  BY DEF Inv, TypeOK, DiskTypeOK
<1>6. /\ DOMAIN RecoveredLevel(0) = DOMAIN sst /\ \A i \in DOMAIN sst : RecoveredLevel(0)[i] = sst[i]
      /\ DOMAIN RecoveredLevel(1) = {}
  <2>1. RecoveredLevel(0) = Restrict(sst, DOMAIN sst) /\ RecoveredLevel(1) = Restrict(sst, {})
    <3>1. DOMAIN sst \cap DOMAIN sst = DOMAIN sst /\ {} \cap DOMAIN sst = {}
      BY Zenon
    <3> QED
      BY <1>5, <3>1, LevelsDiffer, Zenon DEF RecoveredLevel
  <2> QED
    BY <2>1, Zenon DEF Restrict
<1>7. Lookup(RecoveredLevel(1), k) = None
  BY <1>6, Zenon DEF Lookup, Hits
<1>8. Lookup(RecoveredLevel(0), k) \in {None, ImmRecord(k)}
  <2> DEFINE f == RecoveredLevel(0)
  <2>1. CASE Hits(f, k) = {}
    BY <2>1, Zenon DEF Lookup
  <2>2. CASE Hits(f, k) # {}
    <3>1. Hits(f, k) \in SUBSET Nat /\ \A i \in Hits(f, k) : i <= next_file_number
      <4>1. DOMAIN f \subseteq 1 .. next_file_number /\ next_file_number \in Nat
        BY <1>6, Zenon DEF SstsKept, Inv, TypeOK, DiskTypeOK
      <4> HIDE DEF f
      <4> QED
        BY <4>1 DEF Hits
    <3>2. Max(Hits(f, k)) \in Hits(f, k)
      BY <2>2, <3>1, MaxOfBounded, Zenon DEF Inv, TypeOK, DiskTypeOK
    <3> QED
      BY <1>3, <1>6, <2>2, <3>2, Zenon DEF Lookup, Hits
  <2> QED
    BY <2>1, <2>2, Zenon
<1> QED
  BY <1>4, <1>7, <1>8, WalsReplay, Zenon DEF Recovered, Find, BelowMem, Over

-----------------------------------------------------------------------------
\* The first WAL and the empty directory of a new database.
LEMMA InitDir == Init => WalsKept /\ SstsKept
PROOF
<1> SUFFICES ASSUME Init PROVE WalsKept /\ SstsKept
  BY Zenon
<1>1. /\ \A t \in Flushers : ~Flushing(t) /\ pc[t] # "install_minor"
      /\ \A t \in Mergers : ~Merging(t)
  BY ThreadAssumption, Zenon DEF Init, Flushing, Merging, Threads
<1>2. WalsKept
  <2>1. 1 \in 1 .. 1
    OBVIOUS
  <2> QED
    BY <1>1, <2>1, Zenon DEF Init, WalsKept
<1>3. SstsKept
  BY <1>1, Zenon DEF Init, SstsKept
<1> QED
  BY <1>2, <1>3, Zenon

\* DirInv holds in every reachable state: the directory holds what memory holds, and
\* nothing else but files that a flush or a merge is about to install.
THEOREM DirectoryInvariance == Spec => []DirInv
PROOF
<1>1. Init => DirInv
  BY InitInv, InitDir, Zenon DEF DirInv
<1>2. DirInv /\ [Next]_vars => DirInv'
  BY InvStep, WalsKeptStep, SstsKeptStep, Zenon DEF DirInv
<1> QED
  BY <1>1, <1>2, PTL DEF Spec

\* While the database is open, its WALs on disk are those of mem_ and imm_, and every
\* SSTable is in the manifest or about to be (MinorCompaction, CompactL0ToL1).
THEOREM NothingLeftBehind == Spec => []NoLeftoverFiles
PROOF
<1>1. DirInv => NoLeftoverFiles
  BY Zenon DEF DirInv, WalsKept, SstsKept, NoLeftoverFiles
<1> QED
  BY <1>1, DirectoryInvariance, PTL

\* A process that stops at any moment loses nothing: RecoveryLoader would rebuild what
\* was put last.  Either nobody but the flush thread merges, or the manifest names an
\* SSTable; otherwise LoadSSTables adopts a merged file that another merge has made
\* obsolete.
THEOREM CrashSafe == Spec => [](Compactors = {} \/ DOMAIN sst_levels # {} => Durable)
PROOF
<1>1. ASSUME DirInv, Compactors = {} \/ DOMAIN sst_levels # {}, Open, NEW k \in Keys
      PROVE  Visible(Recovered(k)) = Visible(last[k])
  <2>1. Recovered(k) = Find(k)
    BY <1>1, ReloadedIsFound, EmptyManifestReload, Zenon DEF DirInv
  <2> QED
    BY <1>1, <2>1, Zenon DEF DirInv, Inv, ReadsLatest
<1>2. DirInv => (Compactors = {} \/ DOMAIN sst_levels # {} => Durable)
  BY <1>1, Zenon DEF Durable
<1> QED
  BY <1>2, DirectoryInvariance, PTL

-----------------------------------------------------------------------------
(* Reads are atomic.                                                        *)

\* The answer a reader has, or is bound to get once it looks below the MemTable.
Pending(r) == IF pc[r] = "rest" THEN AnswerOf(want[r], seen[r]) ELSE answer[r]

\* A step that moves no reader keeps every pending answer, provided nothing below
\* the MemTable changes under a reader that holds state_mu_.
LEMMA PendingKept ==
  ASSUME UNCHANGED read_vars, \A r \in Readers : pc'[r] = pc[r],
         StateMuFree \/ \A k \in Keys : BelowMem(k)' = BelowMem(k)
  PROVE  \A r \in Readers : Pending(r)' = Pending(r)
PROOF
<1>1. CASE StateMuFree
  BY <1>1, Zenon DEF StateMuFree, Pending
<1>2. CASE \A k \in Keys : BelowMem(k)' = BelowMem(k)
  BY <1>2, Zenon DEF Pending, AnswerOf
<1> QED
  BY <1>1, <1>2, Zenon

\* An answer decided now is the current value of every key asked for.
LEMMA AnswerIsCurrent ==
  ASSUME Inv, Open, NEW K \in SUBSET Keys
  PROVE  AnswerOf(K, MemSnapshot(K)) = [k \in Keys |-> IF k \in K THEN Visible(last[k]) ELSE None]
PROOF
<1>1. \A k \in K : Visible(Over(MemSnapshot(K)[k], BelowMem(k))) = Visible(last[k])
  BY Zenon DEF Inv, ReadsLatest, Find, MemSnapshot
<1> QED
  BY <1>1, Zenon DEF AnswerOf

\* Every step of DBImpl that is not a MemTable insert, or a reader's look at the
\* MemTable, leaves the abstract map and every pending answer as they are.
LEMMA OtherStepsStutter ==
  ASSUME Inv, [Next]_vars,
         ~ \E w \in Writers : PutInsert(w),
         ~ \E r \in Readers, k \in Keys : GetMem(r, k),
         ~ \E r \in Readers : IterMem(r)
  PROVE  UNCHANGED last /\ \A r \in Readers : Pending(r)' = Pending(r)
PROOF
<1> USE ThreadAssumption
<1> DEFINE Goal == UNCHANGED last /\ \A r \in Readers : Pending(r)' = Pending(r)
<1>0. PcTypeOK /\ LocalTypeOK
  BY Zenon DEF Inv, TypeOK
<1>a. UNCHANGED <<store_vars, sst>> => \A j \in Keys : BelowMem(j)' = BelowMem(j)
  BY Zenon DEF BelowMem, ImmRecord, Level
<1>b. \A r \in Readers : pc[r] \in {"idle", "rest"}
  <2>1. \A r \in Readers : LabelsOf(r) = {"idle", "rest"}
    BY Zenon DEF LabelsOf, Threads
  <2> QED
    BY <1>0, <2>1, Zenon DEF PcTypeOK, Threads
<1>c. pc[Dtor] # "idle" => StateMuFree
  BY <1>b, Zenon DEF Inv, DtorAlone, StateMuFree, Threads
<1>1. ASSUME NEW w \in Writers, NEW k \in Keys, NEW rec \in Records, PutLock(w, k, rec) PROVE Goal
  <2>1. \A r \in Readers : pc'[r] = pc[r]
    BY <1>0, <1>b, <1>1, Zenon DEF PutLock, PcTypeOK, Threads
  <2>2. \A j \in Keys : BelowMem(j)' = BelowMem(j)
    BY <1>a, <1>1, Zenon DEF PutLock
  <2>3. UNCHANGED read_vars /\ UNCHANGED last
    BY <1>1, Zenon DEF PutLock
  <2> QED
    BY <2>1, <2>2, <2>3, PendingKept, Zenon
<1>2. ASSUME NEW w \in Writers, PutHasRoom(w) PROVE Goal
  <2>1. \A r \in Readers : pc'[r] = pc[r]
    BY <1>0, <1>b, <1>2, Zenon DEF PutHasRoom, PcTypeOK, Threads
  <2>2. \A j \in Keys : BelowMem(j)' = BelowMem(j)
    BY <1>a, <1>2, Zenon DEF PutHasRoom
  <2>3. UNCHANGED read_vars /\ UNCHANGED last
    BY <1>2, ZenonT(30) DEF PutHasRoom
  <2> QED
    BY <2>1, <2>2, <2>3, PendingKept, Zenon
<1>3. ASSUME NEW w \in Writers, PutWait(w) PROVE Goal
  <2>1. \A r \in Readers : pc'[r] = pc[r]
    BY <1>0, <1>b, <1>3, Zenon DEF PutWait, PcTypeOK, Threads
  <2>2. \A j \in Keys : BelowMem(j)' = BelowMem(j)
    BY <1>a, <1>3, Zenon DEF PutWait
  <2>3. UNCHANGED read_vars /\ UNCHANGED last
    BY <1>3, Zenon DEF PutWait
  <2> QED
    BY <2>1, <2>2, <2>3, PendingKept, Zenon
<1>4. ASSUME NEW w \in Writers, PutSwitch(w) PROVE Goal
  <2>1. \A r \in Readers : pc'[r] = pc[r]
    BY <1>0, <1>b, <1>4, Zenon DEF PutSwitch, PcTypeOK, Threads, Woken
  <2>2. StateMuFree
    BY <1>4, Zenon DEF PutSwitch
  <2>3. UNCHANGED read_vars /\ UNCHANGED last
    BY <1>4, Zenon DEF PutSwitch
  <2> QED
    BY <2>1, <2>2, <2>3, PendingKept, Zenon
<1>5. ASSUME NEW r \in Readers, ReadRest(r) PROVE Goal
  <2>1. /\ UNCHANGED last /\ answer' = [answer EXCEPT ![r] = Pending(r)]
        /\ pc' = [pc EXCEPT ![r] = "idle"]
        /\ want' = [want EXCEPT ![r] = {}] /\ seen' = [seen EXCEPT ![r] = EmptyTable]
    BY <1>5, Zenon DEF ReadRest, Pending
  <2>2. \A j \in Keys : BelowMem(j)' = BelowMem(j)
    BY <1>a, <1>5, Zenon DEF ReadRest
  <2>3. Pending(r)' = Pending(r)
    BY <1>0, <2>1, Zenon DEF Pending, PcTypeOK, LocalTypeOK, Threads
  <2>4. ASSUME NEW q \in Readers, q # r PROVE Pending(q)' = Pending(q)
    <3>1. pc'[q] = pc[q] /\ want'[q] = want[q] /\ seen'[q] = seen[q] /\ answer'[q] = answer[q]
      BY <1>0, <2>1, <2>4, Zenon DEF PcTypeOK, LocalTypeOK, Threads
    <3> QED
      BY <2>2, <3>1, Zenon DEF Pending, AnswerOf
  <2> QED
    BY <2>1, <2>3, <2>4, Zenon
<1>6. ASSUME NEW s \in Syncers, SyncCall(s) PROVE Goal
  <2>1. \A r \in Readers : pc'[r] = pc[r]
    BY <1>0, <1>b, <1>6, Zenon DEF SyncCall, PcTypeOK, Threads
  <2>2. \A j \in Keys : BelowMem(j)' = BelowMem(j)
    BY <1>a, <1>6, Zenon DEF SyncCall
  <2>3. UNCHANGED read_vars /\ UNCHANGED last
    BY <1>6, Zenon DEF SyncCall
  <2> QED
    BY <2>1, <2>2, <2>3, PendingKept, Zenon
<1>7. ASSUME NEW s \in Syncers, SyncCheck(s) PROVE Goal
  <2>1. \A r \in Readers : pc'[r] = pc[r]
    BY <1>0, <1>b, <1>7, Zenon DEF SyncCheck, PcTypeOK, Threads
  <2>2. \A j \in Keys : BelowMem(j)' = BelowMem(j)
    BY <1>a, <1>7, Zenon DEF SyncCheck
  <2>3. UNCHANGED read_vars /\ UNCHANGED last
    BY <1>7, Zenon DEF SyncCheck
  <2> QED
    BY <2>1, <2>2, <2>3, PendingKept, Zenon
<1>8. ASSUME NEW t \in Threads, SpuriousWakeup(t) PROVE Goal
  <2>1. \A r \in Readers : pc'[r] = pc[r]
    BY <1>0, <1>b, <1>8, Zenon DEF SpuriousWakeup, PcTypeOK, Threads
  <2>2. \A j \in Keys : BelowMem(j)' = BelowMem(j)
    BY <1>a, <1>8, Zenon DEF SpuriousWakeup
  <2>3. UNCHANGED read_vars /\ UNCHANGED last
    BY <1>8, Zenon DEF SpuriousWakeup
  <2> QED
    BY <2>1, <2>2, <2>3, PendingKept, Zenon
<1>9. ASSUME BgCheck PROVE Goal
  <2>1. \A r \in Readers : pc'[r] = pc[r]
    BY <1>0, <1>b, <1>9, Zenon DEF BgCheck, PcTypeOK, Threads
  <2>2. \A j \in Keys : BelowMem(j)' = BelowMem(j)
    BY <1>a, <1>9, Zenon DEF BgCheck
  <2>3. UNCHANGED read_vars /\ UNCHANGED last
    BY <1>9, ZenonT(30) DEF BgCheck
  <2> QED
    BY <2>1, <2>2, <2>3, PendingKept, Zenon
<1>10. ASSUME BgFinish PROVE Goal
  <2>1. \A r \in Readers : pc'[r] = pc[r]
    BY <1>0, <1>b, <1>10, Zenon DEF BgFinish, PcTypeOK, Threads, Woken
  <2>2. \A j \in Keys : BelowMem(j)' = BelowMem(j)
    BY <1>a, <1>10, Zenon DEF BgFinish
  <2>3. UNCHANGED read_vars /\ UNCHANGED last
    BY <1>10, Zenon DEF BgFinish
  <2> QED
    BY <2>1, <2>2, <2>3, PendingKept, Zenon
<1>11. ASSUME NEW t \in Flushers, MinorPrepare(t) PROVE Goal
  <2>0. \E label : pc' = [pc EXCEPT ![t] = label]
    BY <1>11, Zenon DEF MinorPrepare
  <2>1. \A r \in Readers : pc'[r] = pc[r]
    BY <1>0, <2>0, Zenon DEF PcTypeOK, Threads
  <2>2. \A j \in Keys : BelowMem(j)' = BelowMem(j)
    BY <1>a, <1>11, Zenon DEF MinorPrepare
  <2>3. UNCHANGED read_vars /\ UNCHANGED last
    BY <1>11, ZenonT(30) DEF MinorPrepare
  <2> QED
    BY <2>1, <2>2, <2>3, PendingKept, Zenon
<1>12. ASSUME NEW t \in Flushers, MinorBuild(t) PROVE Goal
  <2>0. \E label : pc' = [pc EXCEPT ![t] = label]
    BY <1>12, Zenon DEF MinorBuild
  <2>1. \A r \in Readers : pc'[r] = pc[r]
    BY <1>0, <2>0, Zenon DEF PcTypeOK, Threads
  <2>2. \A j \in Keys : BelowMem(j)' = BelowMem(j)
    BY <1>12, BuildsKeepLevels, Zenon DEF MinorBuild, BelowMem, ImmRecord
  <2>3. UNCHANGED read_vars /\ UNCHANGED last
    BY <1>12, Zenon DEF MinorBuild
  <2> QED
    BY <2>1, <2>2, <2>3, PendingKept, Zenon
<1>13. ASSUME NEW t \in Flushers, MinorInstall(t) PROVE Goal
  <2>0. pc' = [pc EXCEPT ![t] = IF Len(l0') >= 2 THEN "prepare_l0" ELSE Return(t)]
    BY <1>13, Zenon DEF MinorInstall
  <2>1. \A r \in Readers : pc'[r] = pc[r]
    BY <1>0, <2>0, Zenon DEF PcTypeOK, Threads
  <2>2. StateMuFree
    BY <1>13, Zenon DEF MinorInstall
  <2>3. UNCHANGED read_vars /\ UNCHANGED last
    BY <1>13, Zenon DEF MinorInstall
  <2> QED
    BY <2>1, <2>2, <2>3, PendingKept, Zenon
<1>14. ASSUME NEW c \in Compactors, CompactCall(c) PROVE Goal
  <2>1. \A r \in Readers : pc'[r] = pc[r]
    BY <1>0, <1>b, <1>14, Zenon DEF CompactCall, PcTypeOK, Threads
  <2>2. \A j \in Keys : BelowMem(j)' = BelowMem(j)
    BY <1>a, <1>14, Zenon DEF CompactCall
  <2>3. UNCHANGED read_vars /\ UNCHANGED last
    BY <1>14, Zenon DEF CompactCall
  <2> QED
    BY <2>1, <2>2, <2>3, PendingKept, Zenon
<1>15. ASSUME NEW t \in Mergers, MergePrepare(t) PROVE Goal
  <2>0. \E label : pc' = [pc EXCEPT ![t] = label]
    BY <1>15, Zenon DEF MergePrepare
  <2>1. \A r \in Readers : pc'[r] = pc[r]
    BY <1>0, <2>0, Zenon DEF PcTypeOK, Threads
  <2>2. \A j \in Keys : BelowMem(j)' = BelowMem(j)
    BY <1>a, <1>15, Zenon DEF MergePrepare
  <2>3. UNCHANGED read_vars /\ UNCHANGED last
    BY <1>15, Zenon DEF MergePrepare
  <2> QED
    BY <2>1, <2>2, <2>3, PendingKept, Zenon
<1>16. ASSUME NEW t \in Mergers, MergeBuild(t) PROVE Goal
  <2>0. \E label : pc' = [pc EXCEPT ![t] = label]
    BY <1>16, Zenon DEF MergeBuild
  <2>1. \A r \in Readers : pc'[r] = pc[r]
    BY <1>0, <2>0, Zenon DEF PcTypeOK, Threads
  <2>2. \A j \in Keys : BelowMem(j)' = BelowMem(j)
    BY <1>16, BuildsKeepLevels, Zenon DEF MergeBuild, BelowMem, ImmRecord
  <2>3. UNCHANGED read_vars /\ UNCHANGED last
    BY <1>16, Zenon DEF MergeBuild
  <2> QED
    BY <2>1, <2>2, <2>3, PendingKept, Zenon
<1>17. ASSUME NEW t \in Mergers, MergeInstall(t) PROVE Goal
  <2>0. pc' = [pc EXCEPT ![t] = Return(t)]
    BY <1>17, Zenon DEF MergeInstall
  <2>1. \A r \in Readers : pc'[r] = pc[r]
    BY <1>0, <2>0, Zenon DEF PcTypeOK, Threads
  <2>2. StateMuFree
    BY <1>17, Zenon DEF MergeInstall
  <2>3. UNCHANGED read_vars /\ UNCHANGED last
    BY <1>17, Zenon DEF MergeInstall
  <2> QED
    BY <2>1, <2>2, <2>3, PendingKept, Zenon
<1>18. ASSUME DtorStop PROVE Goal
  <2>1. \A r \in Readers : pc'[r] = pc[r]
    BY <1>0, <1>b, <1>18, Zenon DEF DtorStop, PcTypeOK, Threads, Woken
  <2>2. \A j \in Keys : BelowMem(j)' = BelowMem(j)
    BY <1>a, <1>18, Zenon DEF DtorStop
  <2>3. UNCHANGED read_vars /\ UNCHANGED last
    BY <1>18, Zenon DEF DtorStop
  <2> QED
    BY <2>1, <2>2, <2>3, PendingKept, Zenon
<1>19. ASSUME DtorJoin PROVE Goal
  <2>1. \A r \in Readers : pc'[r] = pc[r]
    BY <1>0, <1>b, <1>19, Zenon DEF DtorJoin, PcTypeOK, Threads
  <2>2. StateMuFree
    BY <1>c, <1>19, Zenon DEF DtorJoin
  <2>3. UNCHANGED read_vars /\ UNCHANGED last
    BY <1>19, Zenon DEF DtorJoin
  <2> QED
    BY <2>1, <2>2, <2>3, PendingKept, Zenon
<1>20. ASSUME DtorFinish PROVE Goal
  <2>1. \A r \in Readers : pc'[r] = pc[r]
    BY <1>0, <1>b, <1>20, Zenon DEF DtorFinish, PcTypeOK, Threads
  <2>2. StateMuFree
    BY <1>c, <1>20, Zenon DEF DtorFinish
  <2>3. UNCHANGED read_vars /\ UNCHANGED last
    BY <1>20, Zenon DEF DtorFinish
  <2> QED
    BY <2>1, <2>2, <2>3, PendingKept, Zenon
<1>21. ASSUME UNCHANGED vars PROVE Goal
  BY <1>21, Zenon DEF vars, Pending, AnswerOf, BelowMem, ImmRecord, Level
<1> QED
  BY <1>1, <1>2, <1>3, <1>4, <1>5, <1>6, <1>7, <1>8, <1>9, <1>10, <1>11, <1>12, <1>13, <1>14,
     <1>15, <1>16, <1>17, <1>18, <1>19, <1>20, <1>21, ZenonT(30)
     DEF Next, PutStep, MinorStep, MergeStep, DtorStep

\* The refinement mapping of KV, spelled out.
Map == [k \in Keys |-> Visible(last[k])]
Answers == [r \in Readers |-> Pending(r)]

\* Two functions that differ at one argument.
LEMMA OneChanged ==
  ASSUME NEW S, NEW f, NEW g, NEW r \in S, f = [q \in S |-> f[q]], g = [q \in S |-> g[q]],
         \A q \in S : q # r => g[q] = f[q]
  PROVE  g = [f EXCEPT ![r] = g[r]]
  BY Zenon

\* A read that is decided in this step asks the abstract map for K.
LEMMA DecidedRead ==
  ASSUME Inv, Open, NEW r \in Readers, NEW K \in SUBSET Keys, UNCHANGED last,
         Pending(r)' = AnswerOf(K, MemSnapshot(K)),
         \A q \in Readers : q # r => Pending(q)' = Pending(q)
  PROVE  /\ Answers' = [Answers EXCEPT ![r] = [k \in Keys |-> IF k \in K THEN Map[k] ELSE None]]
         /\ Map' = Map
PROOF
<1>1. Pending(r)' = [k \in Keys |-> IF k \in K THEN Map[k] ELSE None]
  BY AnswerIsCurrent, Zenon DEF Map
<1>2. /\ Answers = [q \in Readers |-> Answers[q]] /\ \A q \in Readers : Answers[q] = Pending(q)
      /\ Answers' = [q \in Readers |-> Answers'[q]] /\ \A q \in Readers : Answers'[q] = Pending(q)'
  BY Zenon DEF Answers
<1>3. Answers' = [Answers EXCEPT ![r] = Answers'[r]]
  BY <1>2, OneChanged
<1>4. Map' = Map
  BY Zenon DEF Map
<1> QED
  BY <1>1, <1>2, <1>3, <1>4, Zenon

\* mem_->Put is the abstract Write, a reader's look at the MemTable the abstract
\* Read; nothing else is visible.
LEMMA RefinementStep ==
  ASSUME Inv, [Next]_vars
  PROVE  \/ \E k \in Keys, v \in Values \cup {None} :
              Map' = [Map EXCEPT ![k] = v] /\ Answers' = Answers
         \/ \E r \in Readers, K \in SUBSET Keys :
              /\ Answers' = [Answers EXCEPT ![r] = [k \in Keys |-> IF k \in K THEN Map[k] ELSE None]]
              /\ Map' = Map
         \/ Map' = Map /\ Answers' = Answers
PROOF
<1> USE ThreadAssumption
<1>0. PcTypeOK /\ LocalTypeOK /\ StoreTypeOK
  BY Zenon DEF Inv, TypeOK
<1>a. ASSUME UNCHANGED <<store_vars, sst>>, NEW K, NEW x
      PROVE  AnswerOf(K, x)' = AnswerOf(K, x)
  BY <1>a, Zenon DEF AnswerOf, BelowMem, ImmRecord, Level
<1>1. ASSUME NEW w \in Writers, PutInsert(w)
      PROVE  \E k \in Keys, v \in Values \cup {None} :
               Map' = [Map EXCEPT ![k] = v] /\ Answers' = Answers
  <2>1. arg[w][1] \in Keys /\ arg[w][2] \in Records
    BY <1>1, PutUnderWay, Zenon DEF PutInsert
  <2>2. Visible(arg[w][2]) \in Values \cup {None}
    BY <2>1, Zenon DEF Visible, Records
  <2>3. last' = Insert(last, arg[w][1], arg[w][2]) /\ last \in Tables
    BY <1>0, <1>1, Zenon DEF PutInsert, StoreTypeOK
  <2>4. Map' = [Map EXCEPT ![arg[w][1]] = Visible(arg[w][2])]
    <3>1. /\ Map = [k \in Keys |-> Map[k]] /\ \A k \in Keys : Map[k] = Visible(last[k])
          /\ Map' = [k \in Keys |-> Map'[k]] /\ \A k \in Keys : Map'[k] = Visible(last'[k])
      BY Zenon DEF Map
    <3>2. last'[arg[w][1]] = arg[w][2] /\ \A k \in Keys : k # arg[w][1] => last'[k] = last[k]
      BY <2>1, <2>3, Zenon DEF Insert, Tables
    <3>3. \A k \in Keys : k # arg[w][1] => Map'[k] = Map[k]
      BY <3>1, <3>2
    <3>4. Map' = [Map EXCEPT ![arg[w][1]] = Map'[arg[w][1]]]
      BY <2>1, <3>1, <3>3, OneChanged, Zenon
    <3>5. Map'[arg[w][1]] = Visible(arg[w][2])
      BY <2>1, <3>1, <3>2, ZenonT(30)
    <3> QED
      BY <3>4, <3>5, Zenon
  <2>5. UNCHANGED read_vars /\ \A r \in Readers : pc'[r] = pc[r]
    BY <1>0, <1>1, Zenon DEF PutInsert, PcTypeOK, Threads
  <2>6. \A k \in Keys : BelowMem(k)' = BelowMem(k)
    BY <1>1, Zenon DEF PutInsert, BelowMem, ImmRecord, Level
  <2>7. Answers' = Answers
    BY <2>5, <2>6, PendingKept, Zenon DEF Answers
  <2> DEFINE k0 == arg[w][1]  v0 == Visible(arg[w][2])
  <2>8. k0 \in Keys /\ v0 \in Values \cup {None} /\ Map' = [Map EXCEPT ![k0] = v0]
    BY <2>1, <2>2, <2>4, Zenon
  <2> HIDE DEF k0, v0
  <2> QED
    BY <2>7, <2>8, Zenon
<1>2. ASSUME NEW r \in Readers, NEW key \in Keys, GetMem(r, key)
      PROVE  \E K \in SUBSET Keys :
               /\ Answers' = [Answers EXCEPT ![r] = [k \in Keys |-> IF k \in K THEN Map[k] ELSE None]]
               /\ Map' = Map
  <2>1. /\ Open /\ UNCHANGED last /\ {key} \in SUBSET Keys
        /\ UNCHANGED <<store_vars, sst>> /\ pc[r] = "idle"
    BY <1>2, Zenon DEF GetMem, Open, MayCall
  <2>2. ASSUME NEW q \in Readers, q # r PROVE Pending(q)' = Pending(q)
    <3>1. pc'[q] = pc[q] /\ want'[q] = want[q] /\ seen'[q] = seen[q] /\ answer'[q] = answer[q]
      <4>1. /\ pc' \in {pc, [pc EXCEPT ![r] = "rest"]}
            /\ want' \in {want, [want EXCEPT ![r] = {key}]}
            /\ seen' \in {seen, [seen EXCEPT ![r] = MemSnapshot({key})]}
            /\ answer' \in {answer, [answer EXCEPT ![r] = AnswerOf({key}, MemSnapshot({key}))]}
        BY <1>2, Zenon DEF GetMem
      <4>2. pc'[q] = pc[q]
        BY <1>0, <2>2, <4>1, Zenon DEF PcTypeOK, Threads
      <4>3. want'[q] = want[q] /\ seen'[q] = seen[q]
        BY <1>0, <2>2, <4>1, Zenon DEF LocalTypeOK
      <4>4. answer'[q] = answer[q]
        BY <1>0, <2>2, <4>1, Zenon DEF LocalTypeOK
      <4> QED
        BY <4>2, <4>3, <4>4, Zenon
    <3> QED
      BY <2>1, <3>1, Zenon DEF Pending, AnswerOf, BelowMem, ImmRecord, Level
  <2>3. Pending(r)' = AnswerOf({key}, MemSnapshot({key}))
    <3>1. CASE mem[key] # None
      <4>1. pc'[r] = "idle" /\ answer'[r] = AnswerOf({key}, MemSnapshot({key}))
        BY <1>0, <1>2, <2>1, <3>1, Zenon DEF GetMem, LocalTypeOK
      <4> QED
        BY <4>1, Zenon DEF Pending
    <3>2. CASE mem[key] = None
      <4>1. pc'[r] = "rest" /\ want'[r] = {key} /\ seen'[r] = MemSnapshot({key})
        BY <1>0, <1>2, <3>2, Zenon DEF GetMem, PcTypeOK, LocalTypeOK, Threads
      <4> QED
        BY <2>1, <4>1, Zenon DEF Pending, AnswerOf, BelowMem, ImmRecord, Level
    <3> QED
      BY <3>1, <3>2, Zenon
  <2> QED
    BY <2>1, <2>2, <2>3, DecidedRead, ZenonT(30)
<1>3. ASSUME NEW r \in Readers, IterMem(r)
      PROVE  \E K \in SUBSET Keys :
               /\ Answers' = [Answers EXCEPT ![r] = [k \in Keys |-> IF k \in K THEN Map[k] ELSE None]]
               /\ Map' = Map
  <2>1. Open /\ UNCHANGED last /\ UNCHANGED <<store_vars, sst>>
    BY <1>3, Zenon DEF IterMem, Open, MayCall
  <2>2. ASSUME NEW q \in Readers, q # r PROVE Pending(q)' = Pending(q)
    <3>1. pc'[q] = pc[q] /\ want'[q] = want[q] /\ seen'[q] = seen[q] /\ answer'[q] = answer[q]
      BY <1>0, <1>3, <2>2, Zenon DEF IterMem, PcTypeOK, LocalTypeOK, Threads
    <3> QED
      BY <2>1, <3>1, Zenon DEF Pending, AnswerOf, BelowMem, ImmRecord, Level
  <2>3. pc'[r] = "rest" /\ want'[r] = Keys /\ seen'[r] = MemSnapshot(Keys)
    BY <1>0, <1>3, Zenon DEF IterMem, PcTypeOK, LocalTypeOK, Threads
  <2>4. Pending(r)' = AnswerOf(Keys, MemSnapshot(Keys))
    BY <2>1, <2>3, Zenon DEF Pending, AnswerOf, BelowMem, ImmRecord, Level
  <2> QED
    BY <2>1, <2>2, <2>4, DecidedRead, Zenon
<1>4. CASE ~ \/ \E w \in Writers : PutInsert(w)
             \/ \E r \in Readers, k \in Keys : GetMem(r, k)
             \/ \E r \in Readers : IterMem(r)
  BY <1>4, OtherStepsStutter, Zenon DEF Map, Answers
<1> QED
  BY <1>1, <1>2, <1>3, <1>4, Zenon

\* Reads are atomic: DBImpl implements one map, on which every Put, Get and
\* NewIterator takes effect at one instant (KVStore).
THEOREM ReadsAreAtomic == Spec => ReadsAtomic
PROOF
<1>1. Init => KV!Init
  <2> SUFFICES ASSUME Init PROVE KV!Init
    BY Zenon
  <2>1. \A r \in Readers : pc[r] = "idle" /\ answer[r] = EmptyTable
    BY ThreadAssumption, Zenon DEF Init, Threads
  <2>2. \A k \in Keys : Visible(last[k]) = None
    BY Zenon DEF Init, EmptyTable, Visible
  <2> QED
    BY <2>1, <2>2, Zenon DEF KV!Init, EmptyTable
<1>2. Inv /\ [Next]_vars => [KV!Next]_(KV!vars)
  <2> SUFFICES ASSUME Inv, [Next]_vars PROVE [KV!Next]_(KV!vars)
    BY Zenon
  <2>1. \A k, v : KV!Write(k, v) <=> Map' = [Map EXCEPT ![k] = v] /\ Answers' = Answers
    BY Zenon DEF KV!Write, Map, Answers, Pending
  <2>2. \A r, K : KV!Read(r, K) <=>
          /\ Answers' = [Answers EXCEPT ![r] = [k \in Keys |-> IF k \in K THEN Map[k] ELSE None]]
          /\ Map' = Map
    BY Zenon DEF KV!Read, Map, Answers, Pending
  <2>3. Map' = Map /\ Answers' = Answers => UNCHANGED KV!vars
    BY Zenon DEF KV!vars, Map, Answers, Pending
  <2> QED
    BY <2>1, <2>2, <2>3, RefinementStep, Zenon DEF KV!Next
<1> QED
  BY <1>1, <1>2, Invariance, PTL DEF Spec, ReadsAtomic, KV!Spec
=============================================================================
