--------------------------- MODULE FormatsProofs ---------------------------
(***************************************************************************)
(* Proofs about ManifestManager, for every number of files, every checkpoint *)
(* threshold and every choice of the writes that may fail; and about         *)
(* RESPInput, for every size of the buffers and whatever a client sends.     *)
(***************************************************************************)
EXTENDS ManifestManager, RESPInput, TLAPS, WellFoundedInduction

USE DEF PersistState

\* What ReplayLog knows while it reads.
Runs == [status : {"read", "stop", "fail"}, pos : Nat, state : States]
Start(s) == [status |-> "read", pos |-> 0, state |-> s]

\* f lists what ReplayLog goes through.
IsRun(f, s, l) ==
  /\ f \in [0 .. Len(l) -> Runs] /\ f[0] = Start(s)
  /\ \A n \in 1 .. Len(l) : f[n] = ReadRecord(f[n - 1], l[n], End(l))

\* Reading record x takes ReplayLog from status how and place at to how2 and at2, and does
\* nothing to the manifest, or applies an edit to it.
Goes(x, end, how, at, how2, at2) ==
  \/ \A s : ReadRecord([status |-> how, pos |-> at, state |-> s], x, end)
               = [status |-> how2, pos |-> at2, state |-> s]
  \/ \E e \in Edits : \A s :
        ReadRecord([status |-> how, pos |-> at, state |-> s], x, end)
          = [status |-> how2, pos |-> at2, state |-> ApplyEdit(s, e)]

\* An edit takes a manifest state to a manifest state.
LEMMA ApplyType ==
  ASSUME NEW s \in States, NEW e \in Edits
  PROVE  ApplyEdit(s, e) \in States
  BY Zenon DEF ApplyEdit, States, Edits

\* What ReplayLog applies for a record that was cut in its payload is an edit, or nothing.
LEMMA GarbledEdit ==
  ASSUME NEW r \in LogRecords
  PROVE  \/ \A s : Garbled(s, r) = s
         \/ \E e \in Edits : \A s : Garbled(s, r) = ApplyEdit(s, e)
PROOF
<1>1. r.edit \in Edits /\ r.edit.entry \in Entries /\ r.edit.value \in EntryValues
  BY Zenon DEF LogRecords, Edits
<1>2. CASE r.edit.value = Absent
  BY <1>2, Zenon DEF Garbled
<1>3. CASE r.edit.value # Absent /\ (r.edit.entry = Counter \/ r.size >= HeaderSize + IdSize)
  <2>1. [r.edit EXCEPT !.value = Wild] \in Edits
    <3>1. Wild \in EntryValues
      BY ManifestAssumption DEF Wild, EntryValues
    <3> QED
      BY <1>1, <3>1, Zenon DEF Edits
  <2> QED
    BY <1>3, <2>1, Zenon DEF Garbled
<1>4. CASE r.edit.value # Absent /\ ~(r.edit.entry = Counter \/ r.size >= HeaderSize + IdSize)
  <2>1. PICK kind \in {"sst", "wal"}, i \in Files \cup {Wild} : r.edit.entry = <<kind, i>>
    BY <1>1, <1>4 DEF Entries
  <2>2. <<r.edit.entry[1], Wild>> \in Entries
    BY <2>1 DEF Entries
  <2>3. [r.edit EXCEPT !.entry = <<r.edit.entry[1], Wild>>] \in Edits
    BY <1>1, <2>2, Zenon DEF Edits
  <2> QED
    BY <1>4, <2>3, Zenon DEF Garbled
<1> QED
  BY <1>2, <1>3, <1>4, Zenon

\* The numbers of a record of the log, and of the bytes ReplayLog reads at it.
LEMMA RecordType ==
  ASSUME NEW r \in LogRecords
  PROVE  /\ r.at \in Nat /\ r.size \in Nat /\ r.edit \in Edits
         /\ Width(r.edit) \in {21, 25} /\ Needed(r) \in {4, 13, 21, 25}
         /\ MagicSize = 4 /\ HeaderSize = 13
PROOF
<1>1. r.at \in Nat /\ r.size \in Nat /\ r.edit \in Edits
  BY Zenon DEF LogRecords
<1>2. Width(r.edit) \in {21, 25}
  BY DEF Width, HeaderSize, IdSize, LevelSize
<1>3. MagicSize = 4 /\ HeaderSize = 13
  BY Zenon DEF MagicSize, HeaderSize
<1>4. Needed(r) \in {MagicSize, HeaderSize, Width(r.edit)}
  BY Zenon DEF Needed
<1> QED
  BY <1>1, <1>2, <1>3, <1>4, Zenon

\* How ReplayLog goes on at a record does not depend on the manifest it has so far, and
\* what it does to that manifest is nothing or an edit.
LEMMA ReadShape ==
  ASSUME NEW x \in LogRecords, NEW end,
         NEW how \in {"read", "stop", "fail"}, NEW at \in Nat
  PROVE  \E how2 \in {"read", "stop", "fail"}, at2 \in Nat : Goes(x, end, how, at, how2, at2)
PROOF
<1> DEFINE run(s) == [status |-> how, pos |-> at, state |-> s]
           ends(s, v) == [status |-> v, pos |-> at, state |-> s]
<1>1. CASE how # "read" \/ x.at + x.size <= at
  <2>1. \A s : ReadRecord(run(s), x, end) = run(s)
    BY <1>1 DEF ReadRecord
  <2> QED
    BY <2>1, Zenon DEF Goes
<1>2. ASSUME how = "read", ~(x.at + x.size <= at) PROVE
        \/ \E v \in {"stop", "fail"} : \A s : ReadRecord(run(s), x, end) = ends(s, v)
        \/ \A s : ReadRecord(run(s), x, end) =
              [status |-> "read", pos |-> x.at + Width(x.edit),
               state |-> IF Complete(x) THEN ApplyEdit(s, x.edit) ELSE Garbled(s, x)]
  <2>1. \A s : Stopped(run(s)) = ends(s, "stop") /\ Mismatch(run(s)) = ends(s, "fail")
    BY DEF Stopped, Mismatch
  <2>2. \A s : run(s).status = how /\ run(s).pos = at /\ run(s).state = s
    OBVIOUS
  <2> HIDE DEF run, ends
  <2>3. CASE x.at # at
    BY <1>2, <2>1, <2>2, <2>3, Zenon DEF ReadRecord
  <2>4. CASE x.at = at
    BY <1>2, <2>1, <2>2, <2>4, Zenon DEF ReadRecord
  <2> QED
    BY <2>3, <2>4, Zenon
<1>3. ASSUME NEW v \in {"stop", "fail"}, how = "read",
             \A s : ReadRecord(run(s), x, end) = ends(s, v)
      PROVE  Goes(x, end, how, at, v, at)
  BY <1>3, Zenon DEF Goes
<1>4. ASSUME how = "read", \A s : ReadRecord(run(s), x, end) =
                [status |-> "read", pos |-> x.at + Width(x.edit),
                 state |-> IF Complete(x) THEN ApplyEdit(s, x.edit) ELSE Garbled(s, x)]
      PROVE  Goes(x, end, how, at, "read", x.at + Width(x.edit))
  <2>1. x.edit \in Edits
    BY RecordType, Zenon
  <2>2. CASE Complete(x)
    BY <1>4, <2>1, <2>2, Zenon DEF Goes
  <2>3. CASE ~Complete(x)
    BY <1>4, <2>3, GarbledEdit, Zenon DEF Goes
  <2> QED
    BY <2>2, <2>3, Zenon
<1>5. x.at + Width(x.edit) \in Nat
  BY RecordType
<1> QED
  BY <1>1, <1>2, <1>3, <1>4, <1>5, Zenon

\* A run of ReplayLog is made of its status, its place and its manifest.
LEMMA RunFields ==
  ASSUME NEW r \in Runs
  PROVE  /\ r = [status |-> r.status, pos |-> r.pos, state |-> r.state]
         /\ r.status \in {"read", "stop", "fail"} /\ r.pos \in Nat /\ r.state \in States
  BY DEF Runs

\* Reading a record keeps the types.
LEMMA ReadType ==
  ASSUME NEW r \in Runs, NEW x \in LogRecords, NEW end
  PROVE  ReadRecord(r, x, end) \in Runs
PROOF
<1> DEFINE how == r.status
           at == r.pos
           given == r.state
<1>1. /\ r = [status |-> how, pos |-> at, state |-> given]
      /\ how \in {"read", "stop", "fail"} /\ at \in Nat /\ given \in States
  BY RunFields, Zenon
<1> HIDE DEF how, at, given
<1>2. PICK how2 \in {"read", "stop", "fail"}, at2 \in Nat : Goes(x, end, how, at, how2, at2)
  BY <1>1, ReadShape, Zenon
<1>3. PICK s \in States : ReadRecord(r, x, end) = [status |-> how2, pos |-> at2, state |-> s]
  BY <1>1, <1>2, ApplyType, Zenon DEF Goes
<1> QED
  BY <1>2, <1>3 DEF Runs

\* A set of numbers that has no least member is empty: induction, in the form used here.
LEMMA LeastNumber ==
  ASSUME NEW T \in SUBSET Nat, T # {}
  PROVE  \E m \in T : \A n \in 0 .. (m - 1) : n \notin T
PROOF
<1>1. T \subseteq Nat /\ T # {}
  BY Zenon
<1>2. PICK x \in T : \A y \in T : ~(<<y, x>> \in OpToRel(<, Nat))
  BY <1>1, WFMin, NatLessThanWellFounded, Zenon
<1>3. \A y \in T : ~(y < x)
  BY <1>2, Zenon DEF OpToRel
<1>4. \A n \in 0 .. (x - 1) : n < x
  OBVIOUS
<1> QED
  BY <1>3, <1>4, Zenon

\* Every log can be run from every state.
LEMMA RunExists ==
  ASSUME NEW s \in States, NEW l \in Seq(LogRecords)
  PROVE  \E f : IsRun(f, s, l)
PROOF
<1> DEFINE Good(f, m) == /\ f \in [0 .. m -> Runs] /\ f[0] = Start(s)
                         /\ \A n \in 1 .. m : f[n] = ReadRecord(f[n - 1], l[n], End(l))
           Bad == {m \in Nat : m <= Len(l) /\ ~ \E f : Good(f, m)}
<1>1. SUFFICES Bad = {}
  <2>1. Len(l) \in Nat /\ Len(l) <= Len(l)
    OBVIOUS
  <2>2. \E f : Good(f, Len(l))
    BY <1>1, <2>1, Zenon
  <2> QED
    BY <2>2, Zenon DEF IsRun
<1>2. SUFFICES ASSUME Bad # {} PROVE FALSE
  BY Zenon
<1>3. PICK m \in Bad : \A n \in 0 .. (m - 1) : n \notin Bad
  <2>1. Bad \in SUBSET Nat
    BY Zenon
  <2> HIDE DEF Bad
  <2> QED
    BY <1>2, <2>1, LeastNumber, Zenon
<1>4. m \in Nat /\ m <= Len(l) /\ ~ \E f : Good(f, m)
  BY Zenon
<1>5. CASE m = 0
  <2>1. Good([n \in 0 .. 0 |-> Start(s)], 0)
    BY DEF Runs, Start
  <2> HIDE DEF Good
  <2> QED
    BY <1>4, <1>5, <2>1, Zenon
<1>6. CASE m # 0
  <2>1. m - 1 \in Nat /\ m - 1 <= Len(l) /\ m - 1 \in 0 .. (m - 1)
    BY <1>4, <1>6
  <2>2. PICK f : Good(f, m - 1)
    BY <1>3, <2>1, Zenon
  <2>3. m \in 1 .. Len(l) /\ l[m] \in LogRecords
    BY <1>4, <1>6
  <2>4. f[m - 1] \in Runs
    BY <2>1, <2>2, Zenon
  <2>5. ReadRecord(f[m - 1], l[m], End(l)) \in Runs
    BY <2>3, <2>4, ReadType, Zenon
  <2> DEFINE g == [n \in 0 .. m |-> IF n = m THEN ReadRecord(f[m - 1], l[m], End(l)) ELSE f[n]]
  <2>6. g \in [0 .. m -> Runs] /\ g[0] = Start(s)
    BY <1>4, <1>6, <2>2, <2>5
  <2>7. ASSUME NEW n \in 1 .. m PROVE g[n] = ReadRecord(g[n - 1], l[n], End(l))
    BY <1>4, <2>2
  <2>8. Good(g, m)
    BY <2>6, <2>7, Zenon
  <2> QED
    BY <1>4, <2>8, Zenon
<1> QED
  BY <1>5, <1>6, Zenon

\* ReplayLog answers with the last member of such a run.
LEMMA ReplayIsRun ==
  ASSUME NEW s \in States, NEW l \in Seq(LogRecords)
  PROVE  \E f : IsRun(f, s, l) /\ ReplayLog(s, l) = f[Len(l)]
PROOF
<1> DEFINE Body(f) == [n \in 0 .. Len(l) |->
                         IF n = 0 THEN [status |-> "read", pos |-> 0, state |-> s]
                         ELSE ReadRecord(f[n - 1], l[n], End(l))]
           upto[n \in 0 .. Len(l)] ==
             IF n = 0 THEN [status |-> "read", pos |-> 0, state |-> s]
             ELSE ReadRecord(upto[n - 1], l[n], End(l))
<1>1. PICK f : IsRun(f, s, l)
  BY RunExists, Zenon
<1>2. f = Body(f)
  BY <1>1 DEF IsRun, Start
<1>3. upto = CHOOSE g : g = Body(g)
  BY Zenon DEF upto
<1>4. upto = Body(upto)
  BY <1>2, <1>3, Zenon
<1>5. ReplayLog(s, l) = upto[Len(l)]
  BY Zenon DEF ReplayLog
<1> HIDE DEF upto
<1>6. upto = f
  <2> DEFINE Bad == {n \in Nat : n <= Len(l) /\ upto[n] # f[n]}
  <2>1. ASSUME Bad # {} PROVE FALSE
    <3>1. PICK m \in Bad : \A n \in 0 .. (m - 1) : n \notin Bad
      <4>1. Bad \in SUBSET Nat
        BY Zenon
      <4> HIDE DEF Bad
      <4> QED
        BY <2>1, <4>1, LeastNumber, Zenon
    <3>2. CASE m = 0
      BY <1>2, <1>4, <3>2
    <3>3. CASE m # 0
      <4>1. m - 1 \in Nat /\ m - 1 <= Len(l) /\ upto[m - 1] = f[m - 1]
        BY <3>1, <3>3
      <4>2. m \in 0 .. Len(l)
        OBVIOUS
      <4>3. upto[m] = f[m]
        BY <1>2, <1>4, <3>3, <4>1, <4>2, Zenon
      <4> QED
        BY <4>3, Zenon
    <3> QED
      BY <3>2, <3>3, Zenon
  <2>2. \A n \in 0 .. Len(l) : upto[n] = f[n]
    BY <2>1
  <2>3. upto = [n \in 0 .. Len(l) |-> upto[n]]
    BY <1>4, Zenon
  <2>4. f = [n \in 0 .. Len(l) |-> f[n]]
    BY <1>1, Zenon DEF IsRun
  <2> QED
    BY <2>2, <2>3, <2>4, Zenon
<1> QED
  BY <1>1, <1>5, <1>6, Zenon

\* Replaying an empty log changes nothing.
LEMMA ReplayEmpty ==
  ASSUME NEW s \in States
  PROVE  Replay(s, <<>>) = s
PROOF
<1> DEFINE l == <<>>
<1>1. l \in Seq(LogRecords) /\ Len(l) = 0
  OBVIOUS
<1> HIDE DEF l
<1>2. PICK f : IsRun(f, s, l) /\ ReplayLog(s, l) = f[Len(l)]
  BY <1>1, ReplayIsRun, Zenon
<1>3. ReplayLog(s, l) = Start(s)
  BY <1>1, <1>2, Zenon DEF IsRun
<1>4. Start(s).state = s
  BY DEF Start
<1> QED
  BY <1>3, <1>4, Zenon DEF l, Replay

\* The state a replay ends in is a manifest state.
LEMMA ReplayType ==
  ASSUME NEW s \in States, NEW l \in Seq(LogRecords)
  PROVE  Replay(s, l) \in States
PROOF
<1>1. Len(l) \in 0 .. Len(l)
  OBVIOUS
<1>2. ReplayLog(s, l) \in Runs
  BY <1>1, ReplayIsRun DEF IsRun
<1> QED
  BY <1>2, RunFields, Zenon DEF Replay

\* Whether a log can be read does not depend on the manifest it is replayed over, and
\* replayed over two of them it leaves each entry as the one or as it was in the other.
LEMMA ReplayOver ==
  ASSUME NEW s \in States, NEW t \in States, NEW l \in Seq(LogRecords)
  PROVE  /\ Readable(t, l) = Readable(s, l)
         /\ \A x \in Entries : Replay(t, l)[x] \in {Replay(s, l)[x], t[x]}
PROOF
<1> DEFINE N == Len(l)
<1>1. N \in Nat /\ N <= N
  OBVIOUS
<1>2. PICK f : IsRun(f, s, l) /\ ReplayLog(s, l) = f[N]
  BY ReplayIsRun, Zenon
<1>3. PICK g : IsRun(g, t, l) /\ ReplayLog(t, l) = g[N]
  BY ReplayIsRun, Zenon
<1>5. ASSUME NEW n \in 0 .. N
      PROVE  /\ f[n] \in Runs /\ f[n].state \in States
             /\ g[n] \in Runs /\ g[n].state \in States
  BY <1>2, <1>3, RunFields, Zenon DEF IsRun
<1> DEFINE Same(n) == /\ g[n].status = f[n].status /\ g[n].pos = f[n].pos
                      /\ \A x \in Entries : g[n].state[x] \in {f[n].state[x], t[x]}
           Bad == {n \in Nat : n <= N /\ ~Same(n)}
<1>6. ASSUME Bad # {} PROVE FALSE
  <2>1. PICK m \in Bad : \A n \in 0 .. (m - 1) : n \notin Bad
    <3>1. Bad \in SUBSET Nat
      BY Zenon
    <3> HIDE DEF Bad
    <3> QED
      BY <1>6, <3>1, LeastNumber, Zenon
  <2>2. m \in Nat /\ m <= N /\ ~Same(m)
    BY Zenon
  <2>3. CASE m = 0
    <3>1. f[0] = Start(s) /\ g[0] = Start(t)
      BY <1>2, <1>3, Zenon DEF IsRun
    <3>2. Same(0)
      BY <3>1 DEF Start
    <3> QED
      BY <2>2, <2>3, <3>2, Zenon
  <2>4. CASE m # 0
    <3>1. m \in 1 .. N /\ m - 1 \in Nat /\ m - 1 <= N /\ m - 1 \in 0 .. N /\ m - 1 \in 0 .. (m - 1)
          /\ l[m] \in LogRecords
      BY <2>2, <2>4
    <3>2. Same(m - 1)
      BY <2>1, <3>1, Zenon
    <3>3. f[m] = ReadRecord(f[m - 1], l[m], End(l)) /\ g[m] = ReadRecord(g[m - 1], l[m], End(l))
      BY <1>2, <1>3, <3>1, Zenon DEF IsRun
    <3> DEFINE how == f[m - 1].status
               at == f[m - 1].pos
               a == f[m - 1].state
               b == g[m - 1].state
    <3>4. /\ f[m - 1] = [status |-> how, pos |-> at, state |-> a]
          /\ g[m - 1] = [status |-> how, pos |-> at, state |-> b]
          /\ how \in {"read", "stop", "fail"} /\ at \in Nat /\ a \in States /\ b \in States
          /\ \A x \in Entries : b[x] \in {a[x], t[x]}
      BY <1>5, <3>1, <3>2, RunFields, Zenon
    <3> HIDE DEF how, at, a, b
    <3>5. PICK how2 \in {"read", "stop", "fail"}, at2 \in Nat : Goes(l[m], End(l), how, at, how2, at2)
      <4>1. l[m] \in LogRecords /\ how \in {"read", "stop", "fail"} /\ at \in Nat
        BY <3>1, <3>4, Zenon
      <4> QED
        BY <4>1, ReadShape, Zenon
    <3>6. CASE /\ f[m] = [status |-> how2, pos |-> at2, state |-> a]
               /\ g[m] = [status |-> how2, pos |-> at2, state |-> b]
      <4>1. Same(m)
        BY <3>4, <3>6
      <4> QED
        BY <2>2, <4>1, Zenon
    <3>7. ASSUME NEW e \in Edits,
                 f[m] = [status |-> how2, pos |-> at2, state |-> ApplyEdit(a, e)],
                 g[m] = [status |-> how2, pos |-> at2, state |-> ApplyEdit(b, e)]
          PROVE FALSE
      <4>1. \A x \in Entries : ApplyEdit(b, e)[x] \in {ApplyEdit(a, e)[x], t[x]}
        BY <3>4 DEF ApplyEdit, States, Edits
      <4>2. Same(m)
        BY <3>7, <4>1
      <4> QED
        BY <2>2, <4>2, Zenon
    <3> QED
      BY <3>3, <3>4, <3>5, <3>6, <3>7, Zenon DEF Goes
  <2> QED
    BY <2>3, <2>4, Zenon
<1>7. Same(N)
  BY <1>1, <1>6
<1> QED
  BY <1>2, <1>3, <1>7, Zenon DEF Replay, Readable

\* Replaying a log over a snapshot that already holds its edits changes nothing: why
\* MaybeCheckpoint may stop between Persist and TruncateLog.
LEMMA ReplayIdempotent ==
  ASSUME NEW s \in States, NEW l \in Seq(LogRecords)
  PROVE  Replay(Replay(s, l), l) = Replay(s, l)
PROOF
<1> DEFINE t == Replay(s, l)
<1>1. t \in States
  BY ReplayType, Zenon
<1>2. \A x \in Entries : Replay(t, l)[x] \in {Replay(s, l)[x], t[x]}
  BY <1>1, ReplayOver, Zenon
<1>3. Replay(t, l) \in States
  BY <1>1, ReplayType, Zenon
<1>4. \A x \in Entries : Replay(t, l)[x] = t[x]
  BY <1>2, Zenon
<1> HIDE DEF t
<1> QED
  <2>1. Replay(t, l) = t
    BY <1>1, <1>3, <1>4 DEF States
  <2> QED
    BY <2>1, Zenon DEF t

-----------------------------------------------------------------------------
\* The records of a log lie one behind the other, and each has some of its bytes.
Offset(l, k) == IF k = 0 THEN 0 ELSE l[k].at + l[k].size
InStep(l) ==
  \A i \in 1 .. Len(l) :
    /\ l[i].at = Offset(l, i - 1)
    /\ 0 < l[i].size /\ l[i].size <= Width(l[i].edit)
    /\ l[i].at + l[i].size <= End(l)

\* The records up to the kth are complete.
CompleteTo(l, k) == \A i \in 1 .. k : Complete(l[i])

\* m is the log l with n bytes of a record of e behind it.
Longer(l, m, e, n) ==
  /\ l \in Seq(LogRecords) /\ InStep(l) /\ m \in Seq(LogRecords) /\ InStep(m)
  /\ Len(l) \in Nat /\ Len(m) = Len(l) + 1 /\ \A i \in 1 .. Len(l) : m[i] = l[i]
  /\ m[Len(m)] = [at |-> End(l), edit |-> e, size |-> n]
  /\ End(l) \in Nat /\ End(m) = End(l) + n /\ n \in Nat /\ 0 < n /\ n <= Width(e)

\* An edit takes 21 or 25 bytes.
LEMMA EditWidth ==
  ASSUME NEW e
  PROVE  Width(e) \in {21, 25}
  BY DEF Width, HeaderSize, IdSize, LevelSize

\* The file ends at a place that is a whole number.
LEMMA EndType ==
  ASSUME NEW l \in Seq(LogRecords)
  PROVE  End(l) \in Nat /\ End(l) = Offset(l, Len(l))
PROOF
<1>1. CASE l = <<>>
  BY <1>1 DEF End, Offset
<1>2. CASE l # <<>>
  <2>1. Len(l) \in 1 .. Len(l) /\ Len(l) # 0 /\ l[Len(l)] \in LogRecords
    BY <1>2
  <2> QED
    BY <1>2, <2>1, RecordType DEF End, Offset
<1> QED
  BY <1>1, <1>2

\* A write to the log leaves a log.
LEMMA WrittenType ==
  ASSUME NEW l \in Seq(LogRecords), NEW e \in Edits, NEW n \in Nat
  PROVE  Written(l, e, n) \in Seq(LogRecords) /\ Written(l, e, n) # <<>>
PROOF
<1> DEFINE x == [at |-> End(l), edit |-> e, size |-> n]
<1>1. x \in LogRecords
  <2>1. End(l) \in Nat
    BY EndType, Zenon
  <2> QED
    BY <2>1 DEF LogRecords
<1> HIDE DEF x
<1>2. Append(l, x) \in Seq(LogRecords) /\ Append(l, x) # <<>>
  <2>1. Append(l, x) \in Seq(LogRecords) /\ Len(Append(l, x)) = Len(l) + 1 /\ Len(l) \in Nat
    BY <1>1
  <2>2. Len(<<>>) = 0
    OBVIOUS
  <2>3. Len(l) + 1 # 0
    BY <2>1
  <2> QED
    BY <2>1, <2>2, <2>3, Zenon
<1> QED
  BY <1>2, Zenon DEF Written, x

\* What is written next lies behind the rest.
LEMMA WrittenLonger ==
  ASSUME NEW l \in Seq(LogRecords), InStep(l), NEW e \in Edits, NEW n \in Nat,
         0 < n, n <= Width(e)
  PROVE  Longer(l, Written(l, e, n), e, n)
PROOF
<1> DEFINE x == [at |-> End(l), edit |-> e, size |-> n]
           m == Append(l, x)
<1>1. End(l) \in Nat /\ End(l) = Offset(l, Len(l)) /\ Len(l) \in Nat
  BY EndType
<1>2. x \in LogRecords
  BY <1>1 DEF LogRecords
<1>3. x.at = End(l) /\ x.edit = e /\ x.size = n
  OBVIOUS
<1> HIDE DEF x
<1>4. /\ m \in Seq(LogRecords) /\ Len(m) = Len(l) + 1 /\ m[Len(m)] = x
      /\ \A i \in 1 .. Len(l) : m[i] = l[i]
      /\ m # <<>>
  BY <1>2
<1> HIDE DEF m
<1>5. End(m) = End(l) + n
  BY <1>3, <1>4, Zenon DEF End
<1>6. ASSUME NEW i \in 1 .. Len(m)
      PROVE  /\ m[i].at = Offset(m, i - 1)
             /\ 0 < m[i].size /\ m[i].size <= Width(m[i].edit)
             /\ m[i].at + m[i].size <= End(m)
  <2>1. CASE i = Len(m)
    <3>1. Offset(m, i - 1) = Offset(l, Len(l))
      <4>1. i - 1 = Len(l)
        BY <1>1, <1>4, <2>1
      <4>2. Len(l) # 0 => m[Len(l)] = l[Len(l)]
        BY <1>1, <1>4
      <4> QED
        BY <4>1, <4>2, Zenon DEF Offset
    <3> QED
      BY <1>1, <1>3, <1>4, <1>5, <2>1, <3>1
  <2>2. CASE i # Len(m)
    <3>1. i \in 1 .. Len(l) /\ m[i] = l[i] /\ l[i] \in LogRecords
      BY <1>1, <1>4, <2>2
    <3>2. Offset(m, i - 1) = Offset(l, i - 1)
      <4>1. i - 1 # 0 => m[i - 1] = l[i - 1]
        BY <1>4, <3>1
      <4> QED
        BY <4>1, Zenon DEF Offset
    <3>3. /\ l[i].at = Offset(l, i - 1)
          /\ 0 < l[i].size /\ l[i].size <= Width(l[i].edit)
          /\ l[i].at + l[i].size <= End(l)
      BY <3>1, Zenon DEF InStep
    <3>4. l[i].at + l[i].size <= End(m)
      BY <1>1, <1>5, <3>1, <3>3, RecordType
    <3> QED
      BY <3>1, <3>2, <3>3, <3>4, Zenon
  <2> QED
    BY <2>1, <2>2, Zenon
<1>7. InStep(m)
  BY <1>6, Zenon DEF InStep
<1> QED
  BY <1>1, <1>4, <1>5, <1>7, Zenon DEF m, x, Written, Longer

\* ReplayLog at a complete record: it applies its edit.
LEMMA ReadComplete ==
  ASSUME NEW r \in Runs, NEW x \in LogRecords, NEW end \in Nat, r.status = "read", r.pos = x.at,
         Complete(x), x.at + x.size <= end
  PROVE  ReadRecord(r, x, end) =
           [status |-> "read", pos |-> x.at + x.size, state |-> ApplyEdit(r.state, x.edit)]
PROOF
<1>1. /\ x.at \in Nat /\ x.size = Width(x.edit) /\ Width(x.edit) \in {21, 25}
      /\ MagicSize = 4 /\ HeaderSize = 13
  BY RecordType, Zenon DEF Complete
<1>2. Needed(x) = x.size
  BY <1>1 DEF Needed
<1>3. ~(x.at + x.size <= r.pos) /\ ~(end - x.at < Needed(x)) /\ ~(x.size < HeaderSize)
  BY <1>1, <1>2
<1> QED
  BY <1>1, <1>3, Zenon DEF ReadRecord

\* ReplayLog at a record that was cut in its header: it ends there, and well only when
\* too little follows.
LEMMA ReadHeaderCut ==
  ASSUME NEW r \in Runs, NEW x \in LogRecords, NEW end \in Nat, r.status = "read", r.pos = x.at,
         0 < x.size, x.size < HeaderSize
  PROVE  ReadRecord(r, x, end) = IF end - x.at < Needed(x) THEN Stopped(r) ELSE Mismatch(r)
PROOF
<1>1. ~(x.at + x.size <= r.pos)
  BY RecordType
<1> QED
  BY <1>1, Zenon DEF ReadRecord

\* ReplayLog at a record that was cut in its payload: it ends there when too little
\* follows, and otherwise goes on behind the bytes that complete it.
LEMMA ReadPayloadCut ==
  ASSUME NEW r \in Runs, NEW x \in LogRecords, NEW end \in Nat, r.status = "read", r.pos = x.at,
         CutInPayload(x)
  PROVE  ReadRecord(r, x, end) =
           IF end - x.at < Width(x.edit) THEN Stopped(r)
           ELSE [status |-> "read", pos |-> x.at + Width(x.edit), state |-> Garbled(r.state, x)]
PROOF
<1>1. /\ x.at \in Nat /\ x.size \in Nat /\ MagicSize = 4 /\ HeaderSize = 13
      /\ x.size >= HeaderSize /\ ~Complete(x)
  BY RecordType, Zenon DEF CutInPayload
<1>2. ~(x.at + x.size <= r.pos) /\ ~(x.size < HeaderSize) /\ ~(x.size < MagicSize)
  BY <1>1
<1> QED
  BY <1>1, <1>2, Zenon DEF ReadRecord, Needed

\* A run that has ended stays as it is.
LEMMA EndedStays ==
  ASSUME NEW l \in Seq(LogRecords), NEW s, NEW f, IsRun(f, s, l), NEW k \in 0 .. Len(l),
         f[k].status # "read"
  PROVE  f[Len(l)] = f[k]
PROOF
<1> DEFINE Bad == {n \in Nat : k <= n /\ n <= Len(l) /\ f[n] # f[k]}
<1>1. ASSUME Bad # {} PROVE FALSE
  <2>1. PICK m \in Bad : \A n \in 0 .. (m - 1) : n \notin Bad
    <3>1. Bad \in SUBSET Nat
      BY Zenon
    <3> HIDE DEF Bad
    <3> QED
      BY <1>1, <3>1, LeastNumber, Zenon
  <2>2. m \in 1 .. Len(l) /\ f[m - 1] = f[k] /\ f[m] # f[k]
    <3>1. m \in Nat /\ m <= Len(l) /\ k <= m /\ f[m] # f[k] /\ m # k
      BY Zenon
    <3> QED
      BY <2>1, <3>1
  <2>3. f[m] = ReadRecord(f[m - 1], l[m], End(l))
    BY <2>2, Zenon DEF IsRun
  <2> QED
    BY <2>2, <2>3, Zenon DEF ReadRecord
<1>2. Len(l) \in Nat /\ k <= Len(l) /\ Len(l) <= Len(l)
  OBVIOUS
<1> QED
  BY <1>1, <1>2, Zenon

\* ReplayLog passes the complete records at the front of a log.
LEMMA CompletePassed ==
  ASSUME NEW l \in Seq(LogRecords), InStep(l), NEW s \in States, NEW f, IsRun(f, s, l),
         NEW k \in 0 .. Len(l), CompleteTo(l, k)
  PROVE  f[k] \in Runs /\ f[k].status = "read" /\ f[k].pos = Offset(l, k)
PROOF
<1> DEFINE Ok(n) == f[n] \in Runs /\ f[n].status = "read" /\ f[n].pos = Offset(l, n)
           Bad == {n \in Nat : n <= k /\ ~Ok(n)}
<1>1. ASSUME Bad # {} PROVE FALSE
  <2>1. PICK m \in Bad : \A n \in 0 .. (m - 1) : n \notin Bad
    <3>1. Bad \in SUBSET Nat
      BY Zenon
    <3> HIDE DEF Bad
    <3> QED
      BY <1>1, <3>1, LeastNumber, Zenon
  <2>2. m \in Nat /\ m <= k /\ ~Ok(m)
    BY Zenon
  <2>3. m \in 0 .. Len(l) /\ 0 \in 0 .. Len(l)
    BY <2>2
  <2>4. f[m] \in Runs /\ f[0] = Start(s)
    BY <2>3, Zenon DEF IsRun
  <2>5. CASE m = 0
    BY <2>2, <2>4, <2>5 DEF Start, Offset
  <2>6. CASE m # 0
    <3>1. m \in 1 .. Len(l) /\ m \in 1 .. k /\ m - 1 \in 0 .. (m - 1) /\ m - 1 \in Nat /\ m - 1 <= k
          /\ l[m] \in LogRecords
      BY <2>2, <2>3, <2>6
    <3>2. Ok(m - 1)
      BY <2>1, <3>1, Zenon
    <3>3. Complete(l[m]) /\ l[m].at = Offset(l, m - 1) /\ l[m].at + l[m].size <= End(l)
      BY <3>1, Zenon DEF CompleteTo, InStep
    <3>4. f[m] = ReadRecord(f[m - 1], l[m], End(l))
      BY <3>1, Zenon DEF IsRun
    <3>5. f[m] = [status |-> "read", pos |-> l[m].at + l[m].size,
                  state |-> ApplyEdit(f[m - 1].state, l[m].edit)]
      BY <3>1, <3>2, <3>3, <3>4, EndType, ReadComplete, Zenon
    <3>6. f[m].status = "read" /\ f[m].pos = Offset(l, m)
      BY <2>6, <3>5 DEF Offset
    <3> QED
      BY <2>2, <2>4, <3>6, Zenon
  <2> QED
    BY <2>5, <2>6, Zenon
<1>2. k \in Nat /\ k <= k
  OBVIOUS
<1> QED
  BY <1>1, <1>2, Zenon

\* What was complete is read as before when more is written behind it.
LEMMA SameFront ==
  ASSUME NEW l, NEW m, NEW e, NEW n, Longer(l, m, e, n), NEW s \in States,
         NEW f, IsRun(f, s, l), NEW g, IsRun(g, s, m), NEW k \in 0 .. Len(l), CompleteTo(l, k)
  PROVE  f[k] = g[k] /\ f[k] \in Runs /\ f[k].status = "read" /\ f[k].pos = Offset(l, k)
PROOF
<1>1. /\ l \in Seq(LogRecords) /\ InStep(l) /\ m \in Seq(LogRecords) /\ InStep(m)
      /\ Len(l) \in Nat /\ Len(m) = Len(l) + 1 /\ \A i \in 1 .. Len(l) : m[i] = l[i]
      /\ End(l) \in Nat /\ End(m) \in Nat
  BY EndType, Zenon DEF Longer
<1> DEFINE Bad == {i \in Nat : i <= k /\ f[i] # g[i]}
<1>2. ASSUME Bad # {} PROVE FALSE
  <2>1. PICK j \in Bad : \A i \in 0 .. (j - 1) : i \notin Bad
    <3>1. Bad \in SUBSET Nat
      BY Zenon
    <3> HIDE DEF Bad
    <3> QED
      BY <1>2, <3>1, LeastNumber, Zenon
  <2>2. j \in Nat /\ j <= k /\ f[j] # g[j]
    BY Zenon
  <2>3. CASE j = 0
    BY <2>2, <2>3, Zenon DEF IsRun
  <2>4. CASE j # 0
    <3>1. /\ j \in 1 .. Len(l) /\ j \in 1 .. Len(m) /\ j - 1 \in 0 .. Len(l) /\ j \in 1 .. k
          /\ l[j] \in LogRecords /\ m[j] = l[j]
      BY <1>1, <2>2, <2>4
    <3>2. f[j - 1] = g[j - 1]
      BY <2>1, <2>2, <2>4
    <3>3. CompleteTo(l, j - 1) /\ Complete(l[j])
      BY <2>2, <3>1 DEF CompleteTo
    <3>4. f[j - 1] \in Runs /\ f[j - 1].status = "read" /\ f[j - 1].pos = Offset(l, j - 1)
      BY <1>1, <3>1, <3>3, CompletePassed, Zenon
    <3>5. /\ l[j].at = Offset(l, j - 1)
          /\ l[j].at + l[j].size <= End(l) /\ l[j].at + l[j].size <= End(m)
      BY <1>1, <3>1, Zenon DEF InStep
    <3>6. f[j] = ReadRecord(f[j - 1], l[j], End(l)) /\ g[j] = ReadRecord(f[j - 1], l[j], End(m))
      BY <3>1, <3>2, Zenon DEF IsRun
    <3> QED
      BY <1>1, <2>2, <3>1, <3>3, <3>4, <3>5, <3>6, ReadComplete, Zenon
  <2> QED
    BY <2>3, <2>4, Zenon
<1>3. k \in Nat /\ k <= k
  OBVIOUS
<1>4. f[k] = g[k]
  BY <1>2, <1>3, Zenon
<1>5. f[k] \in Runs /\ f[k].status = "read" /\ f[k].pos = Offset(l, k)
  BY <1>1, CompletePassed, Zenon
<1> QED
  BY <1>4, <1>5, Zenon

\* A log of complete records is read to its end.  Another complete record adds its edit,
\* and one that is cut off adds nothing.
LEMMA BehindComplete ==
  ASSUME NEW l, NEW m, NEW e \in Edits, NEW n, Longer(l, m, e, n), NEW s \in States,
         CompleteTo(l, Len(l))
  PROVE  /\ Readable(s, l)
         /\ n = Width(e) => Replay(s, m) = ApplyEdit(Replay(s, l), e)
         /\ n < Width(e) => Replay(s, m) = Replay(s, l)
PROOF
<1>1. /\ l \in Seq(LogRecords) /\ m \in Seq(LogRecords) /\ Len(l) \in Nat /\ Len(m) = Len(l) + 1
      /\ End(l) \in Nat /\ End(m) = End(l) + n /\ n \in Nat /\ 0 < n /\ n <= Width(e)
      /\ m[Len(m)] = [at |-> End(l), edit |-> e, size |-> n]
  BY Zenon DEF Longer
<1>2. PICK f : IsRun(f, s, l) /\ ReplayLog(s, l) = f[Len(l)]
  BY <1>1, ReplayIsRun, Zenon
<1>3. PICK g : IsRun(g, s, m) /\ ReplayLog(s, m) = g[Len(m)]
  BY <1>1, ReplayIsRun, Zenon
<1> DEFINE r == f[Len(l)]
           x == m[Len(m)]
<1>4. r = g[Len(l)] /\ r \in Runs /\ r.status = "read" /\ r.pos = End(l)
  <2>1. Len(l) \in 0 .. Len(l)
    BY <1>1
  <2> QED
    <3>1. /\ f[Len(l)] = g[Len(l)] /\ f[Len(l)] \in Runs /\ f[Len(l)].status = "read"
          /\ f[Len(l)].pos = Offset(l, Len(l))
      BY <1>2, <1>3, <2>1, SameFront
    <3> QED
      BY <1>1, <3>1, EndType, Zenon
<1>5. g[Len(m)] = ReadRecord(r, x, End(m))
  <2>1. Len(m) \in 1 .. Len(m) /\ Len(m) - 1 = Len(l)
    BY <1>1
  <2> QED
    BY <1>3, <1>4, <2>1, Zenon DEF IsRun
<1>6. x \in LogRecords /\ x.at = End(l) /\ x.edit = e /\ x.size = n /\ End(m) \in Nat
  BY <1>1 DEF LogRecords
<1>7. Readable(s, l) /\ Replay(s, l) = r.state /\ Replay(s, m) = g[Len(m)].state
  BY <1>2, <1>3, <1>4 DEF Readable, Replay
<1> HIDE DEF r, x
<1>8. ASSUME n = Width(e) PROVE Replay(s, m) = ApplyEdit(Replay(s, l), e)
  <2>1. Complete(x) /\ x.at + x.size <= End(m)
    BY <1>1, <1>6, <1>8 DEF Complete
  <2>2. g[Len(m)] = [status |-> "read", pos |-> x.at + x.size, state |-> ApplyEdit(r.state, e)]
    BY <1>4, <1>5, <1>6, <2>1, ReadComplete, Zenon
  <2> QED
    BY <1>7, <2>2
<1>9. ASSUME n < Width(e) PROVE Replay(s, m) = Replay(s, l)
  <2>1. End(m) - x.at = n /\ n < Needed(x) /\ ~Complete(x)
    BY <1>1, <1>6, <1>9, RecordType DEF Needed, Complete
  <2>2. g[Len(m)] = Stopped(r)
    <3>1. CASE n < HeaderSize
      BY <1>1, <1>4, <1>5, <1>6, <2>1, <3>1, ReadHeaderCut, Zenon
    <3>2. CASE ~(n < HeaderSize)
      <4>1. CutInPayload(x)
        BY <1>1, <1>6, <2>1, <3>2, RecordType DEF CutInPayload
      <4> QED
        BY <1>4, <1>5, <1>6, <1>9, <2>1, <4>1, ReadPayloadCut, Zenon
    <3> QED
      BY <3>1, <3>2, Zenon
  <2>3. Stopped(r).state = r.state
    BY <1>4 DEF Stopped, Runs
  <2> QED
    BY <1>7, <2>2, <2>3, Zenon
<1> QED
  BY <1>7, <1>8, <1>9, Zenon

\* A log has only complete records, or a first one that is not.
LEMMA FirstCut ==
  ASSUME NEW l \in Seq(LogRecords), ~CompleteTo(l, Len(l))
  PROVE  \E k \in 1 .. Len(l) : ~Complete(l[k]) /\ CompleteTo(l, k - 1)
PROOF
<1> DEFINE Cut == {i \in Nat : 1 <= i /\ i <= Len(l) /\ ~Complete(l[i])}
<1>1. Cut # {} /\ Cut \in SUBSET Nat
  BY DEF CompleteTo
<1>2. PICK k \in Cut : \A i \in 0 .. (k - 1) : i \notin Cut
  <2> HIDE DEF Cut
  <2> QED
    BY <1>1, LeastNumber, Zenon
<1>3. k \in 1 .. Len(l) /\ ~Complete(l[k])
  OBVIOUS
<1>4. ASSUME NEW i \in 1 .. (k - 1) PROVE Complete(l[i])
  BY <1>2, <1>3
<1> QED
  BY <1>3, <1>4, Zenon DEF CompleteTo

\* Behind a record that was cut in its header nothing is read.  A complete record there
\* makes ReplayLog fail.
LEMMA BehindHeaderCut ==
  ASSUME NEW l, NEW m, NEW e \in Edits, NEW n, Longer(l, m, e, n), NEW s \in States,
         NEW k \in 1 .. Len(l), CompleteTo(l, k - 1), l[k].size < HeaderSize
  PROVE  /\ Readable(s, m) => Readable(s, l) /\ Replay(s, m) = Replay(s, l)
         /\ n = Width(e) => ~Readable(s, m)
PROOF
<1>1. /\ l \in Seq(LogRecords) /\ m \in Seq(LogRecords) /\ Len(l) \in Nat /\ Len(m) = Len(l) + 1
      /\ End(l) \in Nat /\ End(m) = End(l) + n /\ n \in Nat /\ 0 < n
      /\ m[k] = l[k] /\ InStep(l)
  BY Zenon DEF Longer
<1>2. PICK f : IsRun(f, s, l) /\ ReplayLog(s, l) = f[Len(l)]
  BY <1>1, ReplayIsRun, Zenon
<1>3. PICK g : IsRun(g, s, m) /\ ReplayLog(s, m) = g[Len(m)]
  BY <1>1, ReplayIsRun, Zenon
<1> DEFINE r == f[k - 1]
           x == l[k]
<1>4. k - 1 \in 0 .. Len(l) /\ k \in 0 .. Len(l) /\ k \in 0 .. Len(m) /\ k \in 1 .. Len(m)
      /\ x \in LogRecords /\ End(m) \in Nat
  BY <1>1
<1>5. /\ x.at = Offset(l, k - 1) /\ 0 < x.size /\ x.size < HeaderSize
      /\ x.at + x.size <= End(l)
  BY <1>1, Zenon DEF InStep
<1>6. r = g[k - 1] /\ r \in Runs /\ r.status = "read" /\ r.pos = x.at
  <2>1. f[k - 1] = g[k - 1] /\ f[k - 1] \in Runs /\ f[k - 1].status = "read"
        /\ f[k - 1].pos = Offset(l, k - 1)
    BY <1>2, <1>3, <1>4, SameFront
  <2> QED
    BY <1>5, <2>1, Zenon
<1>7. f[k] = ReadRecord(r, x, End(l)) /\ g[k] = ReadRecord(r, x, End(m))
  BY <1>1, <1>2, <1>3, <1>4, <1>6, Zenon DEF IsRun
<1> HIDE DEF r, x
<1>8. /\ f[k] = IF End(l) - x.at < Needed(x) THEN Stopped(r) ELSE Mismatch(r)
      /\ g[k] = IF End(m) - x.at < Needed(x) THEN Stopped(r) ELSE Mismatch(r)
  BY <1>1, <1>4, <1>5, <1>6, <1>7, ReadHeaderCut, Zenon
<1>9. Stopped(r).status = "stop" /\ Mismatch(r).status = "fail"
  BY <1>6 DEF Stopped, Mismatch, Runs
<1>10. f[k].status # "read" /\ g[k].status # "read"
  BY <1>8, <1>9
<1>11. ReplayLog(s, l) = f[k] /\ ReplayLog(s, m) = g[k]
  <2>1. f[Len(l)] = f[k]
    <3>1. l \in Seq(LogRecords) /\ IsRun(f, s, l) /\ k \in 0 .. Len(l) /\ f[k].status # "read"
      BY <1>1, <1>2, <1>4, <1>10, Zenon
    <3> QED
      BY <3>1, EndedStays, Zenon
  <2>2. g[Len(m)] = g[k]
    <3>1. m \in Seq(LogRecords) /\ IsRun(g, s, m) /\ k \in 0 .. Len(m) /\ g[k].status # "read"
      BY <1>1, <1>3, <1>4, <1>10, Zenon
    <3> QED
      BY <3>1, EndedStays, Zenon
  <2> QED
    BY <1>2, <1>3, <2>1, <2>2, Zenon
<1>12. End(m) - x.at < Needed(x) => End(l) - x.at < Needed(x)
  <2>1. x.at \in Nat /\ Needed(x) \in {4, 13, 21, 25}
    BY <1>4, RecordType, Zenon
  <2>2. ASSUME NEW a \in Nat, NEW b \in Nat, NEW need \in Nat, (b + n) - a < need PROVE b - a < need
    BY <1>1, <2>2
  <2>3. Needed(x) \in Nat
    BY <2>1
  <2> QED
    BY <1>1, <2>1, <2>2, <2>3, Zenon
<1>13. ASSUME n = Width(e) PROVE ~(End(m) - x.at < Needed(x))
  <2>1. Needed(x) \in {4, 13}
    BY <1>5, RecordType DEF Needed, HeaderSize, MagicSize
  <2>2. x.at \in Nat /\ x.size \in Nat
    BY <1>4, RecordType, Zenon
  <2>3. n \in {21, 25}
    BY <1>13, EditWidth, Zenon
  <2> QED
    BY <1>1, <1>5, <2>1, <2>2, <2>3
<1>14. "fail" # "stop"
  OBVIOUS
<1> QED
  BY <1>8, <1>9, <1>11, <1>12, <1>13, <1>14, Zenon DEF Readable, Replay

\* A record that was cut in its payload, with complete records behind it and one more
\* complete record: ReplayLog completes it with the next one, and then finds itself in
\* the middle of that one.
LEMMA BehindPayloadCut ==
  ASSUME NEW l, NEW m, NEW e \in Edits, NEW n, Longer(l, m, e, n), NEW s \in States,
         NEW k \in 1 .. Len(l), CompleteTo(l, k - 1), CutInPayload(l[k]),
         \A j \in (k + 1) .. Len(l) : Complete(l[j]), n = Width(e)
  PROVE  ~Readable(s, m)
PROOF
<1>1. /\ l \in Seq(LogRecords) /\ m \in Seq(LogRecords) /\ Len(l) \in Nat /\ Len(m) = Len(l) + 1
      /\ \A i \in 1 .. Len(l) : m[i] = l[i]
      /\ m[Len(m)] = [at |-> End(l), edit |-> e, size |-> n]
      /\ InStep(l) /\ InStep(m) /\ End(m) \in Nat
  BY EndType, Zenon DEF Longer
<1>2. PICK g : IsRun(g, s, m) /\ ReplayLog(s, m) = g[Len(m)]
  BY <1>1, ReplayIsRun, Zenon
<1> DEFINE r == g[k - 1]
           x == m[k]
           y == m[k + 1]
           q == g[k]
<1>3. /\ k - 1 \in 0 .. Len(m) /\ k \in 1 .. Len(m)
      /\ k + 1 \in 1 .. Len(m) /\ k + 1 \in 0 .. Len(m) /\ k # 0 /\ (k + 1) - 1 = k /\ k \in 0 .. Len(m)
      /\ x \in LogRecords /\ y \in LogRecords /\ x = l[k]
  BY <1>1
<1>4. CompleteTo(m, k - 1)
  BY <1>1 DEF CompleteTo
<1>5. r \in Runs /\ r.status = "read" /\ r.pos = Offset(m, k - 1)
  BY <1>1, <1>2, <1>3, <1>4, CompletePassed, Zenon
<1>6. /\ x.at = Offset(m, k - 1) /\ y.at = x.at + x.size /\ y.at + y.size <= End(m)
      /\ x.size <= Width(x.edit)
  BY <1>1, <1>3, Zenon DEF InStep, Offset
<1>7. g[k] = ReadRecord(r, x, End(m)) /\ g[k + 1] = ReadRecord(q, y, End(m)) /\ q \in Runs
  BY <1>2, <1>3, Zenon DEF IsRun
<1>8. y.size = Width(y.edit)
  <2>1. CASE k = Len(l)
    BY <1>1, <2>1
  <2>2. CASE k # Len(l)
    <3>1. k + 1 \in (k + 1) .. Len(l) /\ k + 1 \in 1 .. Len(l)
      BY <1>1, <2>2
    <3> QED
      BY <1>1, <3>1, Zenon DEF Complete
  <2> QED
    BY <2>1, <2>2, Zenon
<1>9. CutInPayload(x)
  BY <1>3, Zenon
<1> HIDE DEF r, x, y, q
<1> DEFINE w == Width(x.edit)
<1>10. /\ x.at \in Nat /\ x.size \in Nat /\ y.at \in Nat /\ y.size \in {21, 25} /\ w \in {21, 25}
       /\ y.at = x.at + x.size /\ y.at + y.size <= End(m) /\ End(m) \in Nat
       /\ 13 <= x.size /\ x.size < w
  <2>1. /\ x.at \in Nat /\ x.size \in Nat /\ y.at \in Nat /\ y.size \in {21, 25} /\ w \in {21, 25}
    BY <1>3, <1>8, RecordType, EditWidth, Zenon
  <2>2. x.size >= HeaderSize /\ x.size # w
    BY <1>9, Zenon DEF CutInPayload, Complete
  <2>3. y.at = x.at + x.size /\ y.at + y.size <= End(m) /\ End(m) \in Nat /\ x.size <= w
    BY <1>1, <1>6, Zenon
  <2> HIDE DEF w
  <2> QED
    BY <2>1, <2>2, <2>3 DEF HeaderSize
<1> DEFINE a == x.at
           b == x.size
           c == y.size
           end == End(m)
<1>11. ~(end - a < w) /\ ~((a + b) + c <= a + w) /\ a + b # a + w /\ ~(end - (a + w) < 4)
  <2>1. /\ a \in Nat /\ b \in Nat /\ c \in {21, 25} /\ w \in {21, 25} /\ end \in Nat
        /\ 13 <= b /\ b < w /\ (a + b) + c <= end
    BY <1>10, Zenon
  <2> HIDE DEF a, b, c, w, end
  <2> QED
    BY <2>1
<1>12. q = [status |-> "read", pos |-> x.at + Width(x.edit), state |-> Garbled(r.state, x)]
  BY <1>1, <1>3, <1>5, <1>6, <1>7, <1>9, <1>11, ReadPayloadCut, Zenon DEF q
<1>13. q.status = "read" /\ q.pos = x.at + Width(x.edit)
  BY <1>12
<1>14. ~(y.at + y.size <= q.pos) /\ y.at # q.pos /\ ~(End(m) - q.pos < MagicSize)
  BY <1>10, <1>11, <1>13, Zenon DEF MagicSize
<1>15. g[k + 1] = Mismatch(q)
  BY <1>7, <1>13, <1>14, Zenon DEF ReadRecord
<1>16. g[k + 1].status = "fail"
  BY <1>7, <1>15 DEF Mismatch, Runs
<1>17. ReplayLog(s, m) = g[k + 1]
  <2>1. "fail" # "read"
    OBVIOUS
  <2> QED
    BY <1>1, <1>2, <1>3, <1>16, <2>1, EndedStays
<1> QED
  BY <1>16, <1>17, Zenon DEF Readable

\* At most the last record that was cut off was cut in its payload.
OneCut(l) ==
  \A i, j \in 1 .. Len(l) : i < j /\ CutInPayload(l[i]) => Complete(l[j])

\* A complete record adds its edit, or else the log can no longer be read.
LEMMA AppendMatches ==
  ASSUME NEW l \in Seq(LogRecords), InStep(l), OneCut(l), NEW s \in States, NEW e \in Edits
  PROVE  LET m == Written(l, e, Width(e)) IN
           /\ InStep(m) /\ OneCut(m)
           /\ Readable(s, m) => Readable(s, l) /\ Replay(s, m) = ApplyEdit(Replay(s, l), e)
PROOF
<1> DEFINE m == Written(l, e, Width(e))
           n == Width(e)
<1>1. Longer(l, m, e, n)
  <2>1. n \in {21, 25}
    BY EditWidth, Zenon
  <2>2. n \in Nat /\ 0 < n /\ n <= n
    BY <2>1
  <2> QED
    BY <2>2, WrittenLonger, Zenon
<1> HIDE DEF m
<1>2. InStep(m)
  BY <1>1, Zenon DEF Longer
<1>3. OneCut(m)
  <2>1. /\ Len(l) \in Nat /\ Len(m) = Len(l) + 1 /\ \A i \in 1 .. Len(l) : m[i] = l[i]
        /\ m[Len(m)] = [at |-> End(l), edit |-> e, size |-> n]
    BY <1>1, Zenon DEF Longer
  <2>2. Complete(m[Len(m)])
    BY <2>1 DEF Complete
  <2>3. ASSUME NEW i \in 1 .. Len(m), NEW j \in 1 .. Len(m), i < j, CutInPayload(m[i])
        PROVE  Complete(m[j])
    <3>1. CASE j = Len(m)
      BY <2>2, <3>1, Zenon
    <3>2. CASE j # Len(m)
      <4>1. i \in 1 .. Len(l) /\ j \in 1 .. Len(l)
        BY <2>1, <2>3, <3>2
      <4> QED
        BY <2>1, <2>3, <4>1, Zenon DEF OneCut
    <3> QED
      BY <3>1, <3>2, Zenon
  <2> QED
    BY <2>3, Zenon DEF OneCut
<1>4. CASE CompleteTo(l, Len(l))
  <2>1. /\ Readable(s, l)
        /\ n = Width(e) => Replay(s, m) = ApplyEdit(Replay(s, l), e)
        /\ n < Width(e) => Replay(s, m) = Replay(s, l)
    BY <1>1, <1>4, BehindComplete, Zenon
  <2> QED
    BY <1>2, <1>3, <2>1, Zenon DEF m
<1>5. CASE ~CompleteTo(l, Len(l))
  <2>1. PICK k \in 1 .. Len(l) : ~Complete(l[k]) /\ CompleteTo(l, k - 1)
    BY <1>5, FirstCut, Zenon
  <2>2. ~Readable(s, m)
    <3>1. CASE l[k].size < HeaderSize
      BY <1>1, <2>1, <3>1, BehindHeaderCut
    <3>2. CASE ~(l[k].size < HeaderSize)
      <4>1. l[k] \in LogRecords
        OBVIOUS
      <4>2. CutInPayload(l[k])
        <5>1. l[k].size >= HeaderSize
          BY <3>2, <4>1, RecordType
        <5> QED
          BY <2>1, <5>1, Zenon DEF CutInPayload
      <4>3. ASSUME NEW j \in (k + 1) .. Len(l) PROVE Complete(l[j])
        <5>1. j \in 1 .. Len(l) /\ k < j
          OBVIOUS
        <5> QED
          BY <4>2, <5>1, Zenon DEF OneCut
      <4> QED
        BY <1>1, <2>1, <4>2, <4>3, BehindPayloadCut, Zenon
    <3> QED
      BY <3>1, <3>2, Zenon
  <2> QED
    BY <1>2, <1>3, <2>2, Zenon DEF m
<1> QED
  BY <1>4, <1>5, Zenon

\* A record that is cut off changes nothing, or else the log can no longer be read,
\* provided that no record was cut in its payload before.
LEMMA CutMatches ==
  ASSUME NEW l \in Seq(LogRecords), InStep(l), NEW s \in States, NEW e \in Edits,
         NEW n \in Nat, 0 < n, n < Width(e), \A i \in 1 .. Len(l) : ~CutInPayload(l[i])
  PROVE  LET m == Written(l, e, n) IN
           /\ InStep(m) /\ OneCut(m)
           /\ Readable(s, m) => Readable(s, l) /\ Replay(s, m) = Replay(s, l)
PROOF
<1> DEFINE m == Written(l, e, n)
<1>1. Longer(l, m, e, n)
  <2>1. Width(e) \in {21, 25}
    BY EditWidth, Zenon
  <2>2. n <= Width(e)
    BY <2>1
  <2> QED
    BY <2>2, WrittenLonger, Zenon
<1> HIDE DEF m
<1>2. InStep(m)
  BY <1>1, Zenon DEF Longer
<1>3. OneCut(m)
  <2>1. Len(l) \in Nat /\ Len(m) = Len(l) + 1 /\ \A i \in 1 .. Len(l) : m[i] = l[i]
    BY <1>1, Zenon DEF Longer
  <2>2. ASSUME NEW i \in 1 .. Len(m), NEW j \in 1 .. Len(m), i < j, CutInPayload(m[i])
        PROVE  FALSE
    <3>1. i \in 1 .. Len(l)
      BY <2>1, <2>2
    <3> QED
      BY <2>1, <2>2, <3>1, Zenon
  <2> QED
    BY <2>2, Zenon DEF OneCut
<1>4. CASE CompleteTo(l, Len(l))
  <2>1. /\ Readable(s, l)
        /\ n = Width(e) => Replay(s, m) = ApplyEdit(Replay(s, l), e)
        /\ n < Width(e) => Replay(s, m) = Replay(s, l)
    BY <1>1, <1>4, BehindComplete, Zenon
  <2> QED
    BY <1>2, <1>3, <2>1, Zenon DEF m
<1>5. CASE ~CompleteTo(l, Len(l))
  <2>1. PICK k \in 1 .. Len(l) : ~Complete(l[k]) /\ CompleteTo(l, k - 1)
    BY <1>5, FirstCut, Zenon
  <2>2. l[k].size < HeaderSize
    <3>1. ~(l[k].size >= HeaderSize)
      BY <2>1, Zenon DEF CutInPayload
    <3>2. l[k] \in LogRecords
      OBVIOUS
    <3> QED
      BY <3>1, <3>2, RecordType
  <2>3. Readable(s, m) => Readable(s, l) /\ Replay(s, m) = Replay(s, l)
    BY <1>1, <2>1, <2>2, BehindHeaderCut, Zenon
  <2> QED
    BY <1>2, <1>3, <2>3, Zenon DEF m
<1> QED
  BY <1>4, <1>5, Zenon

-----------------------------------------------------------------------------
\* Beginning a file: the values the constructor finds are manifest states.
LEMMA BaseType ==
  ASSUME TypeOK
  PROVE  Base \in States /\ Fresh \in States /\ NoEdit \in Edits
  BY ManifestAssumption, Zenon
     DEF TypeOK, Base, Fresh, NoEdit, States, Edits, EntryValues, Entries

\* A recorded operation sets an entry of the manifest to a value it can have.
LEMMA OperationIsRecord ==
  ASSUME TypeOK, Operation
  PROVE  \E x \in Entries, v \in EntryValues : Record(x, v)
PROOF
<1>1. Counter \in Entries /\ \A i \in Files, kind \in {"sst", "wal"} : <<kind, i>> \in Entries
  BY Zenon DEF Entries
<1>2. Live \in EntryValues /\ Absent \in EntryValues /\ 0 \in EntryValues /\ 1 \in EntryValues
  BY Zenon DEF EntryValues
<1>3. ASSUME AllocateFileNumber PROVE state[Counter] + 1 \in EntryValues
  BY <1>3, ManifestAssumption DEF AllocateFileNumber, Files, EntryValues
<1>4. CASE AllocateFileNumber
  BY <1>1, <1>3, <1>4, Zenon DEF AllocateFileNumber
<1>5. CASE \E i \in Files : AddWal(i) \/ RemoveWal(i) \/ RemoveSst(i)
  BY <1>1, <1>2, <1>5, Zenon DEF AddWal, RemoveWal, RemoveSst
<1>6. CASE \E i \in Files, level \in {0, 1} : AddSst(i, level)
  BY <1>1, <1>2, <1>6, Zenon DEF AddSst
<1> QED
  BY <1>4, <1>5, <1>6, Zenon DEF Operation

\* The bytes a write leaves are between none and all.
LEMMA PartBytes ==
  ASSUME TypeOK, PartWritten
  PROVE  \E n \in Nat : 0 < n /\ n < Width(edit) /\ log' = Written(log, edit, n)
PROOF
<1>1. PICK n \in Cuts : n < Width(edit) /\ log' = Written(log, edit, n)
  BY Zenon DEF PartWritten
<1>2. n \in Nat /\ 0 < n
  BY ManifestAssumption
<1> QED
  BY <1>1, <1>2, Zenon

\* Recording keeps a log.
LEMMA LogType ==
  ASSUME TypeOK
  PROVE  /\ AppendEdit => log' \in Seq(LogRecords) /\ log' # <<>>
         /\ PartWritten => log' \in Seq(LogRecords) /\ log' # <<>>
PROOF
<1>1. log \in Seq(LogRecords) /\ edit \in Edits
  BY Zenon DEF TypeOK
<1>2. Width(edit) \in Nat
  BY EditWidth
<1> QED
  BY <1>1, <1>2, PartBytes, WrittenType, Zenon DEF AppendEdit

\* Every step keeps the types.
LEMMA TypeStep ==
  ASSUME TypeOK, [Next]_vars
  PROVE  TypeOK'
PROOF
<1> USE DEF TypeOK
<1>1. CASE Open
  <2>1. Base \in States /\ Fresh \in States /\ Replay(Base, log) \in States
    BY BaseType, ReplayType, Zenon
  <2> QED
    BY <1>1, <2>1, Zenon DEF Open
<1>2. CASE Operation
  <2>1. PICK x \in Entries, v \in EntryValues : Record(x, v)
    BY <1>2, OperationIsRecord, Zenon
  <2>2. edit' \in Edits
    BY <2>1, Zenon DEF Record, Edits
  <2>3. state' \in States
    BY <2>1, <2>2, ApplyType, Zenon DEF Record
  <2> QED
    BY <2>1, <2>2, <2>3, Zenon DEF Record
<1>3. CASE AppendEdit
  <2>1. ApplyEdit(committed, edit) \in States
    BY ApplyType, Zenon
  <2>2. edits_since_checkpoint' \in Nat
    BY <1>3 DEF AppendEdit
  <2>3. log' \in Seq(LogRecords) /\ mode = "up"
    BY <1>3, LogType, Zenon DEF AppendEdit
  <2>4. phase' \in {"ready", "persist"}
    BY <1>3, Zenon DEF AppendEdit
  <2> QED
    BY <1>3, <2>1, <2>2, <2>3, <2>4, Zenon DEF AppendEdit
<1>4. CASE AppendFails
  <2>1. log' \in Seq(LogRecords) /\ mode = "up"
    BY <1>4, LogType, Zenon DEF AppendFails
  <2>2. diverged' \in BOOLEAN
    BY <1>4, Zenon DEF AppendFails
  <2> QED
    BY <1>4, <2>1, <2>2, Zenon DEF AppendFails
<1>5. CASE Fallback
  BY <1>5, Zenon DEF Fallback
<1>6. CASE CheckpointPersist
  BY <1>6, Zenon DEF CheckpointPersist
<1>7. CASE CheckpointTruncate
  <2>1. /\ log' \in Seq(LogRecords) /\ edits_since_checkpoint' \in Nat
        /\ committed' \in States /\ diverged' \in BOOLEAN
    <3>1. CASE log' = <<>> /\ edits_since_checkpoint' = 0 /\ committed' = state /\ diverged' = FALSE
      <4>1. diverged' \in BOOLEAN
        BY <3>1, Zenon
      <4> QED
        BY <3>1, <4>1
    <3>2. CASE UNCHANGED <<log, edits_since_checkpoint, committed, diverged>>
      BY <3>2, Zenon
    <3> QED
      BY <1>7, <3>1, <3>2, Zenon DEF CheckpointTruncate
  <2> QED
    BY <1>7, <2>1, Zenon DEF CheckpointTruncate
<1>8. CASE Crash
  <2>1. log' \in Seq(LogRecords)
    BY <1>8, LogType, Zenon DEF Crash
  <2>2. diverged' \in BOOLEAN
    BY <1>8, Zenon DEF Crash
  <2>3. Fresh \in States /\ NoEdit \in Edits
    BY BaseType, Zenon
  <2>4. edits_since_checkpoint' \in Nat
    BY <1>8 DEF Crash
  <2> QED
    BY <1>8, <2>1, <2>2, <2>3, <2>4, Zenon DEF Crash
<1>9. CASE UNCHANGED vars
  BY <1>9, Zenon DEF vars
<1> QED
  BY <1>1, <1>2, <1>3, <1>4, <1>5, <1>6, <1>7, <1>8, <1>9, Zenon DEF Next, RecordStep

\* The manifest starts as it should.
LEMMA InitType == Init => TypeOK
PROOF
<1> SUFFICES ASSUME Init PROVE TypeOK
  BY Zenon
<1>1. Fresh \in States /\ NoEdit \in Edits
  BY ManifestAssumption, Zenon DEF Fresh, NoEdit, States, Edits, EntryValues, Entries
<1> QED
  <2>1. diverged \in BOOLEAN
    BY Zenon DEF Init
  <2> QED
    BY <1>1, <2>1 DEF Init, TypeOK

\* The manifest and its files stay well formed, whatever fails.
THEOREM ManifestTypes == Spec => []TypeOK
  BY InitType, TypeStep, PTL DEF Spec

-----------------------------------------------------------------------------
\* Between Persist and TruncateLog the snapshot is the manifest in memory, and the
\* log has at least the record that led to the checkpoint.
SnapshotFresh ==
  /\ phase = "truncate" => snapshot = state
  /\ phase \in {"persist", "truncate"} => log # <<>>

\* SnapshotFresh is kept by every step.
LEMMA SnapshotFreshStep ==
  ASSUME TypeOK, SnapshotFresh, [Next]_vars
  PROVE  SnapshotFresh'
PROOF
<1>1. CASE Open
  BY <1>1, Zenon DEF Open, TypeOK, SnapshotFresh
<1>2. CASE Operation
  <2>1. PICK x \in Entries, v \in EntryValues : Record(x, v)
    BY <1>2, OperationIsRecord, Zenon
  <2> QED
    BY <2>1, Zenon DEF Record, SnapshotFresh
<1>3. CASE RecordStep
  <2>1. /\ AppendEdit => log' # <<>>
        /\ AppendFails => log' = log \/ log' # <<>>
    BY LogType, Zenon DEF AppendFails
  <2> QED
    BY <1>3, <2>1, Zenon DEF RecordStep, AppendEdit, AppendFails, Fallback, CheckpointPersist,
                      CheckpointTruncate, SnapshotFresh
<1>4. CASE Crash
  BY <1>4, Zenon DEF Crash, SnapshotFresh
<1>5. CASE UNCHANGED vars
  BY <1>5, Zenon DEF vars, SnapshotFresh
<1> QED
  BY <1>1, <1>2, <1>3, <1>4, <1>5, Zenon DEF Next

\* Whatever failed before, a checkpoint that completes leaves files that give the
\* manifest in memory back: MaybeCheckpoint truncates the log only after Persist.
THEOREM CompletedCheckpointHeals == Spec => CheckpointHeals
PROOF
<1>1. Init => SnapshotFresh
  BY Zenon DEF Init, SnapshotFresh
<1>2. TypeOK /\ SnapshotFresh /\ [Next]_vars =>
        [phase = "truncate" /\ log' = <<>> => Replay(snapshot', log') = state']_vars
  <2> SUFFICES ASSUME TypeOK, SnapshotFresh, [Next]_vars, phase = "truncate", log' = <<>>,
                      ~ UNCHANGED vars
               PROVE  Replay(snapshot', log') = state'
    BY Zenon
  <2>1. mode = "up" /\ snapshot = state /\ state \in States
    BY Zenon DEF TypeOK, SnapshotFresh
  <2>2. CASE CheckpointTruncate
    BY <2>1, <2>2, ReplayEmpty, Zenon DEF CheckpointTruncate
  <2>3. CASE Crash
    <3>1. log # <<>> /\ log' = log
      BY <2>3, Zenon DEF Crash, SnapshotFresh
    <3> QED
      BY <3>1, Zenon
  <2>4. ~ Open /\ ~ AppendEdit /\ ~ AppendFails /\ ~ Fallback /\ ~ CheckpointPersist
    BY <2>1, Zenon DEF Open, AppendEdit, AppendFails, Fallback, CheckpointPersist
  <2>5. ~ Operation
    BY OperationIsRecord, Zenon DEF Record
  <2> QED
    BY <2>2, <2>3, <2>4, <2>5, Zenon DEF Next, RecordStep
<1> QED
  BY <1>1, <1>2, InitType, TypeStep, SnapshotFreshStep, PTL DEF Spec, CheckpointHeals

-----------------------------------------------------------------------------
\* The inductive invariant behind MatchesCommitted.  As long as no append has failed
\* since the last checkpoint, and no record was cut off behind one that was cut in its
\* payload, the files, read as the constructor reads them, give the recorded edits or
\* cannot be read; and the log is truncated only once the snapshot holds them.
FilesMatch ==
  /\ MatchesCommitted
  /\ InStep(log)
  /\ ~ diverged => OneCut(log)
  /\ ~ diverged /\ Readable(Base, log) => Replay(Base, log) = committed
  /\ ~ diverged /\ phase = "truncate" => snapshot = committed
  /\ phase = "fallback" => diverged

\* What FilesMatch says of the files alone.
FilesAgree ==
  /\ InStep(log)
  /\ ~ diverged => OneCut(log)
  /\ ~ diverged /\ Readable(Base, log) => Replay(Base, log) = committed

\* The files of a fresh directory match.
LEMMA InitFilesMatch == Init => FilesMatch
PROOF
<1> SUFFICES ASSUME Init PROVE FilesMatch
  BY Zenon
<1>1. Fresh \in States
  BY InitType, Zenon DEF TypeOK, Init
<1>2. Base = Fresh /\ Replay(Fresh, <<>>) = Fresh
  BY <1>1, ReplayEmpty, Zenon DEF Init, Base
<1>3. InStep(<<>>) /\ OneCut(<<>>)
  BY DEF InStep, OneCut
<1> QED
  BY <1>2, <1>3, Zenon DEF Init, FilesMatch, MatchesCommitted

\* FilesMatch is kept by every step: a failed append suspends it, or a record cut off
\* behind one that was cut in its payload, and a checkpoint that completes restores it.
LEMMA FilesMatchStep ==
  ASSUME TypeOK, SnapshotFresh, FilesMatch, [Next]_vars
  PROVE  FilesMatch'
PROOF
<1>1. Base \in States /\ Fresh \in States /\ log \in Seq(LogRecords) /\ committed \in States
      /\ diverged \in BOOLEAN /\ edit \in Edits
  BY BaseType, Zenon DEF TypeOK
<1>2. FilesAgree
  BY Zenon DEF FilesMatch, FilesAgree
<1>3. ASSUME Base' = Base, UNCHANGED <<log, diverged, committed>> PROVE FilesAgree'
  BY <1>2, <1>3, Zenon DEF FilesAgree
<1>4. ASSUME PartWritten, diverged' PROVE FilesAgree'
  <2>1. PICK n \in Nat : 0 < n /\ n < Width(edit) /\ log' = Written(log, edit, n)
    BY <1>4, PartBytes, Zenon
  <2>2. n <= Width(edit)
    BY <2>1, EditWidth
  <2>3. Longer(log, log', edit, n)
    BY <1>1, <1>2, <2>1, <2>2, WrittenLonger, Zenon DEF FilesAgree
  <2> QED
    BY <1>4, <2>3, Zenon DEF FilesAgree, Longer
<1>5. CASE Open
  <2>1. Base' = Base
    BY <1>1, <1>5, AbsentAssumption, Zenon DEF Open, Base
  <2>2. FilesAgree'
    BY <1>3, <1>5, <2>1, Zenon DEF Open
  <2>3. MatchesCommitted'
    BY <1>5, Zenon DEF Open, FilesMatch, MatchesCommitted, TypeOK
  <2> QED
    BY <1>5, <2>2, <2>3, Zenon DEF Open, FilesMatch, FilesAgree, TypeOK
<1>6. CASE Operation
  <2>1. PICK x \in Entries, v \in EntryValues : Record(x, v)
    BY <1>6, OperationIsRecord, Zenon
  <2>2. FilesAgree'
    BY <1>3, <2>1, Zenon DEF Record, Base
  <2>3. MatchesCommitted'
    BY <2>1, Zenon DEF Record, FilesMatch, MatchesCommitted
  <2> QED
    BY <2>1, <2>2, <2>3, Zenon DEF Record, FilesMatch, FilesAgree
<1>7. CASE AppendEdit
  <2>1. Base' = Base /\ diverged' = diverged /\ log' = Written(log, edit, Width(edit))
        /\ committed' = ApplyEdit(committed, edit)
    BY <1>7, Zenon DEF AppendEdit, Base
  <2>2. FilesAgree'
    <3>1. CASE diverged
      <4>1. Width(edit) \in Nat /\ 0 < Width(edit) /\ Width(edit) <= Width(edit)
        BY EditWidth
      <4>2. Longer(log, log', edit, Width(edit))
        BY <1>1, <1>2, <2>1, <4>1, WrittenLonger, Zenon DEF FilesAgree
      <4> QED
        BY <2>1, <3>1, <4>2, Zenon DEF FilesAgree, Longer
    <3>2. CASE ~ diverged
      <4>1. /\ InStep(log') /\ OneCut(log')
            /\ Readable(Base, log') =>
                 Readable(Base, log) /\ Replay(Base, log') = ApplyEdit(Replay(Base, log), edit)
        BY <1>1, <1>2, <2>1, <3>2, AppendMatches, Zenon DEF FilesAgree
      <4> QED
        BY <1>2, <2>1, <3>2, <4>1, Zenon DEF FilesAgree
    <3> QED
      BY <3>1, <3>2, Zenon
  <2>3. MatchesCommitted'
    BY <1>7, Zenon DEF AppendEdit, FilesMatch, MatchesCommitted
  <2> QED
    BY <1>7, <2>2, <2>3, Zenon DEF AppendEdit, FilesMatch, FilesAgree
<1>8. CASE AppendFails
  <2>1. FilesAgree'
    <3>1. CASE log' = log
      BY <1>2, <1>8, <3>1, Zenon DEF AppendFails, FilesAgree
    <3>2. CASE PartWritten
      BY <1>4, <1>8, <3>2, Zenon DEF AppendFails
    <3> QED
      BY <1>8, <3>1, <3>2, Zenon DEF AppendFails
  <2> QED
    BY <1>8, <2>1, Zenon DEF AppendFails, FilesMatch, FilesAgree, MatchesCommitted
<1>9. CASE Fallback
  BY <1>9, Zenon DEF Fallback, FilesMatch, MatchesCommitted
<1>10. CASE CheckpointPersist
  <2>1. ~ diverged => state = committed
    BY <1>10, Zenon DEF CheckpointPersist, FilesMatch, MatchesCommitted, TypeOK
  <2>2. ~ diverged => Base' \in {Base, committed}
    BY <1>1, <1>10, <2>1, AbsentAssumption, Zenon DEF CheckpointPersist, PersistState, Base
  <2>3. ASSUME ~ diverged, Readable(Base', log) PROVE Replay(Base', log) = committed
    <3>1. CASE Base' = Base
      BY <1>2, <2>3, <3>1, Zenon DEF FilesAgree
    <3>2. CASE Base' = committed
      <4>1. Readable(Base, log)
        BY <1>1, <2>3, <3>2, ReplayOver, Zenon
      <4>2. Replay(Base, log) = committed
        BY <1>2, <2>3, <4>1, Zenon DEF FilesAgree
      <4> QED
        BY <1>1, <3>2, <4>2, ReplayIdempotent, Zenon
    <3> QED
      BY <2>2, <2>3, <3>1, <3>2, Zenon
  <2>4. FilesAgree'
    BY <1>2, <1>10, <2>3, Zenon DEF CheckpointPersist, FilesAgree
  <2>5. MatchesCommitted'
    BY <1>10, <2>1, Zenon DEF CheckpointPersist, MatchesCommitted
  <2> QED
    BY <1>10, <2>1, <2>4, <2>5, Zenon DEF CheckpointPersist, PersistState, FilesMatch, FilesAgree
<1>11. CASE CheckpointTruncate
  <2>1. CASE log' = <<>> /\ committed' = state /\ diverged' = FALSE
    <3>1. state \in States /\ Base' = state /\ mode' = "up" /\ phase' = "ready" /\ state' = state
      BY <1>11, AbsentAssumption, Zenon DEF CheckpointTruncate, SnapshotFresh, TypeOK, Base
    <3>2. Replay(Base', log') = committed'
      BY <2>1, <3>1, ReplayEmpty, Zenon
    <3>3. InStep(log') /\ OneCut(log')
      BY <2>1 DEF InStep, OneCut
    <3> QED
      BY <2>1, <3>1, <3>2, <3>3, Zenon DEF FilesMatch, MatchesCommitted
  <2>2. CASE UNCHANGED <<log, committed, diverged>>
    <3>1. Base' = Base
      BY <1>11, Zenon DEF CheckpointTruncate, Base
    <3>2. MatchesCommitted'
      BY <1>11, <2>2, Zenon DEF CheckpointTruncate, FilesMatch, MatchesCommitted
    <3>3. FilesAgree'
      BY <1>3, <2>2, <3>1, Zenon
    <3> QED
      BY <1>11, <3>2, <3>3, Zenon DEF CheckpointTruncate, FilesMatch, FilesAgree
  <2> QED
    BY <1>11, <2>1, <2>2, Zenon DEF CheckpointTruncate
<1>12. CASE Crash
  <2>1. Base' = Base /\ committed' = committed /\ mode' = "down" /\ phase' = "ready"
    BY <1>12, Zenon DEF Crash, Base
  <2>2. FilesAgree'
    <3>1. CASE UNCHANGED <<log, diverged>>
      BY <1>3, <2>1, <3>1, Zenon
    <3>2. CASE /\ PartWritten
               /\ diverged' = (diverged \/ \E i \in DOMAIN log : CutInPayload(log[i]))
      <4>1. CASE diverged'
        BY <1>4, <3>2, <4>1, Zenon
      <4>2. CASE ~ diverged'
        <5>1. ~ diverged /\ \A i \in DOMAIN log : ~CutInPayload(log[i])
          BY <3>2, <4>2, Zenon
        <5>2. \A i \in 1 .. Len(log) : ~CutInPayload(log[i])
          BY <1>1, <5>1
        <5>3. PICK n \in Nat : 0 < n /\ n < Width(edit) /\ log' = Written(log, edit, n)
          BY <3>2, PartBytes, Zenon
        <5>4. /\ InStep(log') /\ OneCut(log')
              /\ Readable(Base, log') => Readable(Base, log) /\ Replay(Base, log') = Replay(Base, log)
          BY <1>1, <1>2, <5>2, <5>3, CutMatches, Zenon DEF FilesAgree
        <5> QED
          BY <1>2, <2>1, <5>1, <5>4, Zenon DEF FilesAgree
      <4> QED
        BY <4>1, <4>2, Zenon
    <3> QED
      BY <1>12, <3>1, <3>2, Zenon DEF Crash
  <2> QED
    BY <2>1, <2>2, Zenon DEF FilesMatch, FilesAgree, MatchesCommitted
<1>13. CASE UNCHANGED vars
  <2>1. FilesAgree'
    BY <1>3, <1>13, Zenon DEF vars, Base
  <2> QED
    BY <1>13, <2>1, Zenon DEF vars, FilesMatch, FilesAgree, MatchesCommitted
<1> QED
  BY <1>5, <1>6, <1>7, <1>8, <1>9, <1>10, <1>11, <1>12, <1>13, Zenon DEF Next, RecordStep

\* A process that opens a manifest has exactly the edits that were recorded, for
\* every threshold and any number of crashes, wherever they strike in RecordEdit and
\* MaybeCheckpoint and wherever they cut a record, however often Persist or TruncateLog
\* fails; or else the constructor refuses.  Not after an append has failed, or a record
\* was cut off behind one that was cut in its payload, until a checkpoint completes.
THEOREM RecordedEditsSurvive == Spec => []MatchesCommitted
PROOF
<1>1. TypeOK /\ SnapshotFresh /\ FilesMatch /\ [Next]_vars => FilesMatch'
  BY FilesMatchStep, Zenon
<1>2. FilesMatch => MatchesCommitted
  BY Zenon DEF FilesMatch
<1>3. Init => SnapshotFresh
  BY Zenon DEF Init, SnapshotFresh
<1> QED
  BY <1>1, <1>2, <1>3, InitType, TypeStep, SnapshotFreshStep, InitFilesMatch, PTL DEF Spec

-----------------------------------------------------------------------------
(* The input of a connection.                                                *)

\* b is a vector of n cells.
Cells(b, n) == b = [i \in 1 .. n |-> b[i]]

\* The cells of b from read to write are the last ones before the byte at + 1 of s.
Shows(b, read, write, s, at) == \A i \in (read + 1) .. write : b[i] = s[at - write + i]

\* d is the n bytes of s that follow the byte at.
Follows(d, n, s, at) == Len(d) = n /\ \A i \in 1 .. n : d[i] = s[at + i]

\* What MakeSpace leaves: the bytes of s before at + 1 are readable, and n more have room.
Spacious(space, n, s, at) ==
  \E room \in Nat : /\ space.read \in Nat /\ space.write \in Nat
                    /\ space.read <= space.write /\ space.write + n <= room
                    /\ Cells(space.cells, room)
                    /\ Shows(space.cells, space.read, space.write, s, at)

\* The length of a vector of n cells.
LEMMA CellsLen ==
  ASSUME NEW b, NEW n \in Nat, Cells(b, n)
  PROVE  Len(b) = n
PROOF
<1>1. b \in Seq({b[i] : i \in 1 .. n})
  BY DEF Cells
<1> QED
  BY <1>1 DEF Cells

\* SubSeq, cell by cell.
LEMMA SubSeqCells ==
  ASSUME NEW s, NEW m \in Int, NEW n \in Int, m <= n + 1
  PROVE  /\ Cells(SubSeq(s, m, n), n - m + 1) /\ Len(SubSeq(s, m, n)) = n - m + 1
         /\ \A i \in 1 .. (n - m + 1) : SubSeq(s, m, n)[i] = s[i + m - 1]
PROOF
<1>1. SubSeq(s, m, n) = [i \in 1 .. (n - m + 1) |-> s[i + m - 1]]
  BY SMT DEF SubSeq
<1>2. Cells(SubSeq(s, m, n), n - m + 1)
  BY <1>1, Zenon DEF Cells
<1>3. n - m + 1 \in Nat
  OBVIOUS
<1> QED
  BY <1>1, <1>2, <1>3, CellsLen

\* What Unread shows is a queue when its cells do.
LEMMA UnreadShows ==
  ASSUME NEW b, NEW read \in Nat, NEW write \in Nat, read <= write, NEW s, NEW at \in Nat
  PROVE  SubSeq(b, read + 1, write) = SubSeq(s, at - (write - read) + 1, at)
           <=> Shows(b, read, write, s, at)
PROOF
<1> DEFINE x == SubSeq(b, read + 1, write)
           y == SubSeq(s, at - (write - read) + 1, at)
           n == write - read
<1>1. x = [i \in 1 .. n |-> b[read + i]]
  BY SMT DEF SubSeq
<1>2. y = [i \in 1 .. n |-> s[at - n + i]]
  BY SMT DEF SubSeq
<1> HIDE DEF x, y
<1>3. ASSUME x = y PROVE Shows(b, read, write, s, at)
  <2> SUFFICES ASSUME NEW i \in (read + 1) .. write PROVE b[i] = s[at - write + i]
    BY DEF Shows
  <2>1. i - read \in 1 .. n /\ read + (i - read) = i /\ at - n + (i - read) = at - write + i
    OBVIOUS
  <2>2. x[i - read] = b[read + (i - read)] /\ y[i - read] = s[at - n + (i - read)]
    BY <1>1, <1>2, <2>1, Zenon
  <2> QED
    BY <1>3, <2>1, <2>2, Zenon
<1>4. ASSUME Shows(b, read, write, s, at) PROVE x = y
  <2>1. ASSUME NEW i \in 1 .. n PROVE b[read + i] = s[at - n + i]
    <3>1. read + i \in (read + 1) .. write /\ at - write + (read + i) = at - n + i
      OBVIOUS
    <3> QED
      BY <1>4, <3>1, Zenon DEF Shows
  <2> QED
    BY <1>1, <1>2, <2>1, Zenon
<1> QED
  BY <1>3, <1>4, Zenon DEF x, y

\* Bytes written behind the readable ones continue the queue (readv, Append).
LEMMA OverwriteShows ==
  ASSUME NEW size \in Nat, NEW b, Cells(b, size), NEW read \in Nat, NEW write \in Nat,
         NEW s, NEW at \in Nat, Shows(b, read, write, s, at),
         NEW n \in Nat, write + n <= size, NEW d, Follows(d, n, s, at)
  PROVE  /\ Cells(Overwrite(b, write, d), size)
         /\ Shows(Overwrite(b, write, d), read, write + n, s, at + n)
PROOF
<1> DEFINE c == Overwrite(b, write, d)
<1>1. DOMAIN b = 1 .. size /\ Len(d) = n /\ \A i \in 1 .. n : d[i] = s[at + i]
  BY Zenon DEF Cells, Follows
<1>2. c = [i \in 1 .. size |-> IF i \in (write + 1) .. (write + n) THEN d[i - write] ELSE b[i]]
  BY <1>1, Zenon DEF Overwrite
<1>3. Cells(c, size)
  BY <1>2, Zenon DEF Cells
<1> HIDE DEF c
<1>4. ASSUME NEW i \in (read + 1) .. (write + n) PROVE c[i] = s[(at + n) - (write + n) + i]
  <2>1. (at + n) - (write + n) + i = at - write + i /\ i \in 1 .. size
    OBVIOUS
  <2>2. CASE i \in (write + 1) .. (write + n)
    <3>1. i - write \in 1 .. n /\ at + (i - write) = at - write + i
      BY <2>2
    <3>2. c[i] = d[i - write]
      BY <1>2, <2>1, <2>2, Zenon
    <3> QED
      BY <1>1, <2>1, <3>1, <3>2, Zenon
  <2>3. CASE i \notin (write + 1) .. (write + n)
    <3>1. i \in (read + 1) .. write
      BY <2>3
    <3>2. c[i] = b[i]
      BY <1>2, <2>1, <2>3, Zenon
    <3> QED
      BY <2>1, <3>1, <3>2, Zenon DEF Shows
  <2> QED
    BY <2>2, <2>3, Zenon
<1> QED
  BY <1>3, <1>4, Zenon DEF Shows, c

\* MakeSpace keeps what is readable, and makes room for n more bytes.
LEMMA MakeSpaceShows ==
  ASSUME NEW size \in Nat, NEW b, Cells(b, size), NEW read \in Nat, read <= size,
         NEW s, NEW at \in Nat, Shows(b, read, size, s, at), NEW n \in Nat
  PROVE  Spacious(MadeSpace(b, read, size, n), n, s, at)
PROOF
<1> DEFINE space == MadeSpace(b, read, size, n)
<1>0. Len(b) = size
  BY CellsLen
<1>1. CASE size - size + read < n
  <2> DEFINE c == [i \in 1 .. (size + n) |-> IF i <= size THEN b[i] ELSE Junk]
  <2>1. space = [cells |-> c, read |-> read, write |-> size]
    BY <1>0, <1>1, Zenon DEF MadeSpace
  <2>2. Cells(c, size + n)
    BY Zenon DEF Cells
  <2>3. \A i \in (read + 1) .. size : c[i] = b[i]
    OBVIOUS
  <2>4. Shows(c, read, size, s, at)
    BY <2>3, Zenon DEF Shows
  <2> HIDE DEF c
  <2>5. size + n \in Nat /\ size + n <= size + n
    OBVIOUS
  <2> QED
    BY <2>1, <2>2, <2>4, <2>5 DEF Spacious
<1>2. CASE ~(size - size + read < n)
  <2> DEFINE d == SubSeq(b, read + 1, size)
             c == Overwrite(b, 0, d)
             m == size - read
  <2>1. space = [cells |-> c, read |-> 0, write |-> m]
    BY <1>0, <1>2, Zenon DEF MadeSpace
  <2>2. m \in Nat /\ m + n <= size /\ 0 + m = m
    BY <1>2
  <2>3. Len(d) = m /\ \A i \in 1 .. m : d[i] = b[read + i]
    BY SubSeqCells
  <2>4. DOMAIN b = 1 .. size
    BY Zenon DEF Cells
  <2> HIDE DEF d
  <2>5. c = [i \in 1 .. size |-> IF i \in (0 + 1) .. (0 + m) THEN d[i - 0] ELSE b[i]]
    BY <2>3, <2>4, Zenon DEF Overwrite
  <2>6. Cells(c, size)
    BY <2>5, Zenon DEF Cells
  <2> HIDE DEF c
  <2>7. ASSUME NEW i \in (0 + 1) .. m PROVE c[i] = s[at - m + i]
    <3>1. /\ i \in 1 .. size /\ i \in (0 + 1) .. (0 + m) /\ i - 0 = i /\ i \in 1 .. m
          /\ read + i \in (read + 1) .. size /\ at - size + (read + i) = at - m + i
      OBVIOUS
    <3>2. c[i] = b[read + i]
      BY <2>3, <2>5, <3>1, Zenon
    <3> QED
      BY <3>1, <3>2, Zenon DEF Shows
  <2>8. Shows(c, 0, m, s, at)
    BY <2>7, Zenon DEF Shows
  <2> HIDE DEF m
  <2> QED
    BY <2>1, <2>2, <2>6, <2>8 DEF Spacious
<1> QED
  BY <1>1, <1>2, Zenon

\* What BufferIsQueue rests on: the indices are numbers, buffer_ is a vector, and a length
\* that was read is not negative.
InputInv ==
  /\ BufferIsQueue
  /\ arrived \in Nat /\ read_index_ \in Nat /\ write_index_ \in Nat /\ bulk_len_ \in Nat
  /\ Len(buffer_) \in Nat /\ Cells(buffer_, Len(buffer_))

\* What the invariant says of buffer_.
Queue(b, read, write, s, at) ==
  /\ Len(b) \in Nat /\ Cells(b, Len(b)) /\ read <= write /\ write <= Len(b)
  /\ SubSeq(b, read + 1, write) = SubSeq(s, at - (write - read) + 1, at)

\* The queue, cell by cell.
LEMMA QueueShows ==
  ASSUME NEW size \in Nat, NEW b, Cells(b, size), NEW read \in Nat, NEW write \in Nat,
         read <= write, write <= size, NEW s, NEW at \in Nat, Shows(b, read, write, s, at)
  PROVE  Queue(b, read, write, s, at)
PROOF
<1>1. Len(b) = size
  BY CellsLen
<1>2. SubSeq(b, read + 1, write) = SubSeq(s, at - (write - read) + 1, at)
  BY UnreadShows
<1> QED
  BY <1>1, <1>2, Zenon DEF Queue

\* The smaller of two numbers.
LEMMA MinOfTwo ==
  ASSUME NEW m \in Nat, NEW n \in Nat
  PROVE  Min({m, n}) = IF m <= n THEN m ELSE n
PROOF
<1> DEFINE x == IF m <= n THEN m ELSE n
<1>1. /\ x \in {m, n} /\ \A y \in {m, n} : x <= y
      /\ \A z \in {m, n} : (\A y \in {m, n} : z <= y) => z = x
  OBVIOUS
<1> HIDE DEF x
<1>2. Min({m, n}) = x
  BY <1>1 DEF Min
<1> QED
  BY <1>2, Zenon DEF x

\* One read: what fits is written behind the readable bytes, the rest after MakeSpace
\* (ReadFromFd, Append).
LEMMA ReadStep ==
  ASSUME InputInv, ReadFromFd
  PROVE  InputInv'
PROOF
<1> DEFINE size == Len(buffer_)
           free == size - write_index_
<1>0. /\ arrived \in Nat /\ read_index_ \in Nat /\ write_index_ \in Nat /\ size \in Nat
      /\ read_index_ <= write_index_ /\ write_index_ <= size /\ Cells(buffer_, size)
      /\ Unread = SubSeq(Bytes, arrived - ReadableBytes + 1, arrived)
      /\ UNCHANGED <<messages, bulk_len_>> /\ bulk_len_ \in Nat /\ free \in Nat
  BY DEF InputInv, BufferIsQueue, ReadFromFd, parserVars
<1>1. Shows(buffer_, read_index_, write_index_, Bytes, arrived)
  BY <1>0, UnreadShows DEF Unread, ReadableBytes
<1>2. PICK n \in 1 .. (WritableBytes + ExtraSize) :
    LET data == SubSeq(Bytes, arrived + 1, arrived + n)
        here == Min({n, WritableBytes})
        filled == Overwrite(buffer_, write_index_, SubSeq(data, 1, here))
        extra == SubSeq(data, here + 1, n)
        space == MadeSpace(filled, read_index_, Len(filled), Len(extra))
    IN /\ arrived' = arrived + n
       /\ IF extra = <<>>
          THEN buffer_' = filled /\ write_index_' = write_index_ + n /\ UNCHANGED read_index_
          ELSE /\ buffer_' = Overwrite(space.cells, space.write, extra)
               /\ read_index_' = space.read /\ write_index_' = space.write + Len(extra)
  BY Zenon DEF ReadFromFd
<1> DEFINE data == SubSeq(Bytes, arrived + 1, arrived + n)
           here == Min({n, free})
           first == SubSeq(data, 1, here)
           filled == Overwrite(buffer_, write_index_, first)
           extra == SubSeq(data, here + 1, n)
           space == MadeSpace(filled, read_index_, Len(filled), Len(extra))
<1>3. /\ arrived' = arrived + n /\ n \in Nat
      /\ IF extra = <<>>
         THEN buffer_' = filled /\ write_index_' = write_index_ + n /\ UNCHANGED read_index_
         ELSE /\ buffer_' = Overwrite(space.cells, space.write, extra)
              /\ read_index_' = space.read /\ write_index_' = space.write + Len(extra)
  <2>1. n \in Nat
    BY <1>2
  <2> QED
    BY <1>2, <2>1, Zenon DEF WritableBytes
<1>4. /\ here \in Nat /\ here <= n /\ here <= free /\ (here = n \/ here = free)
  BY <1>0, <1>3, MinOfTwo
<1> HIDE DEF here
<1>5. \A i \in 1 .. n : data[i] = Bytes[arrived + i]
  BY <1>0, <1>3, SubSeqCells
<1> HIDE DEF data
<1>6. Follows(first, here, Bytes, arrived)
  <2>1. Len(first) = here /\ \A i \in 1 .. here : first[i] = data[i]
    BY <1>4, SubSeqCells
  <2> QED
    BY <1>3, <1>4, <1>5, <2>1 DEF Follows
<1>7. Len(extra) = n - here /\ Follows(extra, n - here, Bytes, arrived + here)
  <2>1. Len(extra) = n - here /\ \A i \in 1 .. (n - here) : extra[i] = data[here + i]
    BY <1>3, <1>4, SubSeqCells
  <2>2. \A i \in 1 .. (n - here) : here + i \in 1 .. n /\ arrived + (here + i) = arrived + here + i
    BY <1>0, <1>3, <1>4
  <2>3. ASSUME NEW i \in 1 .. (n - here) PROVE extra[i] = Bytes[arrived + here + i]
    BY <1>5, <2>1, <2>2, Zenon
  <2> QED
    BY <2>1, <2>3, Zenon DEF Follows
<1> HIDE DEF first, extra, size, free
<1>8. /\ Cells(filled, size)
      /\ Shows(filled, read_index_, write_index_ + here, Bytes, arrived + here)
  <2>1. write_index_ + here <= size
    BY <1>0, <1>4 DEF free
  <2> QED
    BY <1>0, <1>1, <1>4, <1>6, <2>1, OverwriteShows, Zenon
<1>9. Len(filled) = size
  BY <1>0, <1>8, CellsLen
<1> HIDE DEF filled
<1>10. CASE extra = <<>>
  <2>1. here = n
    BY <1>3, <1>4, <1>7, <1>10
  <2>2. buffer_' = filled /\ write_index_' = write_index_ + n /\ read_index_' = read_index_
    BY <1>3, <1>10, Zenon
  <2>3. /\ arrived' \in Nat /\ read_index_' \in Nat /\ write_index_' \in Nat
        /\ read_index_' <= write_index_' /\ write_index_' <= size
    BY <1>0, <1>3, <1>4, <2>1, <2>2 DEF free
  <2>4. Shows(buffer_', read_index_', write_index_', Bytes', arrived')
    BY <1>0, <1>3, <1>8, <2>1, <2>2, Zenon DEF Bytes
  <2>5. Cells(buffer_', size)
    BY <1>8, <2>2, Zenon
  <2>6. Queue(buffer_', read_index_', write_index_', Bytes', arrived')
    BY <1>0, <2>3, <2>4, <2>5, QueueShows, Zenon
  <2> QED
    BY <1>0, <2>3, <2>6, Zenon DEF InputInv, Queue, BufferIsQueue, Unread, ReadableBytes
<1>11. CASE extra # <<>>
  <2>1. here < n /\ here = free /\ write_index_ + here = size
    <3>1. ASSUME here = n PROVE extra = <<>>
      BY <1>3, <3>1, SMT DEF extra
    <3> QED
      BY <1>0, <1>3, <1>4, <1>11, <3>1 DEF free
  <2>2. Spacious(space, n - here, Bytes, arrived + here)
    <3>1. /\ n - here \in Nat /\ arrived + here \in Nat /\ read_index_ <= size
          /\ Shows(filled, read_index_, size, Bytes, arrived + here)
      BY <1>0, <1>3, <1>4, <1>8, <2>1
    <3>2. space = MadeSpace(filled, read_index_, size, n - here)
      BY <1>7, <1>9, Zenon
    <3> HIDE DEF space
    <3> QED
      BY <1>0, <1>8, <3>1, <3>2, MakeSpaceShows, Zenon
  <2>2a. PICK room \in Nat :
          /\ space.read \in Nat /\ space.write \in Nat /\ space.read <= space.write
          /\ space.write + (n - here) <= room /\ Cells(space.cells, room)
          /\ Shows(space.cells, space.read, space.write, Bytes, arrived + here)
    BY <2>2, Zenon DEF Spacious
  <2> HIDE DEF space
  <2>3. /\ buffer_' = Overwrite(space.cells, space.write, extra) /\ read_index_' = space.read
        /\ write_index_' = space.write + (n - here)
    BY <1>3, <1>7, <1>11, Zenon
  <2>4. /\ n - here \in Nat /\ arrived + here \in Nat /\ arrived + here + (n - here) = arrived'
        /\ arrived' \in Nat
    BY <1>0, <1>3, <1>4
  <2>5. /\ Cells(buffer_', room)
        /\ Shows(buffer_', read_index_', write_index_', Bytes, arrived + here + (n - here))
    BY <1>7, <2>2a, <2>3, <2>4, OverwriteShows, Zenon
  <2>6. /\ read_index_' \in Nat /\ write_index_' \in Nat
        /\ read_index_' <= write_index_' /\ write_index_' <= room
    BY <2>2a, <2>3, <2>4
  <2>7. Bytes' = Bytes
    BY <1>0, Zenon DEF Bytes
  <2>8. Queue(buffer_', read_index_', write_index_', Bytes', arrived')
    BY <2>2a, <2>4, <2>5, <2>6, <2>7, QueueShows, Zenon
  <2> QED
    BY <1>0, <2>4, <2>6, <2>8, Zenon DEF InputInv, Queue, BufferIsQueue, Unread, ReadableBytes
<1> QED
  BY <1>10, <1>11, Zenon

\* Taking bytes from the front of the queue leaves the others (Retrieve).
LEMMA RetrieveStep ==
  ASSUME InputInv, NEW len \in Nat, Retrieve(len), UNCHANGED <<messages, arrived>>, bulk_len_' \in Nat
  PROVE  InputInv'
PROOF
<1> DEFINE size == Len(buffer_)
<1>0. /\ arrived \in Nat /\ read_index_ \in Nat /\ write_index_ \in Nat /\ size \in Nat
      /\ read_index_ <= write_index_ /\ write_index_ <= size /\ Cells(buffer_, size)
      /\ Unread = SubSeq(Bytes, arrived - ReadableBytes + 1, arrived)
      /\ Bytes' = Bytes /\ UNCHANGED buffer_
  BY Zenon DEF InputInv, BufferIsQueue, Retrieve, Bytes
<1>1. Shows(buffer_, read_index_, write_index_, Bytes, arrived)
  BY <1>0, UnreadShows DEF Unread, ReadableBytes
<1> HIDE DEF size
<1>2. /\ read_index_' \in Nat /\ write_index_' \in Nat
      /\ read_index_' <= write_index_' /\ write_index_' <= size
      /\ Shows(buffer_, read_index_', write_index_', Bytes, arrived)
  <2>1. CASE len < ReadableBytes
    <3>1. read_index_' = read_index_ + len /\ write_index_' = write_index_
      BY <2>1, Zenon DEF Retrieve
    <3>2. /\ read_index_ + len \in Nat /\ read_index_ + len <= write_index_
          /\ \A i \in (read_index_ + len + 1) .. write_index_ : i \in (read_index_ + 1) .. write_index_
      BY <1>0, <2>1 DEF ReadableBytes
    <3> QED
      BY <1>0, <1>1, <3>1, <3>2, Zenon DEF Shows
  <2>2. CASE ~(len < ReadableBytes)
    <3>1. read_index_' = 0 /\ write_index_' = 0
      BY <2>2, Zenon DEF Retrieve
    <3>2. 0 \in Nat /\ 0 <= 0 /\ 0 <= size /\ \A i \in (0 + 1) .. 0 : FALSE
      BY <1>0
    <3> QED
      BY <3>1, <3>2, Zenon DEF Shows
  <2> QED
    BY <2>1, <2>2, Zenon
<1>3. Queue(buffer_, read_index_', write_index_', Bytes, arrived)
  BY <1>0, <1>2, QueueShows, Zenon
<1> QED
  BY <1>0, <1>2, <1>3, Zenon DEF InputInv, Queue, BufferIsQueue, Unread, ReadableBytes

\* The place of a line's end is a number (FindCRLF).
LEMMA CRLFNumber ==
  ASSUME InputInv, Line
  PROVE  FindCRLF \in Nat
PROOF
<1> DEFINE at == {i \in 1 .. (ReadableBytes - 1) : Unread[i] = CR /\ Unread[i + 1] = LF}
<1>1. FindCRLF = IF at = {} THEN -1 ELSE Min(at) - 1
  BY Zenon DEF FindCRLF
<1>2. ReadableBytes \in Int
  BY DEF InputInv, ReadableBytes
<1>3. at \in SUBSET Nat /\ \A i \in at : i \in Nat /\ i >= 1
  BY <1>2
<1> HIDE DEF at
<1>4. CASE at = {}
  BY <1>1, <1>4 DEF Line
<1>5. CASE at # {}
  <2>1. PICK m \in at : \A n \in 0 .. (m - 1) : n \notin at
    BY <1>3, <1>5, LeastNumber, Zenon
  <2>2. \A n \in at : m <= n
    BY <1>3, <2>1
  <2>3. Min(at) \in at
    BY <2>1, <2>2, Zenon DEF Min
  <2>4. Min(at) \in Nat /\ Min(at) >= 1
    BY <1>3, <2>3, Zenon
  <2>5. FindCRLF = Min(at) - 1
    BY <1>1, <1>5, Zenon
  <2>6. \A i \in Nat : i >= 1 => i - 1 \in Nat
    OBVIOUS
  <2> QED
    BY <2>4, <2>5, <2>6, Zenon
<1> QED
  BY <1>4, <1>5, Zenon

\* Parse takes whole lines and whole arguments from the front, or nothing (RESPParser).
LEMMA ParseStep ==
  ASSUME InputInv, ParseArraySize \/ ParseBulkSize \/ ParseBulkData
  PROVE  InputInv'
PROOF
<1>0. UNCHANGED <<messages, arrived>> /\ bulk_len_ \in Nat /\ 0 \in Nat /\ 2 \in Nat
  BY Zenon DEF ParseArraySize, ParseBulkSize, ParseBulkData, InputInv
<1>1. ASSUME UNCHANGED <<bufferVars, parserVars>> PROVE InputInv'
  BY <1>0, <1>1, Zenon
     DEF bufferVars, parserVars, InputInv, BufferIsQueue, Unread, ReadableBytes, Bytes
<1>2. ASSUME NEW len \in Nat, Retrieve(len), bulk_len_' \in Nat PROVE InputInv'
  BY <1>0, <1>2, RetrieveStep, Zenon
<1>3. Incomplete \/ Error => UNCHANGED <<bufferVars, parserVars>>
  BY Zenon DEF Incomplete, Error
<1>4. \A bytes : Argument(bytes) => bulk_len_' \in Nat
  BY <1>0, Zenon DEF Argument, Success
<1>5. Line => FindCRLF + 2 \in Nat
  BY CRLFNumber
<1>6. CASE ParseArraySize
  <2>1. \/ Incomplete \/ Error
        \/ Retrieve(2) /\ UNCHANGED parserVars
        \/ Line /\ Retrieve(FindCRLF + 2) /\ (Success(<<>>) \/ UNCHANGED bulk_len_)
    BY <1>6, Zenon DEF ParseArraySize
  <2>2. Success(<<>>) \/ UNCHANGED parserVars => bulk_len_' \in Nat
    BY <1>0, Zenon DEF Success, parserVars
  <2> QED
    BY <1>0, <1>1, <1>2, <1>3, <1>5, <2>1, <2>2, Zenon
<1>7. CASE ParseBulkSize
  <2>1. \/ Incomplete \/ Error
        \/ Retrieve(2) /\ UNCHANGED parserVars
        \/ /\ Line /\ Retrieve(FindCRLF + 2)
           /\ Argument(<<>>) \/ \E n \in HeaderOf("$") : ~(n < -1) /\ n # -1 /\ bulk_len_' = n
    BY <1>7, Zenon DEF ParseBulkSize
  <2>2. \A n \in HeaderOf("$") : n \in Int
    BY Zenon DEF HeaderOf
  <2>3. \A n \in Int : ~(n < -1) /\ n # -1 => n \in Nat
    OBVIOUS
  <2>4. UNCHANGED parserVars => bulk_len_' \in Nat
    BY <1>0, Zenon DEF parserVars
  <2> QED
    BY <1>0, <1>1, <1>2, <1>3, <1>4, <1>5, <2>1, <2>2, <2>3, <2>4, Zenon
<1>8. CASE ParseBulkData
  <2>1. \/ Incomplete \/ Error
        \/ Retrieve(bulk_len_ + 2) /\ Argument(SubSeq(Unread, 1, bulk_len_))
    BY <1>8, Zenon DEF ParseBulkData
  <2>2. bulk_len_ + 2 \in Nat
    BY <1>0
  <2> QED
    BY <1>1, <1>2, <1>3, <1>4, <2>1, <2>2, Zenon
<1> QED
  BY <1>6, <1>7, <1>8, Zenon

\* What a connection has received and not yet parsed is what buffer_ shows, for every
\* size of its vector and of the extra buffer, whatever is sent and in whatever pieces
\* it arrives (NetworkBuffer under RESPParser).
THEOREM InputIsQueue == InputSpec => []BufferIsQueue
PROOF
<1>1. InputInit => InputInv
  <2> SUFFICES ASSUME InputInit PROVE InputInv
    BY Zenon
  <2>1. /\ Cells(buffer_, InitialSize) /\ arrived = 0 /\ read_index_ = 0 /\ write_index_ = 0
        /\ bulk_len_ = 0
    BY Zenon DEF InputInit, Cells
  <2>2. InitialSize \in Nat /\ 0 \in Nat /\ 0 <= 0 /\ 0 <= InitialSize
    BY InputAssumption
  <2>3. Shows(buffer_, read_index_, write_index_, Bytes, arrived)
    BY <2>1 DEF Shows
  <2>4. Queue(buffer_, read_index_, write_index_, Bytes, arrived)
    BY <2>1, <2>2, <2>3, QueueShows, Zenon
  <2> QED
    BY <2>1, <2>2, <2>4, Zenon DEF InputInv, Queue, BufferIsQueue, Unread, ReadableBytes
<1>2. InputInv /\ [InputNext]_inputVars => InputInv'
  <2>1. InputInv /\ UNCHANGED inputVars => InputInv'
    BY Zenon DEF inputVars, bufferVars, parserVars, InputInv, BufferIsQueue, Unread,
       ReadableBytes, Bytes
  <2> QED
    BY <2>1, ReadStep, ParseStep, Zenon DEF InputNext
<1>3. InputInv => BufferIsQueue
  BY Zenon DEF InputInv
<1> QED
  BY <1>1, <1>2, <1>3, PTL DEF InputSpec
=============================================================================
