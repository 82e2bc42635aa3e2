---------------------------- MODULE TableProofs -----------------------------
(***************************************************************************)
(* The skip list is the map that was put into it, whatever the heights.  The  *)
(* argument: on every level a pointer leads to the next node of that level    *)
(* (Linked), so the descent stops on each level right before the key, which   *)
(* is where insert_element and delete_element change the pointers.            *)
(*                                                                           *)
(* Then what the SSTableBuilder writes and the SSTableReader finds in it, for *)
(* any rows in ascending order: the blocks divide the rows, and the index has *)
(* the last key of each.                                                     *)
(***************************************************************************)
EXTENDS SkipList, SSTable, FiniteSetTheorems, TLAPS

\* The inductive invariant.
ListInv ==
  /\ Linked
  /\ content \in [Keys -> Records \cup {NotFound}]
  /\ node_count = Cardinality(Stored)

\* p is the last node of level i before key.
IsPred(p, i, key) == p \in On(i) /\ p < key /\ next[p][i] >= key

\* at is where an iterator is after so many steps, up to m of them.
After(n) == IF n = Null THEN Null ELSE next[n][0]
IsWalk(at, m) ==
  /\ at \in [0 .. m -> DOMAIN next \cup {Null}] /\ at[0] = HeadNode
  /\ \A i \in 1 .. m : at[i] = After(at[i - 1])

\* The iterator gives n rows: the stored keys, in ascending order.
IsRows(at, n) ==
  /\ n \in 0 .. MaxKey /\ at[n + 1] = Null
  /\ \A i \in 0 .. n : at[i + 1] = next[at[i]][0]
  /\ \A i \in 1 .. n : at[i] \in Stored
  /\ \A i, j \in 1 .. n : i < j => at[i] < at[j]
  /\ \A k \in Stored : \E i \in 1 .. n : at[i] = k

-----------------------------------------------------------------------------
\* A set of numbers that has no least member is empty: induction, in the form used here.
LEMMA LeastNumber ==
  ASSUME NEW T \in SUBSET Nat, T # {}
  PROVE  \E m \in T : \A n \in T : m <= n
PROOF
<1>1. T \subseteq Nat /\ T # {}
  BY Zenon
<1>2. PICK x \in T : \A y \in T : ~(<<y, x>> \in OpToRel(<, Nat))
  BY <1>1, WFMin, NatLessThanWellFounded, Zenon
<1>3. \A y \in T : ~(y < x)
  BY <1>2, Zenon DEF OpToRel
<1> QED
  BY <1>3

\* A set of numbers below a bound has a greatest member.
LEMMA GreatestNumber ==
  ASSUME NEW b \in Nat, NEW T \in SUBSET (0 .. b), T # {}
  PROVE  \E m \in T : \A n \in T : n <= m
PROOF
<1> DEFINE U == {d \in Nat : d <= b /\ b - d \in T}
<1>1. U \in SUBSET Nat
  BY Zenon
<1>2. U # {}
  <2>1. PICK t \in T : TRUE
    BY Zenon
  <2>2. b - t \in Nat /\ b - t <= b /\ b - (b - t) = t
    OBVIOUS
  <2>3. b - t \in U
    BY <2>2, Zenon
  <2> QED
    BY <2>3, Zenon
<1>3. PICK d \in U : \A e \in U : d <= e
  BY <1>1, <1>2, LeastNumber, Zenon
<1>4. b - d \in T /\ d \in Nat /\ d <= b
  BY Zenon
<1>5. ASSUME NEW n \in T PROVE n <= b - d
  <2>1. n \in 0 .. b /\ b - n \in Nat /\ b - n <= b /\ b - (b - n) = n
    OBVIOUS
  <2>2. b - n \in U
    BY <2>1
  <2>3. d <= b - n
    BY <1>3, <2>2
  <2> QED
    BY <1>4, <2>1, <2>3
<1> QED
  BY <1>4, <1>5, Zenon

-----------------------------------------------------------------------------
\* What Linked says of the nodes of a level, as numbers.
LEMMA LevelFacts ==
  ASSUME Linked
  PROVE  /\ \A i \in Levels : HeadNode \in On(i)
         /\ \A i : On(i) \subseteq 0 .. MaxKey /\ On(i) \subseteq DOMAIN next
         /\ DOMAIN next = {HeadNode} \cup Stored /\ Stored \subseteq Keys
         /\ \A i : \A n \in On(i) : /\ i \in Levels /\ next[n][i] \in On(i) \cup {Null}
                                    /\ next[n][i] \in 1 .. Null /\ next[n][i] > n
                                    /\ \A m \in On(i) : m > n => next[n][i] <= m
         /\ \A i \in Levels : \A j \in 0 .. i : On(i) \subseteq On(j)
         /\ \A i \in Levels : i >= current_level => On(i) = {HeadNode}
         /\ On(0) = DOMAIN next
PROOF
<1>1. \A i \in Levels : HeadNode \in On(i)
  BY Zenon DEF Linked, On
<1>2. DOMAIN next = {HeadNode} \cup Stored /\ Stored \subseteq Keys
  BY Zenon DEF Linked, Stored
<1>3. \A i : On(i) \subseteq 0 .. MaxKey /\ On(i) \subseteq DOMAIN next
  <2>1. DOMAIN next \subseteq 0 .. MaxKey
    BY <1>2, SkipListAssumption DEF Keys, HeadNode
  <2> QED
    BY <2>1, Zenon DEF On
<1>4. ASSUME NEW i, NEW n \in On(i) PROVE i \in Levels
  <2>1. n \in DOMAIN next /\ i \in DOMAIN next[n]
    BY Zenon DEF On
  <2>2. CASE n = HeadNode
    BY <2>1, <2>2, Zenon DEF Linked
  <2>3. CASE n \in Stored
    <3>1. PICK h \in 1 .. current_level : DOMAIN next[n] = 0 .. (h - 1)
      BY <2>3, Zenon DEF Linked
    <3>2. current_level \in 0 .. MaxLevel
      BY Zenon DEF Linked
    <3> QED
      BY <2>1, <3>1, <3>2, SkipListAssumption DEF Levels
  <2> QED
    BY <1>2, <2>1, <2>2, <2>3, Zenon
<1>5. ASSUME NEW i, NEW n \in On(i)
      PROVE  /\ next[n][i] \in On(i) \cup {Null} /\ next[n][i] > n
             /\ \A m \in On(i) : m > n => next[n][i] <= m
  BY Zenon DEF Linked, On
<1>6. ASSUME NEW i, NEW n \in On(i) PROVE next[n][i] \in 1 .. Null
  BY <1>3, <1>5, SkipListAssumption DEF Null
<1>7. ASSUME NEW i \in Levels, NEW j \in 0 .. i, NEW n \in On(i) PROVE n \in On(j)
  <2>1. n \in DOMAIN next /\ i \in DOMAIN next[n]
    BY Zenon DEF On
  <2>2. j \in Levels
    BY SkipListAssumption DEF Levels
  <2>3. CASE n = HeadNode
    BY <1>1, <2>2, <2>3, Zenon
  <2>4. CASE n \in Stored
    <3>1. PICK h \in 1 .. current_level : DOMAIN next[n] = 0 .. (h - 1)
      BY <2>4, Zenon DEF Linked
    <3>2. current_level \in Nat
      BY SkipListAssumption DEF Linked
    <3>3. j \in DOMAIN next[n]
      BY <2>1, <3>1, <3>2, SkipListAssumption DEF Levels
    <3> QED
      BY <2>1, <3>3, Zenon DEF On
  <2> QED
    BY <1>2, <2>1, <2>3, <2>4, Zenon
<1>8. ASSUME NEW i \in Levels, i >= current_level PROVE On(i) = {HeadNode}
  <2>1. ASSUME NEW n \in Stored PROVE n \notin On(i)
    <3>1. PICK h \in 1 .. current_level : DOMAIN next[n] = 0 .. (h - 1)
      BY Zenon DEF Linked
    <3>2. current_level \in Nat
      BY SkipListAssumption DEF Linked
    <3>3. i \notin DOMAIN next[n]
      BY <1>8, <3>1, <3>2, SkipListAssumption DEF Levels
    <3> QED
      BY <3>3, Zenon DEF On
  <2> QED
    BY <1>1, <1>2, <1>3, <2>1, Zenon
<1>9. On(0) = DOMAIN next
  <2>1. 0 \in Levels
    BY SkipListAssumption DEF Levels
  <2>2. ASSUME NEW n \in Stored PROVE n \in On(0)
    <3>1. PICK h \in 1 .. current_level : DOMAIN next[n] = 0 .. (h - 1)
      BY Zenon DEF Linked
    <3>2. current_level \in Nat
      BY SkipListAssumption DEF Linked
    <3>3. 0 \in DOMAIN next[n]
      BY <3>1, <3>2
    <3> QED
      BY <1>2, <3>3, Zenon DEF On
  <2> QED
    BY <1>1, <1>2, <1>3, <2>1, <2>2, Zenon
<1> QED
  BY <1>1, <1>2, <1>3, <1>4, <1>5, <1>6, <1>7, <1>8, <1>9, Zenon

\* The last node before a key is one, and every node before the key is before it or is it.
LEMMA PredFacts ==
  ASSUME Linked, NEW i \in Levels, NEW key \in Keys
  PROVE  /\ \E p : IsPred(p, i, key)
         /\ \A p, m : IsPred(p, i, key) /\ m \in On(i) /\ m < key => m <= p
         /\ \A p, m : IsPred(p, i, key) /\ IsPred(m, i, key) => m = p
PROOF
<1> DEFINE T == {n \in On(i) : n < key}
<1>1. MaxKey \in Nat /\ T \in SUBSET (0 .. MaxKey) /\ HeadNode \in T /\ key \in Nat /\ key < Null
  BY LevelFacts, SkipListAssumption DEF HeadNode, Keys, Null
<1>2. PICK p \in T : \A n \in T : n <= p
  <2> HIDE DEF T
  <2> QED
    BY <1>1, GreatestNumber, Zenon
<1>3. IsPred(p, i, key)
  <2>1. p \in On(i) /\ p < key
    BY Zenon
  <2>2. next[p][i] \in On(i) \cup {Null} /\ next[p][i] \in 1 .. Null /\ next[p][i] > p
    BY <2>1, LevelFacts, Zenon
  <2>3. next[p][i] >= key
    <3>1. SUFFICES ASSUME next[p][i] < key PROVE FALSE
      BY <1>1, <2>2, SkipListAssumption DEF Null
    <3>2. next[p][i] \in T
      BY <1>1, <2>2, <3>1
    <3>3. next[p][i] <= p
      BY <1>2, <3>2, Zenon
    <3> QED
      BY <1>1, <2>1, <2>2, <3>3, SkipListAssumption DEF Null
  <2> QED
    BY <2>1, <2>3, Zenon DEF IsPred
<1>4. ASSUME NEW q, NEW m, IsPred(q, i, key), m \in On(i), m < key PROVE m <= q
  <2>1. q \in On(i) /\ next[q][i] >= key /\ q \in 0 .. MaxKey /\ m \in 0 .. MaxKey
    BY <1>4, LevelFacts, Zenon DEF IsPred
  <2>2. m > q => next[q][i] <= m
    BY <1>4, <2>1, LevelFacts, Zenon
  <2>3. next[q][i] \in 1 .. Null
    BY <2>1, LevelFacts, Zenon
  <2> QED
    BY <1>1, <1>4, <2>1, <2>2, <2>3, SkipListAssumption DEF Null
<1>5. ASSUME NEW q, NEW m, IsPred(q, i, key), IsPred(m, i, key) PROVE m = q
  <2>1. m <= q /\ q <= m
    BY <1>4, <1>5, Zenon DEF IsPred
  <2>2. m \in 0 .. MaxKey /\ q \in 0 .. MaxKey
    BY <1>5, LevelFacts, Zenon DEF IsPred
  <2> QED
    BY <1>1, <2>1, <2>2
<1> QED
  BY <1>3, <1>4, <1>5, Zenon

-----------------------------------------------------------------------------
\* The inner loop stops at the last node of the level before the key.
LEMMA ForwardFinds ==
  ASSUME Linked, NEW i \in Levels, NEW key \in Keys, NEW curr \in On(i), curr < key
  PROVE  IsPred(Forward(curr, i, key), i, key)
PROOF
<1> DEFINE Body(f) == [n \in On(i) |-> IF next[n][i] < key THEN f[next[n][i]] ELSE n]
           last[n \in On(i)] == IF next[n][i] < key THEN last[next[n][i]] ELSE n
<1>1. PICK p : IsPred(p, i, key)
  BY PredFacts, Zenon
<1> DEFINE f == [n \in On(i) |-> IF n < key THEN p ELSE n]
<1>2. key \in Nat /\ key < Null /\ Null \in Nat /\ On(i) \subseteq 0 .. MaxKey
  BY LevelFacts, SkipListAssumption DEF Keys, Null
<1>3. ASSUME NEW n \in On(i)
      PROVE  /\ n \in Nat /\ next[n][i] \in Nat /\ next[n][i] > n
             /\ next[n][i] < key => next[n][i] \in On(i)
  <2>1. next[n][i] \in On(i) \cup {Null} /\ next[n][i] \in 1 .. Null /\ next[n][i] > n
    BY LevelFacts, Zenon
  <2> QED
    BY <1>2, <2>1
<1>4. ASSUME NEW n \in On(i), n < key, ~(next[n][i] < key) PROVE n = p
  <2>1. IsPred(n, i, key)
    BY <1>2, <1>3, <1>4 DEF IsPred
  <2> QED
    BY <1>1, <2>1, PredFacts, Zenon
<1>5. f = Body(f)
  <2>1. ASSUME NEW n \in On(i)
        PROVE  f[n] = IF next[n][i] < key THEN f[next[n][i]] ELSE n
    <3>1. CASE next[n][i] < key
      BY <1>2, <1>3, <3>1
    <3>2. CASE ~(next[n][i] < key)
      BY <1>4, <3>2
    <3> QED
      BY <3>1, <3>2, Zenon
  <2> QED
    BY <2>1
<1>6. last = Body(last)
  <2>1. last = CHOOSE g : g = Body(g)
    BY Zenon DEF last
  <2> QED
    BY <1>5, <2>1, Zenon
<1>7. Forward(curr, i, key) = last[curr]
  BY Zenon DEF Forward
<1> HIDE DEF last
<1> DEFINE Bad == {n \in On(i) : n < key /\ last[n] # p}
<1>8. ASSUME Bad # {} PROVE FALSE
  <2>1. Bad \in SUBSET (0 .. MaxKey) /\ MaxKey \in Nat
    BY <1>2, SkipListAssumption
  <2>2. PICK m \in Bad : \A n \in Bad : n <= m
    <3> HIDE DEF Bad
    <3> QED
      BY <1>8, <2>1, GreatestNumber, Zenon
  <2>3. m \in On(i) /\ m < key /\ last[m] # p
    BY Zenon
  <2>4. CASE next[m][i] < key
    <3>1. next[m][i] \in On(i) /\ ~(next[m][i] <= m)
      BY <1>3, <2>3, <2>4
    <3>2. last[next[m][i]] = p
      BY <2>2, <2>4, <3>1, Zenon
    <3>3. last[m] = last[next[m][i]]
      BY <1>6, <2>3, <2>4, Zenon
    <3> QED
      BY <2>3, <3>2, <3>3, Zenon
  <2>5. CASE ~(next[m][i] < key)
    <3>1. last[m] = m
      BY <1>6, <2>3, <2>5, Zenon
    <3> QED
      BY <1>4, <2>3, <2>5, <3>1, Zenon
  <2> QED
    BY <2>4, <2>5, Zenon
<1>9. last[curr] = p
  BY <1>8, Zenon
<1> QED
  BY <1>1, <1>7, <1>9, Zenon

\* The descent leaves in update the last node before the key, on every level.
LEMMA UpdateFinds ==
  ASSUME Linked, NEW key \in Keys
  PROVE  \A i \in Levels : IsPred(Update(key)[i], i, key)
PROOF
<1> DEFINE I == 0 .. MaxLevel
           Body(f) == [i \in I |-> IF i >= current_level THEN HeadNode ELSE Forward(f[i + 1], i, key)]
           up[i \in I] == IF i >= current_level THEN HeadNode ELSE Forward(up[i + 1], i, key)
           f == [i \in I |-> IF i >= current_level THEN HeadNode ELSE CHOOSE p : IsPred(p, i, key)]
           Fine(p, i) == p = HeadNode \/ (i \in Levels /\ IsPred(p, i, key))
<1>1. /\ MaxLevel \in Nat /\ current_level \in I /\ Levels \subseteq I /\ HeadNode < key
      /\ \A i \in I : /\ i < current_level => i \in Levels /\ i + 1 \in I
                      /\ i + 1 \in Levels => i \in 0 .. (i + 1)
  BY SkipListAssumption DEF Linked, Levels, Keys, HeadNode
\* Where the level above was left is a node of this level.
<1>2. ASSUME NEW i \in I, i < current_level, NEW p, Fine(p, i + 1)
      PROVE  IsPred(Forward(p, i, key), i, key)
  <2>1. i \in Levels
    BY <1>1, <1>2, Zenon
  <2>2. CASE p = HeadNode
    <3>1. p \in On(i) /\ p < key
      BY <1>1, <2>1, <2>2, LevelFacts, Zenon
    <3> QED
      BY <2>1, <3>1, ForwardFinds, Zenon
  <2>3. CASE i + 1 \in Levels /\ IsPred(p, i + 1, key)
    <3>1. p \in On(i) /\ p < key
      BY <1>1, <2>1, <2>3, LevelFacts, Zenon DEF IsPred
    <3> QED
      BY <2>1, <3>1, ForwardFinds, Zenon
  <2> QED
    BY <1>2, <2>2, <2>3, Zenon
<1>3. ASSUME NEW i \in I PROVE i < current_level => IsPred(f[i], i, key)
  <2>1. SUFFICES ASSUME i < current_level PROVE IsPred(f[i], i, key)
    BY Zenon
  <2>2. \E p : IsPred(p, i, key)
    BY <1>1, <2>1, PredFacts, Zenon
  <2>3. f[i] = CHOOSE p : IsPred(p, i, key)
    BY <1>1, <2>1
  <2> HIDE DEF f
  <2> QED
    BY <2>2, <2>3, Zenon
<1>4. ASSUME NEW i \in I PROVE i >= current_level => f[i] = HeadNode
  BY Zenon
<1>5. ASSUME NEW i \in I, i < current_level PROVE Fine(f[i + 1], i + 1)
  <2>1. i + 1 \in I /\ (i + 1 < current_level \/ i + 1 >= current_level)
    BY <1>1, <1>5
  <2> HIDE DEF f
  <2> QED
    BY <1>1, <1>3, <1>4, <2>1, Zenon
<1>6. f = Body(f)
  <2>1. ASSUME NEW i \in I
        PROVE  f[i] = IF i >= current_level THEN HeadNode ELSE Forward(f[i + 1], i, key)
    <3>1. i < current_level \/ i >= current_level
      BY <1>1
    <3>2. CASE i < current_level
      <4>1. IsPred(Forward(f[i + 1], i, key), i, key)
        <5> HIDE DEF f, Fine
        <5> QED
          BY <1>2, <1>5, <3>2, Zenon
      <4>2. f[i] = Forward(f[i + 1], i, key)
        <5> HIDE DEF f
        <5> QED
          BY <1>1, <1>3, <3>2, <4>1, PredFacts, Zenon
      <4>3. ~(i >= current_level)
        BY <1>1, <3>2
      <4> HIDE DEF f
      <4> QED
        BY <4>2, <4>3, Zenon
    <3>3. CASE i >= current_level
      BY <3>3, Zenon
    <3> QED
      BY <3>1, <3>2, <3>3, Zenon
  <2>2. f = [i \in I |-> f[i]]
    OBVIOUS
  <2> HIDE DEF f
  <2> QED
    BY <2>1, <2>2, Zenon
<1>7. up = Body(up)
  <2>1. up = CHOOSE g : g = Body(g)
    BY Zenon DEF up
  <2> HIDE DEF f
  <2> QED
    BY <1>6, <2>1, Zenon
<1>8. Update(key) = up
  BY Zenon DEF Update
<1> HIDE DEF up, f
<1> DEFINE Bad == {i \in I : i < current_level /\ ~IsPred(up[i], i, key)}
<1>9. ASSUME Bad # {} PROVE FALSE
  <2>1. Bad \in SUBSET I
    BY Zenon
  <2>2. PICK m \in Bad : \A n \in Bad : n <= m
    <3> HIDE DEF Bad
    <3> QED
      BY <1>1, <1>9, <2>1, GreatestNumber, Zenon
  <2>3. m \in I /\ m < current_level /\ ~IsPred(up[m], m, key)
    BY Zenon
  <2>4. m + 1 \in I /\ ~(m + 1 <= m) /\ ~(m >= current_level)
        /\ (m + 1 < current_level \/ m + 1 >= current_level)
    BY <1>1, <2>3
  <2>5. Fine(up[m + 1], m + 1)
    <3>1. CASE m + 1 >= current_level
      BY <1>7, <2>4, <3>1, Zenon
    <3>2. CASE m + 1 < current_level
      <4>1. IsPred(up[m + 1], m + 1, key)
        BY <2>2, <2>4, <3>2, Zenon
      <4> QED
        BY <1>1, <2>4, <3>2, <4>1, Zenon
    <3> QED
      BY <2>4, <3>1, <3>2, Zenon
  <2>6. up[m] = Forward(up[m + 1], m, key)
    BY <1>7, <2>3, <2>4, Zenon
  <2> HIDE DEF Fine
  <2> QED
    BY <1>2, <2>3, <2>5, <2>6, Zenon
<1>10. ASSUME NEW i \in Levels PROVE IsPred(up[i], i, key)
  <2>1. i \in I /\ (i < current_level \/ i >= current_level)
    BY <1>1
  <2>2. CASE i < current_level
    BY <1>9, <2>1, <2>2, Zenon
  <2>3. CASE i >= current_level
    <3>1. up[i] = HeadNode
      BY <1>7, <2>1, <2>3, Zenon
    <3>2. On(i) = {HeadNode} /\ next[HeadNode][i] \in On(i) \cup {Null} /\ next[HeadNode][i] > HeadNode
      BY <2>3, LevelFacts, Zenon
    <3>3. next[HeadNode][i] = Null
      BY <3>2 DEF HeadNode
    <3>4. Null >= key
      BY SkipListAssumption DEF Keys, Null
    <3> QED
      BY <1>1, <3>1, <3>2, <3>3, <3>4, Zenon DEF IsPred
  <2> QED
    BY <2>1, <2>2, <2>3, Zenon
<1> QED
  BY <1>8, <1>10, Zenon

\* What the descent tells of a key: the pointer it stops at leads to the key exactly when the
\* key is stored.
LEMMA FoundFacts ==
  ASSUME Linked, NEW key \in Keys
  PROVE  /\ next[Update(key)[0]][0] = key <=> key \in Stored
         /\ \A i \in Levels : key \in On(i) => next[Update(key)[i]][i] = key
         /\ \A i \in Levels : next[Update(key)[i]][i] = key => key \in On(i)
PROOF
<1>1. key \in Nat /\ key # HeadNode /\ key # Null /\ 0 \in Levels
  BY SkipListAssumption DEF Keys, HeadNode, Null, Levels
<1>2. ASSUME NEW i \in Levels, key \in On(i) PROVE next[Update(key)[i]][i] = key
  <2> DEFINE p == Update(key)[i]
  <2>1. IsPred(p, i, key)
    BY UpdateFinds, Zenon
  <2> HIDE DEF p
  <2>2. p \in On(i) /\ p < key /\ next[p][i] >= key
    BY <2>1, Zenon DEF IsPred
  <2>3. p \in 0 .. MaxKey /\ next[p][i] \in 1 .. Null /\ (key > p => next[p][i] <= key)
    BY <1>2, <2>2, LevelFacts, Zenon
  <2>4. next[p][i] = key
    BY <1>1, <2>2, <2>3, SkipListAssumption DEF Null
  <2> QED
    BY <2>4, Zenon DEF p
<1>3. ASSUME NEW i \in Levels, next[Update(key)[i]][i] = key PROVE key \in On(i)
  <2>1. Update(key)[i] \in On(i)
    BY UpdateFinds, Zenon DEF IsPred
  <2>2. next[Update(key)[i]][i] \in On(i) \cup {Null}
    BY <2>1, LevelFacts, Zenon
  <2> QED
    BY <1>1, <1>3, <2>2, Zenon
<1>4. key \in On(0) <=> key \in Stored
  BY <1>1, LevelFacts, Zenon
<1> QED
  BY <1>1, <1>2, <1>3, <1>4, Zenon

\* search_element answers from the map.
LEMMA SearchFinds ==
  ASSUME Linked, NEW key \in Keys
  PROVE  search_element(key) = content[key]
PROOF
<1>1. CASE key \in Stored
  BY <1>1, FoundFacts, Zenon DEF search_element, Linked
<1>2. CASE key \notin Stored
  BY <1>2, FoundFacts, Zenon DEF search_element, Stored
<1> QED
  BY <1>1, <1>2, Zenon

-----------------------------------------------------------------------------
\* The empty list is linked.
LEMMA EmptyLinked == ListInit => ListInv
PROOF
<1> SUFFICES ASSUME ListInit PROVE ListInv
  BY Zenon
<1> USE DEF ListInit
<1>1. Stored = {}
  BY Zenon DEF Stored
<1>2. DOMAIN next = {HeadNode} /\ DOMAIN value = {}
  OBVIOUS
<1>3. next[HeadNode] = [i \in Levels |-> Null]
  BY Zenon
<1>4. ASSUME NEW i \in Levels
      PROVE  /\ next[HeadNode][i] = Null /\ Null > HeadNode
             /\ \A m \in On(i) : ~(m > HeadNode)
  <2>1. next[HeadNode][i] = Null
    BY <1>3, Zenon
  <2>2. On(i) = {HeadNode}
    BY <1>2, <1>3, Zenon DEF On
  <2>3. Null > HeadNode /\ ~(HeadNode > HeadNode)
    BY SkipListAssumption DEF Null, HeadNode
  <2> QED
    BY <2>1, <2>2, <2>3, Zenon
<1>5. current_level \in 0 .. MaxLevel
  BY SkipListAssumption
<1>6. DOMAIN next[HeadNode] = Levels
  BY <1>3, Zenon
<1>7. Linked
  <2>1. ASSUME NEW n \in DOMAIN next, NEW i \in DOMAIN next[n]
        PROVE  /\ next[n][i] \in On(i) \cup {Null} /\ next[n][i] > n
               /\ \A m \in On(i) : m > n => next[n][i] <= m
    BY <1>2, <1>4, <1>6, Zenon
  <2> QED
    BY <1>1, <1>2, <1>5, <1>6, <2>1, Zenon DEF Linked
<1>8. node_count = Cardinality(Stored)
  BY <1>1, FS_EmptySet, Zenon
<1>9. content \in [Keys -> Records \cup {NotFound}]
  BY Zenon
<1> QED
  BY <1>7, <1>8, <1>9, Zenon DEF ListInv

\* insert_element over a record that is there changes the record.
LEMMA OverwriteLinked ==
  ASSUME ListInv, NEW key \in Keys, NEW rec \in Records, insert_element(key, rec), key \in Stored
  PROVE  ListInv'
PROOF
<1>1. next[Update(key)[0]][0] = key
  BY FoundFacts, Zenon DEF ListInv
<1>2. /\ content' = [content EXCEPT ![key] = rec] /\ value' = [value EXCEPT ![key] = rec]
      /\ next' = next /\ current_level' = current_level /\ node_count' = node_count
  BY <1>1, Zenon DEF insert_element
<1>3. content \in [Keys -> Records \cup {NotFound}]
  BY Zenon DEF ListInv
<1>4. content' \in [Keys -> Records \cup {NotFound}]
  BY <1>2, <1>3, Zenon
<1>5. content'[key] = rec /\ \A k \in Keys : k # key => content'[k] = content[k]
  BY <1>2, <1>3, Zenon
<1>6. Stored' = Stored
  BY <1>5, SkipListAssumption, Zenon DEF Stored
<1>7. DOMAIN value' = DOMAIN value /\ key \in DOMAIN value
  BY <1>2, Zenon DEF ListInv, Linked
<1>8. ASSUME NEW k \in Stored PROVE value'[k] = content'[k]
  <2>1. k \in Keys /\ k \in DOMAIN value /\ value[k] = content[k]
    BY Zenon DEF Stored, ListInv, Linked
  <2> QED
    BY <1>2, <1>5, <1>7, <2>1, Zenon
<1>9. \A i : On(i)' = On(i)
  BY <1>2, Zenon DEF On
<1>10. Linked'
  <2>1. Linked
    BY Zenon DEF ListInv
  <2> QED
    BY <1>2, <1>6, <1>7, <1>8, <1>9, <2>1 DEF Linked
<1> QED
  BY <1>2, <1>4, <1>6, <1>10, Zenon DEF ListInv

\* insert_element of a new key links its node in behind the predecessors, on its levels.
LEMMA InsertLinked ==
  ASSUME ListInv, NEW key \in Keys, NEW rec \in Records, insert_element(key, rec), key \notin Stored
  PROVE  ListInv'
PROOF
<1> DEFINE up == Update(key)
<1>1. Linked /\ content \in [Keys -> Records \cup {NotFound}] /\ node_count = Cardinality(Stored)
  BY Zenon DEF ListInv
<1>2. \A i \in Levels : IsPred(up[i], i, key)
  BY <1>1, UpdateFinds, Zenon
<1>3. next[up[0]][0] # key
  BY <1>1, FoundFacts, Zenon
<1>4. PICK level \in 1 .. MaxLevel :
        /\ next' = [n \in DOMAIN next \cup {key} |->
                      IF n = key THEN [i \in 0 .. (level - 1) |-> next[up[i]][i]]
                      ELSE [i \in DOMAIN next[n] |->
                              IF i < level /\ up[i] = n THEN key ELSE next[n][i]]]
        /\ value' = [k \in DOMAIN value \cup {key} |-> IF k = key THEN rec ELSE value[k]]
        /\ current_level' = IF level > current_level THEN level ELSE current_level
        /\ node_count' = node_count + 1
  BY <1>3, Zenon DEF insert_element, Raised
<1>5. content' = [content EXCEPT ![key] = rec]
  BY Zenon DEF insert_element
<1> HIDE DEF up
<1>6. /\ key \in Nat /\ key # HeadNode /\ key # Null /\ key > HeadNode /\ key < Null /\ Null \in Nat
      /\ level \in Nat /\ level > 0 /\ current_level \in Nat /\ current_level <= MaxLevel /\ MaxLevel \in Nat
      /\ \A i \in 0 .. (level - 1) : i \in Levels /\ i < level
      /\ \A i \in Levels : i < level => i \in 0 .. (level - 1)
  BY <1>1, SkipListAssumption DEF Keys, HeadNode, Null, Levels, Linked
<1>7. DOMAIN next = {HeadNode} \cup Stored /\ key \notin DOMAIN next /\ DOMAIN value = Stored
  BY <1>1, <1>6, LevelFacts, Zenon DEF Linked
<1>8. content' \in [Keys -> Records \cup {NotFound}]
  BY <1>1, <1>5, Zenon
<1>9. content'[key] = rec /\ \A k \in Keys : k # key => content'[k] = content[k]
  BY <1>1, <1>5, Zenon
<1>10. Stored' = Stored \cup {key}
  BY <1>9, SkipListAssumption, Zenon DEF Stored
<1>11. DOMAIN next' = DOMAIN next \cup {key} /\ DOMAIN value' = DOMAIN value \cup {key}
  BY <1>4, Zenon
<1>12. ASSUME NEW k \in Stored' PROVE value'[k] = content'[k]
  BY <1>1, <1>4, <1>7, <1>9, <1>10, Zenon DEF Linked, Stored
<1>13. next'[key] = [i \in 0 .. (level - 1) |-> next[up[i]][i]]
  BY <1>4, Zenon
<1>14. ASSUME NEW n \in DOMAIN next
       PROVE  next'[n] = [i \in DOMAIN next[n] |-> IF i < level /\ up[i] = n THEN key ELSE next[n][i]]
  BY <1>4, <1>7, Zenon
<1>15. DOMAIN next'[key] = 0 .. (level - 1) /\ \A n \in DOMAIN next : DOMAIN next'[n] = DOMAIN next[n]
  BY <1>13, <1>14, Zenon
<1>16. current_level' \in 0 .. MaxLevel /\ level \in 1 .. current_level' /\ current_level' >= current_level
  BY <1>4, <1>6
<1>17. ASSUME NEW k \in Stored' PROVE \E h \in 1 .. current_level' : DOMAIN next'[k] = 0 .. (h - 1)
  <2>1. CASE k = key
    BY <1>15, <1>16, <2>1, Zenon
  <2>2. CASE k \in Stored
    <3>1. PICK h \in 1 .. current_level : DOMAIN next[k] = 0 .. (h - 1)
      BY <1>1, <2>2, Zenon DEF Linked
    <3>2. h \in 1 .. current_level'
      BY <1>6, <1>16
    <3> QED
      BY <1>7, <1>15, <2>2, <3>1, <3>2, Zenon
  <2> QED
    BY <1>10, <2>1, <2>2, Zenon
\* The new node is on its levels, the others are where they were.
<1>18. \A i : On(i)' = On(i) \cup {n \in {key} : i \in 0 .. (level - 1)}
  BY <1>7, <1>11, <1>15, Zenon DEF On
<1>19. ASSUME NEW n \in DOMAIN next', NEW i \in DOMAIN next'[n]
       PROVE  /\ next'[n][i] \in On(i)' \cup {Null} /\ next'[n][i] > n
              /\ \A m \in On(i)' : m > n => next'[n][i] <= m
  <2>1. CASE n = key
    <3> DEFINE p == up[i]
    <3>1. i \in 0 .. (level - 1) /\ next'[n][i] = next[p][i]
      BY <1>13, <1>15, <2>1, Zenon
    <3>2. i \in Levels /\ IsPred(p, i, key)
      BY <1>2, <1>6, <3>1, Zenon
    <3> HIDE DEF p
    <3>3. p \in On(i) /\ p < key /\ next[p][i] >= key /\ p \in 0 .. MaxKey
      BY <1>1, <3>2, LevelFacts, Zenon DEF IsPred
    <3>4. /\ next[p][i] \in On(i) \cup {Null} /\ next[p][i] \in 1 .. Null
          /\ \A m \in On(i) : m > p => next[p][i] <= m
      BY <1>1, <3>3, LevelFacts, Zenon
    <3>5. key \notin On(i) /\ On(i) \subseteq 0 .. MaxKey
      BY <1>1, <1>7, LevelFacts, Zenon
    <3>6. next[p][i] > key
      BY <1>6, <3>3, <3>4, <3>5
    <3>7. ASSUME NEW m \in On(i)', m > key PROVE next[p][i] <= m
      <4>1. m \in On(i)
        BY <1>6, <1>18, <3>7
      <4>2. m > p
        BY <1>6, <3>3, <3>5, <3>7, <4>1, SkipListAssumption
      <4> QED
        BY <3>4, <4>1, <4>2, Zenon
    <3> QED
      BY <1>18, <2>1, <3>1, <3>4, <3>6, <3>7, Zenon
  <2>2. CASE n \in DOMAIN next
    <3>1. i \in DOMAIN next[n] /\ n \in On(i)
      BY <1>15, <2>2, Zenon DEF On
    <3>2. /\ i \in Levels /\ next[n][i] \in On(i) \cup {Null} /\ next[n][i] \in 1 .. Null
          /\ next[n][i] > n /\ n \in 0 .. MaxKey /\ On(i) \subseteq 0 .. MaxKey
          /\ \A m \in On(i) : m > n => next[n][i] <= m
      BY <1>1, <3>1, LevelFacts, Zenon
    <3>3. CASE i < level /\ up[i] = n
      <4>1. next'[n][i] = key
        BY <1>14, <2>2, <3>1, <3>3, Zenon
      <4>2. n < key /\ next[n][i] >= key
        BY <1>2, <3>2, <3>3, Zenon DEF IsPred
      <4>3. key \in On(i)'
        BY <1>6, <1>18, <3>2, <3>3, Zenon
      <4>4. ASSUME NEW m \in On(i)', m > n PROVE key <= m
        <5>1. m = key \/ m \in On(i)
          BY <1>18, Zenon
        <5>2. CASE m \in On(i)
          BY <1>6, <3>2, <4>2, <4>4, <5>2, SkipListAssumption
        <5> QED
          BY <1>6, <5>1, <5>2
      <4>5. key > n
        BY <1>6, <3>2, <4>2, SkipListAssumption
      <4> QED
        BY <4>1, <4>3, <4>4, <4>5, Zenon
    <3>4. CASE ~(i < level /\ up[i] = n)
      <4>1. next'[n][i] = next[n][i]
        <5>1. next'[n] = [j \in DOMAIN next[n] |-> IF j < level /\ up[j] = n THEN key ELSE next[n][j]]
          BY <1>14, <2>2, Zenon
        <5>2. next'[n][i] = IF i < level /\ up[i] = n THEN key ELSE next[n][i]
          BY <3>1, <5>1
        <5> QED
          BY <3>4, <5>2, Zenon
      <4>2. ASSUME NEW m \in On(i)', m > n PROVE next[n][i] <= m
        <5>1. CASE m \in On(i)
          BY <3>2, <4>2, <5>1, Zenon
        <5>2. CASE m = key /\ i \in 0 .. (level - 1)
          <6> DEFINE p == up[i]
          <6>1. IsPred(p, i, key) /\ p # n
            BY <1>2, <1>6, <3>2, <3>4, <5>2, Zenon
          <6> HIDE DEF p
          <6>2. n < key
            BY <1>6, <3>2, <4>2, <5>2, SkipListAssumption
          <6>3. p \in On(i) /\ p < key /\ p \in 0 .. MaxKey /\ n <= p
            BY <1>1, <3>1, <3>2, <6>1, <6>2, PredFacts, LevelFacts, Zenon DEF IsPred
          <6>4. p > n
            BY <3>2, <6>1, <6>3, SkipListAssumption
          <6>5. next[n][i] <= p
            BY <3>2, <6>3, <6>4, Zenon
          <6> QED
            BY <1>6, <3>2, <5>2, <6>3, <6>5, SkipListAssumption
        <5> QED
          BY <1>18, <5>1, <5>2, Zenon
      <4> QED
        BY <1>18, <3>2, <4>1, <4>2, Zenon
    <3> QED
      BY <3>3, <3>4, Zenon
  <2> QED
    BY <1>11, <2>1, <2>2, Zenon
<1>20. HeadNode \in DOMAIN next' /\ DOMAIN next'[HeadNode] = Levels
  BY <1>1, <1>11, <1>15, Zenon DEF Linked
<1>21. DOMAIN value' = DOMAIN next' \ {HeadNode} /\ DOMAIN value' = Stored'
  BY <1>1, <1>6, <1>7, <1>10, <1>11, Zenon DEF Linked
<1>22. Linked'
  BY <1>12, <1>16, <1>17, <1>19, <1>20, <1>21, Zenon DEF Linked
<1>23. node_count' = Cardinality(Stored')
  <2>1. IsFiniteSet(Stored)
    <3>1. IsFiniteSet(1 .. MaxKey)
      BY FS_Interval, SkipListAssumption
    <3> QED
      BY <3>1, FS_Subset, Zenon DEF Stored, Keys
  <2>2. Cardinality(Stored \cup {key}) = Cardinality(Stored) + 1
    BY <2>1, FS_AddElement, Zenon
  <2> QED
    BY <1>1, <1>4, <1>10, <2>2, Zenon
<1> QED
  BY <1>8, <1>22, <1>23, Zenon DEF ListInv

\* delete_element takes the node out of every level it is on, and drops the empty levels.
LEMMA DeleteLinked ==
  ASSUME ListInv, NEW key \in Keys, delete_element(key)
  PROVE  ListInv'
PROOF
<1> DEFINE up == Update(key)
           here == {i \in 0 .. (current_level - 1) : \A j \in 0 .. i : next[up[j]][j] = key}
           unlinked == [n \in DOMAIN next \ {key} |->
                          [i \in DOMAIN next[n] |->
                             IF i \in here /\ up[i] = n THEN next[key][i] ELSE next[n][i]]]
           Lowest(l) == /\ l > 0 => unlinked[HeadNode][l - 1] # Null
                        /\ \A m \in l .. (current_level - 1) : unlinked[HeadNode][m] = Null
<1>1. Linked /\ content \in [Keys -> Records \cup {NotFound}] /\ node_count = Cardinality(Stored)
  BY Zenon DEF ListInv
<1>2. /\ next[up[0]][0] = key /\ next' = unlinked
      /\ value' = [k \in DOMAIN value \ {key} |-> value[k]]
      /\ current_level' = CHOOSE l \in 0 .. current_level : Lowest(l)
      /\ node_count' = node_count - 1 /\ content' = [content EXCEPT ![key] = NotFound]
  BY Zenon DEF delete_element
<1>3. \A i \in Levels : IsPred(up[i], i, key)
  BY <1>1, UpdateFinds, Zenon
<1>4. key \in Stored
  BY <1>1, <1>2, FoundFacts, Zenon
<1>5. PICK h \in 1 .. current_level : DOMAIN next[key] = 0 .. (h - 1)
  BY <1>1, <1>4, Zenon DEF Linked
<1>6. /\ key \in Nat /\ key # HeadNode /\ key # Null /\ key > HeadNode /\ key < Null /\ Null \in Nat
      /\ h \in Nat /\ h > 0 /\ current_level \in Nat /\ current_level <= MaxLevel /\ MaxLevel \in Nat
      /\ \A i \in 0 .. (h - 1) : i \in Levels /\ i \in 0 .. (current_level - 1)
      /\ \A i \in 0 .. (current_level - 1) : i \in Levels /\ i \in 0 .. i
      /\ \A i \in 0 .. (h - 1) : \A j \in 0 .. i : j \in 0 .. (h - 1)
  <2>1. current_level \in 0 .. MaxLevel
    BY <1>1, Zenon DEF Linked
  <2> QED
    BY <1>5, <2>1, SkipListAssumption DEF Keys, HeadNode, Null, Levels
<1>7. DOMAIN next = {HeadNode} \cup Stored /\ DOMAIN value = Stored /\ key \in DOMAIN next
  BY <1>1, <1>4, LevelFacts, Zenon DEF Linked
<1>8. here = DOMAIN next[key]
  <2>1. ASSUME NEW i \in here PROVE i \in DOMAIN next[key]
    <3>1. i \in Levels /\ next[up[i]][i] = key
      BY <1>6, Zenon
    <3>2. key \in On(i)
      BY <1>1, <3>1, FoundFacts, Zenon
    <3> QED
      BY <3>2, Zenon DEF On
  <2>2. ASSUME NEW i \in 0 .. (h - 1) PROVE i \in here
    <3>1. ASSUME NEW j \in 0 .. i PROVE next[up[j]][j] = key
      <4>1. j \in 0 .. (h - 1) /\ j \in Levels
        BY <1>6, Zenon
      <4>2. key \in On(j)
        BY <1>5, <1>7, <4>1, Zenon DEF On
      <4> QED
        BY <1>1, <4>1, <4>2, FoundFacts, Zenon
    <3> QED
      BY <1>6, <3>1, Zenon
  <2> HIDE DEF here
  <2> QED
    BY <1>5, <2>1, <2>2, Zenon
<1> HIDE DEF here, up
<1>9. DOMAIN unlinked = DOMAIN next \ {key}
  BY Zenon
<1>10. ASSUME NEW n \in DOMAIN next \ {key}
       PROVE  unlinked[n] = [i \in DOMAIN next[n] |->
                               IF i \in here /\ up[i] = n THEN next[key][i] ELSE next[n][i]]
  BY Zenon
<1> HIDE DEF unlinked
<1>11. \A n \in DOMAIN unlinked : DOMAIN unlinked[n] = DOMAIN next[n]
  BY <1>9, <1>10, Zenon
<1>12. \A i : On(i)' = On(i) \ {key}
  BY <1>2, <1>9, <1>11, Zenon DEF On
<1>13. ASSUME NEW n \in DOMAIN unlinked, NEW i \in DOMAIN unlinked[n]
       PROVE  /\ unlinked[n][i] \in On(i)' \cup {Null} /\ unlinked[n][i] \in 1 .. Null /\ unlinked[n][i] > n
              /\ \A m \in On(i)' : m > n => unlinked[n][i] <= m
  <2>1. n \in DOMAIN next /\ n # key /\ i \in DOMAIN next[n] /\ n \in On(i)
    BY <1>9, <1>11, Zenon DEF On
  <2>2. /\ i \in Levels /\ next[n][i] \in On(i) \cup {Null} /\ next[n][i] \in 1 .. Null
        /\ next[n][i] > n /\ n \in 0 .. MaxKey /\ On(i) \subseteq 0 .. MaxKey
        /\ \A m \in On(i) : m > n => next[n][i] <= m
    BY <1>1, <2>1, LevelFacts, Zenon
  <2>3. CASE i \in here /\ up[i] = n
    <3>1. unlinked[n][i] = next[key][i]
      BY <1>9, <1>10, <2>1, <2>3, Zenon
    <3>2. n < key
      BY <1>3, <2>2, <2>3, Zenon DEF IsPred
    <3>3. key \in On(i)
      BY <1>7, <1>8, <2>3, Zenon DEF On
    <3>4. /\ next[key][i] \in On(i) \cup {Null} /\ next[key][i] \in 1 .. Null /\ next[key][i] > key
          /\ \A m \in On(i) : m > key => next[key][i] <= m
      BY <1>1, <3>3, LevelFacts, Zenon
    <3>5. next[n][i] = key
      <4>1. n \in 0 .. MaxKey /\ next[n][i] >= key /\ next[n][i] <= key
        BY <1>3, <1>6, <2>2, <2>3, <3>2, <3>3, SkipListAssumption DEF IsPred
      <4> QED
        BY <1>6, <2>2, <4>1
    <3>6. ASSUME NEW m \in On(i)', m > n PROVE next[key][i] <= m
      <4>1. m \in On(i) /\ m # key
        BY <1>12, Zenon
      <4>2. key <= m
        BY <2>2, <3>5, <3>6, <4>1, Zenon
      <4>3. m > key
        BY <1>6, <2>2, <4>1, <4>2, SkipListAssumption
      <4> QED
        BY <3>4, <4>1, <4>3, Zenon
    <3>7. next[key][i] > n /\ next[key][i] # key
      BY <1>6, <2>2, <3>2, <3>4, SkipListAssumption
    <3>8. next[key][i] \in On(i)' \cup {Null}
      BY <1>12, <3>4, <3>7, Zenon
    <3> QED
      BY <3>1, <3>4, <3>6, <3>7, <3>8, Zenon
  <2>4. CASE ~(i \in here /\ up[i] = n)
    <3>1. unlinked[n][i] = next[n][i]
      <4>1. unlinked[n][i] = IF i \in here /\ up[i] = n THEN next[key][i] ELSE next[n][i]
        BY <1>9, <1>10, <2>1
      <4> QED
        BY <2>4, <4>1, Zenon
    <3>2. next[n][i] # key
      <4>1. SUFFICES ASSUME next[n][i] = key PROVE FALSE
        BY Zenon
      <4> DEFINE p == up[i]
      <4>2. key \in On(i) /\ IsPred(p, i, key)
        BY <1>3, <1>6, <2>2, <4>1, Zenon
      <4>3. i \in here
        BY <1>8, <4>2, Zenon DEF On
      <4>4. p # n
        BY <2>4, <4>3, Zenon
      <4> HIDE DEF p
      <4>5. IsPred(n, i, key)
        BY <1>6, <2>1, <2>2, <4>1, SkipListAssumption DEF IsPred
      <4> QED
        BY <1>1, <2>2, <4>2, <4>4, <4>5, PredFacts, Zenon
    <3> QED
      BY <1>12, <2>2, <3>1, <3>2, Zenon
  <2> QED
    BY <2>3, <2>4, Zenon
<1>14. HeadNode \in DOMAIN unlinked /\ DOMAIN unlinked[HeadNode] = Levels
  BY <1>1, <1>6, <1>7, <1>9, <1>11, Zenon DEF Linked
<1>15. \E l \in 0 .. current_level : Lowest(l)
  <2> DEFINE T == {l \in 0 .. current_level : l > 0 => unlinked[HeadNode][l - 1] # Null}
  <2>1. T \in SUBSET (0 .. current_level) /\ 0 \in T
    BY <1>6
  <2>2. PICK l \in T : \A m \in T : m <= l
    <3> HIDE DEF T
    <3> QED
      BY <1>6, <2>1, GreatestNumber, Zenon
  <2>3. ASSUME NEW m \in l .. (current_level - 1) PROVE unlinked[HeadNode][m] = Null
    <3>1. m + 1 \in 0 .. current_level /\ m + 1 > l /\ (m + 1) - 1 = m /\ ~(m + 1 <= l)
      BY <1>6, <2>2
    <3>2. m + 1 \notin T
      BY <2>2, <3>1, Zenon
    <3> QED
      BY <3>1, <3>2
  <2> QED
    BY <2>2, <2>3, Zenon
<1>16. current_level' \in 0 .. current_level /\ Lowest(current_level')
  <2> HIDE DEF Lowest
  <2> QED
    BY <1>2, <1>15, Zenon
<1>17. content' \in [Keys -> Records \cup {NotFound}]
  BY <1>1, <1>2, Zenon
<1>18. content'[key] = NotFound /\ \A k \in Keys : k # key => content'[k] = content[k]
  BY <1>1, <1>2, Zenon
<1>19. Stored' = Stored \ {key}
  BY <1>18, Zenon DEF Stored
<1>20. DOMAIN value' = DOMAIN value \ {key}
  BY <1>2, Zenon
<1>21. ASSUME NEW k \in Stored' PROVE value'[k] = content'[k]
  <2>1. k \in Keys /\ k # key /\ k \in DOMAIN value /\ value[k] = content[k]
    BY <1>1, <1>7, <1>19, Zenon DEF Linked, Stored
  <2> QED
    BY <1>2, <1>18, <2>1, Zenon
<1>22. ASSUME NEW k \in Stored' PROVE \E g \in 1 .. current_level' : DOMAIN next'[k] = 0 .. (g - 1)
  <2>1. k \in Stored /\ k # key /\ k \in DOMAIN unlinked /\ k \in Keys
    BY <1>7, <1>9, <1>19, Zenon DEF Stored
  <2>2. PICK g \in 1 .. current_level : DOMAIN next[k] = 0 .. (g - 1)
    BY <1>1, <2>1, Zenon DEF Linked
  <2>3. DOMAIN next'[k] = 0 .. (g - 1)
    BY <1>2, <1>11, <2>1, <2>2, Zenon
  <2>4. SUFFICES ASSUME ~(g \in 1 .. current_level') PROVE FALSE
    BY <2>3, Zenon
  <2>5. /\ g - 1 \in current_level' .. (current_level - 1) /\ g - 1 \in 0 .. (g - 1)
        /\ g - 1 \in Levels
    BY <1>6, <1>16, <2>2, <2>4 DEF Levels
  <2>6. unlinked[HeadNode][g - 1] = Null
    BY <1>16, <2>5, Zenon
  <2>7. k \in On(g - 1)' /\ k > HeadNode /\ ~(Null <= k)
    <3>1. k \in On(g - 1)
      BY <1>7, <2>1, <2>2, <2>5, Zenon DEF On
    <3>2. k > HeadNode /\ ~(Null <= k)
      BY <2>1, SkipListAssumption DEF Keys, HeadNode, Null
    <3> QED
      BY <1>12, <2>1, <3>1, <3>2, Zenon
  <2> QED
    BY <1>13, <1>14, <2>5, <2>6, <2>7, Zenon
<1>23. current_level' \in 0 .. MaxLevel
  BY <1>6, <1>16
<1>24. DOMAIN value' = DOMAIN next' \ {HeadNode} /\ DOMAIN value' = Stored'
  BY <1>1, <1>2, <1>7, <1>9, <1>19, <1>20, Zenon DEF Linked
<1>25. Linked'
  BY <1>2, <1>13, <1>14, <1>21, <1>22, <1>23, <1>24, Zenon DEF Linked
<1>26. node_count' = Cardinality(Stored')
  <2>1. IsFiniteSet(Stored)
    <3>1. IsFiniteSet(1 .. MaxKey)
      BY FS_Interval, SkipListAssumption
    <3> QED
      BY <3>1, FS_Subset, Zenon DEF Stored, Keys
  <2>2. Cardinality(Stored \ {key}) = Cardinality(Stored) - 1
    BY <1>4, <2>1, FS_RemoveElement, Zenon
  <2> QED
    BY <1>1, <1>2, <1>19, <2>2, Zenon
<1> QED
  BY <1>17, <1>25, <1>26, Zenon DEF ListInv

-----------------------------------------------------------------------------
\* From a node the iterator goes to a node with a greater key, or to the end.
LEMMA AfterFacts ==
  ASSUME Linked, NEW n \in DOMAIN next \cup {Null}
  PROVE  /\ After(n) \in DOMAIN next \cup {Null} /\ n \in 0 .. Null /\ After(n) \in 0 .. Null
         /\ n # Null => After(n) > n /\ \A m \in DOMAIN next : m > n => After(n) <= m
PROOF
<1>1. Null \notin DOMAIN next /\ Null \in 0 .. Null /\ DOMAIN next \subseteq 0 .. Null
  <2>1. DOMAIN next \subseteq 0 .. MaxKey
    BY LevelFacts, Zenon
  <2> QED
    BY <2>1, SkipListAssumption DEF Null
<1>2. CASE n = Null
  BY <1>1, <1>2, Zenon DEF After
<1>3. CASE n \in DOMAIN next
  <2>1. After(n) = next[n][0] /\ n \in On(0)
    BY <1>1, <1>3, LevelFacts, Zenon DEF After
  <2>2. next[n][0] \in On(0) \cup {Null} /\ next[n][0] > n /\ \A m \in On(0) : m > n => next[n][0] <= m
    BY <2>1, LevelFacts, Zenon
  <2>3. On(0) = DOMAIN next
    BY LevelFacts, Zenon
  <2> QED
    BY <1>1, <1>3, <2>1, <2>2, <2>3, Zenon
<1> QED
  BY <1>2, <1>3, Zenon

\* An iterator can go on as long as one likes.
LEMMA WalkExists ==
  ASSUME Linked, NEW m \in Nat
  PROVE  \E at : IsWalk(at, m)
PROOF
<1> DEFINE D == DOMAIN next \cup {Null}
           Bad == {n \in Nat : ~ \E at : IsWalk(at, n)}
<1>1. SUFFICES ASSUME Bad # {} PROVE FALSE
  BY Zenon
<1>2. PICK n \in Bad : \A j \in Bad : n <= j
  <2>1. Bad \in SUBSET Nat
    BY Zenon
  <2> HIDE DEF Bad
  <2> QED
    BY <1>1, <2>1, LeastNumber, Zenon
<1>3. n \in Nat /\ ~ \E at : IsWalk(at, n)
  BY Zenon
<1>4. HeadNode \in D
  BY Zenon DEF Linked
<1> HIDE DEF D
<1>5. CASE n = 0
  <2> DEFINE g == [i \in 0 .. 0 |-> HeadNode]
  <2>1. g \in [0 .. 0 -> D] /\ g[0] = HeadNode /\ 1 .. 0 = {}
    BY <1>4
  <2> HIDE DEF g
  <2>2. IsWalk(g, 0)
    BY <2>1, Zenon DEF IsWalk, D
  <2> QED
    BY <1>3, <1>5, <2>2, Zenon
<1>6. CASE n # 0
  <2>1. n - 1 \in Nat /\ ~(n <= n - 1) /\ n - 1 \in 0 .. (n - 1)
    BY <1>3, <1>6
  <2>2. PICK f : IsWalk(f, n - 1)
    BY <1>2, <2>1, Zenon
  <2>3. /\ f \in [0 .. (n - 1) -> D] /\ f[0] = HeadNode
        /\ \A i \in 1 .. (n - 1) : f[i] = After(f[i - 1])
    BY <2>2, Zenon DEF IsWalk, D
  <2>4. After(f[n - 1]) \in D
    <3>1. f[n - 1] \in D
      BY <2>1, <2>3, Zenon
    <3> QED
      BY <3>1, AfterFacts, Zenon DEF D
  <2> DEFINE g == [i \in 0 .. n |-> IF i = n THEN After(f[n - 1]) ELSE f[i]]
  <2>5. g \in [0 .. n -> D] /\ g[0] = HeadNode
    BY <1>3, <1>6, <2>3, <2>4
  <2>6. ASSUME NEW i \in 1 .. n PROVE g[i] = After(g[i - 1])
    <3>1. i \in 0 .. n /\ i - 1 \in 0 .. n /\ i - 1 # n /\ (i # n => i \in 1 .. (n - 1))
      BY <1>3
    <3>2. g[i - 1] = f[i - 1]
      BY <3>1, Zenon
    <3>3. CASE i = n
      BY <3>1, <3>2, <3>3, Zenon
    <3>4. CASE i # n
      BY <2>3, <3>1, <3>2, <3>4, Zenon
    <3> QED
      BY <3>3, <3>4, Zenon
  <2> HIDE DEF g
  <2>7. IsWalk(g, n)
    BY <2>5, <2>6, Zenon DEF IsWalk, D
  <2> QED
    BY <1>3, <2>7, Zenon
<1> QED
  BY <1>5, <1>6, Zenon

\* Iterator is such a walk.
LEMMA IteratorWalks ==
  ASSUME Linked
  PROVE  IsWalk(Iterator, Null)
PROOF
<1> DEFINE I == 0 .. Null
           Body(f) == [i \in I |-> IF i = 0 THEN HeadNode
                                   ELSE IF f[i - 1] = Null THEN Null ELSE next[f[i - 1]][0]]
           at[i \in I] == IF i = 0 THEN HeadNode
                          ELSE IF at[i - 1] = Null THEN Null ELSE next[at[i - 1]][0]
<1>1. Null \in Nat /\ 0 \in I /\ \A i \in I : i = 0 \/ i \in 1 .. Null
  BY SkipListAssumption DEF Null
<1>2. PICK f : IsWalk(f, Null)
  BY <1>1, WalkExists, Zenon
<1>3. f = Body(f)
  <2>1. ASSUME NEW i \in I
        PROVE  f[i] = IF i = 0 THEN HeadNode ELSE IF f[i - 1] = Null THEN Null ELSE next[f[i - 1]][0]
    BY <1>1, <1>2, Zenon DEF IsWalk, After
  <2>2. f = [i \in I |-> f[i]]
    BY <1>2, Zenon DEF IsWalk
  <2> QED
    BY <2>1, <2>2, Zenon
<1>4. at = Body(at)
  <2>1. at = CHOOSE g : g = Body(g)
    BY Zenon DEF at
  <2> QED
    BY <1>3, <2>1, Zenon
<1>5. Iterator = at
  BY Zenon DEF Iterator
<1> HIDE DEF at
<1>6. at[0] = HeadNode
  BY <1>1, <1>4, Zenon
<1>7. ASSUME NEW i \in 1 .. Null PROVE at[i] = After(at[i - 1])
  <2>1. i \in I /\ i # 0
    BY <1>1
  <2> QED
    BY <1>4, <2>1, Zenon DEF After
<1>8. ASSUME NEW i \in I PROVE at[i] \in DOMAIN next \cup {Null}
  <2> DEFINE Bad == {j \in I : at[j] \notin DOMAIN next \cup {Null}}
  <2>1. ASSUME Bad # {} PROVE FALSE
    <3>1. Bad \in SUBSET Nat
      BY <1>1
    <3>2. PICK j \in Bad : \A k \in Bad : j <= k
      <4> HIDE DEF Bad
      <4> QED
        BY <2>1, <3>1, LeastNumber, Zenon
    <3>3. j \in I /\ at[j] \notin DOMAIN next \cup {Null}
      BY Zenon
    <3>4. j # 0
      BY <1>6, <3>3, Zenon DEF Linked
    <3>5. j \in 1 .. Null /\ j - 1 \in I /\ ~(j <= j - 1)
      BY <1>1, <3>3, <3>4
    <3>6. at[j - 1] \in DOMAIN next \cup {Null}
      BY <3>2, <3>5, Zenon
    <3> QED
      BY <1>7, <3>3, <3>5, <3>6, AfterFacts, Zenon
  <2> QED
    BY <2>1, Zenon
<1>9. at = [i \in I |-> at[i]]
  BY <1>4, Zenon
<1>10. at \in [I -> DOMAIN next \cup {Null}]
  BY <1>8, <1>9, Zenon
<1> QED
  BY <1>5, <1>6, <1>7, <1>10, Zenon DEF IsWalk

\* The iterator goes through all the stored keys, in ascending order, and then is at the end.
LEMMA IteratorRows ==
  ASSUME Linked
  PROVE  \E n : IsRows(Iterator, n) /\ Snapshot = [i \in 1 .. n |-> <<Iterator[i], value[Iterator[i]]>>]
PROOF
<1> DEFINE at == Iterator
           I == 0 .. Null
           T == {j \in I : at[j] # Null}
<1>1. /\ MaxKey \in Nat /\ Null \in Nat /\ Null = MaxKey + 1 /\ Null \notin 0 .. MaxKey
      /\ I \subseteq Nat /\ HeadNode = 0 /\ 0 \in I /\ HeadNode # Null
  BY SkipListAssumption DEF Null, HeadNode
<1>2. /\ at \in [I -> DOMAIN next \cup {Null}] /\ at[0] = HeadNode
      /\ \A i \in 1 .. Null : at[i] = After(at[i - 1])
  BY IteratorWalks, Zenon DEF IsWalk
<1>3. DOMAIN next = {HeadNode} \cup Stored /\ Stored \subseteq 1 .. MaxKey
  BY LevelFacts, Zenon DEF Keys
<1> HIDE DEF at
<1>4. ASSUME NEW i \in I PROVE at[i] \in DOMAIN next \cup {Null} /\ at[i] \in 0 .. Null
  <2>1. at[i] \in DOMAIN next \cup {Null}
    BY <1>2, Zenon
  <2> QED
    BY <2>1, AfterFacts, Zenon
\* A step leads to a greater key.
<1>5. ASSUME NEW i \in I, i + 1 \in I
      PROVE  /\ at[i] = Null => at[i + 1] = Null
             /\ at[i] # Null => /\ at[i + 1] > at[i] /\ at[i + 1] = next[at[i]][0]
                                /\ \A m \in DOMAIN next : m > at[i] => at[i + 1] <= m
  <2>1. i + 1 \in 1 .. Null /\ (i + 1) - 1 = i
    BY <1>1, <1>5
  <2>2. at[i + 1] = After(at[i])
    <3>1. at[i + 1] = After(at[(i + 1) - 1])
      BY <1>2, <2>1, Zenon
    <3> QED
      BY <2>1, <3>1, Zenon
  <2> QED
    BY <1>4, <2>2, AfterFacts, Zenon DEF After
\* After i steps the key is at least i.
<1>6. ASSUME NEW i \in I PROVE at[i] >= i
  <2> DEFINE Bad == {j \in I : ~(at[j] >= j)}
  <2>1. ASSUME Bad # {} PROVE FALSE
    <3>1. Bad \in SUBSET Nat
      BY <1>1, Zenon
    <3>2. PICK j \in Bad : \A k \in Bad : j <= k
      <4> HIDE DEF Bad
      <4> QED
        BY <2>1, <3>1, LeastNumber, Zenon
    <3>3. j \in I /\ ~(at[j] >= j)
      BY Zenon
    <3>4. j # 0
      BY <1>1, <1>2, <3>3
    <3>5. j - 1 \in I /\ ~(j <= j - 1) /\ (j - 1) + 1 = j /\ j \in Nat /\ j <= Null
      BY <1>1, <3>3, <3>4
    <3>6. at[j - 1] >= j - 1
      BY <3>2, <3>5, Zenon
    <3>7. at[j] = Null \/ at[j] > at[j - 1]
      BY <1>5, <3>3, <3>5, Zenon
    <3>8. at[j] \in 0 .. Null /\ at[j - 1] \in 0 .. Null
      BY <1>4, <3>3, <3>5, Zenon
    <3> QED
      BY <1>1, <3>3, <3>5, <3>6, <3>7, <3>8
  <2> QED
    BY <2>1, Zenon
\* It is valid up to some step and then no more.
<1>7. PICK n \in T : \A j \in T : j <= n
  <2>1. T \in SUBSET (0 .. Null) /\ 0 \in T
    BY <1>1, <1>2, Zenon
  <2> HIDE DEF T
  <2> QED
    BY <1>1, <2>1, GreatestNumber, Zenon
<1>8. n \in I /\ at[n] # Null /\ n \in 0 .. MaxKey /\ n + 1 \in I /\ n \in Nat
  <2>1. n \in I /\ at[n] # Null
    BY Zenon
  <2>2. at[n] >= n /\ at[n] \in 0 .. Null
    BY <1>4, <1>6, <2>1, Zenon
  <2> QED
    BY <1>1, <2>1, <2>2
<1>9. at[n + 1] = Null
  <2>1. ~(n + 1 <= n)
    BY <1>8
  <2> QED
    BY <1>7, <1>8, <2>1, Zenon
<1>10. ASSUME NEW i \in 0 .. n PROVE at[i] # Null
  <2> DEFINE Bad == {j \in 0 .. n : at[j] = Null}
  <2>1. ASSUME Bad # {} PROVE FALSE
    <3>1. Bad \in SUBSET (0 .. n)
      BY Zenon
    <3>2. PICK j \in Bad : \A k \in Bad : k <= j
      <4> HIDE DEF Bad
      <4> QED
        BY <1>8, <2>1, <3>1, GreatestNumber, Zenon
    <3>3. j \in 0 .. n /\ at[j] = Null
      BY Zenon
    <3>4. j # n
      BY <1>8, <3>3, Zenon
    <3>5. j \in I /\ j + 1 \in I /\ j + 1 \in 0 .. n /\ ~(j + 1 <= j)
      BY <1>1, <1>8, <3>3, <3>4
    <3>6. at[j + 1] = Null
      BY <1>5, <3>3, <3>5, Zenon
    <3> QED
      BY <3>2, <3>5, <3>6, Zenon
  <2> QED
    BY <2>1, Zenon
<1>11. ASSUME NEW i \in 0 .. n
       PROVE  /\ i \in I /\ i + 1 \in I /\ at[i + 1] = next[at[i]][0] /\ at[i + 1] > at[i]
              /\ \A m \in DOMAIN next : m > at[i] => at[i + 1] <= m
  <2>1. i \in I /\ i + 1 \in I
    BY <1>1, <1>8
  <2> QED
    BY <1>5, <1>10, <2>1, Zenon
<1>12. ASSUME NEW i \in 1 .. n PROVE at[i] \in Stored
  <2>1. i \in 0 .. n /\ i \in I /\ i > 0
    BY <1>1, <1>8
  <2>2. at[i] # HeadNode
    BY <1>1, <1>6, <2>1
  <2> QED
    BY <1>3, <1>4, <1>10, <2>1, <2>2, Zenon
<1>13. ASSUME NEW i \in 1 .. n, NEW j \in 1 .. n, i < j PROVE at[i] < at[j]
  <2> DEFINE Bad == {k \in 0 .. n : i < k /\ ~(at[i] < at[k])}
  <2>1. ASSUME Bad # {} PROVE FALSE
    <3>1. Bad \in SUBSET Nat
      BY <1>8
    <3>2. PICK k \in Bad : \A l \in Bad : k <= l
      <4> HIDE DEF Bad
      <4> QED
        BY <2>1, <3>1, LeastNumber, Zenon
    <3>3. k \in 0 .. n /\ i < k /\ ~(at[i] < at[k])
      BY Zenon
    <3>4. /\ k - 1 \in 0 .. n /\ ~(k <= k - 1) /\ (k - 1) + 1 = k /\ (i < k - 1 \/ i = k - 1)
          /\ i \in I /\ k \in I /\ k - 1 \in I
      BY <1>1, <1>8, <3>3
    <3>5. at[k] > at[k - 1]
      BY <1>11, <3>4, Zenon
    <3>6. at[i] \in 0 .. Null /\ at[k] \in 0 .. Null /\ at[k - 1] \in 0 .. Null
      BY <1>4, <3>4, Zenon
    <3>7. i < k - 1 => at[i] < at[k - 1]
      BY <3>2, <3>4, Zenon
    <3> QED
      BY <1>1, <3>3, <3>4, <3>5, <3>6, <3>7
  <2>2. j \in 0 .. n
    BY <1>8
  <2> QED
    BY <1>13, <2>1, <2>2, Zenon
<1>14. ASSUME NEW k \in Stored PROVE \E i \in 1 .. n : at[i] = k
  <2> DEFINE L == {i \in 0 .. n : at[i] <= k}
  <2>1. L \in SUBSET (0 .. n) /\ 0 \in L
    BY <1>1, <1>2, <1>3, <1>8
  <2>2. PICK i \in L : \A j \in L : j <= i
    <3> HIDE DEF L
    <3> QED
      BY <1>8, <2>1, GreatestNumber, Zenon
  <2>3. i \in 0 .. n /\ at[i] <= k /\ k \in DOMAIN next /\ k \in 1 .. MaxKey
    BY <1>3, Zenon
  <2>4. i \in I /\ i + 1 \in I /\ at[i] \in 0 .. Null /\ at[i + 1] \in 0 .. Null
    BY <1>4, <1>11, <2>3, Zenon
  <2>5. CASE at[i] = k
    <3>1. i # 0
      BY <1>1, <1>2, <2>3, <2>5
    <3>2. i \in 1 .. n
      BY <1>8, <2>3, <3>1
    <3> QED
      BY <2>5, <3>2, Zenon
  <2>6. CASE at[i] # k
    <3>1. k > at[i]
      BY <1>1, <2>3, <2>4, <2>6
    <3>2. at[i + 1] <= k
      BY <1>11, <2>3, <3>1, Zenon
    <3>3. CASE i = n
      BY <1>1, <1>9, <2>3, <3>2, <3>3
    <3>4. CASE i # n
      <4>1. i + 1 \in 0 .. n /\ ~(i + 1 <= i)
        BY <1>8, <2>3, <3>4
      <4> QED
        BY <2>2, <3>2, <4>1, Zenon
    <3> QED
      BY <3>3, <3>4, Zenon
  <2> QED
    BY <2>5, <2>6, Zenon
<1>15. {j \in 1 .. MaxKey : at[j] # Null} = 1 .. n
  <2>1. ASSUME NEW j \in 1 .. n PROVE j \in 1 .. MaxKey /\ at[j] # Null
    <3>1. j \in 0 .. n /\ j \in 1 .. MaxKey
      BY <1>1, <1>8
    <3> QED
      BY <1>10, <3>1, Zenon
  <2>2. ASSUME NEW j \in 1 .. MaxKey, at[j] # Null PROVE j \in 1 .. n
    <3>1. j \in I
      BY <1>1
    <3>2. j <= n
      BY <1>7, <2>2, <3>1, Zenon
    <3> QED
      BY <1>8, <3>2
  <2> QED
    BY <2>1, <2>2, Zenon
<1>16. Snapshot = [i \in 1 .. n |-> <<at[i], value[at[i]]>>]
  <2>1. Snapshot = [i \in {j \in 1 .. MaxKey : at[j] # Null} |-> <<at[i], value[at[i]]>>]
    BY Zenon DEF Snapshot, at
  <2> QED
    BY <1>15, <2>1, Zenon
<1>17. IsRows(at, n)
  BY <1>8, <1>9, <1>11, <1>12, <1>13, <1>14, Zenon DEF IsRows
<1> QED
  BY <1>16, <1>17, Zenon DEF at

\* A list that is linked, and whose size counts its keys, is the map.
LEMMA LinkedIsMap ==
  ASSUME ListInv
  PROVE  ListIsMap
PROOF
<1>1. Linked /\ node_count = Cardinality(Stored)
  BY Zenon DEF ListInv
<1> DEFINE at == Iterator
<1>2. PICK n : IsRows(at, n) /\ Snapshot = [i \in 1 .. n |-> <<at[i], value[at[i]]>>]
  BY <1>1, IteratorRows, Zenon
<1> HIDE DEF at
<1>3. n \in Nat /\ 1 .. n \subseteq Int
  BY <1>2, SkipListAssumption DEF IsRows
<1>4. Len(Snapshot) = n
  BY <1>2, <1>3
<1>5. ASSUME NEW i \in 1 .. n
      PROVE  at[i] \in Stored /\ Snapshot[i] = <<at[i], content[at[i]]>> /\ Snapshot[i][1] = at[i]
  BY <1>1, <1>2 DEF IsRows, Linked
<1>6. \A k \in Keys : search_element(k) = content[k]
  BY <1>1, SearchFinds, Zenon
<1>7. ASSUME NEW k \in Stored PROVE \E i \in 1 .. n : Snapshot[i] = <<k, content[k]>>
  <2>1. PICK i \in 1 .. n : at[i] = k
    BY <1>2, Zenon DEF IsRows
  <2>2. Snapshot[i] = <<k, content[k]>>
    BY <1>5, <2>1
  <2> QED
    BY <2>2, Zenon
<1>8. ASSUME NEW i \in 1 .. n, NEW j \in 1 .. n, i < j PROVE Snapshot[i][1] < Snapshot[j][1]
  BY <1>2, <1>5, <1>8, Zenon DEF IsRows
<1>9. node_count = n
  <2> DEFINE f == [i \in 1 .. n |-> at[i]]
  <2>1. f \in [1 .. n -> Stored] /\ \A i \in 1 .. n : f[i] = at[i]
    BY <1>5, Zenon
  <2> HIDE DEF f
  <2>2. ASSUME NEW i \in 1 .. n, NEW j \in 1 .. n, f[i] = f[j] PROVE i = j
    <3>1. i < j \/ j < i \/ i = j
      BY <1>3
    <3>2. at[i] \in Nat /\ at[j] \in Nat /\ at[i] = at[j]
      BY <1>5, <2>1, <2>2 DEF Stored, Keys
    <3>3. (i < j => at[i] < at[j]) /\ (j < i => at[j] < at[i])
      BY <1>2, Zenon DEF IsRows
    <3> QED
      BY <3>1, <3>2, <3>3
  <2>3. \A k \in Stored : \E i \in 1 .. n : f[i] = k
    BY <1>2, <2>1, Zenon DEF IsRows
  <2>4. f \in Injection(1 .. n, Stored)
    BY <2>1, <2>2, Zenon DEF Injection, IsInjective
  <2>5. f \in Surjection(1 .. n, Stored)
    BY <2>1, <2>3, Zenon DEF Surjection
  <2>6. ExistsBijection(1 .. n, Stored)
    BY <2>4, <2>5, Zenon DEF ExistsBijection, Bijection
  <2> QED
    BY <1>1, <1>3, <2>6, FS_CountingElements, Zenon
<1> QED
  BY <1>4, <1>5, <1>6, <1>7, <1>8, <1>9, Zenon DEF ListIsMap

\* Both outcomes of insert_element keep the list linked.
LEMMA InsertKeeps ==
  ASSUME ListInv, NEW key \in Keys, NEW rec \in Records, insert_element(key, rec)
  PROVE  ListInv'
  BY OverwriteLinked, InsertLinked, Zenon

\* A step of the list keeps it linked.
LEMMA ListStep ==
  ASSUME ListInv, [ListNext]_listVars
  PROVE  ListInv'
PROOF
<1>1. CASE ListNext
  BY <1>1, InsertKeeps, DeleteLinked, Zenon DEF ListNext
<1>2. CASE UNCHANGED listVars
  <2>1. /\ next' = next /\ value' = value /\ current_level' = current_level
        /\ node_count' = node_count /\ content' = content
    BY <1>2, Zenon DEF listVars
  <2>2. Stored' = Stored
    BY <2>1, Zenon DEF Stored
  <2>3. \A i : On(i)' = On(i)
    BY <2>1, Zenon DEF On
  <2> QED
    BY <2>1, <2>2, <2>3 DEF ListInv, Linked
<1> QED
  BY <1>1, <1>2, Zenon

\* Every list that insert_element and delete_element make is linked on every level, whatever
\* heights get_random_level draws.
THEOREM ListLinked == ListSpec => []Linked
PROOF
<1>1. ListInit => ListInv
  BY EmptyLinked, Zenon
<1>2. ListInv /\ [ListNext]_listVars => ListInv'
  BY ListStep, Zenon
<1>3. ListInv => Linked
  BY Zenon DEF ListInv
<1> QED
  BY <1>1, <1>2, <1>3, PTL DEF ListSpec

\* search_element, the iterator and size of every such list answer for the map of what was
\* inserted and not deleted since.
THEOREM ListAnswers == ListSpec => []ListIsMap
PROOF
<1>1. ListInit => ListInv
  BY EmptyLinked, Zenon
<1>2. ListInv /\ [ListNext]_listVars => ListInv'
  BY ListStep, Zenon
<1>3. ListInv => ListIsMap
  BY LinkedIsMap, Zenon
<1> QED
  BY <1>1, <1>2, <1>3, PTL DEF ListSpec

-----------------------------------------------------------------------------
(* Parts of sequences.                                                       *)

\* The cells of two sequences one after the other.
IsConcat(u, s, t) ==
  /\ Len(s) \in Nat /\ Len(t) \in Nat /\ Len(u) = Len(s) + Len(t)
  /\ \A i \in 1 .. Len(s) : u[i] = s[i]
  /\ \A i \in 1 .. Len(t) : u[Len(s) + i] = t[i]
LEMMA ConcatFacts ==
  ASSUME NEW S, NEW s \in Seq(S), NEW t \in Seq(S)
  PROVE  s \o t \in Seq(S) /\ IsConcat(s \o t, s, t)
  BY DEF IsConcat

\* The cells of a sequence behind a, up to b.
IsPart(u, s, a, b) == Len(u) = b - a /\ \A i \in 1 .. (b - a) : u[i] = s[a + i]
LEMMA PartFacts ==
  ASSUME NEW S, NEW s \in Seq(S), NEW a \in Nat, NEW b \in Nat, a <= b, b <= Len(s)
  PROVE  SubSeq(s, a + 1, b) \in Seq(S) /\ IsPart(SubSeq(s, a + 1, b), s, a, b)
PROOF
<1> DEFINE u == SubSeq(s, a + 1, b)
<1>1. u \in Seq(S) /\ Len(u) = b - a
  OBVIOUS
<1>2. ASSUME NEW i \in 1 .. (b - a) PROVE u[i] = s[a + i]
  OBVIOUS
<1> QED
  BY <1>1, <1>2, Zenon DEF IsPart

-----------------------------------------------------------------------------
(* The SSTable.                                                              *)

Entries == [cell : {"entry"}, key : Keys, record : Records]
Handles == [offset : Nat, size : Nat]
IndexEntries == [last_key : Nat, handle : Handles]
Builders == [file : Seq(Entries), data_block : Seq(Entries), last_key : Nat,
             index_entries : Seq(IndexEntries), keys : Seq(Keys)]

\* The iterator has n rows, with the keys at[i] in ascending order and the records v[at[i]].
HasRows(at, v, n) ==
  /\ n \in Nat /\ at[0] = 0
  /\ \A i \in 1 .. n : at[i] \in Keys /\ v[at[i]] \in Records
  /\ \A i, j \in 1 .. n : i < j => at[i] < at[j]

Row(at, v, i) == [cell |-> "entry", key |-> at[i], record |-> v[at[i]]]

\* Blocks divide l rows: block i ends with row ends[i].
Divides(ends, q, l) ==
  /\ ends \in [0 .. q -> 0 .. l] /\ ends[0] = 0 /\ ends[q] = l
  /\ \A i \in 1 .. q : ends[i - 1] <= ends[i]

\* The entry of the index for a block.
Block(at, ends, i) == [last_key |-> at[ends[i]], handle |-> Handle(ends[i - 1], ends[i] - ends[i - 1])]

\* An index of the blocks that divide l rows.
IsIndex(entries, at, l) ==
  /\ entries \in Seq(IndexEntries)
  /\ \E ends : /\ Divides(ends, Len(entries), l)
               /\ \A i \in 1 .. Len(entries) : entries[i] = Block(at, ends, i)

\* A builder that has been given the first j rows.
IsBuilder(b, at, v, j) ==
  /\ b \in Builders /\ Len(b.file) + Len(b.data_block) = j
  /\ \A i \in 1 .. Len(b.file) : b.file[i] = Row(at, v, i)
  /\ \A i \in 1 .. Len(b.data_block) : b.data_block[i] = Row(at, v, Len(b.file) + i)
  /\ Len(b.keys) = j /\ \A i \in 1 .. j : b.keys[i] = at[i]
  /\ b.last_key = at[j]
  /\ IsIndex(b.index_entries, at, Len(b.file))

-----------------------------------------------------------------------------
\* A new builder has been given none.
LEMMA NewBuilderFacts ==
  ASSUME NEW at, NEW v, NEW n, HasRows(at, v, n)
  PROVE  IsBuilder(NewBuilder, at, v, 0)
PROOF
<1> DEFINE b == NewBuilder
           ends == [i \in 0 .. 0 |-> 0]
<1>1. b.file = <<>> /\ b.data_block = <<>> /\ b.last_key = 0 /\ b.index_entries = <<>> /\ b.keys = <<>>
  BY DEF NewBuilder
<1>2. b \in Builders
  BY DEF NewBuilder, Builders
<1> HIDE DEF b
<1>3. Len(<<>>) = 0 /\ 1 .. 0 = {} /\ 0 + 0 = 0
  OBVIOUS
<1>4. IsIndex(b.index_entries, at, Len(b.file))
  <2>1. Divides(ends, 0, 0)
    BY <1>3 DEF Divides
  <2> HIDE DEF ends
  <2>2. b.index_entries \in Seq(IndexEntries)
    BY <1>2, Zenon DEF Builders
  <2> QED
    BY <1>1, <1>3, <2>1, <2>2, Zenon DEF IsIndex
<1>5. b.last_key = at[0]
  BY <1>1, Zenon DEF HasRows
<1>6. IsBuilder(b, at, v, 0)
  BY <1>1, <1>2, <1>3, <1>4, <1>5, Zenon DEF IsBuilder
<1> QED
  BY <1>6, Zenon DEF b

\* An index with one more block, for the rows up to j.
LEMMA IndexExtended ==
  ASSUME NEW at, NEW v, NEW n, HasRows(at, v, n), NEW entries, NEW l \in Nat, IsIndex(entries, at, l),
         NEW j \in 0 .. n, l <= j, NEW new, new = [last_key |-> at[j], handle |-> Handle(l, j - l)]
  PROVE  IsIndex(Append(entries, new), at, j)
PROOF
<1> DEFINE q == Len(entries)
           I == 0 .. (q + 1)
           longer == Append(entries, new)
<1>1. PICK ends : /\ Divides(ends, q, l)
                  /\ \A i \in 1 .. q : entries[i] = Block(at, ends, i)
  BY Zenon DEF IsIndex
<1>2. entries \in Seq(IndexEntries) /\ q \in Nat /\ n \in Nat /\ j \in Nat /\ j - l \in Nat
  BY DEF IsIndex, HasRows
<1>3. at[j] \in Nat
  <2>1. CASE j = 0
    BY <2>1 DEF HasRows
  <2>2. CASE j # 0
    BY <1>2, <2>2 DEF HasRows, Keys
  <2> QED
    BY <2>1, <2>2, Zenon
<1>4. new \in IndexEntries
  <2>1. Handle(l, j - l) \in Handles
    BY <1>2, Zenon DEF Handle, Handles
  <2> QED
    BY <1>3, <2>1, Zenon DEF IndexEntries
<1>5. /\ longer \in Seq(IndexEntries) /\ Len(longer) = q + 1 /\ longer[q + 1] = new
      /\ \A i \in 1 .. q : longer[i] = entries[i]
  BY <1>2, <1>4
<1> DEFINE more == [i \in I |-> IF i = q + 1 THEN j ELSE ends[i]]
<1>6. /\ 0 \in I /\ q + 1 \in I /\ q \in I /\ 0 # q + 1 /\ q # q + 1 /\ (q + 1) - 1 = q
      /\ \A i \in 1 .. (q + 1) : i = q + 1 \/ i \in 1 .. q
      /\ \A i \in 1 .. q : i \in I /\ i - 1 \in I /\ i # q + 1 /\ i - 1 # q + 1
      /\ \A i \in I : i = q + 1 \/ i \in 0 .. q
      /\ 0 .. l \subseteq 0 .. j /\ j \in 0 .. j
  BY <1>2
<1> HIDE DEF q, longer
<1>7. /\ ends \in [0 .. q -> 0 .. l] /\ ends[0] = 0 /\ ends[q] = l
      /\ \A i \in 1 .. q : ends[i - 1] <= ends[i]
  BY <1>1, Zenon DEF Divides
<1> HIDE DEF I
<1>8. more \in [I -> 0 .. j] /\ more[0] = 0 /\ more[q] = l /\ more[q + 1] = j
  BY <1>6, <1>7, Zenon
<1>9. \A i \in 1 .. q : more[i] = ends[i] /\ more[i - 1] = ends[i - 1]
  BY <1>6, Zenon
<1> HIDE DEF more
<1>10. Divides(more, q + 1, j)
  <2>1. ASSUME NEW i \in 1 .. (q + 1) PROVE more[i - 1] <= more[i]
    <3>1. CASE i = q + 1
      BY <1>6, <1>8, <3>1, Zenon
    <3>2. CASE i \in 1 .. q
      BY <1>7, <1>9, <3>2, Zenon
    <3> QED
      BY <1>6, <3>1, <3>2, Zenon
  <2> QED
    BY <1>8, <2>1, Zenon DEF Divides, I
<1>11. ASSUME NEW i \in 1 .. (q + 1) PROVE longer[i] = Block(at, more, i)
  <2>1. CASE i = q + 1
    BY <1>5, <1>6, <1>8, <2>1, Zenon DEF Block
  <2>2. CASE i \in 1 .. q
    BY <1>1, <1>5, <1>9, <2>2, Zenon DEF Block
  <2> QED
    BY <1>6, <2>1, <2>2, Zenon
<1> QED
  BY <1>5, <1>10, <1>11, Zenon DEF IsIndex, longer

\* WriteDataBlock: the rows of the block go to the file, and their place and the last key to
\* the index.
LEMMA WriteKeeps ==
  ASSUME NEW at, NEW v, NEW n, HasRows(at, v, n), NEW b, NEW j \in 0 .. n, IsBuilder(b, at, v, j)
  PROVE  IsBuilder(WriteDataBlock(b), at, v, j) /\ WriteDataBlock(b).data_block = <<>>
PROOF
<1> DEFINE w == WriteDataBlock(b)
           l == Len(b.file)
           d == Len(b.data_block)
           new == [last_key |-> b.last_key, handle |-> Handle(l, d)]
<1>1. b \in Builders /\ l + d = j /\ b.last_key = at[j] /\ IsIndex(b.index_entries, at, l)
  BY Zenon DEF IsBuilder
<1>2. /\ b.file \in Seq(Entries) /\ b.data_block \in Seq(Entries) /\ b.last_key \in Nat
      /\ b.index_entries \in Seq(IndexEntries) /\ b.keys \in Seq(Keys)
  BY <1>1, Zenon DEF Builders
<1>3. l \in Nat /\ d \in Nat /\ j \in Nat /\ l <= j /\ d = j - l
  <2>1. l \in Nat /\ d \in Nat
    BY <1>2
  <2>2. l + d = j
    BY <1>1, Zenon
  <2> HIDE DEF l, d
  <2> QED
    BY <2>1, <2>2
<1>4. /\ w.file = b.file \o b.data_block /\ w.data_block = <<>> /\ w.keys = b.keys
      /\ w.last_key = b.last_key /\ w.index_entries = Append(b.index_entries, new)
      /\ w = [file |-> w.file, data_block |-> w.data_block, last_key |-> w.last_key,
              index_entries |-> w.index_entries, keys |-> w.keys]
  <2> DEFINE both == b.file \o b.data_block
             index == Append(b.index_entries, new)
  <2>1. w = [b EXCEPT !.file = both, !.data_block = <<>>, !.index_entries = index]
    BY Zenon DEF WriteDataBlock
  <2> HIDE DEF both, index, w
  <2>2. /\ w.file = both /\ w.data_block = <<>> /\ w.keys = b.keys
        /\ w.last_key = b.last_key /\ w.index_entries = index
        /\ w = [file |-> w.file, data_block |-> w.data_block, last_key |-> w.last_key,
                index_entries |-> w.index_entries, keys |-> w.keys]
    BY <1>1, <2>1, Zenon DEF Builders
  <2> QED
    BY <2>2, Zenon DEF both, index
<1>5. w.file \in Seq(Entries) /\ IsConcat(w.file, b.file, b.data_block)
  BY <1>2, <1>4, ConcatFacts, Zenon
<1>6. IsIndex(w.index_entries, at, j)
  <2>1. new = [last_key |-> at[j], handle |-> Handle(l, j - l)]
    BY <1>1, <1>3, Zenon
  <2> HIDE DEF new, l
  <2> QED
    BY <1>1, <1>3, <1>4, <2>1, IndexExtended, Zenon
<1>7. w \in Builders
  <2>1. w.data_block \in Seq(Entries)
    BY <1>4
  <2>2. w.index_entries \in Seq(IndexEntries)
    BY <1>6, Zenon DEF IsIndex
  <2> HIDE DEF w
  <2> QED
    BY <1>2, <1>4, <1>5, <2>1, <2>2, Zenon DEF Builders
<1>8. Len(w.file) = j /\ Len(w.data_block) = 0 /\ j + 0 = j /\ 1 .. 0 = {}
  <2>1. Len(w.file) = l + d
    BY <1>5, Zenon DEF IsConcat
  <2>2. Len(<<>>) = 0 /\ j + 0 = j /\ 1 .. 0 = {}
    BY <1>3
  <2> QED
    BY <1>1, <1>4, <2>1, <2>2, Zenon
<1>9. ASSUME NEW i \in 1 .. j PROVE w.file[i] = Row(at, v, i)
  <2>1. CASE i \in 1 .. l
    BY <1>5, <2>1, Zenon DEF IsConcat, IsBuilder
  <2>2. CASE i \notin 1 .. l
    <3>1. i - l \in 1 .. d /\ l + (i - l) = i
      BY <1>1, <1>3, <2>2
    <3>2. w.file[l + (i - l)] = b.data_block[i - l]
      BY <1>5, <3>1, Zenon DEF IsConcat
    <3>3. b.data_block[i - l] = Row(at, v, l + (i - l))
      BY <3>1, Zenon DEF IsBuilder
    <3> QED
      BY <3>1, <3>2, <3>3, Zenon
  <2> QED
    BY <2>1, <2>2, Zenon
<1>10. Len(w.keys) = j /\ (\A i \in 1 .. j : w.keys[i] = at[i]) /\ w.last_key = at[j]
  BY <1>4, Zenon DEF IsBuilder
<1> HIDE DEF w
<1>11. IsBuilder(w, at, v, j)
  BY <1>6, <1>7, <1>8, <1>9, <1>10, Zenon DEF IsBuilder
<1> QED
  BY <1>4, <1>11, Zenon DEF w

\* Add: the next row goes to the block, after a block that is full has been written.
LEMMA AddKeeps ==
  ASSUME NEW at, NEW v, NEW n, HasRows(at, v, n), NEW b, NEW j \in 0 .. n, j # n, IsBuilder(b, at, v, j)
  PROVE  IsBuilder(Add(b, at[j + 1], v[at[j + 1]]), at, v, j + 1)
PROOF
<1> DEFINE k == at[j + 1]
           full == CurrentSizeEstimate(b.data_block) >= BlockLimit
           room == IF full THEN WriteDataBlock(b) ELSE b
           a == Add(b, k, v[k])
           e == Row(at, v, j + 1)
<1>1. IsBuilder(room, at, v, j)
  <2> HIDE DEF full
  <2> QED
    BY WriteKeeps, Zenon
<1>2. a = [room EXCEPT !.data_block = BlockAdd(@, k, v[k]), !.keys = Append(@, k), !.last_key = k]
  BY Zenon DEF Add
<1> HIDE DEF room, full, a
<1>3. PICK c : c = room
  BY Zenon
<1>4. /\ c \in Builders /\ Len(c.file) + Len(c.data_block) = j /\ IsIndex(c.index_entries, at, Len(c.file))
      /\ Len(c.keys) = j
  BY <1>1, <1>3, Zenon DEF IsBuilder
<1>5. /\ c.file \in Seq(Entries) /\ c.data_block \in Seq(Entries)
      /\ c.index_entries \in Seq(IndexEntries) /\ c.keys \in Seq(Keys)
  BY <1>4, Zenon DEF Builders
<1>6. j \in Nat /\ n \in Nat /\ j + 1 \in 1 .. n /\ Len(c.file) \in Nat /\ Len(c.data_block) \in Nat
  BY <1>5 DEF HasRows
<1>7. k \in Keys /\ v[k] \in Records /\ k \in Nat
  <2>1. k \in Keys /\ v[k] \in Records
    BY <1>6, Zenon DEF HasRows
  <2> QED
    BY <2>1 DEF Keys
<1>8. e \in Entries /\ e = [cell |-> "entry", key |-> k, record |-> v[k]]
  BY <1>7, Zenon DEF Row, Entries
<1>9. /\ a.file = c.file /\ a.data_block = Append(c.data_block, e) /\ a.keys = Append(c.keys, k)
      /\ a.last_key = k /\ a.index_entries = c.index_entries
      /\ a = [file |-> a.file, data_block |-> a.data_block, last_key |-> a.last_key,
              index_entries |-> a.index_entries, keys |-> a.keys]
  <2> HIDE DEF e, k
  <2> QED
    BY <1>2, <1>3, <1>4, <1>8, Zenon DEF BlockAdd, Builders
<1> HIDE DEF e, k
<1>10. /\ a.data_block \in Seq(Entries) /\ Len(a.data_block) = Len(c.data_block) + 1
       /\ a.data_block[Len(c.data_block) + 1] = e
       /\ \A i \in 1 .. Len(c.data_block) : a.data_block[i] = c.data_block[i]
  <2>1. a.data_block = Append(c.data_block, e)
    BY <1>9, Zenon
  <2> QED
    BY <1>5, <1>8, <2>1
<1>11. /\ a.keys \in Seq(Keys) /\ Len(a.keys) = j + 1 /\ a.keys[j + 1] = k
       /\ \A i \in 1 .. j : a.keys[i] = c.keys[i]
  <2>1. a.keys = Append(c.keys, k)
    BY <1>9, Zenon
  <2> QED
    BY <1>4, <1>5, <1>7, <2>1
<1>12. a \in Builders
  BY <1>5, <1>7, <1>9, <1>10, <1>11, Zenon DEF Builders
<1>13. Len(a.file) + Len(a.data_block) = j + 1
  <2>1. a.file = c.file /\ Len(a.data_block) = Len(c.data_block) + 1
    BY <1>9, <1>10, Zenon
  <2> DEFINE l == Len(c.file)
             d == Len(c.data_block)
  <2>2. l \in Nat /\ d \in Nat /\ l + d = j /\ Len(a.file) = l /\ Len(a.data_block) = d + 1
    BY <1>4, <1>6, <2>1, Zenon
  <2> HIDE DEF l, d
  <2> QED
    BY <2>2
<1>14. ASSUME NEW i \in 1 .. Len(a.data_block) PROVE a.data_block[i] = Row(at, v, Len(a.file) + i)
  <2>1. CASE i = Len(c.data_block) + 1
    <3>1. Len(c.file) + i = j + 1
      <4> DEFINE l == Len(c.file)
                 d == Len(c.data_block)
      <4>1. l \in Nat /\ d \in Nat /\ l + d = j /\ i = d + 1
        BY <1>4, <1>6, <2>1, Zenon
      <4>2. SUFFICES l + i = j + 1
        BY Zenon
      <4> HIDE DEF l, d
      <4> QED
        BY <4>1
    <3> QED
      BY <1>9, <1>10, <2>1, <3>1, Zenon DEF e
  <2>2. CASE i # Len(c.data_block) + 1
    <3>1. i \in 1 .. Len(c.data_block)
      <4>1. Len(a.data_block) = Len(c.data_block) + 1
        BY <1>10, Zenon
      <4> QED
        BY <1>6, <2>2, <4>1
    <3> QED
      BY <1>1, <1>3, <1>9, <1>10, <3>1, Zenon DEF IsBuilder
  <2> QED
    BY <2>1, <2>2, Zenon
<1>15. ASSUME NEW i \in 1 .. (j + 1) PROVE a.keys[i] = at[i]
  <2>1. i = j + 1 \/ i \in 1 .. j
    BY <1>6
  <2> QED
    BY <1>1, <1>3, <1>11, <2>1, Zenon DEF IsBuilder, k
<1>16. \A i \in 1 .. Len(a.file) : a.file[i] = Row(at, v, i)
  BY <1>1, <1>3, <1>9, Zenon DEF IsBuilder
<1>17. a.last_key = at[j + 1] /\ IsIndex(a.index_entries, at, Len(a.file))
  BY <1>4, <1>9, Zenon DEF k
<1>18. IsBuilder(a, at, v, j + 1)
  BY <1>11, <1>12, <1>13, <1>14, <1>15, <1>16, <1>17, Zenon DEF IsBuilder
<1> QED
  BY <1>18, Zenon DEF a, k

-----------------------------------------------------------------------------
FilterCell(keys) == [cell |-> "filter", filter |-> CreateFilter(keys)]
IndexCell(at, ends, i) ==
  [cell |-> "index", last_key |-> at[ends[i]], handle |-> Handle(ends[i - 1], ends[i] - ends[i - 1])]
FileCells ==
  Entries \cup {FilterCell(keys) : keys \in Seq(Keys)}
    \cup [cell : {"index"}, last_key : Nat, handle : Handles]
    \cup [cell : {"footer"}, index_handle : Handles, filter_handle : Handles]

\* The file of a table with n rows in q blocks.
IsTable(f, at, v, n, q, ends) ==
  /\ q \in Nat /\ q >= 1 /\ Divides(ends, q, n)
  /\ f \in Seq(FileCells) /\ Len(f) = n + q + 2
  /\ \A i \in 1 .. n : f[i] = Row(at, v, i)
  /\ \E keys \in Seq(Keys) : /\ Len(keys) = n /\ \A i \in 1 .. n : keys[i] = at[i]
                             /\ f[n + 1] = FilterCell(keys)
  /\ \A i \in 1 .. q : f[n + 1 + i] = IndexCell(at, ends, i)
  /\ f[n + q + 2] = Footer(Handle(n + 1, q), Handle(n, 1))

\* Four parts of a file, of n cells, one, q, and one; and the cells of the file they make.
AreParts(S, f, a, b, c, d, n, q) ==
  /\ n \in Nat /\ q \in Nat /\ f = a \o b \o c \o d
  /\ a \in Seq(S) /\ b \in Seq(S) /\ c \in Seq(S) /\ d \in Seq(S)
  /\ Len(a) = n /\ Len(b) = 1 /\ Len(c) = q /\ Len(d) = 1
FourFrom(f, a, b, c, d, n, q) ==
  /\ \A i \in 1 .. n : f[i] = a[i]
  /\ f[n + 1] = b[1]
  /\ \A i \in 1 .. q : f[n + 1 + i] = c[i]
  /\ f[n + q + 2] = d[1]

\* The cells of a file that is put together from its four parts.
LEMMA FourParts ==
  ASSUME NEW S, NEW a, NEW b, NEW c, NEW d, NEW n, NEW q, NEW f,
         AreParts(S, f, a, b, c, d, n, q)
  PROVE  f \in Seq(S) /\ Len(f) = n + q + 2 /\ FourFrom(f, a, b, c, d, n, q)
PROOF
<1>0. /\ n \in Nat /\ q \in Nat /\ f = a \o b \o c \o d
      /\ a \in Seq(S) /\ b \in Seq(S) /\ c \in Seq(S) /\ d \in Seq(S)
      /\ Len(a) = n /\ Len(b) = 1 /\ Len(c) = q /\ Len(d) = 1
  BY Zenon DEF AreParts
<1> USE <1>0
<1> DEFINE g == a \o b
           h == g \o c
<1>1. g \in Seq(S) /\ IsConcat(g, a, b)
  BY ConcatFacts, Zenon
<1>2. Len(g) = n + 1 /\ (\A i \in 1 .. n : g[i] = a[i]) /\ g[n + 1] = b[1]
  <2>1. 1 \in 1 .. 1
    OBVIOUS
  <2> HIDE DEF g
  <2> QED
    BY <1>1, <2>1, Zenon DEF IsConcat
<1> HIDE DEF g
<1>3. h \in Seq(S) /\ IsConcat(h, g, c)
  BY <1>1, ConcatFacts, Zenon
<1> HIDE DEF h
<1>4. Len(h) = n + 1 + q /\ (\A i \in 1 .. (n + 1) : h[i] = g[i]) /\ \A i \in 1 .. q : h[n + 1 + i] = c[i]
  BY <1>2, <1>3, Zenon DEF IsConcat
<1>5. f \in Seq(S) /\ IsConcat(f, h, d)
  <2>1. f = h \o d
    BY Zenon DEF g, h
  <2> QED
    BY <1>3, <2>1, ConcatFacts, Zenon
<1>6. /\ Len(f) = (n + 1 + q) + 1 /\ (\A i \in 1 .. (n + 1 + q) : f[i] = h[i])
      /\ f[(n + 1 + q) + 1] = d[1]
  <2>1. 1 \in 1 .. 1
    OBVIOUS
  <2> QED
    BY <1>4, <1>5, <2>1, Zenon DEF IsConcat
<1>7. /\ (n + 1 + q) + 1 = n + q + 2 /\ n + 1 \in 1 .. (n + 1) /\ n + 1 \in 1 .. (n + 1 + q)
      /\ \A i \in 1 .. n : i \in 1 .. (n + 1) /\ i \in 1 .. (n + 1 + q)
      /\ \A i \in 1 .. q : n + 1 + i \in 1 .. (n + 1 + q)
  OBVIOUS
<1>8. f[n + 1] = b[1] /\ \A i \in 1 .. n : f[i] = a[i]
  BY <1>2, <1>4, <1>6, <1>7, Zenon
<1>9. \A i \in 1 .. q : f[n + 1 + i] = c[i]
  BY <1>4, <1>6, <1>7, Zenon
<1>10. Len(f) = n + q + 2 /\ f[n + q + 2] = d[1]
  BY <1>6, <1>7, Zenon
<1> QED
  BY <1>5, <1>8, <1>9, <1>10, Zenon DEF FourFrom

\* Finish makes the file of a table out of the rows that the builder was given.
LEMMA FinishMakesTable ==
  ASSUME NEW at, NEW v, NEW n, HasRows(at, v, n), n > 0, NEW b, IsBuilder(b, at, v, n)
  PROVE  \E q, ends : IsTable(Finish(b), at, v, n, q, ends)
PROOF
<1> DEFINE blocks == IF b.data_block = <<>> THEN b ELSE WriteDataBlock(b)
           filter == WriteFilterBlock(b.keys)
           index == WriteIndexBlock(blocks.index_entries)
           m == Len(blocks.file)
           foot == Footer(Handle(m + Len(filter), Len(index)),
                          IF filter = <<>> THEN NoHandle ELSE Handle(m, Len(filter)))
<1>1. n \in Nat /\ n \in 0 .. n
  BY DEF HasRows
<1>2. PICK c : c = blocks
  BY Zenon
<1>3. IsBuilder(c, at, v, n) /\ c.data_block = <<>>
  BY <1>1, <1>2, WriteKeeps, Zenon
<1>4. Finish(b) = blocks.file \o filter \o index \o <<foot>>
  BY Zenon DEF Finish
<1>5. c.file \in Seq(Entries) /\ c.index_entries \in Seq(IndexEntries) /\ b.keys \in Seq(Keys)
      /\ Len(b.keys) = n /\ (\A i \in 1 .. n : b.keys[i] = at[i])
  BY <1>3, Zenon DEF IsBuilder, Builders
<1>6. m = n /\ Len(c.file) = n
  <2> DEFINE l == Len(c.file)
  <2>1. l \in Nat /\ Len(<<>>) = 0
    BY <1>5
  <2>2. l + 0 = n /\ m = l
    BY <1>2, <1>3, <2>1, Zenon DEF IsBuilder
  <2> HIDE DEF l, m
  <2>3. l = n
    BY <2>1, <2>2
  <2> QED
    BY <2>2, <2>3, Zenon DEF l
<1>7. PICK ends : /\ Divides(ends, Len(c.index_entries), n)
                  /\ \A i \in 1 .. Len(c.index_entries) : c.index_entries[i] = Block(at, ends, i)
  BY <1>3, <1>6, Zenon DEF IsBuilder, IsIndex
<1> DEFINE q == Len(c.index_entries)
<1>8. q \in Nat /\ q >= 1
  <2>1. q \in Nat
    BY <1>5
  <2>2. q # 0
    BY <1>1, <1>7 DEF Divides
  <2> HIDE DEF q
  <2> QED
    BY <2>1, <2>2
<1>9. filter = <<FilterCell(b.keys)>> /\ filter # <<>> /\ Len(filter) = 1
  <2>1. b.keys # <<>>
    BY <1>1, <1>5
  <2>2. filter = <<FilterCell(b.keys)>>
    BY <2>1, Zenon DEF WriteFilterBlock, FilterCell
  <2> HIDE DEF filter
  <2> QED
    BY <2>2
<1>10. index = [i \in 1 .. q |-> IndexCell(at, ends, i)]
  <2>1. DOMAIN c.index_entries = 1 .. q
    BY <1>5
  <2>2. \A i \in 1 .. q : /\ c.index_entries[i].last_key = at[ends[i]]
                          /\ c.index_entries[i].handle = Handle(ends[i - 1], ends[i] - ends[i - 1])
    <3> SUFFICES ASSUME NEW i \in 1 .. q
                 PROVE  /\ c.index_entries[i].last_key = at[ends[i]]
                        /\ c.index_entries[i].handle = Handle(ends[i - 1], ends[i] - ends[i - 1])
      OBVIOUS
    <3>1. c.index_entries[i] = Block(at, ends, i)
      BY <1>7, Zenon
    <3> QED
      BY <3>1 DEF Block
  <2>3. index = [i \in 1 .. q |-> [cell |-> "index", last_key |-> c.index_entries[i].last_key,
                                   handle |-> c.index_entries[i].handle]]
    BY <1>2, <2>1, Zenon DEF WriteIndexBlock
  <2> HIDE DEF index, q
  <2> QED
    BY <2>2, <2>3, Zenon DEF IndexCell
<1>11. ASSUME NEW i \in 1 .. q
       PROVE  IndexCell(at, ends, i) \in FileCells
  <2>1. c.index_entries[i] \in IndexEntries
    BY <1>5
  <2>2. c.index_entries[i] = Block(at, ends, i)
    BY <1>7, Zenon
  <2>3. at[ends[i]] \in Nat /\ Handle(ends[i - 1], ends[i] - ends[i - 1]) \in Handles
    BY <2>1, <2>2 DEF Block, IndexEntries
  <2>4. IndexCell(at, ends, i) \in [cell : {"index"}, last_key : Nat, handle : Handles]
    BY <2>3 DEF IndexCell
  <2> QED
    BY <2>4, Zenon DEF FileCells
<1> HIDE DEF q
<1>12. index \in Seq(FileCells) /\ Len(index) = q /\ \A i \in 1 .. q : index[i] = IndexCell(at, ends, i)
  <2> HIDE DEF index
  <2> QED
    BY <1>8, <1>10, <1>11
<1>13. foot = Footer(Handle(n + 1, q), Handle(n, 1))
  <2> HIDE DEF filter, index, m
  <2> QED
    BY <1>6, <1>9, <1>12, Zenon
<1> HIDE DEF foot, index, filter, m, blocks
<1>14. <<foot>> \in Seq(FileCells) /\ Len(<<foot>>) = 1 /\ <<foot>>[1] = foot
  <2>1. Handle(n + 1, q) \in Handles /\ Handle(n, 1) \in Handles
    BY <1>1, <1>8 DEF Handle, Handles
  <2>2. foot \in [cell : {"footer"}, index_handle : Handles, filter_handle : Handles]
    BY <1>13, <2>1 DEF Footer
  <2>3. foot \in FileCells
    BY <2>2, Zenon DEF FileCells
  <2> QED
    BY <2>3
<1>15. filter \in Seq(FileCells) /\ filter[1] = FilterCell(b.keys)
  <2>1. FilterCell(b.keys) \in FileCells
    BY <1>5, Zenon DEF FileCells
  <2> HIDE DEF filter
  <2> QED
    BY <1>9, <2>1
<1>16. c.file \in Seq(FileCells)
  <2>1. Entries \subseteq FileCells
    BY Zenon DEF FileCells
  <2> QED
    BY <1>5, <2>1
<1>17. Finish(b) = c.file \o filter \o index \o <<foot>>
  BY <1>2, <1>4, Zenon
<1> DEFINE f == Finish(b)
<1> HIDE DEF f
<1> DEFINE last == <<foot>>
           rows == c.file
<1> HIDE DEF last, rows
<1>18. f \in Seq(FileCells) /\ Len(f) = n + q + 2 /\ FourFrom(f, rows, filter, index, last, n, q)
  <2>1. rows \in Seq(FileCells) /\ Len(rows) = n
    BY <1>6, <1>16, Zenon DEF rows
  <2>2. last \in Seq(FileCells) /\ Len(last) = 1
    BY <1>14, Zenon DEF last
  <2>3. f = rows \o filter \o index \o last
    BY <1>17, Zenon DEF f, rows, last
  <2>4. filter \in Seq(FileCells) /\ Len(filter) = 1 /\ index \in Seq(FileCells) /\ Len(index) = q
    BY <1>9, <1>12, <1>15, Zenon
  <2>5. n \in Nat /\ q \in Nat
    BY <1>1, <1>8, Zenon
  <2>6. AreParts(FileCells, f, rows, filter, index, last, n, q)
    BY <2>1, <2>2, <2>3, <2>4, <2>5, Zenon DEF AreParts
  <2> QED
    BY <2>6, FourParts, Zenon
<1>19. /\ f \in Seq(FileCells) /\ Len(f) = n + q + 2
       /\ (\A i \in 1 .. n : f[i] = c.file[i])
       /\ f[n + 1] = filter[1]
       /\ (\A i \in 1 .. q : f[n + 1 + i] = index[i])
       /\ f[n + q + 2] = <<foot>>[1]
  BY <1>18, Zenon DEF FourFrom, rows, last
<1>20. \A i \in 1 .. n : f[i] = Row(at, v, i)
  BY <1>3, <1>6, <1>19, Zenon DEF IsBuilder
<1>21. Divides(ends, q, n)
  BY <1>7, Zenon DEF q
<1>22. f[n + 1] = FilterCell(b.keys) /\ f[n + q + 2] = Footer(Handle(n + 1, q), Handle(n, 1))
  BY <1>13, <1>14, <1>15, <1>19, Zenon
<1>23. \A i \in 1 .. q : f[n + 1 + i] = IndexCell(at, ends, i)
  BY <1>12, <1>19, Zenon
<1>24. IsTable(f, at, v, n, q, ends)
  BY <1>5, <1>8, <1>19, <1>20, <1>21, <1>22, <1>23, Zenon DEF IsTable
<1> QED
  BY <1>24, Zenon DEF f

-----------------------------------------------------------------------------
\* What a handle gives.
LEMMA AtFacts ==
  ASSUME NEW S, NEW f \in Seq(S), NEW o \in Nat, NEW z \in Nat, o + z <= Len(f)
  PROVE  At(f, Handle(o, z)) \in Seq(S) /\ IsPart(At(f, Handle(o, z)), f, o, o + z)
PROOF
<1>1. o + z \in Nat /\ o <= o + z
  OBVIOUS
<1>2. At(f, Handle(o, z)) = SubSeq(f, o + 1, o + z)
  BY DEF At, Handle
<1> QED
  BY <1>1, <1>2, PartFacts, Zenon

\* The reader's view of a table: its filter, its index and its blocks.
Reads(f, at, v, n, q, ends) ==
  /\ q \in Nat /\ q >= 1 /\ Divides(ends, q, n)
  /\ Len(Index(f)) = q /\ DOMAIN Index(f) = 1 .. q
  /\ \A i \in 1 .. q : Index(f)[i] = IndexCell(at, ends, i)
  /\ \E keys \in Seq(Keys) : /\ Len(keys) = n /\ \A i \in 1 .. n : keys[i] = at[i]
                             /\ ReadFilterBlock(f)[1].filter = CreateFilter(keys)

\* A block that the index leads to.
IsBlock(block, at, v, a, b) ==
  /\ DOMAIN block = 1 .. (b - a)
  /\ \A i \in 1 .. (b - a) : block[i] = Row(at, v, a + i)

\* Open finds the footer, the filter and the index of a table.
LEMMA TableOpens ==
  ASSUME NEW at, NEW v, NEW n, HasRows(at, v, n), NEW q, NEW ends, NEW f, IsTable(f, at, v, n, q, ends)
  PROVE  OpenTable(f) /\ Reads(f, at, v, n, q, ends)
PROOF
<1>1. /\ n \in Nat /\ q \in Nat /\ q >= 1 /\ f \in Seq(FileCells) /\ Len(f) = n + q + 2
      /\ Divides(ends, q, n)
  BY Zenon DEF IsTable, HasRows
<1>2. f[Len(f)] = Footer(Handle(n + 1, q), Handle(n, 1))
  BY Zenon DEF IsTable
<1>3. /\ DecodeFrom(f[Len(f)])
      /\ f[Len(f)].index_handle = Handle(n + 1, q) /\ f[Len(f)].filter_handle = Handle(n, 1)
  BY <1>2 DEF Footer, DecodeFrom
<1>4. Index(f) = At(f, Handle(n + 1, q)) /\ ReadFilterBlock(f) = At(f, Handle(n, 1))
  BY <1>3, Zenon DEF Index, ReadFilterBlock
<1>5. Index(f) \in Seq(FileCells) /\ IsPart(Index(f), f, n + 1, n + 1 + q)
  <2>1. n + 1 \in Nat /\ n + 1 + q <= Len(f)
    BY <1>1
  <2> QED
    BY <1>1, <1>4, <2>1, AtFacts, Zenon
<1>6. IsPart(ReadFilterBlock(f), f, n, n + 1)
  <2>1. 1 \in Nat /\ n + 1 <= Len(f)
    BY <1>1
  <2> QED
    BY <1>1, <1>4, <2>1, AtFacts, Zenon
<1> DEFINE index == Index(f)
<1>7. Len(index) = q /\ DOMAIN index = 1 .. q /\ \A i \in 1 .. q : index[i] = f[n + 1 + i]
  <2>1. (n + 1 + q) - (n + 1) = q
    BY <1>1
  <2>2. Len(index) = q /\ \A i \in 1 .. q : index[i] = f[n + 1 + i]
    BY <1>5, <2>1, Zenon DEF IsPart
  <2> HIDE DEF index
  <2>3. DOMAIN index = 1 .. q
    <3>1. index \in Seq(FileCells)
      BY <1>5, Zenon DEF index
    <3> QED
      BY <2>2, <3>1
  <2> QED
    BY <2>2, <2>3, Zenon
<1>8. \A i \in 1 .. q : index[i] = IndexCell(at, ends, i)
  BY <1>7, Zenon DEF IsTable
<1>9. ReadFilterBlock(f)[1] = f[n + 1]
  <2>1. (n + 1) - n = 1 /\ 1 \in 1 .. 1
    BY <1>1
  <2> QED
    BY <1>6, <2>1, Zenon DEF IsPart
<1>10. ASSUME NEW keys, f[n + 1] = FilterCell(keys)
       PROVE  ReadFilterBlock(f)[1].filter = CreateFilter(keys)
  <2>1. FilterCell(keys).filter = CreateFilter(keys)
    BY DEF FilterCell
  <2> QED
    BY <1>9, <1>10, <2>1, Zenon
<1>11. Reads(f, at, v, n, q, ends)
  BY <1>1, <1>7, <1>8, <1>10, Zenon DEF Reads, IsTable
<1>12. OpenTable(f)
  <2>1. f # <<>> /\ (n + 1) + q <= Len(f) - 1
    BY <1>1
  <2>2. Handle(n + 1, q).offset = n + 1 /\ Handle(n + 1, q).size = q
    BY DEF Handle
  <2>3. At(f, Handle(n + 1, q)) # <<>>
    <3> HIDE DEF index
    <3>1. index # <<>>
      BY <1>1, <1>7
    <3> QED
      BY <1>4, <3>1, Zenon DEF index
  <2> QED
    BY <1>3, <2>1, <2>2, <2>3, Zenon DEF OpenTable, ReadFooter, ReadIndexBlock
<1> QED
  BY <1>11, <1>12, Zenon

\* Every handle of the index leads to the rows of its block.
LEMMA TableBlocks ==
  ASSUME NEW at, NEW v, NEW n, HasRows(at, v, n), NEW q, NEW ends, NEW f, IsTable(f, at, v, n, q, ends),
         NEW i \in 1 .. q
  PROVE  IsBlock(At(f, Index(f)[i].handle), at, v, ends[i - 1], ends[i])
PROOF
<1> DEFINE a == ends[i - 1]
           b == ends[i]
           block == At(f, Handle(a, b - a))
<1>1. n \in Nat /\ q \in Nat /\ f \in Seq(FileCells) /\ n + q + 2 = Len(f) /\ Divides(ends, q, n)
  BY Zenon DEF IsTable, HasRows
<1>2. a \in 0 .. n /\ b \in 0 .. n /\ a <= b
  <2>1. i - 1 \in 0 .. q /\ i \in 0 .. q
    BY <1>1
  <2> QED
    BY <1>1, <2>1, Zenon DEF Divides
<1>3. Index(f)[i].handle = Handle(a, b - a)
  <2>0. Reads(f, at, v, n, q, ends)
    BY TableOpens, Zenon
  <2>1. Index(f)[i] = IndexCell(at, ends, i)
    BY <2>0, Zenon DEF Reads
  <2>2. IndexCell(at, ends, i).handle = Handle(a, b - a)
    BY DEF IndexCell
  <2> QED
    BY <2>1, <2>2, Zenon
<1> HIDE DEF a, b
<1>4. a \in Nat /\ b - a \in Nat /\ a + (b - a) <= Len(f) /\ a + (b - a) = b
  BY <1>1, <1>2
<1>5. block \in Seq(FileCells) /\ IsPart(block, f, a, b)
  BY <1>1, <1>4, AtFacts, Zenon
<1> HIDE DEF block
<1>6. DOMAIN block = 1 .. (b - a)
  <2>1. Len(block) = b - a
    BY <1>5, Zenon DEF IsPart
  <2> QED
    BY <1>5, <2>1
<1>7. ASSUME NEW t \in 1 .. (b - a)
      PROVE  block[t] = Row(at, v, a + t)
  <2>1. a + t \in 1 .. n
    BY <1>1, <1>2
  <2>2. block[t] = f[a + t]
    BY <1>5, Zenon DEF IsPart
  <2> QED
    BY <2>1, <2>2, Zenon DEF IsTable
<1>8. IsBlock(block, at, v, a, b)
  BY <1>6, <1>7, Zenon DEF IsBlock
<1> QED
  BY <1>3, <1>8, Zenon DEF block, a, b

\* The least of some numbers is one of them.
LEMMA MinFacts ==
  ASSUME NEW T \in SUBSET Nat, T # {}
  PROVE  Min(T) \in T /\ \A y \in T : Min(T) <= y
PROOF
<1>1. \E m \in T : \A y \in T : m <= y
  BY LeastNumber, Zenon
<1> QED
  BY <1>1, Zenon DEF Min

\* A filter lets every key pass that it was made from.
LEMMA FilterPasses ==
  ASSUME NEW keys \in Seq(Keys), NEW r \in 1 .. Len(keys)
  PROVE  KeyMayMatch(keys[r], CreateFilter(keys))
PROOF
<1> DEFINE bits == Bits(Len(keys))
<1>1. DOMAIN keys = 1 .. Len(keys)
  OBVIOUS
<1>2. /\ CreateFilter(keys).bits = bits
      /\ CreateFilter(keys).set = UNION {BitsOf(keys[i], bits) : i \in DOMAIN keys}
  BY DEF CreateFilter
<1> HIDE DEF bits
<1>3. BitsOf(keys[r], bits) \subseteq UNION {BitsOf(keys[i], bits) : i \in DOMAIN keys}
  BY <1>1, Zenon
<1> QED
  BY <1>2, <1>3, Zenon DEF KeyMayMatch

\* The keys of the rows are in the order of the rows.
LEMMA RowOrder ==
  ASSUME NEW at, NEW v, NEW n, HasRows(at, v, n), NEW e \in 0 .. n, NEW r \in 1 .. n
  PROVE  at[e] >= at[r] <=> r <= e
PROOF
<1>1. n \in Nat /\ at[0] = 0 /\ \A i \in 1 .. n : at[i] \in Keys
  BY Zenon DEF HasRows
<1>2. \A i, j \in 1 .. n : i < j => at[i] < at[j]
  BY Zenon DEF HasRows
<1>3. MaxKey \in Nat /\ at[r] \in 1 .. MaxKey
  BY <1>1, SkipListAssumption DEF Keys
<1>4. CASE e = 0
  BY <1>1, <1>3, <1>4
<1>5. CASE e \in 1 .. n /\ e < r
  BY <1>1, <1>2, <1>3, <1>5 DEF Keys
<1>6. CASE e \in 1 .. n /\ e = r
  BY <1>3, <1>6
<1>7. CASE e \in 1 .. n /\ r < e
  BY <1>1, <1>2, <1>3, <1>7 DEF Keys
<1> QED
  BY <1>1, <1>4, <1>5, <1>6, <1>7

\* The blocks whose last key is not before a key.
Later(f, key) == {i \in DOMAIN Index(f) : Index(f)[i].last_key >= key}

\* lower_bound gives a block, and when the key has a row, the block with that row.
LEMMA LowerBound ==
  ASSUME NEW at, NEW v, NEW n, HasRows(at, v, n), NEW q, NEW ends, NEW f, IsTable(f, at, v, n, q, ends),
         NEW r \in 1 .. n
  PROVE  LET i == Min(Later(f, at[r]))
         IN Later(f, at[r]) # {} /\ i \in 1 .. q /\ ends[i - 1] < r /\ r <= ends[i]
PROOF
<1> DEFINE T == Later(f, at[r])
           i == Min(T)
<1>1. Reads(f, at, v, n, q, ends)
  BY TableOpens, Zenon
<1>2. n \in Nat /\ q \in Nat /\ q >= 1 /\ ends \in [0 .. q -> 0 .. n] /\ ends[0] = 0 /\ ends[q] = n
  BY <1>1, Zenon DEF Reads, Divides, HasRows
<1>3. ASSUME NEW j \in 1 .. q PROVE j \in T <=> r <= ends[j]
  <2>1. Index(f)[j].last_key = at[ends[j]]
    <3>1. Index(f)[j] = IndexCell(at, ends, j)
      BY <1>1, Zenon DEF Reads
    <3>2. IndexCell(at, ends, j).last_key = at[ends[j]]
      BY DEF IndexCell
    <3> QED
      BY <3>1, <3>2, Zenon
  <2>2. j \in DOMAIN Index(f)
    BY <1>1, Zenon DEF Reads
  <2>3. ends[j] \in 0 .. n
    BY <1>2
  <2> QED
    BY <2>1, <2>2, <2>3, RowOrder, Zenon DEF Later
<1>4. T \subseteq 1 .. q
  BY <1>1, Zenon DEF Reads, Later
<1> HIDE DEF T
<1>5. q \in T
  BY <1>2, <1>3
<1>6. i \in T /\ \A y \in T : i <= y
  <2>1. T \in SUBSET Nat
    BY <1>2, <1>4
  <2> QED
    BY <1>5, <2>1, MinFacts, Zenon
<1> HIDE DEF i
<1>7. i \in 1 .. q /\ r <= ends[i]
  BY <1>3, <1>4, <1>6, Zenon
<1>8. ends[i - 1] < r
  <2>1. i - 1 \in 0 .. q /\ ~(i <= i - 1)
    BY <1>2, <1>7
  <2>2. i - 1 \notin T
    BY <1>6, <2>1, Zenon
  <2>3. CASE i - 1 = 0
    BY <1>2, <2>3
  <2>4. CASE i - 1 # 0
    <3>1. i - 1 \in 1 .. q
      BY <1>2, <1>7, <2>4
    <3>2. ~(r <= ends[i - 1]) /\ ends[i - 1] \in 0 .. n
      BY <1>2, <1>3, <2>1, <2>2, <3>1, Zenon
    <3> QED
      BY <1>2, <3>2
  <2> QED
    BY <2>3, <2>4, Zenon
<1> QED
  BY <1>5, <1>7, <1>8, Zenon DEF i, T

\* GetRecord finds the record of every row.
LEMMA RowFound ==
  ASSUME NEW at, NEW v, NEW n, HasRows(at, v, n), NEW q, NEW ends, NEW f, IsTable(f, at, v, n, q, ends),
         NEW r \in 1 .. n, NEW notFound
  PROVE  GetRecord(f, at[r], notFound) = v[at[r]]
PROOF
<1> DEFINE key == at[r]
           filter == ReadFilterBlock(f)
           later == Later(f, key)
           i == Min(later)
           block == At(f, Index(f)[i].handle)
           found == {j \in DOMAIN block : block[j].key = key}
           a == ends[i - 1]
           b == ends[i]
<1>1. later # {} /\ i \in 1 .. q /\ a < r /\ r <= b
  BY LowerBound, Zenon
<1> HIDE DEF i, later
<1>2. IsBlock(block, at, v, a, b)
  BY <1>1, TableBlocks, Zenon
<1>3. n \in Nat /\ q \in Nat /\ ends \in [0 .. q -> 0 .. n]
  BY Zenon DEF HasRows, IsTable, Divides
<1>4. a \in 0 .. n /\ b \in 0 .. n
  BY <1>1, <1>3
<1> HIDE DEF block, a, b
<1>5. r - a \in 1 .. (b - a) /\ a + (r - a) = r
  BY <1>1, <1>3, <1>4
<1>6. ASSUME NEW j \in 1 .. (b - a)
      PROVE  block[j].key = at[a + j] /\ block[j].record = v[at[a + j]]
  <2>1. block[j] = Row(at, v, a + j)
    BY <1>2, Zenon DEF IsBlock
  <2> QED
    BY <2>1 DEF Row
<1>7. DOMAIN block = 1 .. (b - a)
  BY <1>2, Zenon DEF IsBlock
<1>8. Min(found) \in found
  <2>1. found \in SUBSET Nat
    BY <1>3, <1>4, <1>7
  <2>2. r - a \in found
    BY <1>5, <1>6, <1>7, Zenon
  <2> HIDE DEF found
  <2> QED
    BY <2>1, <2>2, MinFacts, Zenon
<1>9. found # {} /\ block[Min(found)].record = v[key]
  BY <1>6, <1>7, <1>8, Zenon
<1>10. KeyMayMatch(key, filter[1].filter)
  <2>1. Reads(f, at, v, n, q, ends)
    BY TableOpens, Zenon
  <2>2. PICK keys \in Seq(Keys) : /\ Len(keys) = n /\ \A t \in 1 .. n : keys[t] = at[t]
                                  /\ filter[1].filter = CreateFilter(keys)
    BY <2>1, Zenon DEF Reads
  <2> QED
    BY <2>2, FilterPasses, Zenon
<1> HIDE DEF filter, found
<1>11. GetRecord(f, key, notFound) =
         IF \/ filter # <<>> /\ ~KeyMayMatch(key, filter[1].filter)
            \/ later = {} \/ found = {}
         THEN notFound
         ELSE block[Min(found)].record
  BY Zenon DEF GetRecord, Later, filter, later, found, block, i
<1> QED
  BY <1>1, <1>9, <1>10, <1>11, Zenon

NoRow(at, n, key) == \A r \in 1 .. n : at[r] # key

\* And for a key without a row it finds none.
LEMMA NoRowFound ==
  ASSUME NEW at, NEW v, NEW n, HasRows(at, v, n), NEW q, NEW ends, NEW f, IsTable(f, at, v, n, q, ends),
         NEW key, NoRow(at, n, key), NEW notFound
  PROVE  GetRecord(f, key, notFound) = notFound
PROOF
<1> DEFINE filter == ReadFilterBlock(f)
           later == Later(f, key)
           i == Min(later)
           block == At(f, Index(f)[i].handle)
           found == {j \in DOMAIN block : block[j].key = key}
           a == ends[i - 1]
           b == ends[i]
<1>1. ASSUME later # {} PROVE found = {}
  <2>1. later \subseteq 1 .. q
    <3>1. Reads(f, at, v, n, q, ends)
      BY TableOpens, Zenon
    <3> QED
      BY <3>1, Zenon DEF Reads, Later
  <2>2. n \in Nat /\ q \in Nat /\ ends \in [0 .. q -> 0 .. n]
    BY Zenon DEF HasRows, IsTable, Divides
  <2> HIDE DEF later
  <2>3. i \in 1 .. q
    <3>1. later \in SUBSET Nat
      BY <2>1, <2>2
    <3> QED
      BY <1>1, <2>1, <3>1, MinFacts, Zenon
  <2> HIDE DEF i
  <2>4. IsBlock(block, at, v, a, b)
    BY <2>3, TableBlocks, Zenon
  <2>5. a \in 0 .. n /\ b \in 0 .. n
    BY <2>2, <2>3
  <2> HIDE DEF block, a, b
  <2>6. ASSUME NEW j \in 1 .. (b - a)
        PROVE  block[j].key # key
    <3>1. block[j] = Row(at, v, a + j)
      BY <2>4, Zenon DEF IsBlock
    <3>2. block[j].key = at[a + j]
      BY <3>1 DEF Row
    <3>3. a + j \in 1 .. n
      BY <2>2, <2>5
    <3> QED
      BY <3>2, <3>3, Zenon DEF NoRow
  <2> QED
    BY <2>4, <2>6, Zenon DEF IsBlock
<1> HIDE DEF filter, found, block, i, later
<1>2. GetRecord(f, key, notFound) =
         IF \/ filter # <<>> /\ ~KeyMayMatch(key, filter[1].filter)
            \/ later = {} \/ found = {}
         THEN notFound
         ELSE block[Min(found)].record
  BY Zenon DEF GetRecord, Later, filter, later, found, block, i
<1> QED
  BY <1>1, <1>2, Zenon

-----------------------------------------------------------------------------
\* The first l rows, as ForEach hands them over.
Rows(at, v, l) == [r \in 1 .. l |-> <<at[r], v[at[r]]>>]

\* The rows of a block.
RowsOf(block) == [j \in DOMAIN block |-> <<block[j].key, block[j].record>>]

\* The rows up to a and those of a block that follows are the rows up to its end.
LEMMA RowsJoin ==
  ASSUME NEW at, NEW v, NEW a \in Nat, NEW b \in Nat, a <= b, NEW block, IsBlock(block, at, v, a, b)
  PROVE  Rows(at, v, a) \o RowsOf(block) = Rows(at, v, b)
PROOF
<1> DEFINE pair(r) == <<at[r], v[at[r]]>>
           S == {pair(r) : r \in Nat}
           x == Rows(at, v, a)
           y == RowsOf(block)
           z == Rows(at, v, b)
<1>1. ASSUME NEW j \in 1 .. (b - a)
      PROVE  <<block[j].key, block[j].record>> = pair(a + j)
  <2>1. block[j] = Row(at, v, a + j)
    BY Zenon DEF IsBlock
  <2>2. block[j].key = at[a + j] /\ block[j].record = v[at[a + j]]
    BY <2>1 DEF Row
  <2> QED
    BY <2>2, Zenon
<1>2. y = [j \in 1 .. (b - a) |-> pair(a + j)]
  BY <1>1, Zenon DEF IsBlock, RowsOf
<1>3. x = [r \in 1 .. a |-> pair(r)] /\ z = [r \in 1 .. b |-> pair(r)]
  BY Zenon DEF Rows
<1>4. \A r \in Nat : pair(r) \in S
  BY Zenon
<1> HIDE DEF x, y, z, pair, S
<1>5. x \in Seq(S) /\ Len(x) = a /\ z \in Seq(S) /\ Len(z) = b
  BY <1>3, <1>4
<1>6. y \in Seq(S) /\ Len(y) = b - a
  BY <1>2, <1>4
<1> DEFINE u == x \o y
<1>7. u \in Seq(S) /\ IsConcat(u, x, y)
  BY <1>5, <1>6, ConcatFacts, Zenon
<1> HIDE DEF u
<1>8. /\ Len(u) = a + (b - a) /\ \A r \in 1 .. a : u[r] = x[r]
      /\ \A j \in 1 .. (b - a) : u[a + j] = y[j]
  BY <1>5, <1>6, <1>7, Zenon DEF IsConcat
<1>9. ASSUME NEW r \in 1 .. b PROVE u[r] = z[r]
  <2>1. CASE r <= a
    <3>1. r \in 1 .. a
      BY <2>1
    <3> QED
      BY <1>3, <1>8, <3>1, Zenon
  <2>2. CASE ~(r <= a)
    <3>1. r - a \in 1 .. (b - a) /\ a + (r - a) = r
      BY <2>2
    <3> QED
      BY <1>2, <1>3, <1>8, <3>1, Zenon
  <2> QED
    BY <2>1, <2>2, Zenon
<1>10. Len(u) = b
  BY <1>8
<1>11. u = z
  BY <1>5, <1>7, <1>9, <1>10
<1> QED
  BY <1>11, Zenon DEF u, x, y, z

\* ForEach hands over every row, in order.
LEMMA ForEachRows ==
  ASSUME NEW at, NEW v, NEW n, HasRows(at, v, n), NEW q, NEW ends, NEW f, IsTable(f, at, v, n, q, ends)
  PROVE  ForEach(f) = Rows(at, v, n)
PROOF
<1> DEFINE I == 0 .. q
           part(i) == RowsOf(At(f, Index(f)[i].handle))
           Body(g) == [i \in I |-> IF i = 0 THEN <<>> ELSE g[i - 1] \o part(i)]
           upto[i \in I] == IF i = 0 THEN <<>> ELSE upto[i - 1] \o part(i)
           w == [i \in I |-> Rows(at, v, ends[i])]
<1>1. Len(Index(f)) = q
  <2>1. Reads(f, at, v, n, q, ends)
    BY TableOpens, Zenon
  <2> QED
    BY <2>1, Zenon DEF Reads
<1>2. ForEach(f) = upto[q]
  BY <1>1, Zenon DEF ForEach, RowsOf
<1>3. /\ n \in Nat /\ q \in Nat /\ ends \in [0 .. q -> 0 .. n] /\ ends[0] = 0 /\ ends[q] = n
      /\ \A i \in 1 .. q : ends[i - 1] <= ends[i]
  BY Zenon DEF HasRows, IsTable, Divides
<1>4. ASSUME NEW i \in 1 .. q
      PROVE  Rows(at, v, ends[i - 1]) \o part(i) = Rows(at, v, ends[i])
  <2>1. IsBlock(At(f, Index(f)[i].handle), at, v, ends[i - 1], ends[i])
    BY TableBlocks, Zenon
  <2>2. ends[i - 1] \in Nat /\ ends[i] \in Nat /\ ends[i - 1] <= ends[i]
    BY <1>3
  <2> QED
    BY <2>1, <2>2, RowsJoin, Zenon
<1>5. Rows(at, v, 0) = <<>>
  BY DEF Rows
<1> HIDE DEF part
<1>6. w = Body(w)
  <2>1. ASSUME NEW i \in I
        PROVE  Rows(at, v, ends[i]) = IF i = 0 THEN <<>> ELSE w[i - 1] \o part(i)
    <3>1. CASE i = 0
      BY <1>3, <1>5, <3>1, Zenon
    <3>2. CASE i # 0
      <4>1. i \in 1 .. q /\ i - 1 \in I
        BY <1>3, <3>2
      <4>2. w[i - 1] = Rows(at, v, ends[i - 1])
        BY <4>1, Zenon
      <4> QED
        BY <1>4, <3>2, <4>1, <4>2, Zenon
    <3> QED
      BY <3>1, <3>2, Zenon
  <2> QED
    BY <2>1, Zenon
<1>7. upto = Body(upto)
  <2>1. upto = CHOOSE g : g = Body(g)
    BY Zenon DEF upto
  <2> HIDE DEF w
  <2> QED
    BY <1>6, <2>1, Zenon
<1> HIDE DEF upto
<1>8. ASSUME NEW i \in I PROVE upto[i] = Rows(at, v, ends[i])
  <2> DEFINE Bad == {j \in I : upto[j] # Rows(at, v, ends[j])}
  <2>1. ASSUME Bad # {} PROVE FALSE
    <3>1. Bad \in SUBSET Nat
      BY <1>3
    <3>2. PICK j \in Bad : \A k \in Bad : j <= k
      <4> HIDE DEF Bad
      <4> QED
        BY <2>1, <3>1, LeastNumber, Zenon
    <3>3. j \in I /\ upto[j] # Rows(at, v, ends[j])
      BY Zenon
    <3>4. upto[j] = IF j = 0 THEN <<>> ELSE upto[j - 1] \o part(j)
      BY <1>7, <3>3, Zenon
    <3>5. j # 0
      BY <1>3, <1>5, <3>3, <3>4, Zenon
    <3>6. j \in 1 .. q /\ j - 1 \in I /\ ~(j <= j - 1)
      BY <1>3, <3>3, <3>5
    <3>7. upto[j - 1] = Rows(at, v, ends[j - 1])
      BY <3>2, <3>6, Zenon
    <3> QED
      BY <1>4, <3>3, <3>4, <3>5, <3>6, <3>7, Zenon
  <2> QED
    BY <2>1, Zenon
<1>9. q \in I
  BY <1>3
<1> QED
  BY <1>2, <1>3, <1>8, <1>9, Zenon

-----------------------------------------------------------------------------
\* A file that does not end with a footer is refused.
LEMMA NoFooterNoTable ==
  ASSUME NEW S, NEW f \in Seq(S), NEW m \in 0 .. Len(f), m > 0 => f[m].cell # "footer"
  PROVE  ~OpenTable(SubSeq(f, 1, m))
PROOF
<1> DEFINE u == SubSeq(f, 1, m)
<1>1. CASE m = 0
  <2>1. u = <<>>
    BY <1>1
  <2> QED
    BY <2>1, Zenon DEF OpenTable, ReadFooter
<1>2. CASE m # 0
  <2>1. m > 0 /\ Len(u) = m /\ u[m] = f[m]
    BY <1>2
  <2> HIDE DEF u
  <2>2. ~DecodeFrom(u[Len(u)])
    BY <2>1, Zenon DEF DecodeFrom
  <2> QED
    BY <2>2, Zenon DEF OpenTable, ReadFooter, u
<1> QED
  BY <1>1, <1>2, Zenon

\* A table has no footer before its last cell.
LEMMA OneFooter ==
  ASSUME NEW at, NEW v, NEW n \in Nat, NEW q, NEW ends, NEW f, IsTable(f, at, v, n, q, ends),
         NEW m \in 1 .. Len(f), m # Len(f)
  PROVE  f[m].cell # "footer"
PROOF
<1>1. q \in Nat /\ Len(f) = n + q + 2
  BY Zenon DEF IsTable
<1>2. CASE m <= n
  <2>1. m \in 1 .. n
    BY <1>2
  <2>2. f[m] = Row(at, v, m)
    BY <2>1, Zenon DEF IsTable
  <2> QED
    BY <2>2 DEF Row
<1>3. CASE m = n + 1
  <2>1. PICK keys : f[n + 1] = FilterCell(keys)
    BY Zenon DEF IsTable
  <2> QED
    BY <1>3, <2>1 DEF FilterCell
<1>4. CASE ~(m <= n) /\ m # n + 1
  <2>1. m - (n + 1) \in 1 .. q /\ n + 1 + (m - (n + 1)) = m
    BY <1>1, <1>4
  <2>2. f[m] = IndexCell(at, ends, m - (n + 1))
    BY <2>1, Zenon DEF IsTable
  <2> QED
    BY <2>2 DEF IndexCell
<1> QED
  BY <1>2, <1>3, <1>4, Zenon
=============================================================================
