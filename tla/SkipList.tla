------------------------------ MODULE SkipList ------------------------------
(***************************************************************************)
(* SkipList: sorted nodes with a forward pointer on each of their levels.    *)
(* MemTable calls it under its lock, so an operation is one step; the height *)
(* of a new node is drawn at random.                                         *)
(*                                                                           *)
(* A node is its key.  The head is less than every key, and the null pointer *)
(* greater, so "there is a next node and its key is less" is one comparison. *)
(* next[n] has as many pointers as the node has levels: to follow one that   *)
(* is not there is an error that TLC reports.                                *)
(***************************************************************************)
EXTENDS Integers, Sequences

CONSTANTS
  MaxKey,     \* the keys are 1 .. MaxKey, in their order
  MaxLevel,   \* max_level, 16 in the code
  Records,    \* what is stored under a key
  NotFound    \* search_element returned false

ASSUME SkipListAssumption == MaxKey \in Nat /\ MaxLevel \in Nat \ {0} /\ NotFound \notin Records

Keys == 1 .. MaxKey
HeadNode == 0
Null == MaxKey + 1
Levels == 0 .. (MaxLevel - 1)

VARIABLES next, value, current_level, node_count,
  content     \* history: the map that the list stands for

listVars == <<next, value, current_level, node_count, content>>

ListInit ==
  /\ next = [n \in {HeadNode} |-> [i \in Levels |-> Null]] /\ value = <<>>
  /\ current_level = 0 /\ node_count = 0 /\ content = [k \in Keys |-> NotFound]

\* The nodes that have level i.
On(i) == {n \in DOMAIN next : i \in DOMAIN next[n]}

\* Along level i, from curr to the last node before key.
Forward(curr, i, key) ==
  LET last[n \in On(i)] == IF next[n][i] < key THEN last[next[n][i]] ELSE n
  IN last[curr]

\* update: the predecessor of key on each level, found from the top level down.
Update(key) ==
  LET up[i \in 0 .. MaxLevel] ==
        IF i >= current_level THEN HeadNode ELSE Forward(up[i + 1], i, key)
  IN up

search_element(key) ==
  IF next[Update(key)[0]][0] = key THEN value[key] ELSE NotFound

\* The level of the list with a node of this height in it; and of one that never grows.
NotRaised(level) == current_level
Raised(level) == IF level > current_level THEN level ELSE current_level

\* A list whose new node takes its successors from the predecessors' new pointers.
insert_unlinked(key, rec) ==
  LET up == Update(key)
  IN /\ content' = [content EXCEPT ![key] = rec]
     /\ IF next[up[0]][0] = key
        THEN value' = [value EXCEPT ![key] = rec] /\ UNCHANGED <<next, current_level, node_count>>
        ELSE \E level \in 1 .. MaxLevel :
               /\ next' = [n \in DOMAIN next \cup {key} |->
                             IF n = key THEN [i \in 0 .. (level - 1) |-> Null]
                             ELSE [i \in DOMAIN next[n] |->
                                     IF i < level /\ up[i] = n THEN key ELSE next[n][i]]]
               /\ value' = [k \in DOMAIN value \cup {key} |-> IF k = key THEN rec ELSE value[k]]
               /\ current_level' = Raised(level)
               /\ node_count' = node_count + 1

insert_element(key, rec) ==
  LET up == Update(key)
  IN /\ content' = [content EXCEPT ![key] = rec]
     /\ IF next[up[0]][0] = key
        THEN value' = [value EXCEPT ![key] = rec] /\ UNCHANGED <<next, current_level, node_count>>
        ELSE \E level \in 1 .. MaxLevel :   \* get_random_level
               /\ next' = [n \in DOMAIN next \cup {key} |->
                             IF n = key THEN [i \in 0 .. (level - 1) |-> next[up[i]][i]]
                             ELSE [i \in DOMAIN next[n] |->
                                     IF i < level /\ up[i] = n THEN key ELSE next[n][i]]]
               /\ value' = [k \in DOMAIN value \cup {key} |-> IF k = key THEN rec ELSE value[k]]
               /\ current_level' = Raised(level)
               /\ node_count' = node_count + 1

\* delete_element: unlink the node from level 0 up, as far as it goes; then drop the levels
\* that are empty.  No caller in the store uses it: a removal there is a record of its own.
delete_element(key) ==
  LET up == Update(key)
      here == {i \in 0 .. (current_level - 1) : \A j \in 0 .. i : next[up[j]][j] = key}
      unlinked == [n \in DOMAIN next \ {key} |->
                     [i \in DOMAIN next[n] |-> IF i \in here /\ up[i] = n THEN next[key][i] ELSE next[n][i]]]
  IN /\ next[up[0]][0] = key
     /\ next' = unlinked
     /\ value' = [k \in DOMAIN value \ {key} |-> value[k]]
     /\ current_level' = CHOOSE l \in 0 .. current_level :
                           /\ l > 0 => unlinked[HeadNode][l - 1] # Null
                           /\ \A m \in l .. (current_level - 1) : unlinked[HeadNode][m] = Null
     /\ node_count' = node_count - 1
     /\ content' = [content EXCEPT ![key] = NotFound]

\* Where the iterator is after so many steps from the head: begin is the first of them, and
\* Next stays where there is no node.
Iterator ==
  LET at[i \in 0 .. Null] ==
        IF i = 0 THEN HeadNode ELSE IF at[i - 1] = Null THEN Null ELSE next[at[i - 1]][0]
  IN at

\* The rows it gives as long as it is Valid.
Snapshot ==
  LET at == Iterator
  IN [i \in {j \in 1 .. MaxKey : at[j] # Null} |-> <<at[i], value[at[i]]>>]

ListNext ==
  \E k \in Keys : delete_element(k) \/ \E r \in Records : insert_element(k, r)

ListSpec == ListInit /\ [][ListNext]_listVars

-----------------------------------------------------------------------------
\* Whatever heights were drawn and whatever was inserted and deleted, a search finds what
\* was inserted last, the iterator gives every key once and in order, and size counts them.
Stored == {k \in Keys : content[k] # NotFound}
ListIsMap ==
  LET rows == Snapshot
  IN /\ \A k \in Keys : search_element(k) = content[k]
     /\ \A k \in Stored : \E i \in 1 .. Len(rows) : rows[i] = <<k, content[k]>>
     /\ \A i \in 1 .. Len(rows) : rows[i][1] \in Stored
     /\ \A i, j \in 1 .. Len(rows) : i < j => rows[i][1] < rows[j][1]
     /\ node_count = Len(rows)

\* How the nodes hang together.  A node has the levels 0 .. h - 1, the head all of them; a
\* pointer leads to the next node of its level, or to none when there is none; the levels
\* from current_level on are empty; and the nodes are the keys of the map, with its records.
Linked ==
  /\ HeadNode \in DOMAIN next /\ DOMAIN next[HeadNode] = Levels
  /\ DOMAIN value = DOMAIN next \ {HeadNode} /\ DOMAIN value = Stored
  /\ \A k \in Stored : value[k] = content[k]
  /\ current_level \in 0 .. MaxLevel
  /\ \A k \in Stored : \E h \in 1 .. current_level : DOMAIN next[k] = 0 .. (h - 1)
  /\ \A n \in DOMAIN next : \A i \in DOMAIN next[n] :
       /\ next[n][i] \in On(i) \cup {Null} /\ next[n][i] > n
       /\ \A m \in On(i) : m > n => next[n][i] <= m
=============================================================================
