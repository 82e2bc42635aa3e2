------------------------------ MODULE KVStore ------------------------------
(***************************************************************************)
(* What DBImpl promises its callers while the database is open: one map     *)
(* from keys to values.  A write replaces the value of one key at one       *)
(* instant; a Get, and a whole NewIterator, answers from the map as it is   *)
(* at one instant.                                                          *)
(***************************************************************************)
CONSTANTS Keys, Values, None, Readers

VARIABLES store,   \* the current value of each key, None where there is none
          answer   \* the latest answer given to each reader

vars == <<store, answer>>

Init ==
  /\ store = [k \in Keys |-> None]
  /\ answer = [r \in Readers |-> [k \in Keys |-> None]]

\* Put of a value, or of a tombstone (None).
Write(k, v) ==
  /\ store' = [store EXCEPT ![k] = v]
  /\ UNCHANGED answer

\* One atomic look at the keys K: a single key for Get, all of them for NewIterator.
Read(r, K) ==
  /\ answer' = [answer EXCEPT ![r] = [k \in Keys |-> IF k \in K THEN store[k] ELSE None]]
  /\ UNCHANGED store

Next ==
  \/ \E k \in Keys, v \in Values \cup {None} : Write(k, v)
  \/ \E r \in Readers, K \in SUBSET Keys : Read(r, K)

Spec == Init /\ [][Next]_vars
=============================================================================
