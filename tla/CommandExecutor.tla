-------------------------- MODULE CommandExecutor --------------------------
(***************************************************************************)
(* CommandExecutor: one parsed command against the store, as pure operators.  *)
(* The store is the map that DBImpl implements (module KVStore).  A reply is   *)
(* what the RESP encoder is asked for; its bytes are left out.                *)
(***************************************************************************)
EXTENDS Integers

CONSTANTS
  Keys,     \* a set of integers: std::string is ordered
  Null      \* no visible value

ASSUME KeysAssumption == Keys \subseteq Int

\* The names that Execute compares with; any other is unknown, as is the empty command.
CommandNames == {"SET", "GET", "DEL", "RSCAN"}
ExpectedArgCount == [c \in CommandNames |-> IF c = "SET" THEN 3 ELSE 2]

Ok == [kind |-> "ok"]
Error == [kind |-> "error"]
NullBulk == [kind |-> "null"]
Bulk(v) == [kind |-> "bulk", value |-> v]
Array(rows) == [kind |-> "array", rows |-> rows]

\* The dispatch on the name, and ExpectArgCount.
WellFormed(c) == c.name \in CommandNames /\ c.argc = ExpectedArgCount[c.name]

IsWrite(c) == WellFormed(c) /\ c.name \in {"SET", "DEL"}

\* HandleRScan: the visible rows from start_key on (the iterator gives them in key order).
RowsFrom(db, start) == [k \in {k \in Keys : k >= start /\ db[k] # Null} |-> db[k]]

\* Execute: what is answered ...
Reply(c, db) ==
  IF ~WellFormed(c) THEN Error
  ELSE CASE c.name \in {"SET", "DEL"} -> Ok
         [] c.name = "GET" -> IF db[c.key] = Null THEN NullBulk ELSE Bulk(db[c.key])
         [] c.name = "RSCAN" -> Array(RowsFrom(db, c.key))

\* ... and what becomes of the store: Put with the value, or with a deletion.
Effect(c, db) == [db EXCEPT ![c.key] = IF c.name = "SET" THEN c.value ELSE Null]
=============================================================================
