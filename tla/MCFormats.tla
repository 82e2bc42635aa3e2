----------------------------- MODULE MCFormats ------------------------------
(***************************************************************************)
(* Instances of ManifestManager, SkipList, MemTable (with SSTable) and         *)
(* RESPInput.  They share nothing, so a behaviour takes the steps of one of    *)
(* them.                                                                      *)
(***************************************************************************)
EXTENDS ManifestManager, MemTable, RESPInput

VARIABLE part

partVars == <<part, vars, listVars, memVars, inputVars>>

PartInit ==
  /\ part \in {"manifest", "list", "memtable", "input"}
  /\ Init /\ MemInit /\ InputInit
  /\ part # "input" => messages = <<>>

PartNext ==
  /\ UNCHANGED part
  /\ \/ part = "manifest" /\ Next /\ UNCHANGED <<listVars, memVars, inputVars>>
     \/ part = "list" /\ ListNext /\ UNCHANGED <<vars, memVars, inputVars>>
     \/ part = "memtable" /\ MemNext /\ UNCHANGED <<vars, inputVars>>
     \/ part = "input" /\ InputNext /\ UNCHANGED <<vars, listVars, memVars>>

PartSpec == PartInit /\ [][PartNext]_partVars

-----------------------------------------------------------------------------
\* Removals make shorter entries; a table of 1 and 2 has the bits of 3 in its filter.
MCEntrySize(k, r) == IF r = Deletion THEN 1 ELSE 2
MCBloomHash(k) == (k * 37 + 5) % 64

Text(mark, n) == [mark |-> mark, n |-> n]
Bulk(bytes) == <<Text("$", Len(bytes)), CR, LF>> \o bytes \o <<CR, LF>>
Command(args) ==
  [kind |-> "command", args |-> args,
   bytes |-> <<Text("*", Len(args)), CR, LF>> \o Concat([i \in DOMAIN args |-> Bulk(args[i])])]
Other(kind, bytes) == [kind |-> kind, args |-> <<>>, bytes |-> bytes]

\* Commands with empty arguments and with data that looks like the protocol, nulls and blank
\* lines between arguments, a blank line, data that is too long, a header out of place.
MCMessages ==
  {Command(<<>>), Command(<<<<>>>>), Command(<<<<CR, LF>>, <<LF>>>>), Command(<<<<Text("*", 0), CR>>>>),
   [kind |-> "command", args |-> <<<<>>, <<>>>>,
    bytes |-> <<Text("*", 2), CR, LF, Text("$", -1), CR, LF, CR, LF, Text("$", -1), CR, LF>>],
   Other("blank", <<CR, LF>>),
   Other("broken", <<Text("*", 1), CR, LF, Text("$", 1), CR, LF, LF, LF, CR>>),
   Other("broken", <<Text("$", 0), CR, LF>>), Other("broken", <<Text("*", -1), CR, LF>>)}
=============================================================================
