------------------------------ MODULE SSTable -------------------------------
(***************************************************************************)
(* The file of an SSTable, as SSTableBuilder writes it and SSTableReader     *)
(* reads it: data blocks, a Bloom filter, an index with the last key and the *)
(* place of each block, and a footer with the places of index and filter.    *)
(*                                                                           *)
(* The file is a sequence of cells: an entry of a block, an entry of the     *)
(* index, the filter and the footer are one cell each, and offsets and sizes *)
(* count cells.  What an entry adds to CurrentSizeEstimate is EntrySize.     *)
(***************************************************************************)
EXTENDS Integers, Sequences, FiniteSetsExt

CONSTANTS
  BlockLimit,      \* 4096 in the code
  EntrySize(_, _), \* bytes of an entry with this key and record
  BloomHash(_),    \* BloomHash, below 2^HashBits
  HashBits,        \* 32 in the code
  Rotate,          \* 15 in the code: delta is h rotated left by so much
  BitsPerKey,      \* 10 in the code
  MinBits,         \* 64 in the code
  Probes           \* bits_per_key_ * 0.69 in the code, 6

Bits(n) == LET bits == IF n * BitsPerKey < MinBits THEN MinBits ELSE n * BitsPerKey
           IN ((bits + 7) \div 8) * 8

\* The bits of a key in a filter of so many bits: h, h + delta, ... as unsigned numbers.
BitsOf(key, bits) ==
  LET h == BloomHash(key)
      low == 2 ^ (HashBits - Rotate)
      delta == (h \div low) + (h % low) * 2 ^ Rotate
  IN {((h + j * delta) % 2 ^ HashBits) % bits : j \in 0 .. (Probes - 1)}

CreateFilter(keys) ==
  [bits |-> Bits(Len(keys)), set |-> UNION {BitsOf(keys[i], Bits(Len(keys))) : i \in DOMAIN keys}]
KeyMayMatch(key, filter) == BitsOf(key, filter.bits) \subseteq filter.set

-----------------------------------------------------------------------------
(* SSTableBuilder.                                                           *)

Handle(offset, size) == [offset |-> offset, size |-> size]
NoHandle == Handle(0, 0)
NewBuilder == [file |-> <<>>, data_block |-> <<>>, last_key |-> 0, index_entries |-> <<>>, keys |-> <<>>]

\* BlockBuilder: an entry at the end, and the size so far.
BlockAdd(block, key, record) == Append(block, [cell |-> "entry", key |-> key, record |-> record])
CurrentSizeEstimate(block) ==
  LET size[n \in 0 .. Len(block)] ==
        IF n = 0 THEN 0 ELSE size[n - 1] + EntrySize(block[n].key, block[n].record)
  IN size[Len(block)]

WriteDataBlock(b) ==
  [b EXCEPT !.file = @ \o b.data_block, !.data_block = <<>>,
            !.index_entries = Append(@, [last_key |-> b.last_key,
                                         handle |-> Handle(Len(b.file), Len(b.data_block))])]

\* A builder that takes the key of the next entry for the last of the block it writes.
AddThenWrite(b, key, record) ==
  LET named == [b EXCEPT !.last_key = key]
      room == IF CurrentSizeEstimate(b.data_block) >= BlockLimit THEN WriteDataBlock(named) ELSE named
  IN [room EXCEPT !.data_block = BlockAdd(@, key, record),
                  !.keys = Append(@, key)]
Add(b, key, record) ==
  LET room == IF CurrentSizeEstimate(b.data_block) >= BlockLimit THEN WriteDataBlock(b) ELSE b
  IN [room EXCEPT !.data_block = BlockAdd(@, key, record),
                  !.keys = Append(@, key), !.last_key = key]

WriteFilterBlock(keys) ==
  IF keys = <<>> THEN <<>> ELSE <<[cell |-> "filter", filter |-> CreateFilter(keys)]>>
WriteIndexBlock(entries) ==
  [i \in DOMAIN entries |->
     [cell |-> "index", last_key |-> entries[i].last_key, handle |-> entries[i].handle]]
Footer(index, filter) == [cell |-> "footer", index_handle |-> index, filter_handle |-> filter]

\* Finish: the last block, the filter, the index, the footer.
Finish(b) ==
  LET blocks == IF b.data_block = <<>> THEN b ELSE WriteDataBlock(b)
      filter == WriteFilterBlock(b.keys)
      index == WriteIndexBlock(blocks.index_entries)
      n == Len(blocks.file)
      footer == Footer(Handle(n + Len(filter), Len(index)),
                       IF filter = <<>> THEN NoHandle ELSE Handle(n, Len(filter)))
  IN blocks.file \o filter \o index \o <<footer>>

-----------------------------------------------------------------------------
(* SSTableReader.                                                            *)

At(file, handle) == SubSeq(file, handle.offset + 1, handle.offset + handle.size)

\* DecodeFrom: the magic number.  ReadFooter: the last cell of the file.
DecodeFrom(cell) == cell.cell = "footer"
ReadFooter(file) == file # <<>> /\ DecodeFrom(file[Len(file)])

\* The index lies before the footer and is not empty.
ReadIndexBlock(file) ==
  LET h == file[Len(file)].index_handle
  IN h.offset + h.size <= Len(file) - 1 /\ At(file, h) # <<>>

ReadFilterBlock(file) == At(file, file[Len(file)].filter_handle)

\* Open; FALSE for nullptr.
OpenUnchecked(file) == file # <<>>
OpenTable(file) == ReadFooter(file) /\ ReadIndexBlock(file)

Index(file) == At(file, file[Len(file)].index_handle)

\* GetRecord: the filter, lower_bound in the index, a scan of the block.
GetRecord(file, key, notFound) ==
  LET filter == ReadFilterBlock(file)
      index == Index(file)
      later == {i \in DOMAIN index : index[i].last_key >= key}
      block == At(file, index[Min(later)].handle)
      found == {i \in DOMAIN block : block[i].key = key}
  IN IF \/ filter # <<>> /\ ~KeyMayMatch(key, filter[1].filter)
        \/ later = {} \/ found = {}
     THEN notFound
     ELSE block[Min(found)].record

\* ForEach: the entries of every block, in the order of the index.
ForEach(file) ==
  LET index == Index(file)
      rows(i) == LET block == At(file, index[i].handle)
                 IN [j \in DOMAIN block |-> <<block[j].key, block[j].record>>]
      upto[n \in 0 .. Len(index)] == IF n = 0 THEN <<>> ELSE upto[n - 1] \o rows(n)
  IN upto[Len(index)]
=============================================================================
