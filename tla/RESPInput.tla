----------------------------- MODULE RESPInput ------------------------------
(***************************************************************************)
(* The input of one connection: NetworkBuffer, which takes what readv gives,  *)
(* and RESPParser, which takes commands out of it, in HandleRead's loop.      *)
(* What a client sends arrives in pieces of any size.                         *)
(*                                                                           *)
(* A byte is CR, LF, or anything else; the text of a header, "*3" or "$-1",    *)
(* is one byte [mark, n] here, for it is read only when its line is complete. *)
(* Data may hold any bytes, CR LF and headers among them.                     *)
(***************************************************************************)
EXTENDS Integers, Sequences, FiniteSetsExt

CONSTANTS
  Messages,     \* what a client may send: [bytes, kind], see below
  MaxMessages,  \* bound: how many of them
  InitialSize,  \* 1024 in the code
  ExtraSize,    \* the size of extra_buffer, 65536 in the code
  CR, LF, Junk  \* bytes; Junk is what a cell of buffer_ holds before it is written

ASSUME InputAssumption == InitialSize \in Nat /\ ExtraSize \in Nat

VARIABLES
  messages,     \* what the client sends
  arrived,      \* how many bytes readv has taken
  buffer_, read_index_, write_index_,
  state_, array_size_, bulk_len_, current_command_,
  status,       \* "read": wait for input; "parse": HandleRead's loop; "failed": ERROR
  commands      \* the commands that were parsed

bufferVars == <<buffer_, read_index_, write_index_>>
parserVars == <<state_, array_size_, bulk_len_, current_command_>>
inputVars == <<messages, arrived, bufferVars, parserVars, status, commands>>

\* The sequences of seqs, one after the other.
Concat(seqs) ==
  LET upto[n \in 0 .. Len(seqs)] == IF n = 0 THEN <<>> ELSE upto[n - 1] \o seqs[n]
  IN upto[Len(seqs)]

Bytes == Concat([i \in DOMAIN messages |-> messages[i].bytes])

InputInit ==
  /\ messages \in UNION {[1 .. n -> Messages] : n \in 0 .. MaxMessages}
  /\ arrived = 0
  /\ buffer_ = [i \in 1 .. InitialSize |-> Junk] /\ read_index_ = 0 /\ write_index_ = 0
  /\ state_ = "EXPECT_ARRAY_SIZE" /\ array_size_ = 0 /\ bulk_len_ = 0 /\ current_command_ = <<>>
  /\ status = "read" /\ commands = <<>>

-----------------------------------------------------------------------------
(* NetworkBuffer.                                                            *)

ReadableBytes == write_index_ - read_index_
WritableBytes == Len(buffer_) - write_index_
Unread == SubSeq(buffer_, read_index_ + 1, write_index_)

\* cells of b from index at on are overwritten with data.
Overwrite(b, at, data) ==
  [i \in DOMAIN b |-> IF i \in (at + 1) .. (at + Len(data)) THEN data[i - at] ELSE b[i]]

\* A MakeSpace that leaves read_index_ where it was.
MadeSpaceUnmoved(b, read, write, len) ==
  IF Len(b) - write + read < len
  THEN [cells |-> [i \in 1 .. (write + len) |-> IF i <= Len(b) THEN b[i] ELSE Junk],
        read |-> read, write |-> write]
  ELSE [cells |-> Overwrite(b, 0, SubSeq(b, read + 1, write)), read |-> read, write |-> write - read]

\* MakeSpace(len) when everything from write on is taken: grow, or move to the front.
MadeSpace(b, read, write, len) ==
  IF Len(b) - write + read < len
  THEN [cells |-> [i \in 1 .. (write + len) |-> IF i <= Len(b) THEN b[i] ELSE Junk],
        read |-> read, write |-> write]
  ELSE [cells |-> Overwrite(b, 0, SubSeq(b, read + 1, write)), read |-> 0, write |-> write - read]

\* ReadFromFd: readv fills the cells that are free, and the extra buffer; what is in there
\* is appended.
ReadFromFd ==
  \E n \in 1 .. (WritableBytes + ExtraSize) :
    LET data == SubSeq(Bytes, arrived + 1, arrived + n)
        here == Min({n, WritableBytes})
        filled == Overwrite(buffer_, write_index_, SubSeq(data, 1, here))
        extra == SubSeq(data, here + 1, n)
        space == MadeSpace(filled, read_index_, Len(filled), Len(extra))
    IN /\ status = "read" /\ status' = "parse"
       /\ arrived + n <= Len(Bytes) /\ arrived' = arrived + n
       /\ IF extra = <<>>
          THEN buffer_' = filled /\ write_index_' = write_index_ + n /\ UNCHANGED read_index_
          ELSE /\ buffer_' = Overwrite(space.cells, space.write, extra)
               /\ read_index_' = space.read /\ write_index_' = space.write + Len(extra)
       /\ UNCHANGED <<messages, parserVars, commands>>

\* Retrieve(len).
Retrieve(len) ==
  /\ IF len < ReadableBytes
     THEN read_index_' = read_index_ + len /\ UNCHANGED write_index_
     ELSE read_index_' = 0 /\ write_index_' = 0
  /\ UNCHANGED buffer_

\* FindCRLF: where the next CR LF begins, counted from Peek; -1 if there is none.
FindCRLF ==
  LET at == {i \in 1 .. (ReadableBytes - 1) : Unread[i] = CR /\ Unread[i + 1] = LF}
  IN IF at = {} THEN -1 ELSE Min(at) - 1

-----------------------------------------------------------------------------
(* RESPParser.                                                               *)

Incomplete == status' = "read" /\ UNCHANGED <<bufferVars, parserVars, commands>>
Error == status' = "failed" /\ UNCHANGED <<bufferVars, parserVars, commands>>

\* SUCCESS with this command: Reset, and HandleRead parses on.
Success(command) ==
  /\ commands' = Append(commands, command)
  /\ state_' = "EXPECT_ARRAY_SIZE" /\ array_size_' = 0 /\ bulk_len_' = 0 /\ current_command_' = <<>>
  /\ UNCHANGED status

\* A line is complete.
Line == FindCRLF >= 0

\* The header of a line that has this mark, a number, and nothing else before CR LF.
HeaderOf(mark) ==
  IF FindCRLF = 1 /\ Unread[1] \notin {CR, LF, Junk} /\ Unread[1].mark = mark
  THEN {Unread[1].n} \cap Int ELSE {}

ParseArraySize ==
  /\ status = "parse" /\ state_ = "EXPECT_ARRAY_SIZE"
  /\ IF ReadableBytes = 0 \/ ~Line THEN Incomplete
     ELSE IF FindCRLF = 0 THEN Retrieve(2) /\ UNCHANGED <<parserVars, status, commands>>
     ELSE IF HeaderOf("*") = {} \/ \E n \in HeaderOf("*") : n < 0 THEN Error
     ELSE \E n \in HeaderOf("*") :
            /\ Retrieve(FindCRLF + 2)
            /\ IF n = 0 THEN Success(<<>>)
               ELSE /\ array_size_' = n /\ state_' = "EXPECT_BULK_SIZE"
                    /\ UNCHANGED <<bulk_len_, current_command_, status, commands>>
  /\ UNCHANGED <<messages, arrived>>

\* An argument is complete: so is the command, or its next argument is to come.
Argument(bytes) ==
  IF Len(current_command_) + 1 = array_size_ THEN Success(Append(current_command_, bytes))
  ELSE /\ current_command_' = Append(current_command_, bytes) /\ state_' = "EXPECT_BULK_SIZE"
       /\ UNCHANGED <<array_size_, bulk_len_, status, commands>>

ParseBulkSize ==
  /\ status = "parse" /\ state_ = "EXPECT_BULK_SIZE"
  /\ IF ReadableBytes = 0 \/ ~Line THEN Incomplete
     ELSE IF FindCRLF = 0 THEN Retrieve(2) /\ UNCHANGED <<parserVars, status, commands>>
     ELSE IF HeaderOf("$") = {} \/ \E n \in HeaderOf("$") : n < -1 THEN Error
     ELSE \E n \in HeaderOf("$") :
            /\ Retrieve(FindCRLF + 2)
            /\ IF n = -1 THEN Argument(<<>>)
               ELSE /\ bulk_len_' = n /\ state_' = "EXPECT_BULK_DATA"
                    /\ UNCHANGED <<array_size_, current_command_, status, commands>>
  /\ UNCHANGED <<messages, arrived>>

\* A Parse that takes the data without waiting for the CR LF behind it.
ParseBulkDataEarly ==
  /\ status = "parse" /\ state_ = "EXPECT_BULK_DATA"
  /\ IF ReadableBytes = 0 \/ ReadableBytes < bulk_len_ THEN Incomplete
     ELSE Retrieve(bulk_len_ + 2) /\ Argument(SubSeq(Unread, 1, bulk_len_))
  /\ UNCHANGED <<messages, arrived>>
ParseBulkData ==
  /\ status = "parse" /\ state_ = "EXPECT_BULK_DATA"
  /\ IF ReadableBytes = 0 \/ ReadableBytes < bulk_len_ + 2 THEN Incomplete
     ELSE IF Unread[bulk_len_ + 1] # CR \/ Unread[bulk_len_ + 2] # LF THEN Error
     ELSE Retrieve(bulk_len_ + 2) /\ Argument(SubSeq(Unread, 1, bulk_len_))
  /\ UNCHANGED <<messages, arrived>>

InputNext == ReadFromFd \/ ParseArraySize \/ ParseBulkSize \/ ParseBulkData

InputSpec == InputInit /\ [][InputNext]_inputVars

-----------------------------------------------------------------------------
\* The buffer is a queue: what is readable is what has arrived and was not taken, over
\* reads that fill it, overflow it, move it to the front or make it grow.
BufferIsQueue ==
  /\ read_index_ <= write_index_ /\ write_index_ <= Len(buffer_)
  /\ Unread = SubSeq(Bytes, arrived - ReadableBytes + 1, arrived)

\* The commands parsed are those sent, whatever the pieces they arrive in and whatever bytes
\* they hold; the parser waits only for bytes that are still to come, and fails only at a
\* message that is broken.
Expected(ms) == Concat([i \in DOMAIN ms |-> IF ms[i].kind = "command" THEN <<ms[i].args>> ELSE <<>>])
Broken == {i \in DOMAIN messages : messages[i].kind = "broken"}
Whole == IF Broken = {} THEN messages ELSE SubSeq(messages, 1, Min(Broken) - 1)
CommandsAsSent ==
  /\ Len(commands) <= Len(Expected(Whole))
  /\ commands = SubSeq(Expected(Whole), 1, Len(commands))
  /\ status = "failed" => Broken # {} /\ commands = Expected(Whole)
  /\ status = "read" /\ arrived = Len(Bytes) => Broken = {} /\ commands = Expected(messages)
=============================================================================
