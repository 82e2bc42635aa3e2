---------------------------- MODULE ServerSteps -----------------------------
(***************************************************************************)
(* What the proofs about TcpServer rest on: what its operators compute, and  *)
(* what a step that changes one connection, or none, keeps.  Then Inv, the   *)
(* invariant of TcpServer, holds initially and is kept by the steps of the   *)
(* clients, of the workers, of accepting, of Stop and of Cleanup;            *)
(* ServerProofs has the other steps.                                         *)
(***************************************************************************)
EXTENDS TcpServer, TLAPS

-----------------------------------------------------------------------------
(* Numbers.                                                                  *)

\* A non-empty set of numbers has a least element.  ServerProofs proves it, once; the lemmas that
\* need it assume it, which keeps the theory of well-founded relations out of their way.
LeastNumber == \A S \in SUBSET Nat : S # {} => \E x \in S : \A y \in S : x <= y

\* That element is the one Min chooses: the lowest free descriptor (HandleAccept), the first
\* command that breaks the protocol (HandleRead).
LEMMA MinOfNumbers ==
  ASSUME LeastNumber, NEW S \in SUBSET Nat, S # {}
  PROVE  Min(S) \in S /\ \A i \in S : Min(S) <= i
  BY Zenon DEF LeastNumber, Min

\* The smaller of two numbers (HandleWrite: what there is and what the socket takes).
LEMMA MinOfTwo ==
  ASSUME NEW a \in Nat, NEW b \in Nat
  PROVE  Min({a, b}) \in 0..a /\ Min({a, b}) <= b
PROOF
<1>1. \E x \in {a, b} : \A y \in {a, b} : x <= y
  <2>1. CASE a <= b
    BY <2>1
  <2>2. CASE ~(a <= b)
    BY <2>2
  <2> QED
    BY <2>1, <2>2, Zenon
<1>2. Min({a, b}) \in {a, b} /\ \A y \in {a, b} : Min({a, b}) <= y
  BY <1>1, Zenon DEF Min
<1> QED
  BY <1>2

\* A write that fits leaves the send buffer within its bounds.
LEMMA RoomLeft ==
  ASSUME NEW cap \in Nat, NEW o \in Nat, NEW t \in Nat, NEW k \in Nat,
         cap - (o - t) \in 0..cap, k <= cap - (o - t)
  PROVE  cap - ((o + k) - t) \in 0..cap
  OBVIOUS

\* Tasks numbered below n (HandleRead's seq) are numbered below any m that is not smaller.
LEMMA NumbersBelow ==
  ASSUME NEW ts \in Seq(Tasks), NEW n \in Nat, NEW m \in Nat, n <= m,
         \A i \in 1..Len(ts) : ts[i].seq < n
  PROVE  \A i \in 1..Len(ts) : ts[i].seq < m
PROOF
<1>1. \A t \in Tasks : t.seq \in Nat
  BY Zenon DEF Tasks
<1>2. \A i \in 1..Len(ts) : ts[i] \in Tasks
  OBVIOUS
<1> QED
  BY <1>1, <1>2

\* So has one with an upper bound a greatest.
LEMMA MaxOfNumbers ==
  ASSUME LeastNumber, NEW S \in SUBSET Nat, S # {}, NEW n \in Nat, \A i \in S : i <= n
  PROVE  Max(S) \in S
PROOF
<1> DEFINE T == {j \in Nat : n - j \in S}
<1>1. T \in SUBSET Nat /\ T # {}
  <2>1. PICK i \in S : i \in Nat /\ i <= n
    BY Zenon
  <2>2. n - i \in T
    BY <2>1
  <2> QED
    BY <2>2, Zenon
<1>2. Min(T) \in T /\ \A j \in T : Min(T) <= j
  <2> HIDE DEF T
  <2> QED
    BY <1>1, MinOfNumbers, Zenon
<1>3. n - Min(T) \in S /\ Min(T) \in Nat
  BY <1>2, Zenon
<1>4. ASSUME NEW i \in S
      PROVE  n - Min(T) >= i
  <2>1. n - i \in T /\ i \in Nat
    OBVIOUS
  <2>2. Min(T) <= n - i
    BY <1>2, <2>1, Zenon
  <2> HIDE DEF T
  <2> QED
    BY <1>3, <2>1, <2>2
<1> QED
  BY <1>3, <1>4, Zenon DEF Max

\* What a client has been told of is a version of the store.
LEMMA AcknowledgedIsVersion ==
  ASSUME LeastNumber, TypeOK
  PROVE  Acknowledged \in Nat \ {0} /\ Acknowledged <= Len(versions)
PROOF
<1> DEFINE S == {1} \cup {j \in 1..Len(versions) :
                  \E c \in Clients : \E i \in 1..taken[c] : out[c][i].cmd = versions[j].made_by}
<1>1. Len(versions) \in Nat /\ Len(versions) >= 1
  BY DEF TypeOK, NetTypeOK
<1>2. S \in SUBSET Nat /\ S # {} /\ \A i \in S : i <= Len(versions) /\ i >= 1
  BY <1>1
<1>3. Acknowledged = Max(S)
  BY Zenon DEF Acknowledged
<1> HIDE DEF S
<1>4. Max(S) \in S
  BY <1>1, <1>2, MaxOfNumbers, Zenon
<1>5. Acknowledged \in S
  BY <1>3, <1>4, Zenon
<1> HIDE DEF Acknowledged
<1> QED
  BY <1>1, <1>2, <1>5

\* An answer of the executor has its type.
LEMMA ReplyType ==
  ASSUME NEW c \in Commands, NEW db \in [Keys -> (Clients \X Nat) \cup {Null}]
  PROVE  Reply(c, db) \in Replies
PROOF
<1>1. c.key \in Keys /\ db[c.key] \in (Clients \X Nat) \cup {Null}
  BY Zenon DEF Commands
<1>2. RowsFrom(db, c.key) \in UNION {[S -> Clients \X Nat] : S \in SUBSET Keys}
  <2> DEFINE T == {k \in Keys : k >= c.key /\ db[k] # Null}
  <2>1. T \in SUBSET Keys /\ RowsFrom(db, c.key) \in [T -> Clients \X Nat]
    BY Zenon DEF RowsFrom
  <2> QED
    BY <2>1, Zenon
<1> QED
  BY <1>1, <1>2, Zenon DEF Reply, Replies, Ok, Error, NullBulk, Bulk, Array, WellFormed, CommandNames

-----------------------------------------------------------------------------
(* Responses that become ready, and a protocol error.                         *)

\* The loop stops at the first sequence number without a response, at next_request_seq if
\* not before.
LEMMA NextMissingFacts ==
  ASSUME LeastNumber, NEW conn \in Connections, conn.next_write_seq <= conn.next_request_seq,
         \A r \in conn.pending_responses : r.seq < conn.next_request_seq
  PROVE  /\ NextMissing(conn) \in conn.next_write_seq..conn.next_request_seq
         /\ \A m \in conn.next_write_seq..(NextMissing(conn) - 1) :
              \E r \in conn.pending_responses : r.seq = m
PROOF
<1> DEFINE lo == conn.next_write_seq
           hi == conn.next_request_seq
           here == {r.seq : r \in conn.pending_responses}
           S == {n \in lo..hi : n \notin here}
<1>1. lo \in Nat /\ hi \in Nat /\ lo <= hi
  BY Zenon DEF Connections
<1>2. hi \notin here
  BY DEF Connections
<1>3. NextMissing(conn) = CHOOSE n \in lo..hi : n \notin here /\ \A m \in lo..(n - 1) : m \in here
  BY Zenon DEF NextMissing
<1> HIDE DEF lo, hi, here
<1>4. S \in SUBSET Nat /\ hi \in S
  BY <1>1, <1>2
<1>5. Min(S) \in S /\ \A i \in S : Min(S) <= i
  BY <1>4, MinOfNumbers, Zenon
<1>6. \A m \in lo..(Min(S) - 1) : m \in here
  <2>1. TAKE m \in lo..(Min(S) - 1)
  <2>2. Min(S) \in lo..hi
    BY <1>5, Zenon
  <2>3. m \in lo..hi /\ ~(Min(S) <= m)
    BY <1>1, <2>2
  <2> QED
    BY <1>5, <2>3, Zenon
<1>7. Min(S) \in lo..hi /\ Min(S) \notin here
  BY <1>5, Zenon
<1>8. /\ NextMissing(conn) \in lo..hi
      /\ \A m \in lo..(NextMissing(conn) - 1) : m \in here
  BY <1>3, <1>6, <1>7, Zenon
<1> QED
  BY <1>8, Zenon DEF lo, hi, here

\* What MoveReady does: it keeps all but output, pending_responses and next_write_seq; it appends the
\* responses of the numbers it passes, in order.
Moved(conn, moved) ==
  /\ moved \in Connections
  /\ moved = [conn EXCEPT !.output = moved.output, !.next_write_seq = moved.next_write_seq,
                           !.pending_responses = moved.pending_responses]
  /\ moved.next_write_seq \in conn.next_write_seq..conn.next_request_seq
  /\ moved.pending_responses \subseteq conn.pending_responses
  /\ Len(moved.output) = Len(conn.output) + moved.next_write_seq - conn.next_write_seq
  /\ \A i \in 1..Len(conn.output) : moved.output[i] = conn.output[i]
  /\ \A i \in (Len(conn.output) + 1)..Len(moved.output) :
       \E r \in conn.pending_responses :
         /\ moved.output[i] = r.response
         /\ r.seq = conn.next_write_seq + i - Len(conn.output) - 1

\* MoveReady does that.
LEMMA MoveReadyFacts ==
  ASSUME LeastNumber, NEW conn \in Connections, conn.next_write_seq <= conn.next_request_seq,
         \A r \in conn.pending_responses : r.seq < conn.next_request_seq,
         NEW moved, moved = MoveReady(conn)
  PROVE  Moved(conn, moved)
PROOF
<1> DEFINE lo == conn.next_write_seq
           n == NextMissing(conn)
           add == [i \in 1..(n - lo) |-> ResponseFor(conn, lo + i - 1)]
           P == conn.pending_responses
<1>1. /\ lo \in Nat /\ conn.next_request_seq \in Nat /\ conn.output \in Seq(Responses)
      /\ P \in SUBSET [seq : Nat, response : Responses]
  BY Zenon DEF Connections
<1>2. n \in lo..conn.next_request_seq /\ \A m \in lo..(n - 1) : \E r \in P : r.seq = m
  BY NextMissingFacts, Zenon
<1>3. moved = [conn EXCEPT !.output = conn.output \o add, !.pending_responses = {r \in P : r.seq >= n},
                           !.next_write_seq = n]
  BY Zenon DEF MoveReady
<1> HIDE DEF n, P, lo
<1>4. ASSUME NEW i \in 1..(n - lo)
      PROVE  \E r \in P : add[i] = r.response /\ r.seq = lo + i - 1
  <2>1. lo + i - 1 \in lo..(n - 1)
    BY <1>1, <1>2
  <2>2. \E r \in P : r.seq = lo + i - 1
    BY <1>2, <2>1, Zenon
  <2>3. add[i] = (CHOOSE r \in P : r.seq = lo + i - 1).response
    BY Zenon DEF ResponseFor, P
  <2> QED
    BY <2>2, <2>3, Zenon
<1>5. n - lo \in Nat /\ add \in [1..(n - lo) -> Responses]
  <2>1. \A i \in 1..(n - lo) : add[i] \in Responses
    BY <1>1, <1>4, Zenon
  <2>2. add = [i \in 1..(n - lo) |-> add[i]]
    BY Zenon
  <2>3. n - lo \in Nat
    BY <1>1, <1>2
  <2> HIDE DEF add
  <2> QED
    BY <2>1, <2>2, <2>3, Zenon
<1>6. add \in Seq(Responses) /\ Len(add) = n - lo
  BY <1>5, SMTT(30)
<1>7. moved \in Connections
  <2> HIDE DEF add
  <2>1. conn.output \o add \in Seq(Responses)
    BY <1>1, <1>6
  <2>2. n \in Nat /\ {r \in P : r.seq >= n} \subseteq [seq : Nat, response : Responses]
    BY <1>1, <1>2
  <2> QED
    BY <1>3, <2>1, <2>2, Zenon DEF Connections
<1>8. moved.output = conn.output \o add /\ moved.next_write_seq = n
      /\ moved.pending_responses = {r \in P : r.seq >= n}
  <2> HIDE DEF add
  <2> QED
    BY <1>3, Zenon DEF Connections
<1>9. moved = [conn EXCEPT !.output = moved.output, !.next_write_seq = moved.next_write_seq,
                           !.pending_responses = moved.pending_responses]
  <2> HIDE DEF add
  <2> QED
    BY <1>3, <1>8, Zenon DEF Connections
<1>10. Len(moved.output) = Len(conn.output) + n - lo
  <2> HIDE DEF add
  <2>1. Len(conn.output \o add) = Len(conn.output) + Len(add) /\ Len(conn.output) \in Nat
    BY <1>1, <1>6, SMTT(30)
  <2>2. n \in Nat /\ lo \in Nat
    BY <1>1, <1>2
  <2> QED
    BY <1>6, <1>8, <2>1, <2>2, Zenon
<1>11. \A i \in 1..Len(conn.output) : moved.output[i] = conn.output[i]
  <2> HIDE DEF add
  <2> QED
    BY <1>1, <1>6, <1>8
<1>12. ASSUME NEW i \in (Len(conn.output) + 1)..Len(moved.output)
       PROVE  \E r \in P : moved.output[i] = r.response /\ r.seq = lo + i - Len(conn.output) - 1
  <2> DEFINE k == i - Len(conn.output)
  <2>1. k \in 1..(n - lo) /\ i = Len(conn.output) + k
    BY <1>1, <1>2, <1>10
  <2>2. moved.output[i] = add[k]
    <3> HIDE DEF add, k
    <3> QED
      BY <1>1, <1>5, <1>6, <1>8, <2>1
  <2>3. \E r \in P : add[k] = r.response /\ r.seq = lo + k - 1
    <3> HIDE DEF add, k
    <3> QED
      BY <1>4, <2>1, Zenon
  <2>4. \A r \in P : r.seq = lo + k - 1 => r.seq = lo + i - Len(conn.output) - 1
    BY <1>1, <2>1, Zenon
  <2> QED
    BY <2>2, <2>3, <2>4, Zenon
<1> QED
  BY <1>2, <1>7, <1>8, <1>9, <1>10, <1>11, <1>12, Zenon DEF P, lo, Moved

\* Moving keeps the counters right and the responses justified.
LEMMA MovedCounts ==
  ASSUME LeastNumber, NEW conn \in Connections, NEW written \in Nat, NEW read,
         Counting(conn, written, read), JustifiedIn(conn),
         NEW moved, moved = MoveReady(conn)
  PROVE  Counting(moved, written, read) /\ JustifiedIn(moved)
PROOF
<1>1. /\ conn.next_write_seq \in Nat /\ conn.next_request_seq \in Nat
      /\ Len(conn.output) \in Nat /\ conn.next_write_seq = written + Len(conn.output)
      /\ conn.next_write_seq <= conn.next_request_seq
      /\ \A r \in conn.pending_responses :
           /\ r.response.cmd.by = conn.peer /\ r.response.cmd.n = r.seq + 1
           /\ r.seq < conn.next_request_seq
  BY DEF Connections, Counting
<1>2. /\ moved \in Connections
      /\ moved = [conn EXCEPT !.output = moved.output, !.next_write_seq = moved.next_write_seq,
                               !.pending_responses = moved.pending_responses]
      /\ moved.next_write_seq \in conn.next_write_seq..conn.next_request_seq
      /\ moved.pending_responses \subseteq conn.pending_responses
      /\ Len(moved.output) = Len(conn.output) + moved.next_write_seq - conn.next_write_seq
      /\ \A i \in 1..Len(conn.output) : moved.output[i] = conn.output[i]
      /\ \A i \in (Len(conn.output) + 1)..Len(moved.output) :
           \E r \in conn.pending_responses :
             /\ moved.output[i] = r.response
             /\ r.seq = conn.next_write_seq + i - Len(conn.output) - 1
  <2>1. \A r \in conn.pending_responses : r.seq < conn.next_request_seq
    BY <1>1, Zenon
  <2>2. conn.next_write_seq <= conn.next_request_seq
    BY <1>1, Zenon
  <2>3. Moved(conn, moved)
    BY <2>1, <2>2, MoveReadyFacts, Zenon
  <2> QED
    BY <2>3, Zenon DEF Moved
<1>3. /\ moved.peer = conn.peer /\ moved.closing = conn.closing
      /\ moved.next_request_seq = conn.next_request_seq
  BY <1>2, Zenon DEF Connections
<1>4. Len(moved.output) \in Nat /\ moved.next_write_seq \in Nat
  BY <1>2 DEF Connections
<1>5. moved.next_write_seq = written + Len(moved.output)
      /\ moved.next_write_seq <= moved.next_request_seq
  BY <1>1, <1>2, <1>3, <1>4
<1>6. ASSUME NEW i \in 1..Len(moved.output)
      PROVE  /\ moved.output[i].cmd.by = conn.peer /\ moved.output[i].cmd.n = written + i
             /\ Justified(moved.output[i])
  <2>1. CASE i \in 1..Len(conn.output)
    BY <1>2, <2>1, Zenon DEF Counting, JustifiedIn
  <2>2. CASE i \in (Len(conn.output) + 1)..Len(moved.output)
    <3>1. PICK r \in conn.pending_responses :
            /\ moved.output[i] = r.response
            /\ r.seq = conn.next_write_seq + i - Len(conn.output) - 1
      BY <1>2, <2>2, Zenon
    <3>2. i \in Int /\ r.seq + 1 = conn.next_write_seq + i - Len(conn.output)
      BY <1>1, <1>4, <2>2, <3>1
    <3>3. r.seq + 1 = written + i
      BY <1>1, <3>2
    <3> QED
      BY <1>1, <3>1, <3>3, Zenon DEF JustifiedIn
  <2> QED
    BY <1>1, <1>4, <2>1, <2>2
<1>7. Counting(moved, written, read)
  BY <1>1, <1>2, <1>3, <1>5, <1>6, Zenon DEF Counting
<1>8. JustifiedIn(moved)
  BY <1>2, <1>6, Zenon DEF JustifiedIn
<1> QED
  BY <1>7, <1>8, Zenon

\* failed is conn with one more request, and its counters count after what has been read.
Failed(conn, failed, written, read) ==
  /\ failed \in Connections /\ failed.peer = conn.peer /\ failed.generation = conn.generation
  /\ failed.next_request_seq = conn.next_request_seq + 1
  /\ Counting(failed, written, read) /\ JustifiedIn(failed)

\* A protocol error is the answer to the command that made it, after those before it
\* (FailConnectionProtocol).
LEMMA FailedCounts ==
  ASSUME LeastNumber, NEW conn \in Connections, NEW written \in Nat, NEW read, NEW cmd \in Commands,
         Counting(conn, written, read), JustifiedIn(conn),
         cmd.by = conn.peer, cmd.n = conn.next_request_seq + 1,
         NEW failed, failed = FailConnectionProtocol(conn, cmd), NEW any
  PROVE  Failed(conn, failed, written, any)
PROOF
<1> DEFINE err == [cmd |-> cmd, reply |-> Error]
           new == [seq |-> conn.next_request_seq, response |-> err]
           c1 == [conn EXCEPT !.next_request_seq = @ + 1, !.closing = TRUE, !.partial = FALSE,
                              !.pending_responses = @ \cup {new}]
           moved == MoveReady(c1)
           ints == IF moved.next_write_seq > conn.next_write_seq THEN {"OUT"} ELSE {}
<1>0. failed = [moved EXCEPT !.interest = ints]
  BY Zenon DEF FailConnectionProtocol
<1>1. err \in Responses /\ new \in [seq : Nat, response : Responses]
  BY Zenon DEF Responses, Replies, Connections
<1>2. /\ c1 \in Connections /\ c1.peer = conn.peer /\ c1.generation = conn.generation
      /\ c1.next_request_seq = conn.next_request_seq + 1 /\ c1.closing = TRUE
      /\ c1.output = conn.output /\ c1.next_write_seq = conn.next_write_seq
      /\ c1.pending_responses = conn.pending_responses \cup {new}
  <2>1. conn.next_request_seq + 1 \in Nat
        /\ conn.pending_responses \cup {new} \in SUBSET [seq : Nat, response : Responses]
    <3> HIDE DEF new
    <3> QED
      BY <1>1 DEF Connections
  <2> HIDE DEF new
  <2> QED
    BY <2>1, Zenon DEF Connections
<1>3. Counting(c1, written, any)
  <2>1. conn.next_request_seq \in Nat /\ conn.next_write_seq \in Nat
        /\ \A r \in conn.pending_responses : r.seq \in Nat
    BY Zenon DEF Connections
  <2>2. new.seq = conn.next_request_seq /\ new.response.cmd = cmd
    BY Zenon
  <2> HIDE DEF c1, new
  <2> QED
    BY <1>2, <2>1, <2>2 DEF Counting
<1>4. JustifiedIn(c1)
  <2>1. new.response.reply = Error
    BY Zenon
  <2>2. Justified(new.response)
    BY <2>1, Zenon DEF Justified
  <2> HIDE DEF c1, new
  <2> QED
    BY <1>2, <2>2, Zenon DEF JustifiedIn
<1> HIDE DEF c1
<1>5. Counting(moved, written, any) /\ JustifiedIn(moved)
  BY <1>2, <1>3, <1>4, MovedCounts, Zenon
<1>6. c1.next_write_seq <= c1.next_request_seq
      /\ \A r \in c1.pending_responses : r.seq < c1.next_request_seq
  BY <1>3, Zenon DEF Counting
<1>7. /\ moved \in Connections
      /\ moved = [c1 EXCEPT !.output = moved.output, !.next_write_seq = moved.next_write_seq,
                             !.pending_responses = moved.pending_responses]
  <2>1. Moved(c1, moved)
    BY <1>2, <1>6, MoveReadyFacts, Zenon
  <2> QED
    BY <2>1, Zenon DEF Moved
<1> HIDE DEF moved
<1>8. /\ moved.peer = c1.peer /\ moved.generation = c1.generation
      /\ moved.next_request_seq = c1.next_request_seq
  BY <1>2, <1>7, Zenon DEF Connections
<1>9. ints \in SUBSET {"IN", "OUT"}
  BY Zenon
<1> HIDE DEF ints
<1>10. /\ failed \in Connections /\ failed.peer = moved.peer /\ failed.generation = moved.generation
       /\ failed.next_request_seq = moved.next_request_seq /\ failed.output = moved.output
       /\ failed.next_write_seq = moved.next_write_seq /\ failed.closing = moved.closing
       /\ failed.pending_responses = moved.pending_responses
  BY <1>0, <1>7, <1>9, Zenon DEF Connections
<1>11. Counting(failed, written, any) /\ JustifiedIn(failed)
  BY <1>5, <1>10 DEF Counting, JustifiedIn
<1> QED
  BY <1>2, <1>8, <1>10, <1>11, Zenon DEF Failed

-----------------------------------------------------------------------------
(* What a step that leaves some variables alone keeps.                        *)

\* The loop's types.
LEMMA LoopTypeFrame ==
  ASSUME LoopTypeOK, UNCHANGED <<loopVars, completed_queue, wake, faulted>>
  PROVE  LoopTypeOK'
  BY Zenon DEF LoopTypeOK, loopVars

\* The clients' types.
LEMMA NetTypeFrame ==
  ASSUME NetTypeOK, UNCHANGED <<netVars, out, taken, versions>>
  PROVE  NetTypeOK'
  BY Zenon DEF NetTypeOK, netVars, Room

\* The pool's types.
LEMMA PoolTypeFrame ==
  ASSUME PoolTypeOK, UNCHANGED poolVars
  PROVE  PoolTypeOK'
  BY Zenon DEF PoolTypeOK, poolVars

\* The numbers of the commands.
LEMMA CommandsFrame ==
  ASSUME CommandsNumbered, UNCHANGED <<sent, got, versions>>
  PROVE  CommandsNumbered'
  BY Zenon DEF CommandsNumbered, Timely

\* The place of each client.
LEMMA OnePlaceFrame ==
  ASSUME OnePlace, UNCHANGED <<client, got, out, backlog, pc, cur, connections>>
  PROVE  OnePlace'
  BY ZenonT(30) DEF OnePlace, Untouched, Open

\* The tasks on their way.
LEMMA InFlightFrame ==
  ASSUME InFlight, UNCHANGED <<tasks, completed_queue, at, job, connections, next_generation>>
  PROVE  InFlight'
  BY ZenonT(30) DEF InFlight, ForConnection, Open

\* The counters of the connections.
LEMMA CountingFrame ==
  ASSUME AllCounting, UNCHANGED <<connections, next_generation, out, got>>
  PROVE  AllCounting'
  BY Zenon DEF AllCounting, Open

\* The versions behind the responses.
LEMMA JustifiedFrame ==
  ASSUME AllJustified, UNCHANGED <<tasks, completed_queue, at, job, connections, out, versions>>
  PROVE  AllJustified'
  BY SMTT(30) DEF AllJustified, JustifiedIn, Justified, Timely, Open

\* The order in which things end.
LEMMA EndingFrame ==
  ASSUME Ending, UNCHANGED <<stop, pc, at, tasks, running, connections>>
  PROVE  Ending'
  BY Zenon DEF Ending, Joined, Open

\* Connections that go on with the same client, or are closed.
Evolves ==
  /\ connections' \in [Fds -> Connections \cup {NoConn}] /\ next_generation' = next_generation
  /\ \A fd \in Fds : connections'[fd] # NoConn =>
       /\ Open(fd) /\ connections'[fd].peer = connections[fd].peer
       /\ connections'[fd].generation = connections[fd].generation
       /\ connections[fd].next_request_seq <= connections'[fd].next_request_seq

\* A task still belongs to its connection when the connection has gone on.
LEMMA StillForConnection ==
  ASSUME TypeOK, Evolves, NEW t, t.fd \in Fds, t.seq \in Nat, NEW cmd, ForConnection(t, cmd)
  PROVE  ForConnection(t, cmd)'
PROOF
<1>1. t.generation < next_generation'
  BY Zenon DEF ForConnection, Evolves
<1>2. ASSUME connections'[t.fd] # NoConn, t.generation = connections'[t.fd].generation
      PROVE  /\ cmd.by = connections'[t.fd].peer /\ cmd.n = t.seq + 1
             /\ t.seq < connections'[t.fd].next_request_seq
  <2>1. /\ Open(t.fd) /\ connections'[t.fd].peer = connections[t.fd].peer
        /\ connections'[t.fd].generation = connections[t.fd].generation
        /\ connections[t.fd].next_request_seq <= connections'[t.fd].next_request_seq
    BY <1>2, Zenon DEF Evolves
  <2>2. connections[t.fd] \in Connections /\ connections'[t.fd] \in Connections
    BY <1>2, <2>1, Zenon DEF Evolves, TypeOK, LoopTypeOK, Open
  <2>3. connections[t.fd].next_request_seq \in Nat /\ connections'[t.fd].next_request_seq \in Nat
    BY <2>2, Zenon DEF Connections
  <2>4. /\ cmd.by = connections[t.fd].peer /\ cmd.n = t.seq + 1
        /\ t.seq < connections[t.fd].next_request_seq
    BY <1>2, <2>1, Zenon DEF ForConnection
  <2> QED
    BY <2>1, <2>3, <2>4
<1> QED
  BY <1>1, <1>2, Zenon DEF ForConnection, Open

\* So do all tasks on their way.
LEMMA StillInFlight ==
  ASSUME TypeOK, InFlight, Evolves, UNCHANGED <<tasks, completed_queue, at, job>>
  PROVE  InFlight'
PROOF
<1>1. /\ \A i \in 1..Len(tasks) : tasks[i] \in Tasks
      /\ \A i \in 1..Len(completed_queue) : completed_queue[i] \in Completed
      /\ \A w \in Workers : at[w] = "run" => job[w] \in Tasks
      /\ \A w \in Workers : at[w] = "push" => job[w] \in Completed
  BY DEF TypeOK, LoopTypeOK, PoolTypeOK
<1>2. \A t \in Tasks : t.fd \in Fds /\ t.seq \in Nat
  BY Zenon DEF Tasks
<1>3. \A t \in Completed : t.fd \in Fds /\ t.seq \in Nat
  BY Zenon DEF Completed
<1>4. \A i \in 1..Len(tasks) : ForConnection(tasks[i], tasks[i].cmd)'
  BY <1>1, <1>2, StillForConnection, Zenon DEF InFlight
<1> QED
  BY <1>1, <1>2, <1>3, <1>4, StillForConnection, Zenon DEF InFlight

\* Clients keep to one place when the connections go on and nothing is read from or sent to
\* those that have none.
LEMMA StillOnePlace ==
  ASSUME TypeOK, OnePlace, Evolves, backlog' \in {backlog, <<>>},
         \A c \in Clients : client'[c] = "new" => client[c] = "new",
         pc' = "insert" => pc = "insert" /\ cur' = cur,
         \A c \in Clients : (\A fd \in Fds : Open(fd) => connections[fd].peer # c)
                             => got'[c] = got[c] /\ out'[c] = out[c]
  PROVE  OnePlace'
PROOF
<1> DEFINE Free(c) == \A fd \in Fds : Open(fd) => connections[fd].peer # c
<1>1. ASSUME NEW c \in Clients, client'[c] = "new"
      PROVE  Untouched(c)'
  <2>1. Free(c)
    BY <1>1 DEF OnePlace
  <2> QED
    BY <1>1, <2>1, Zenon DEF OnePlace, Untouched
<1>2. ASSUME NEW i \in 1..Len(backlog')
      PROVE  /\ client'[backlog'[i]] # "new" /\ Untouched(backlog[i])'
             /\ \A j \in 1..Len(backlog') : backlog'[i] = backlog'[j] => i = j
  <2>1. backlog' = backlog /\ backlog[i] \in Clients /\ Free(backlog[i])
    <3>0. backlog \in Seq(Clients)
      BY Zenon DEF TypeOK, NetTypeOK
    <3>1. backlog' = backlog /\ backlog \in Seq(Clients) /\ i \in 1..Len(backlog)
      BY <3>0
    <3>2. backlog[i] \in Clients
      BY <3>1
    <3>3. \A fd \in Fds : Open(fd) => backlog[i] # connections[fd].peer
      BY <3>1, Zenon DEF OnePlace
    <3> QED
      BY <3>1, <3>2, <3>3
  <2> QED
    BY <2>1, ZenonT(30) DEF OnePlace, Untouched
<1>3. ASSUME pc' = "insert"
      PROVE  /\ client'[cur'.peer] # "new" /\ Untouched(cur.peer)' /\ ~Open(cur.fd)'
             /\ \A i \in 1..Len(backlog') : backlog'[i] # cur'.peer
  <2>1. pc = "insert" /\ cur' = cur /\ cur.peer \in Clients /\ cur.fd \in Fds /\ Free(cur.peer)
    BY <1>3, Zenon DEF OnePlace, TypeOK, LoopTypeOK
  <2>2. ~Open(cur.fd)'
    BY <2>1, Zenon DEF OnePlace, Evolves, Open
  <2> QED
    BY <1>3, <2>1, <2>2 DEF OnePlace, Untouched
<1>4. ASSUME NEW fd \in Fds, Open(fd)'
      PROVE  LET c == connections[fd].peer
             IN /\ client'[c] # "new" /\ (pc' = "insert" => cur'.peer # c)
                /\ \A i \in 1..Len(backlog') : backlog'[i] # c
                /\ \A gd \in Fds : Open(gd)' /\ connections[gd].peer = c => fd = gd
  <2>1. Open(fd) /\ \A gd \in Fds : Open(gd)' => Open(gd)
    BY <1>4, Zenon DEF Evolves, Open
  <2>2. connections[fd].peer \in Clients
    BY <2>1, Zenon DEF TypeOK, LoopTypeOK, Open, Connections
  <2> QED
    BY <2>1, <2>2, SMTT(30) DEF OnePlace
<1>5. \A fd \in Fds : Open(fd)' => connections'[fd].peer = connections[fd].peer
  BY Zenon DEF Evolves, Open
<1> QED
  BY <1>1, <1>2, <1>3, <1>4, <1>5, SMTT(30) DEF OnePlace

-----------------------------------------------------------------------------
(* Steps on one connection.                                                  *)

\* The connection under fd becomes conn, or is closed, perhaps as the last one of a shutdown.
OneConnection(fd, conn) ==
  /\ connections' \in {[connections EXCEPT ![fd] = NoConn], [connections EXCEPT ![fd] = conn]}
  /\ running' \in BOOLEAN /\ wake' \in BOOLEAN /\ faulted' \in BOOLEAN
  /\ ~running' => ~running \/ \A gd \in Fds : connections'[gd] = NoConn

\* CloseConnection and UpdateEpollEvent do that.
LEMMA CloseOrUpdate ==
  ASSUME Inv, NEW fd \in Fds, NEW conn,
         \/ CloseConnection(fd) /\ UNCHANGED faulted
         \/ UpdateEpollEvent(fd, conn)
         \/ connections' = [connections EXCEPT ![fd] = conn] /\ UNCHANGED <<running, wake, faulted>>
  PROVE  OneConnection(fd, conn)
PROOF
<1>1. running \in BOOLEAN /\ wake \in BOOLEAN /\ faulted \in BOOLEAN
  BY Zenon DEF Inv, TypeOK, LoopTypeOK
<1>2. ASSUME CloseConnection(fd)
      PROVE  /\ connections' = [connections EXCEPT ![fd] = NoConn]
             /\ running' \in BOOLEAN /\ wake' \in BOOLEAN
             /\ ~running' => ~running \/ \A gd \in Fds : connections'[gd] = NoConn
  BY <1>1, <1>2, Zenon DEF CloseConnection, MaybeFinishShutdown
<1>3. CASE CloseConnection(fd) /\ faulted' \in BOOLEAN
  BY <1>2, <1>3, Zenon DEF OneConnection
<1>4. CASE connections' = [connections EXCEPT ![fd] = conn] /\ UNCHANGED <<running, wake, faulted>>
  BY <1>1, <1>4, Zenon DEF OneConnection
<1> QED
  BY <1>1, <1>3, <1>4, Zenon DEF UpdateEpollEvent

\* What is left to show of a step on one connection.
Kept ==
  /\ Evolves /\ AllCounting'
  /\ \A fd \in Fds : connections'[fd] # NoConn => JustifiedIn(connections'[fd])
  /\ ~running' => \A fd \in Fds : connections'[fd] # NoConn => connections'[fd].next_request_seq = 0

\* It is enough to look at that connection.
LEMMA OneConnectionKeeps ==
  ASSUME Inv, NEW fd \in Fds, Open(fd), NEW conn \in Connections, OneConnection(fd, conn),
         next_generation' = next_generation,
         conn.peer = connections[fd].peer, conn.generation = connections[fd].generation,
         connections[fd].next_request_seq <= conn.next_request_seq,
         running \/ conn.next_request_seq = connections[fd].next_request_seq,
         Counting(conn, Len(out'[conn.peer]), got'[conn.peer]), JustifiedIn(conn),
         \A c \in Clients : c # conn.peer => out'[c] = out[c] /\ got'[c] = got[c]
  PROVE  Kept
PROOF
<1>1. /\ connections \in [Fds -> Connections \cup {NoConn}]
      /\ \A gd \in Fds : Open(gd) => connections[gd] \in Connections
  BY Zenon DEF Inv, TypeOK, LoopTypeOK, Open
<1>2. /\ connections' \in [Fds -> Connections \cup {NoConn}]
      /\ \A gd \in Fds : connections'[gd] # NoConn =>
           (gd = fd /\ connections'[gd] = conn) \/ (gd # fd /\ connections'[gd] = connections[gd])
  BY <1>1, Zenon DEF OneConnection
<1>3. \A gd \in Fds : Open(gd) => connections[gd].next_request_seq <= connections[gd].next_request_seq
  BY <1>1 DEF Connections
<1>4. Evolves
  BY <1>2, <1>3, Zenon DEF Evolves, Open
<1>5. ASSUME NEW gd \in Fds, connections'[gd] # NoConn
      PROVE  /\ connections'[gd].generation < next_generation'
             /\ Counting(connections'[gd], Len(out'[connections'[gd].peer]), got'[connections'[gd].peer])
             /\ JustifiedIn(connections'[gd])
             /\ ~running' => connections'[gd].next_request_seq = 0
  <2>1. CASE gd = fd /\ connections'[gd] = conn
    <3>1. connections[fd].generation < next_generation
      BY Zenon DEF Inv, AllCounting
    <3>2. ~running' => conn.next_request_seq = 0
      BY <1>5, <2>1, Zenon DEF OneConnection, Inv, Ending
    <3> QED
      BY <2>1, <3>1, <3>2, Zenon
  <2>2. CASE gd # fd /\ connections'[gd] = connections[gd]
    <3>1. /\ Open(gd) /\ connections[gd].peer \in Clients /\ connections[gd].peer # conn.peer
      BY <1>1, <1>5, <2>2, SMTT(30) DEF Inv, OnePlace, Open, Connections
    <3>2. /\ connections[gd].generation < next_generation
          /\ Counting(connections[gd], Len(out[connections[gd].peer]), got[connections[gd].peer])
          /\ JustifiedIn(connections[gd])
      BY <3>1, Zenon DEF Inv, AllCounting, AllJustified
    <3>3. ~running' => connections'[gd].next_request_seq = 0
      BY <1>5, <2>2, <3>1, Zenon DEF OneConnection, Inv, Ending
    <3> QED
      BY <2>2, <3>1, <3>2, <3>3, ZenonT(30)
  <2> QED
    BY <1>2, <1>5, <2>1, <2>2, Zenon
<1>6. AllCounting'
  BY <1>5, Zenon DEF AllCounting, Open
<1> QED
  BY <1>4, <1>5, <1>6, Zenon DEF Kept

\* A step that changes no connection keeps them all.
LEMMA NoConnectionKeeps ==
  ASSUME Inv, UNCHANGED <<connections, next_generation, running, out, got>>
  PROVE  Kept
PROOF
<1>1. AllCounting' /\ \A fd \in Fds : Open(fd) => connections[fd] \in Connections
  BY CountingFrame, Zenon DEF Inv, TypeOK, LoopTypeOK, Open
<1>2. Evolves
  BY <1>1 DEF Evolves, Inv, TypeOK, LoopTypeOK, Open, Connections
<1> QED
  BY <1>1, <1>2, Zenon DEF Kept, Inv, AllJustified, Ending, Open

\* The rest of the invariant, for a step of the loop that gives the pool nothing.
LEMMA KeptStep ==
  ASSUME Inv, Kept, LoopTypeOK', NetTypeOK', AnswersInOrder',
         UNCHANGED <<completed_queue, client, backlog, sent, got, versions, poolVars>>,
         pc \in {"event", "write"}, pc' \in {"event", "write"},
         \A c \in Clients : \A i \in 1..Len(out'[c]) : Justified(out'[c][i]),
         \A c \in Clients : (\A fd \in Fds : Open(fd) => connections[fd].peer # c) => out'[c] = out[c]
  PROVE  Inv'
PROOF
<1>1. UNCHANGED <<tasks, stop, at, job>>
  BY Zenon DEF poolVars
<1>2. OnePlace'
  BY StillOnePlace, Zenon DEF Inv, Kept
<1>3. InFlight'
  BY <1>1, StillInFlight, Zenon DEF Inv, Kept
<1>4. AllJustified'
  <2>1. \A t : (Timely(t) => Timely(t)') /\ (Justified(t) => Justified(t)') /\ (JustifiedIn(t) => JustifiedIn(t)')
    BY Zenon DEF Timely, Justified, JustifiedIn
  <2> QED
    BY <1>1, <2>1, Zenon DEF Inv, Kept, AllJustified, Open
<1>5. Ending'
  BY <1>1, Zenon DEF Inv, Kept, Ending, Open
<1> QED
  BY <1>2, <1>3, <1>4, <1>5, PoolTypeFrame, CommandsFrame, Zenon DEF Inv, TypeOK, Kept

-----------------------------------------------------------------------------
(* Writing.                                                                  *)

\* The first n elements of a sequence, and the others.
LEMMA PrefixAndRest ==
  ASSUME NEW S, NEW s \in Seq(S), NEW n \in 0..Len(s)
  PROVE  /\ SubSeq(s, 1, n) \in Seq(S) /\ Len(SubSeq(s, 1, n)) = n
         /\ \A i \in 1..n : SubSeq(s, 1, n)[i] = s[i]
         /\ SubSeq(s, n + 1, Len(s)) \in Seq(S) /\ Len(SubSeq(s, n + 1, Len(s))) = Len(s) - n
         /\ \A i \in 1..(Len(s) - n) : SubSeq(s, n + 1, Len(s))[i] = s[n + i]
PROOF
<1>1. Len(s) \in Nat /\ n \in Nat /\ n <= Len(s)
  OBVIOUS
<1>2. SubSeq(s, 1, n) \in Seq(S) /\ Len(SubSeq(s, 1, n)) = n
  BY <1>1
<1>3. \A i \in 1..n : SubSeq(s, 1, n)[i] = s[i]
  BY <1>1
<1>4. SubSeq(s, n + 1, Len(s)) \in Seq(S)
  BY <1>1
<1>5. Len(SubSeq(s, n + 1, Len(s))) = Len(s) - n
  BY <1>1
<1>6. ASSUME NEW i \in 1..(Len(s) - n)
      PROVE  SubSeq(s, n + 1, Len(s))[i] = s[n + i]
  BY <1>1, <1>5
<1> QED
  BY <1>2, <1>3, <1>4, <1>5, <1>6, Zenon

\* u is s followed by t.
Appended(s, t, u) ==
  /\ Len(u) = Len(s) + Len(t)
  /\ \A i \in 1..Len(s) : u[i] = s[i]
  /\ \A i \in (Len(s) + 1)..Len(u) :
       u[i] = t[i - Len(s)] /\ i - Len(s) \in 1..Len(t) /\ Len(s) + (i - Len(s)) = i
  /\ \A i \in 1..Len(u) : i \in 1..Len(s) \/ i \in (Len(s) + 1)..Len(u)

\* That is what concatenation gives.
LEMMA AppendedParts ==
  ASSUME NEW S, NEW s \in Seq(S), NEW t \in Seq(S), NEW u, u = s \o t
  PROVE  u \in Seq(S) /\ Appended(s, t, u)
PROOF
<1>1. Len(s) \in Nat /\ Len(t) \in Nat /\ u \in Seq(S) /\ Len(u) = Len(s) + Len(t)
  OBVIOUS
<1>2. \A i \in 1..Len(s) : u[i] = s[i]
  BY <1>1
<1>3. ASSUME NEW i \in (Len(s) + 1)..Len(u)
      PROVE  /\ u[i] = t[i - Len(s)] /\ i - Len(s) \in 1..Len(t)
             /\ Len(s) + (i - Len(s)) = i
  BY <1>1
<1>4. \A i \in 1..Len(u) : i \in 1..Len(s) \/ i \in (Len(s) + 1)..Len(u)
  BY <1>1
<1> QED
  BY <1>1, <1>2, <1>3, <1>4, Zenon DEF Appended

\* rest is conn without responses that were in its buffer, and right after written are.
Rest(conn, rest, written, read) ==
  /\ rest \in Connections /\ Counting(rest, written, read) /\ JustifiedIn(rest)
  /\ rest.peer = conn.peer /\ rest.generation = conn.generation
  /\ rest.next_request_seq = conn.next_request_seq /\ rest.closing = conn.closing
  /\ rest.next_write_seq = conn.next_write_seq

\* What remains in the buffer after the first n responses are written.
LEMMA WrittenCounts ==
  ASSUME NEW conn \in Connections, NEW written \in Nat, NEW read,
         Counting(conn, written, read), JustifiedIn(conn), NEW n \in 0..Len(conn.output),
         NEW left, left = [conn EXCEPT !.output = SubSeq(@, n + 1, Len(@))]
  PROVE  Rest(conn, left, written + n, read)
PROOF
<1> DEFINE rest == SubSeq(conn.output, n + 1, Len(conn.output))
<1>1. conn.output \in Seq(Responses) /\ Len(conn.output) \in Nat /\ n \in Nat
      /\ n <= Len(conn.output) /\ conn.next_write_seq \in Nat
  BY DEF Connections
<1>2. /\ rest \in Seq(Responses) /\ Len(rest) = Len(conn.output) - n
      /\ \A i \in 1..Len(rest) : rest[i] = conn.output[n + i] /\ n + i \in 1..Len(conn.output)
  <2>1. /\ rest \in Seq(Responses) /\ Len(rest) = Len(conn.output) - n
        /\ \A i \in 1..(Len(conn.output) - n) : rest[i] = conn.output[n + i]
    BY <1>1, PrefixAndRest, ZenonT(30)
  <2>2. \A i \in 1..(Len(conn.output) - n) : n + i \in 1..Len(conn.output)
    BY <1>1
  <2> QED
    BY <2>1, <2>2, Zenon
<1>3. left = [conn EXCEPT !.output = rest]
  BY Zenon
<1> HIDE DEF rest
<1>4. /\ left \in Connections /\ left.peer = conn.peer /\ left.generation = conn.generation
      /\ left.next_request_seq = conn.next_request_seq /\ left.closing = conn.closing
      /\ left.next_write_seq = conn.next_write_seq
      /\ left.pending_responses = conn.pending_responses /\ left.output = rest
  BY <1>2, <1>3, Zenon DEF Connections
<1>5. ASSUME NEW i \in 1..Len(rest)
      PROVE  rest[i].cmd.by = conn.peer /\ rest[i].cmd.n = (written + n) + i /\ Justified(rest[i])
  <2>1. conn.output[n + i].cmd.by = conn.peer /\ conn.output[n + i].cmd.n = written + (n + i)
        /\ Justified(conn.output[n + i])
    BY <1>2, Zenon DEF Counting, JustifiedIn
  <2>2. written + (n + i) = (written + n) + i
    BY <1>1, <1>2
  <2> QED
    BY <1>2, <2>1, <2>2, Zenon
<1>6. conn.next_write_seq = (written + n) + Len(rest)
  BY <1>1, <1>2 DEF Counting
<1>7. Counting(left, written + n, read)
  BY <1>4, <1>5, <1>6, Zenon DEF Counting
<1>8. JustifiedIn(left)
  BY <1>4, <1>5, Zenon DEF JustifiedIn
<1> QED
  BY <1>4, <1>7, <1>8, Zenon DEF Rest

-----------------------------------------------------------------------------
(* Reading.                                                                  *)

\* enqueue leaves every worker that is not waiting where it is.
LEMMA EnqueueFacts ==
  ASSUME PoolTypeOK, NEW ts \in Seq(Tasks), Enqueue(ts)
  PROVE  /\ PoolTypeOK' /\ tasks' = tasks \o ts /\ UNCHANGED <<stop, job>>
         /\ \A w \in Workers : at'[w] = at[w] \/ at'[w] = "ready"
PROOF
<1>1. PICK S \in SUBSET Waiting : at' = Ready(S)
  BY Zenon DEF Enqueue
<1>2. /\ at \in [Workers -> {"ready", "wait", "run", "push", "notify", "gone"}]
      /\ \A w \in S : w \in Workers /\ at[w] = "wait"
  BY Zenon DEF PoolTypeOK, Waiting
<1>3. /\ at' \in [Workers -> {"ready", "wait", "run", "push", "notify", "gone"}]
      /\ \A w \in Workers : at'[w] = at[w] \/ (at'[w] = "ready" /\ at[w] = "wait")
  BY <1>1, <1>2, Zenon DEF Ready
<1>4. tasks' = tasks \o ts /\ tasks' \in Seq(Tasks) /\ UNCHANGED <<stop, job>>
  BY DEF Enqueue, PoolTypeOK
<1>5. PoolTypeOK'
  BY <1>3, <1>4, Zenon DEF PoolTypeOK
<1> QED
  BY <1>3, <1>4, <1>5, Zenon

\* What HandleRead makes of a connection and of the tasks it enqueues: the tasks are the client's
\* next commands, under their numbers.
ReadInto(fd, new, ts) ==
  /\ new \in Connections /\ OneConnection(fd, new)
  /\ faulted' # TRUE => connections' = [connections EXCEPT ![fd] = new]
  /\ new.peer = connections[fd].peer /\ new.generation = connections[fd].generation
  /\ connections[fd].next_request_seq <= new.next_request_seq
  /\ Counting(new, Len(out[new.peer]), got'[new.peer]) /\ JustifiedIn(new)
  /\ ts \in Seq(Tasks) /\ Enqueue(ts)
  /\ \A i \in 1..Len(ts) :
       /\ ts[i].fd = fd /\ ts[i].generation = connections[fd].generation
       /\ ts[i].cmd.by = connections[fd].peer /\ ts[i].cmd.n = ts[i].seq + 1
       /\ ts[i].seq < new.next_request_seq /\ Timely(ts[i].cmd)

\* It does that.
LEMMA ReadCommandsFacts ==
  ASSUME LeastNumber, Inv, NEW fd \in Fds, Open(fd), ~connections[fd].closing,
         NEW m \in got[connections[fd].peer]..Len(sent[connections[fd].peer]), NEW partial \in BOOLEAN,
         ReadCommands(fd, m, partial)
  PROVE  /\ \E new, ts : ReadInto(fd, new, ts)
         /\ got' = [got EXCEPT ![connections[fd].peer] = m]
PROOF
<1>1. PICK conn : conn = connections[fd]
  BY Zenon
<1>2. PICK c : c = conn.peer
  BY Zenon
<1>3. PICK g : g = got[c]
  BY Zenon
<1> DEFINE bad == {i \in (g + 1)..m : sent[c][i].name = "BAD"}
           last == IF bad = {} THEN m ELSE Min(bad) - 1
           parsed == [conn EXCEPT !.next_request_seq = @ + last - g, !.partial = partial]
           task(i) == [fd |-> fd, generation |-> conn.generation,
                       seq |-> conn.next_request_seq + i - 1, cmd |-> sent[c][g + i]]
<1>4. /\ Enqueue([i \in 1..(last - g) |-> task(i)])
      /\ got' = [got EXCEPT ![c] = m]
      /\ \/ bad # {} /\ UpdateEpollEvent(fd, FailConnectionProtocol(parsed, sent[c][Min(bad)]))
         \/ /\ bad = {} /\ connections' = [connections EXCEPT ![fd] = parsed]
            /\ UNCHANGED <<running, wake, faulted>>
  BY <1>1, <1>2, <1>3, ZenonT(30) DEF ReadCommands
<1>5. /\ conn \in Connections /\ c \in Clients /\ ~conn.closing /\ conn.generation \in Nat
      /\ Counting(conn, Len(out[c]), g) /\ JustifiedIn(conn) /\ Len(out[c]) \in Nat
      /\ sent[c] \in Seq(Commands) /\ g \in Nat
  <2>1. conn \in Connections
    BY <1>1, Zenon DEF Inv, TypeOK, LoopTypeOK, Open
  <2>2. c \in Clients /\ conn.generation \in Nat
    BY <1>2, <2>1, ZenonT(30) DEF Connections
  <2> QED
    BY <1>1, <1>2, <1>3, <2>1, <2>2, SMTT(30) DEF Inv, AllCounting, AllJustified, TypeOK, NetTypeOK
<1>6. /\ m \in Nat /\ g <= m /\ m <= Len(sent[c]) /\ Len(sent[c]) \in Nat
  BY <1>1, <1>2, <1>3, <1>5, SMTT(30)
<1>7. /\ conn.next_request_seq = g /\ conn.next_write_seq <= g /\ conn.next_write_seq \in Nat
  BY <1>5, ZenonT(30) DEF Counting, Connections
<1>8. \A i \in (g + 1)..m : /\ sent[c][i] \in Commands /\ sent[c][i].by = c /\ sent[c][i].n = i
                            /\ Timely(sent[c][i])
  <2>1. \A i \in (g + 1)..m : i \in 1..Len(sent[c])
    BY <1>5, <1>6
  <2> QED
    BY <1>5, <2>1 DEF Inv, CommandsNumbered
<1>9. bad # {} => Min(bad) \in (g + 1)..m
  <2>1. bad \in SUBSET Nat
    BY <1>5, <1>6
  <2>2. bad # {} => Min(bad) \in bad
    <3> HIDE DEF bad
    <3> QED
      BY <2>1, MinOfNumbers, Zenon
  <2> QED
    BY <2>2, Zenon
<1>10. last \in g..m /\ last \in Nat /\ (bad = {} => last = m) /\ (bad # {} => Min(bad) = last + 1)
  <2>1. CASE bad = {}
    <3> HIDE DEF bad
    <3>1. last = m
      BY <2>1, Zenon
    <3>2. m \in Nat /\ g \in Nat /\ g <= m
      BY <1>5, <1>6, Zenon
    <3> HIDE DEF last
    <3> QED
      BY <2>1, <3>1, <3>2
  <2>2. CASE bad # {}
    <3> HIDE DEF bad
    <3> QED
      BY <1>5, <1>6, <1>9, <2>2
  <2> QED
    BY <2>1, <2>2, Zenon
<1> HIDE DEF last, bad
<1>11. /\ parsed \in Connections /\ parsed.peer = c /\ parsed.generation = conn.generation
       /\ parsed.next_request_seq = last /\ parsed.closing = conn.closing
       /\ parsed.output = conn.output /\ parsed.next_write_seq = conn.next_write_seq
       /\ parsed.pending_responses = conn.pending_responses
  <2>1. conn.next_request_seq + last - g = last
    BY <1>5, <1>7, <1>10
  <2>2. parsed = [conn EXCEPT !.next_request_seq = last, !.partial = partial]
    BY <2>1, Zenon
  <2> HIDE DEF parsed
  <2> QED
    BY <1>2, <1>5, <1>10, <2>2, Zenon DEF Connections
<1> HIDE DEF parsed
<1>12. Counting(parsed, Len(out[c]), last) /\ JustifiedIn(parsed)
  <2>1. \A r \in conn.pending_responses : r.seq \in Nat
    BY <1>5, Zenon DEF Connections
  <2>2. \A r \in conn.pending_responses : r.seq < last
    BY <1>5, <1>7, <1>10, <2>1, SMTT(30) DEF Counting
  <2>3. conn.next_write_seq <= last
    BY <1>5, <1>7, <1>10
  <2>4. Counting(parsed, Len(out[c]), last)
    BY <1>2, <1>5, <1>11, <2>2, <2>3, Zenon DEF Counting
  <2> QED
    BY <1>5, <1>11, <2>4, Zenon DEF JustifiedIn
<1>13. PICK ts : ts = [i \in 1..(last - g) |-> task(i)]
  BY Zenon
<1>14. /\ ts \in Seq(Tasks) /\ Len(ts) = last - g
       /\ \A i \in 1..Len(ts) :
            /\ ts[i].fd = fd /\ ts[i].generation = conn.generation
            /\ ts[i].cmd.by = c /\ ts[i].cmd.n = ts[i].seq + 1
            /\ ts[i].seq < last /\ Timely(ts[i].cmd)
  <2>1. last - g \in Nat
    BY <1>5, <1>10
  <2>2. ASSUME NEW i \in 1..(last - g)
        PROVE  /\ ts[i] = task(i) /\ g + i \in (g + 1)..m /\ conn.next_request_seq + i - 1 \in Nat
               /\ conn.next_request_seq + i - 1 < last /\ (conn.next_request_seq + i - 1) + 1 = g + i
    BY <1>5, <1>6, <1>7, <1>10, <1>13
  <2>3. ASSUME NEW i \in 1..(last - g)
        PROVE  /\ ts[i] \in Tasks /\ ts[i].fd = fd /\ ts[i].generation = conn.generation
               /\ ts[i].cmd.by = c /\ ts[i].cmd.n = ts[i].seq + 1
               /\ ts[i].seq < last /\ Timely(ts[i].cmd)
    <3>1. sent[c][g + i] \in Commands
      BY <1>8, <2>2, Zenon
    <3>2. task(i) \in Tasks
      BY <1>5, <2>2, <3>1, Zenon DEF Tasks
    <3>3. /\ task(i).fd = fd /\ task(i).generation = conn.generation
          /\ task(i).seq = conn.next_request_seq + i - 1 /\ task(i).cmd = sent[c][g + i]
      BY Zenon
    <3> HIDE DEF task
    <3>4. sent[c][g + i].by = c /\ sent[c][g + i].n = g + i /\ Timely(sent[c][g + i])
      BY <1>8, <2>2, Zenon
    <3> QED
      BY <2>2, <3>2, <3>3, <3>4, Zenon
  <2>4. ts \in [1..(last - g) -> Tasks]
    <3> HIDE DEF task
    <3> QED
      BY <1>13, <2>3, Zenon
  <2>5. ts \in Seq(Tasks) /\ Len(ts) = last - g
    BY <2>1, <2>4, SMTT(30)
  <2> QED
    BY <2>3, <2>5, Zenon
<1>15. PICK new : /\ new \in Connections /\ OneConnection(fd, new) /\ new.peer = c
                  /\ faulted' # TRUE => connections' = [connections EXCEPT ![fd] = new]
                  /\ new.generation = conn.generation
                  /\ last <= new.next_request_seq /\ new.next_request_seq \in Nat
                  /\ Counting(new, Len(out[c]), m) /\ JustifiedIn(new)
  <2>1. CASE bad = {} /\ connections' = [connections EXCEPT ![fd] = parsed] /\ UNCHANGED <<running, wake, faulted>>
    <3>1. OneConnection(fd, parsed)
      BY <2>1, CloseOrUpdate, Zenon
    <3>2. last = m /\ last <= parsed.next_request_seq /\ parsed.next_request_seq \in Nat
      <4>1. parsed.next_request_seq = last
        BY <1>11, Zenon
      <4>2. last = m /\ last \in Nat
        BY <1>10, <2>1, Zenon
      <4> QED
        BY <4>1, <4>2
    <3> QED
      BY <1>11, <1>12, <2>1, <3>1, <3>2, Zenon
  <2>2. CASE bad # {} /\ UpdateEpollEvent(fd, FailConnectionProtocol(parsed, sent[c][Min(bad)]))
    <3>1. PICK cmd : cmd = sent[c][Min(bad)]
      BY Zenon
    <3>2. cmd \in Commands /\ cmd.by = parsed.peer /\ cmd.n = parsed.next_request_seq + 1
      BY <1>8, <1>9, <1>10, <1>11, <2>2, <3>1, Zenon
    <3>3. PICK failed : failed = FailConnectionProtocol(parsed, cmd)
      BY Zenon
    <3>4. OneConnection(fd, failed)
      BY <2>2, <3>1, <3>3, CloseOrUpdate, Zenon
    <3>a. faulted' # TRUE => connections' = [connections EXCEPT ![fd] = failed]
      BY <2>2, <3>1, <3>3, Zenon DEF UpdateEpollEvent
    <3>5. /\ failed \in Connections /\ failed.peer = parsed.peer
          /\ failed.generation = parsed.generation
          /\ failed.next_request_seq = parsed.next_request_seq + 1
          /\ Counting(failed, Len(out[c]), m) /\ JustifiedIn(failed)
      <4>1. Failed(parsed, failed, Len(out[c]), m)
        BY <1>5, <1>11, <1>12, <3>2, <3>3, FailedCounts, ZenonT(30)
      <4> QED
        BY <4>1, Zenon DEF Failed
    <3>6. last <= failed.next_request_seq /\ failed.next_request_seq \in Nat
      BY <1>10, <1>11, <3>5, SMTT(30)
    <3> QED
      BY <1>11, <3>4, <3>a, <3>5, <3>6, Zenon
  <2> QED
    BY <1>4, <2>1, <2>2, Zenon
<1>16. \A i \in 1..Len(ts) : ts[i].seq < new.next_request_seq
  <2>1. last \in Nat /\ last <= new.next_request_seq /\ new.next_request_seq \in Nat
    BY <1>10, <1>15, Zenon
  <2>2. ts \in Seq(Tasks) /\ \A i \in 1..Len(ts) : ts[i].seq < last
    BY <1>14, ZenonT(30)
  <2> QED
    BY <2>1, <2>2, NumbersBelow, Zenon
<1>17. got'[c] = m /\ Enqueue(ts) /\ conn.next_request_seq <= new.next_request_seq
  <2>1. got \in [Clients -> Nat]
    BY Zenon DEF Inv, TypeOK, NetTypeOK
  <2> HIDE DEF task
  <2> QED
    BY <1>4, <1>5, <1>7, <1>10, <1>13, <1>15, <2>1, SMTT(30)
<1>18. ReadInto(fd, new, ts)
  <2>1. got'[new.peer] = m
    BY <1>15, <1>17, Zenon
  <2> QED
    BY <1>1, <1>2, <1>14, <1>15, <1>16, <1>17, <2>1, Zenon DEF ReadInto
<1> QED
  BY <1>1, <1>2, <1>4, <1>18, Zenon

-----------------------------------------------------------------------------
(* Completions.                                                              *)

\* c1 is conn with more responses pending.
Arrived(conn, c1) ==
  /\ conn \in Connections /\ c1 \in Connections
  /\ c1 = [conn EXCEPT !.pending_responses = c1.pending_responses]
  /\ Counting(c1, Len(out[conn.peer]), got[conn.peer]) /\ JustifiedIn(c1)

\* The completed tasks that belong to a connection are answers to its requests.
LEMMA ArrivedCounts ==
  ASSUME Inv, NEW fd \in Fds, Open(fd), NEW conn, conn = connections[fd],
         NEW more, more = {[seq |-> t.seq, response |-> t.response] :
                             t \in {t \in Range(completed_queue) : Belongs(t, fd)}},
         NEW c1, c1 = [conn EXCEPT !.pending_responses = @ \cup more]
  PROVE  Arrived(conn, c1)
PROOF
<1>1. /\ conn \in Connections /\ Counting(conn, Len(out[conn.peer]), got[conn.peer]) /\ JustifiedIn(conn)
  BY Zenon DEF Inv, TypeOK, LoopTypeOK, Open, AllCounting, AllJustified
<1>2. ASSUME NEW r \in more
      PROVE  /\ r \in [seq : Nat, response : Responses] /\ Justified(r.response)
             /\ r.response.cmd.by = conn.peer /\ r.response.cmd.n = r.seq + 1
             /\ r.seq < conn.next_request_seq
  <2>1. PICK t \in Range(completed_queue) : Belongs(t, fd) /\ r = [seq |-> t.seq, response |-> t.response]
    BY Zenon
  <2>2. completed_queue \in Seq(Completed)
    BY Zenon DEF Inv, TypeOK, LoopTypeOK
  <2>3. PICK i \in 1..Len(completed_queue) : t = completed_queue[i]
    BY <2>2 DEF Range
  <2>4. t \in Completed /\ ForConnection(t, t.response.cmd) /\ Justified(t.response)
    BY <2>2, <2>3 DEF Inv, InFlight, AllJustified
  <2>5. /\ t.response.cmd.by = conn.peer /\ t.response.cmd.n = t.seq + 1
        /\ t.seq < conn.next_request_seq
    BY <2>1, <2>4, Zenon DEF ForConnection, Belongs
  <2>6. r.seq = t.seq /\ r.response = t.response
    BY <2>1, Zenon
  <2>7. t.seq \in Nat /\ t.response \in Responses
    BY <2>4, Zenon DEF Completed
  <2> QED
    BY <2>1, <2>4, <2>5, <2>6, <2>7, Zenon
<1>3. conn.pending_responses \cup more \in SUBSET [seq : Nat, response : Responses]
  BY <1>1, <1>2, Zenon DEF Connections
<1>4. /\ c1 \in Connections /\ c1 = [conn EXCEPT !.pending_responses = c1.pending_responses]
      /\ c1.peer = conn.peer /\ c1.next_request_seq = conn.next_request_seq
      /\ c1.output = conn.output /\ c1.next_write_seq = conn.next_write_seq /\ c1.closing = conn.closing
      /\ c1.pending_responses = conn.pending_responses \cup more
  BY <1>1, <1>3, Zenon DEF Connections
<1>5. \A r \in c1.pending_responses :
        /\ r.response.cmd.by = conn.peer /\ r.response.cmd.n = r.seq + 1
        /\ r.seq < conn.next_request_seq /\ Justified(r.response)
  BY <1>1, <1>2, <1>4, Zenon DEF Counting, JustifiedIn
<1>6. Counting(c1, Len(out[conn.peer]), got[conn.peer])
  <2>1. /\ conn.next_write_seq = Len(out[conn.peer]) + Len(conn.output)
        /\ conn.next_write_seq <= conn.next_request_seq
        /\ ~conn.closing => conn.next_request_seq = got[conn.peer]
        /\ \A i \in 1..Len(conn.output) :
             conn.output[i].cmd.by = conn.peer /\ conn.output[i].cmd.n = Len(out[conn.peer]) + i
    BY <1>1, Zenon DEF Counting
  <2>2. /\ c1.next_write_seq = Len(out[conn.peer]) + Len(c1.output)
        /\ c1.next_write_seq <= c1.next_request_seq
        /\ ~c1.closing => c1.next_request_seq = got[conn.peer]
    BY <1>4, <2>1, Zenon
  <2>3. \A i \in 1..Len(c1.output) :
          c1.output[i].cmd.by = c1.peer /\ c1.output[i].cmd.n = Len(out[conn.peer]) + i
    BY <1>4, <2>1
  <2>4. \A r \in c1.pending_responses :
          /\ r.response.cmd.by = c1.peer /\ r.response.cmd.n = r.seq + 1
          /\ r.seq < c1.next_request_seq
    BY <1>4, <1>5, Zenon
  <2> QED
    BY <2>2, <2>3, <2>4, Zenon DEF Counting
<1>7. JustifiedIn(c1)
  BY <1>1, <1>4, <1>5, Zenon DEF JustifiedIn
<1> QED
  BY <1>1, <1>4, <1>6, <1>7, Zenon DEF Arrived

\* The connection after its completed tasks are sorted in.
Absorbed(fd) ==
  MoveReady([connections[fd] EXCEPT !.pending_responses =
               @ \cup {[seq |-> t.seq, response |-> t.response] :
                          t \in {t \in Range(completed_queue) : Belongs(t, fd)}}])
AbsorbedInto(fd, new) ==
  /\ new \in Connections /\ new.peer = connections[fd].peer
  /\ new.generation = connections[fd].generation
  /\ new.next_request_seq = connections[fd].next_request_seq
  /\ Counting(new, Len(out[new.peer]), got[new.peer]) /\ JustifiedIn(new)

\* It is as right as it was before.
LEMMA AbsorbedCounts ==
  ASSUME LeastNumber, Inv, NEW fd \in Fds, Open(fd), NEW ints \in SUBSET {"IN", "OUT"}, NEW new,
         new = Absorbed(fd) \/ new = [Absorbed(fd) EXCEPT !.interest = ints]
  PROVE  AbsorbedInto(fd, new)
PROOF
<1>1. PICK conn : conn = connections[fd]
  BY Zenon
<1>2. PICK more1 : more1 = {[seq |-> t.seq, response |-> t.response] :
                               t \in {t \in Range(completed_queue) : Belongs(t, fd)}}
  BY Zenon
<1>3. PICK c1 : c1 = [conn EXCEPT !.pending_responses = @ \cup more1]
  BY Zenon
<1>4. /\ conn \in Connections /\ c1 \in Connections
      /\ c1 = [conn EXCEPT !.pending_responses = c1.pending_responses]
      /\ Counting(c1, Len(out[conn.peer]), got[conn.peer]) /\ JustifiedIn(c1)
  <2>1. Arrived(conn, c1)
    BY <1>1, <1>2, <1>3, ArrivedCounts, Zenon
  <2> QED
    BY <2>1, Zenon DEF Arrived
<1>5. PICK moved : moved = MoveReady(c1)
  BY Zenon
<1>6. moved = Absorbed(fd)
  BY <1>1, <1>2, <1>3, <1>5, Zenon DEF Absorbed
<1>7. c1.peer = conn.peer /\ c1.generation = conn.generation /\ c1.next_request_seq = conn.next_request_seq
      /\ c1.next_write_seq <= c1.next_request_seq
      /\ \A r \in c1.pending_responses : r.seq < c1.next_request_seq
  <2>1. c1.peer = conn.peer /\ c1.generation = conn.generation /\ c1.next_request_seq = conn.next_request_seq
    BY <1>4, Zenon DEF Connections
  <2>2. c1.next_write_seq <= c1.next_request_seq
        /\ \A r \in c1.pending_responses : r.seq < c1.next_request_seq
    BY <1>4, Zenon DEF Counting
  <2> QED
    BY <2>1, <2>2, Zenon
<1>8. Len(out[conn.peer]) \in Nat
  BY <1>4 DEF Connections, Inv, TypeOK, NetTypeOK
<1>9. Counting(moved, Len(out[conn.peer]), got[conn.peer]) /\ JustifiedIn(moved)
  BY <1>4, <1>5, <1>8, MovedCounts, Zenon
<1>10. Moved(c1, moved)
  BY <1>4, <1>5, <1>7, MoveReadyFacts, Zenon
<1>11. /\ moved \in Connections
       /\ moved = [c1 EXCEPT !.output = moved.output, !.next_write_seq = moved.next_write_seq,
                             !.pending_responses = moved.pending_responses]
  BY <1>10, Zenon DEF Moved
<1>12. /\ moved.peer = conn.peer /\ moved.generation = conn.generation
       /\ moved.next_request_seq = conn.next_request_seq
  BY <1>4, <1>7, <1>11, Zenon DEF Connections
<1>13. CASE new = moved
  BY <1>1, <1>9, <1>11, <1>12, <1>13, Zenon DEF AbsorbedInto
<1>14. CASE new = [moved EXCEPT !.interest = ints]
  <2>2. /\ new \in Connections /\ new.peer = moved.peer /\ new.generation = moved.generation
        /\ new.next_request_seq = moved.next_request_seq /\ new.output = moved.output
        /\ new.next_write_seq = moved.next_write_seq /\ new.closing = moved.closing
        /\ new.pending_responses = moved.pending_responses
    BY <1>11, <1>14, Zenon DEF Connections
  <2>3. Counting(new, Len(out[conn.peer]), got[conn.peer]) /\ JustifiedIn(new)
    BY <1>9, <2>2, Zenon DEF Counting, JustifiedIn
  <2> QED
    BY <1>1, <1>12, <2>2, <2>3, Zenon DEF AbsorbedInto
<1> QED
  BY <1>6, <1>13, <1>14, Zenon

-----------------------------------------------------------------------------
(* The clients' steps.                                                       *)

\* Connect.
LEMMA ConnectStep ==
  ASSUME Inv, NEW c \in Clients, Connect(c)
  PROVE  Inv'
PROOF
<1>0. /\ UNCHANGED <<loopVars, completed_queue, wake, sent, got, out, taken, versions, faulted, poolVars>>
      /\ client[c] = "new" /\ client' = [client EXCEPT ![c] = "open"]
      /\ backlog' = Append(backlog, c)
  BY Zenon DEF Connect
<1>1. NetTypeOK'
  <2>1. NetTypeOK
    BY Zenon DEF Inv, TypeOK
  <2>2. client' \in [Clients -> {"new", "open", "eof", "gone"}] /\ backlog' \in Seq(Clients)
    BY <1>0, <2>1 DEF NetTypeOK
  <2> QED
    BY <1>0, <2>1, <2>2, Zenon DEF NetTypeOK, Room
<1>2. OnePlace'
  <2>1. /\ backlog \in Seq(Clients) /\ client \in [Clients -> {"new", "open", "eof", "gone"}]
        /\ OnePlace /\ Untouched(c)
        /\ \A fd \in Fds : Open(fd) => connections[fd].peer \in Clients
        /\ (pc = "insert" => cur.peer \in Clients)
    BY <1>0, Zenon DEF Inv, TypeOK, NetTypeOK, LoopTypeOK, OnePlace, Open, Connections
  <2>2. UNCHANGED <<got, out, pc, cur, connections>>
    BY <1>0, Zenon DEF loopVars
  <2>3. \A d \in Clients : client'[d] # client[d] => d = c
    BY <1>0, <2>1, Zenon
  <2>4. /\ Len(backlog) \in Nat /\ Len(backlog') = Len(backlog) + 1 /\ backlog'[Len(backlog) + 1] = c
        /\ \A i \in 1..Len(backlog) : backlog'[i] = backlog[i] /\ backlog[i] \in Clients
    BY <1>0, <2>1
  <2>5. \A i \in 1..Len(backlog') : i \in 1..Len(backlog) \/ i = Len(backlog) + 1
    BY <2>4
  <2>6. \A i \in 1..Len(backlog) : backlog[i] # c
    BY <1>0, <2>1, Zenon DEF OnePlace
  <2>7. client'[c] # "new"
    BY <1>0, <2>1, Zenon
  <2>8. \A d \in Clients : client'[d] = "new" => Untouched(d)'
    BY <2>1, <2>2, <2>3, <2>7, Zenon DEF OnePlace, Untouched
  <2>9. ASSUME NEW i \in 1..Len(backlog')
        PROVE  /\ client'[backlog'[i]] # "new"
               /\ got'[backlog'[i]] = 0 /\ out'[backlog'[i]] = <<>>
               /\ \A j \in 1..Len(backlog') : backlog'[i] = backlog'[j] => i = j
               /\ (pc' = "insert" => backlog'[i] # cur'.peer)
               /\ \A fd \in Fds : Open(fd)' => connections'[fd].peer # backlog'[i]
    <3>1. CASE i = Len(backlog) + 1
      BY <1>0, <2>1, <2>2, <2>4, <2>5, <2>6, <2>7, <3>1, SMTT(30) DEF OnePlace, Untouched, Open
    <3>2. CASE i \in 1..Len(backlog)
      <4>1. \A j \in 1..Len(backlog') : backlog'[i] = backlog'[j] => i = j
        BY <2>1, <2>4, <2>5, <2>6, <3>2, Zenon DEF OnePlace
      <4>2. backlog'[i] = backlog[i] /\ backlog[i] \in Clients /\ backlog[i] # c
        BY <2>4, <2>6, <3>2, Zenon
      <4>3. /\ client[backlog[i]] # "new" /\ got[backlog[i]] = 0 /\ out[backlog[i]] = <<>>
            /\ (pc = "insert" => backlog[i] # cur.peer)
            /\ \A fd \in Fds : Open(fd) => connections[fd].peer # backlog[i]
        BY <2>1, <3>2, Zenon DEF OnePlace, Untouched
      <4>4. client'[backlog[i]] # "new"
        BY <2>3, <4>2, <4>3, Zenon
      <4>5. \A fd \in Fds : Open(fd)' => connections'[fd].peer # backlog[i]
        BY <2>2, <4>3, Zenon DEF Open
      <4> QED
        BY <2>2, <4>1, <4>2, <4>3, <4>4, <4>5, Zenon
    <3> QED
      BY <2>5, <3>1, <3>2, ZenonT(30)
  <2>10. ASSUME pc' = "insert"
         PROVE  client'[cur'.peer] # "new" /\ Untouched(cur.peer)' /\ ~Open(cur.fd)'
    <3>0. pc = "insert" /\ cur' = cur
      BY <2>2, <2>10, Zenon
    <3>a. pc = "insert" => client[cur.peer] # "new"
      BY Zenon DEF Inv, OnePlace
    <3>1. pc = "insert" /\ cur' = cur /\ cur.peer \in Clients /\ client[cur.peer] # "new"
      BY <2>1, <3>0, <3>a, Zenon
    <3>2. client'[cur.peer] # "new"
      BY <2>3, <2>7, <3>1, Zenon
    <3>3. Untouched(cur.peer)' /\ ~Open(cur.fd)'
      BY <2>1, <2>2, <3>1, Zenon DEF OnePlace, Untouched, Open
    <3> QED
      BY <3>1, <3>2, <3>3, Zenon
  <2>11. ASSUME NEW fd \in Fds, Open(fd)'
         PROVE  /\ client'[connections'[fd].peer] # "new"
                /\ (pc' = "insert" => cur'.peer # connections'[fd].peer)
                /\ \A gd \in Fds : Open(gd)' /\ connections'[gd].peer = connections'[fd].peer => fd = gd
    BY <2>1, <2>2, <2>3, <2>7, <2>11, Zenon DEF OnePlace, Open
  <2> QED
    BY <2>8, <2>9, <2>10, <2>11, Zenon DEF OnePlace, Untouched
<1> QED
  BY <1>0, <1>1, <1>2, LoopTypeFrame, PoolTypeFrame, CommandsFrame, InFlightFrame, CountingFrame,
     JustifiedFrame, EndingFrame, Zenon
  DEF Inv, TypeOK, loopVars, poolVars, AnswersInOrder

\* Send: the command is numbered, and knows no version to come.
LEMMA SendStep ==
  ASSUME LeastNumber, Inv, NEW c \in Clients, Send(c)
  PROVE  Inv'
PROOF
<1> DEFINE n == Len(sent[c]) + 1
<1>1. PICK r \in Requests :
        sent' = [sent EXCEPT ![c] =
                   Append(@, [by |-> c, n |-> n, name |-> r.name, argc |-> r.argc, key |-> r.key,
                              value |-> <<c, n>>, floor |-> Acknowledged])]
  BY Zenon DEF Send
<1> DEFINE cmd == [by |-> c, n |-> n, name |-> r.name, argc |-> r.argc, key |-> r.key,
                   value |-> <<c, n>>, floor |-> Acknowledged]
<1>0. UNCHANGED <<loopVars, completed_queue, wake, client, backlog, got, out, taken, versions, faulted, poolVars>>
  BY Zenon DEF Send
<1>2. Acknowledged \in Nat \ {0} /\ Acknowledged <= Len(versions)
  BY AcknowledgedIsVersion, Zenon DEF Inv
<1>3. sent \in [Clients -> Seq(Commands)] /\ Len(sent[c]) \in Nat /\ n \in Nat \ {0}
  BY DEF Inv, TypeOK, NetTypeOK
<1> HIDE DEF n
<1>4. cmd \in Commands
  BY <1>2, <1>3, ServerAssumption, Zenon DEF Commands
<1>5. sent' = [sent EXCEPT ![c] = Append(@, cmd)] /\ cmd.by = c /\ cmd.n = n /\ cmd.floor <= Len(versions)
  BY <1>1, <1>2, Zenon
<1> HIDE DEF cmd
<1>6. sent' \in [Clients -> Seq(Commands)]
  BY <1>3, <1>4, <1>5
<1>7. NetTypeOK'
  BY <1>0, <1>6, Zenon DEF Inv, TypeOK, NetTypeOK, Room
<1>8. CommandsNumbered'
  <2>1. ASSUME NEW d \in Clients
        PROVE  /\ got'[d] <= Len(sent'[d])
               /\ \A i \in 1..Len(sent'[d]) : sent'[d][i].by = d /\ sent'[d][i].n = i /\ sent'[d][i].floor <= Len(versions')
    <3>1. got[d] <= Len(sent[d]) /\ got[d] \in Nat /\ Len(sent[d]) \in Nat
          /\ \A i \in 1..Len(sent[d]) : sent[d][i].by = d /\ sent[d][i].n = i
                                        /\ sent[d][i].floor <= Len(versions)
      BY <1>3, SMTT(30) DEF Inv, CommandsNumbered, TypeOK, NetTypeOK, Timely
    <3>2. CASE d # c
      BY <1>0, <1>3, <1>5, <3>1, <3>2, ZenonT(30) DEF Timely
    <3>3. CASE d = c
      <4>1. sent'[c] = Append(sent[c], cmd)
        BY <1>3, <1>5, Zenon
      <4>2. /\ Len(sent'[c]) = n /\ sent'[c][n] = cmd
            /\ \A i \in 1..Len(sent[c]) : sent'[c][i] = sent[c][i]
        BY <1>3, <1>4, <4>1 DEF n
      <4>3. \A i \in 1..n : i \in 1..Len(sent[c]) \/ i = n
        BY <1>3 DEF n
      <4>4. got[d] <= n
        BY <3>1, <3>3, SMTT(30) DEF n
      <4> QED
        BY <1>0, <1>5, <3>1, <3>3, <4>2, <4>3, <4>4, SMTT(30) DEF Timely
    <3> QED
      BY <3>2, <3>3, Zenon
  <2> QED
    BY <2>1, Zenon DEF CommandsNumbered, Timely
<1> QED
  BY <1>0, <1>7, <1>8, LoopTypeFrame, PoolTypeFrame, OnePlaceFrame, InFlightFrame, CountingFrame,
     JustifiedFrame, EndingFrame, Zenon
  DEF Inv, TypeOK, loopVars, poolVars, AnswersInOrder

\* Receive.
LEMMA ReceiveStep ==
  ASSUME Inv, NEW c \in Clients, Receive(c)
  PROVE  Inv'
PROOF
<1>0. /\ UNCHANGED <<loopVars, completed_queue, wake, netVars, out, versions, faulted, poolVars>>
      /\ taken[c] < Len(out[c]) /\ taken' = [taken EXCEPT ![c] = @ + 1]
  BY Zenon DEF Receive
<1>1. NetTypeOK'
  <2>1. /\ out \in [Clients -> Seq(Responses)] /\ taken \in [Clients -> Nat] /\ SndCap \in Nat
        /\ \A d \in Clients : SndCap - (Len(out[d]) - taken[d]) \in 0..SndCap
    BY ServerAssumption, Zenon DEF Inv, TypeOK, NetTypeOK, Room
  <2>2. taken' \in [Clients -> Nat]
    BY <1>0, <2>1
  <2>3. ASSUME NEW d \in Clients
        PROVE  SndCap - (Len(out[d]) - taken'[d]) \in 0..SndCap
    <3>1. Len(out[d]) \in Nat /\ taken[d] \in Nat /\ taken'[d] = IF d = c THEN taken[d] + 1 ELSE taken[d]
      BY <1>0, <2>1, SMTT(30)
    <3> QED
      BY <1>0, <2>1, <3>1
  <2> QED
    BY <1>0, <2>2, <2>3, Zenon DEF Inv, TypeOK, NetTypeOK, Room, netVars
<1> QED
  BY <1>0, <1>1, LoopTypeFrame, PoolTypeFrame, CommandsFrame, OnePlaceFrame, InFlightFrame, CountingFrame,
     JustifiedFrame, EndingFrame, Zenon
  DEF Inv, TypeOK, loopVars, poolVars, netVars, AnswersInOrder

\* A client leaves; it does not become new by that.
LEMMA ClientLeavesStep ==
  ASSUME Inv, NEW c \in Clients, ClientLeaves(c)
  PROVE  Inv'
PROOF
<1>0. /\ UNCHANGED <<loopVars, completed_queue, wake, backlog, sent, got, out, taken, versions, faulted, poolVars>>
      /\ \E how \in {"eof", "gone"} : client' = [client EXCEPT ![c] = how]
  BY Zenon DEF ClientLeaves
<1>1. client \in [Clients -> {"new", "open", "eof", "gone"}]
  BY Zenon DEF Inv, TypeOK, NetTypeOK
<1>2. /\ client' \in [Clients -> {"new", "open", "eof", "gone"}]
      /\ \A d \in Clients : client'[d] = "new" => client[d] = "new"
  BY <1>0, <1>1, Zenon
<1>3. NetTypeOK'
  BY <1>0, <1>2, Zenon DEF Inv, TypeOK, NetTypeOK, Room
<1>4. Evolves
  BY <1>0 DEF Evolves, Inv, TypeOK, LoopTypeOK, loopVars, Open, Connections
<1>5. OnePlace'
  BY <1>0, <1>2, <1>4, StillOnePlace, Zenon DEF Inv, loopVars
<1> QED
  BY <1>0, <1>3, <1>5, LoopTypeFrame, PoolTypeFrame, CommandsFrame, InFlightFrame, CountingFrame,
     JustifiedFrame, EndingFrame, Zenon
  DEF Inv, TypeOK, loopVars, poolVars, AnswersInOrder

-----------------------------------------------------------------------------
(* The workers' steps.                                                       *)

\* Take, Sleep, Leave and a spurious wake-up.
LEMMA PoolSteps ==
  ASSUME Inv, NEW w \in Workers, Pool(w) \/ Spurious(w)
  PROVE  Inv'
PROOF
<1>0. /\ UNCHANGED <<loopVars, completed_queue, wake, netVars, out, taken, versions, faulted>>
      /\ Take(w) \/ Sleep(w) \/ Leave(w) \/ SpuriousWakeup(w)
  BY Zenon DEF Pool, Spurious, PoolStep
<1>1. /\ stop \in BOOLEAN /\ tasks \in Seq(Tasks)
      /\ at \in [Workers -> {"ready", "wait", "run", "push", "notify", "gone"}]
      /\ job = [v \in Workers |-> job[v]]
      /\ \A v \in Workers : /\ at[v] = "run" => job[v] \in Tasks
                            /\ at[v] = "push" => job[v] \in Completed
                            /\ at[v] \notin {"run", "push"} => job[v] = NoTask
  BY Zenon DEF Inv, TypeOK, PoolTypeOK
<1>2. CASE Take(w)
  <2>1. /\ at[w] = "ready" /\ tasks # <<>> /\ tasks' = Tail(tasks) /\ stop' = stop
        /\ at' = [at EXCEPT ![w] = "run"] /\ job' = [job EXCEPT ![w] = tasks[1]]
    BY <1>1, <1>2 DEF Take
  <2>2. /\ 1 \in 1..Len(tasks) /\ tasks[1] \in Tasks /\ tasks' \in Seq(Tasks)
        /\ \A i \in 1..Len(tasks') : tasks'[i] = tasks[i + 1] /\ i + 1 \in 1..Len(tasks)
    BY <1>1, <2>1
  <2>3. /\ at'[w] = "run" /\ job'[w] = tasks[1]
        /\ \A v \in Workers : v # w => at'[v] = at[v] /\ job'[v] = job[v]
        /\ at' \in [Workers -> {"ready", "wait", "run", "push", "notify", "gone"}]
        /\ job' = [v \in Workers |-> job'[v]]
    BY <1>1, <2>1, Zenon
  <2>4. PoolTypeOK'
    BY <1>1, <2>1, <2>2, <2>3, Zenon DEF PoolTypeOK
  <2>5. UNCHANGED <<completed_queue, connections, next_generation, out, versions, pc, running>>
    BY <1>0, Zenon DEF loopVars
  <2>6. InFlight'
    <3>1. \A t, cmd : ForConnection(t, cmd) => ForConnection(t, cmd)'
      BY <2>5, Zenon DEF ForConnection, Open
    <3> QED
      BY <2>2, <2>3, <2>5, <3>1, SMTT(30) DEF Inv, InFlight
  <2>7. AllJustified'
    <3>1. \A t : (Timely(t) => Timely(t)') /\ (Justified(t) => Justified(t)') /\ (JustifiedIn(t) => JustifiedIn(t)')
      BY <2>5, Zenon DEF Timely, Justified, JustifiedIn
    <3> QED
      BY <2>2, <2>3, <2>5, <3>1, ZenonT(30) DEF Inv, AllJustified, Open
  <2>8. Ending'
    BY <1>1, <2>1, <2>3, <2>5, SMTT(30) DEF Inv, Ending, Joined, Open
  <2> QED
    BY <1>0, <2>4, <2>6, <2>7, <2>8, LoopTypeFrame, NetTypeFrame, CommandsFrame, OnePlaceFrame, CountingFrame, Zenon
    DEF Inv, TypeOK, loopVars, netVars, AnswersInOrder
<1>3. CASE Sleep(w) \/ Leave(w) \/ SpuriousWakeup(w)
  <2>1. /\ at[w] \in {"ready", "wait"} /\ tasks' = tasks /\ stop' = stop /\ job' = job
        /\ \E to \in {"ready", "wait", "gone"} : /\ at' = [at EXCEPT ![w] = to]
                                                 /\ to = "gone" => stop /\ tasks = <<>>
    BY <1>3, Zenon DEF Sleep, Leave, SpuriousWakeup
  <2>2. /\ at'[w] \in {"ready", "wait", "gone"} /\ (at'[w] = "gone" => stop /\ tasks = <<>>)
        /\ \A v \in Workers : v # w => at'[v] = at[v]
        /\ at' \in [Workers -> {"ready", "wait", "run", "push", "notify", "gone"}]
    BY <1>1, <2>1, Zenon
  <2>3. PoolTypeOK'
    BY <1>1, <2>1, <2>2, Zenon DEF PoolTypeOK
  <2>4. UNCHANGED <<completed_queue, connections, next_generation, out, versions, pc, running>>
    BY <1>0, Zenon DEF loopVars
  <2>5. InFlight'
    <3>1. \A t, cmd : ForConnection(t, cmd) => ForConnection(t, cmd)'
      BY <2>4, Zenon DEF ForConnection, Open
    <3> QED
      BY <2>1, <2>2, <2>4, <3>1, ZenonT(30) DEF Inv, InFlight
  <2>6. AllJustified'
    <3>1. \A t : (Timely(t) => Timely(t)') /\ (Justified(t) => Justified(t)') /\ (JustifiedIn(t) => JustifiedIn(t)')
      BY <2>4, Zenon DEF Timely, Justified, JustifiedIn
    <3> QED
      BY <2>1, <2>2, <2>4, <3>1, Zenon DEF Inv, AllJustified, Open
  <2>7. Ending'
    <3>1. pc = "exited" => at[w] = "gone"
      BY Zenon DEF Inv, Ending, Joined
    <3> QED
      BY <2>1, <2>2, <2>4, <3>1, Zenon DEF Inv, Ending, Joined, Open
  <2> QED
    BY <1>0, <2>3, <2>5, <2>6, <2>7, LoopTypeFrame, NetTypeFrame, CommandsFrame, OnePlaceFrame, CountingFrame, Zenon
    DEF Inv, TypeOK, loopVars, netVars, AnswersInOrder
<1> QED
  BY <1>0, <1>2, <1>3, Zenon

\* Versions that are added do not make a response less justified.
LEMMA StillJustified ==
  ASSUME Len(versions) \in Nat, Len(versions') \in Nat, Len(versions) <= Len(versions'),
         \A j \in 1..Len(versions) : versions'[j] = versions[j],
         NEW r \in Responses, Justified(r)
  PROVE  Justified(r)'
PROOF
<1>1. r.cmd.floor \in Nat \ {0}
  BY Zenon DEF Responses, Commands
<1>2. SUFFICES ASSUME r.reply # Error
               PROVE  \E j \in r.cmd.floor..Len(versions') : r.reply = Reply(r.cmd, versions'[j].db)
  BY Zenon DEF Justified
<1>3. PICK j \in r.cmd.floor..Len(versions) : r.reply = Reply(r.cmd, versions[j].db)
  BY <1>2, Zenon DEF Justified
<1>4. j \in 1..Len(versions) /\ j \in r.cmd.floor..Len(versions')
  BY <1>1, <1>3
<1>5. versions'[j] = versions[j]
  BY <1>4, Zenon
<1> QED
  BY <1>3, <1>4, <1>5, Zenon

\* Execute: the answer is justified by the version that the worker saw.
LEMMA ExecuteStep ==
  ASSUME Inv, NEW w \in Workers, Execute(w)
  PROVE  Inv'
PROOF
<1> DEFINE t == job[w]
           n == Len(versions)
           db == versions[n].db
           done(reply) == [fd |-> t.fd, generation |-> t.generation, seq |-> t.seq,
                           response |-> [cmd |-> t.cmd, reply |-> reply]]
           made == [made_by |-> t.cmd, db |-> Effect(t.cmd, db)]
           Dbs == [Keys -> (Clients \X Nat) \cup {Null}]
           Vers == [made_by : Commands \cup {Nothing}, db : Dbs]
<1>0. /\ UNCHANGED <<loopVars, completed_queue, wake, netVars, out, taken, faulted, tasks, stop>>
      /\ at[w] = "run" /\ at' = [at EXCEPT ![w] = "push"]
      /\ \/ job' = [job EXCEPT ![w] = done(Reply(t.cmd, db))]
            /\ versions' \in {versions, Append(versions, made)}
         \/ job' = [job EXCEPT ![w] = done(Error)] /\ versions' = versions
  BY Zenon DEF Execute
<1>1. /\ stop \in BOOLEAN /\ tasks \in Seq(Tasks) /\ t \in Tasks
      /\ at \in [Workers -> {"ready", "wait", "run", "push", "notify", "gone"}]
      /\ job = [v \in Workers |-> job[v]]
      /\ \A v \in Workers : /\ at[v] = "run" => job[v] \in Tasks
                            /\ at[v] = "push" => job[v] \in Completed
                            /\ at[v] \notin {"run", "push"} => job[v] = NoTask
  BY <1>0, Zenon DEF Inv, TypeOK, PoolTypeOK
<1>2. /\ n \in Nat \ {0} /\ versions \in Seq(Vers) /\ db \in Dbs /\ versions # <<>>
  <2>1. versions # <<>> /\ versions \in Seq(Vers)
    BY Zenon DEF Inv, TypeOK, NetTypeOK
  <2>2. n \in 1..Len(versions)
    BY <2>1
  <2>3. versions[n] \in Vers
    <3> HIDE DEF n, Vers
    <3> QED
      BY <2>1, <2>2
  <2> HIDE DEF Dbs
  <2> QED
    BY <2>1, <2>2, <2>3
<1>3. t.cmd \in Commands /\ t.fd \in Fds /\ t.generation \in Nat /\ t.seq \in Nat
  BY <1>1, Zenon DEF Tasks
<1>4. made \in Vers
  <2>1. t.cmd.key \in Keys /\ t.cmd.value \in Clients \X Nat
    BY <1>3, Zenon DEF Commands
  <2>2. Effect(t.cmd, db) \in Dbs
    <3> HIDE DEF db, t
    <3> QED
      BY <1>2, <2>1, Zenon DEF Effect
  <2> HIDE DEF Dbs
  <2> QED
    BY <1>3, <2>2, Zenon
<1>5. PICK reply \in Replies :
        /\ job' = [job EXCEPT ![w] = done(reply)]
        /\ reply # Error => reply = Reply(t.cmd, db)
  <2>1. Reply(t.cmd, db) \in Replies /\ Error \in Replies
    <3> HIDE DEF db, t
    <3> QED
      BY <1>2, <1>3, ReplyType, Zenon DEF Replies
  <2> QED
    BY <1>0, <2>1, Zenon
<1>6. done(reply) \in Completed /\ done(reply).response \in Responses
  BY <1>3, Zenon DEF Completed, Responses
<1>7. /\ versions' \in Seq(Vers) /\ versions' # <<>> /\ Len(versions') \in Nat
      /\ Len(versions) <= Len(versions') /\ \A j \in 1..Len(versions) : versions'[j] = versions[j]
  <2> HIDE DEF made, Vers
  <2>1. CASE versions' = versions
    BY <1>2, <2>1
  <2>2. CASE versions' = Append(versions, made)
    BY <1>2, <1>4, <2>2, SMTT(30)
  <2> QED
    BY <1>0, <2>1, <2>2, Zenon
<1>8. NetTypeOK'
  BY <1>0, <1>7, Zenon DEF Inv, TypeOK, NetTypeOK, netVars, Room
<1>a. PICK answer : answer = done(reply)
  BY Zenon
<1>9. /\ answer.fd = t.fd /\ answer.generation = t.generation /\ answer.seq = t.seq
      /\ answer.response.cmd = t.cmd /\ answer.response.reply = reply
  BY <1>a, Zenon
<1>10. answer \in Completed /\ answer.response \in Responses /\ job' = [job EXCEPT ![w] = answer]
  BY <1>5, <1>6, <1>a, Zenon
<1> HIDE DEF done
<1>11. /\ at'[w] = "push" /\ job'[w] = answer
       /\ \A v \in Workers : v # w => at'[v] = at[v] /\ job'[v] = job[v]
       /\ at' \in [Workers -> {"ready", "wait", "run", "push", "notify", "gone"}]
       /\ job' = [v \in Workers |-> job'[v]]
  BY <1>0, <1>1, <1>10, Zenon
<1>12. PoolTypeOK'
  BY <1>0, <1>1, <1>10, <1>11, Zenon DEF PoolTypeOK
<1>13. UNCHANGED <<tasks, completed_queue, connections, next_generation, out, pc, running, sent, got>>
  BY <1>0, Zenon DEF loopVars, netVars
<1>14. InFlight'
  <2>1. \A u, cmd : ForConnection(u, cmd) => ForConnection(u, cmd)'
    BY <1>13, Zenon DEF ForConnection, Open
  <2>2. ForConnection(t, t.cmd)
    BY <1>0, Zenon DEF Inv, InFlight
  <2>3. ForConnection(answer, answer.response.cmd)
    BY <1>9, <2>2, Zenon DEF ForConnection
  <2> QED
    BY <1>11, <1>13, <2>1, <2>3, Zenon DEF Inv, InFlight
<1>15. \A r \in Responses : Justified(r) => Justified(r)'
  BY <1>2, <1>7, StillJustified, Zenon
<1>16. \A cmd \in Commands : Timely(cmd) => Timely(cmd)'
  BY <1>2, <1>7 DEF Timely, Commands
<1>17. AllJustified'
  <2>1. Justified(answer.response)'
    <3>1. t.cmd.floor <= n /\ t.cmd.floor \in Nat
      BY <1>0, <1>3, Zenon DEF Inv, AllJustified, Timely, Commands
    <3>2. n \in t.cmd.floor..n
      BY <1>2, <3>1, SMTT(30)
    <3>3. Justified(answer.response)
      BY <1>5, <1>9, <3>2, Zenon DEF Justified
    <3> QED
      BY <1>10, <1>15, <3>3, Zenon
  <2>2. /\ \A i \in 1..Len(tasks) : tasks[i].cmd \in Commands
        /\ \A i \in 1..Len(completed_queue) : completed_queue[i].response \in Responses
        /\ \A c \in Clients : \A i \in 1..Len(out[c]) : out[c][i] \in Responses
    <3>1. /\ tasks \in Seq(Tasks) /\ completed_queue \in Seq(Completed)
          /\ out \in [Clients -> Seq(Responses)]
      BY Zenon DEF Inv, TypeOK, PoolTypeOK, LoopTypeOK, NetTypeOK
    <3>2. /\ \A u \in Tasks : u.cmd \in Commands
          /\ \A u \in Completed : u.response \in Responses
      BY Zenon DEF Tasks, Completed
    <3> QED
      BY <3>1, <3>2, SMTT(30)
  <2>3. \A v \in Workers : /\ at[v] = "run" => job[v].cmd \in Commands
                           /\ at[v] = "push" => job[v].response \in Responses
    BY <1>1, Zenon DEF Tasks, Completed
  <2>4. \A v \in Workers : /\ at'[v] = "run" => Timely(job[v].cmd)'
                           /\ at'[v] = "push" => Justified(job[v].response)'
    BY <1>11, <1>15, <1>16, <2>1, <2>3, Zenon DEF Inv, AllJustified
  <2>5. ASSUME NEW fd \in Fds, Open(fd)'
        PROVE  JustifiedIn(connections[fd])'
    <3>1. connections'[fd] = connections[fd] /\ connections[fd] \in Connections
      BY <1>13, <2>5, Zenon DEF Inv, TypeOK, LoopTypeOK, Open
    <3>2. JustifiedIn(connections[fd])
      BY <1>13, <2>5, Zenon DEF Inv, AllJustified, Open
    <3>3. /\ \A i \in 1..Len(connections[fd].output) : connections[fd].output[i] \in Responses
          /\ \A r \in connections[fd].pending_responses : r.response \in Responses
      BY <3>1, SMTT(30) DEF Connections
    <3> QED
      BY <1>15, <3>1, <3>2, <3>3, Zenon DEF JustifiedIn
  <2>6. /\ \A i \in 1..Len(tasks') : Timely(tasks[i].cmd)'
        /\ \A i \in 1..Len(completed_queue') : Justified(completed_queue[i].response)'
        /\ \A c \in Clients : \A i \in 1..Len(out'[c]) : Justified(out[c][i])'
    BY <1>13, <1>15, <1>16, <2>2, Zenon DEF Inv, AllJustified
  <2> QED
    BY <2>4, <2>5, <2>6, Zenon DEF AllJustified
<1>18. CommandsNumbered'
  <2>1. \A c \in Clients : \A i \in 1..Len(sent[c]) : sent[c][i] \in Commands
    BY SMTT(30) DEF Inv, TypeOK, NetTypeOK
  <2> QED
    BY <1>13, <1>16, <2>1, Zenon DEF Inv, CommandsNumbered
<1>19. Ending'
  BY <1>0, <1>1, <1>11, <1>13, Zenon DEF Inv, Ending, Joined, Open
<1> QED
  BY <1>0, <1>8, <1>12, <1>14, <1>17, <1>18, <1>19, LoopTypeFrame, OnePlaceFrame, CountingFrame, SMTT(30)
  DEF Inv, TypeOK, loopVars, netVars, AnswersInOrder

\* The completed task is queued, and the loop is woken.
LEMMA PushStep ==
  ASSUME Inv, NEW w \in Workers, PushCompleted(w) \/ WakeLoop(w)
  PROVE  Inv'
PROOF
<1>0. UNCHANGED <<loopVars, netVars, out, taken, versions, faulted, tasks, stop>>
  BY Zenon DEF PushCompleted, WakeLoop
<1>1. /\ stop \in BOOLEAN /\ tasks \in Seq(Tasks) /\ completed_queue \in Seq(Completed)
      /\ at \in [Workers -> {"ready", "wait", "run", "push", "notify", "gone"}]
      /\ job = [v \in Workers |-> job[v]]
      /\ \A v \in Workers : /\ at[v] = "run" => job[v] \in Tasks
                            /\ at[v] = "push" => job[v] \in Completed
                            /\ at[v] \notin {"run", "push"} => job[v] = NoTask
  BY Zenon DEF Inv, TypeOK, PoolTypeOK, LoopTypeOK
<1>2. /\ at[w] \in {"push", "notify"} /\ wake' \in {wake, TRUE}
      /\ \E to \in {"notify", "ready"} : at' = [at EXCEPT ![w] = to]
      /\ job' \in {job, [job EXCEPT ![w] = NoTask]} /\ (at[w] = "push" => job' = [job EXCEPT ![w] = NoTask])
      /\ \/ completed_queue' = completed_queue
         \/ at[w] = "push" /\ completed_queue' = Append(completed_queue, job[w])
  BY Zenon DEF PushCompleted, WakeLoop
<1>3. /\ at'[w] \in {"notify", "ready"} /\ job'[w] = NoTask
      /\ \A v \in Workers : v # w => at'[v] = at[v] /\ job'[v] = job[v]
      /\ at' \in [Workers -> {"ready", "wait", "run", "push", "notify", "gone"}]
      /\ job' = [v \in Workers |-> job'[v]]
  BY <1>1, <1>2, Zenon
<1>4. PoolTypeOK'
  BY <1>0, <1>1, <1>3, Zenon DEF PoolTypeOK
<1>5. /\ completed_queue' \in Seq(Completed)
      /\ \A i \in 1..Len(completed_queue') :
           \/ i \in 1..Len(completed_queue) /\ completed_queue'[i] = completed_queue[i]
           \/ at[w] = "push" /\ completed_queue'[i] = job[w]
  <2>1. CASE completed_queue' = completed_queue
    BY <1>1, <2>1, Zenon
  <2>2. CASE at[w] = "push" /\ completed_queue' = Append(completed_queue, job[w])
    <3>1. job[w] \in Completed
      BY <1>1, <2>2, Zenon
    <3> QED
      BY <1>1, <2>2, <3>1
  <2> QED
    BY <1>2, <2>1, <2>2, Zenon
<1>6. LoopTypeOK'
  BY <1>0, <1>2, <1>5, ZenonT(30) DEF Inv, TypeOK, LoopTypeOK, loopVars
<1>7. UNCHANGED <<tasks, stop, connections, next_generation, out, versions, pc, running>>
  BY <1>0, Zenon DEF loopVars
<1>8. InFlight'
  <2>1. \A t, cmd : ForConnection(t, cmd) => ForConnection(t, cmd)'
    BY <1>7, Zenon DEF ForConnection, Open
  <2>2. \A i \in 1..Len(completed_queue') :
          ForConnection(completed_queue'[i], completed_queue'[i].response.cmd)
    BY <1>5, Zenon DEF Inv, InFlight
  <2> QED
    BY <1>3, <1>7, <2>1, <2>2, Zenon DEF Inv, InFlight
<1>9. AllJustified'
  <2>1. \A t : (Timely(t) => Timely(t)') /\ (Justified(t) => Justified(t)') /\ (JustifiedIn(t) => JustifiedIn(t)')
    BY <1>7, Zenon DEF Timely, Justified, JustifiedIn
  <2>2. \A i \in 1..Len(completed_queue') : Justified(completed_queue'[i].response)
    BY <1>5, Zenon DEF Inv, AllJustified
  <2> QED
    BY <1>3, <1>7, <2>1, <2>2, Zenon DEF Inv, AllJustified, Open
<1>10. Ending'
  <2>1. pc = "exited" => at[w] = "gone"
    BY Zenon DEF Inv, Ending, Joined
  <2> QED
    BY <1>2, <1>3, <1>7, <2>1, Zenon DEF Inv, Ending, Joined, Open
<1> QED
  BY <1>0, <1>4, <1>6, <1>8, <1>9, <1>10, NetTypeFrame, CommandsFrame, OnePlaceFrame, CountingFrame, Zenon
  DEF Inv, TypeOK, loopVars, netVars, AnswersInOrder

-----------------------------------------------------------------------------
(* Accepting.                                                                *)

\* epoll_wait and the event of the listening socket.
LEMMA EpollWaitStep ==
  ASSUME Inv, EpollWait \/ \E e \in batch : StartAccept(e)
  PROVE  Inv'
PROOF
<1> DEFINE Events == [fd : Fds \cup {ListenFd, WakeFd}, hup : BOOLEAN, in : BOOLEAN, out : BOOLEAN]
<1>0. /\ UNCHANGED <<running, stopping, listening, connections, next_generation, cur,
                     completed_queue, wake, netVars, out, taken, versions, faulted, poolVars>>
      /\ pc = "event" /\ pc' \in {"event", "accept"} /\ (batch' = ReadyEvents \/ batch' \subseteq batch)
  BY Zenon DEF EpollWait, StartAccept, Handle
<1>1. ReadyEvents \subseteq Events
  <2>1. \A fd \in Fds : ConnectionEvent(fd) \in Events
    BY Zenon DEF ConnectionEvent, Event
  <2>2. /\ Event(ListenFd, FALSE, listening /\ backlog # <<>>, FALSE) \in Events
        /\ Event(WakeFd, FALSE, wake, FALSE) \in Events
    BY Zenon DEF Event, Inv, TypeOK, LoopTypeOK
  <2> HIDE DEF Events
  <2> QED
    BY <2>1, <2>2, Zenon DEF ReadyEvents
<1>2. batch' \subseteq Events
  BY <1>0, <1>1, Zenon DEF Inv, TypeOK, LoopTypeOK
<1>3. LoopTypeOK'
  BY <1>0, <1>2, Zenon DEF Inv, TypeOK, LoopTypeOK
<1>4. OnePlace'
  <2>1. Evolves
    BY <1>0, SMTT(30) DEF Evolves, Inv, TypeOK, LoopTypeOK, Open, Connections
  <2> QED
    BY <1>0, <2>1, StillOnePlace, ZenonT(30) DEF Inv, netVars
<1>5. Ending'
  BY <1>0, Zenon DEF Inv, Ending, Joined, Open, poolVars
<1> QED
  BY <1>0, <1>3, <1>4, <1>5, NetTypeFrame, PoolTypeFrame, CommandsFrame, InFlightFrame, CountingFrame,
     JustifiedFrame, Zenon
  DEF Inv, TypeOK, netVars, poolVars, AnswersInOrder

\* accept: the client that leaves the backlog is the one at hand.
LEMMA HandleAcceptStep ==
  ASSUME LeastNumber, Inv, HandleAccept
  PROVE  Inv'
PROOF
<1> DEFINE free == {fd \in Fds : ~Open(fd)}
<1>0. /\ UNCHANGED <<running, stopping, listening, connections, next_generation, batch,
                     completed_queue, wake, client, sent, got, out, taken, versions, faulted, poolVars>>
      /\ pc = "accept"
      /\ \/ /\ backlog # <<>> /\ free # {} /\ pc' = "insert"
            /\ cur' = [fd |-> Min(free), peer |-> Head(backlog)] /\ backlog' = Tail(backlog)
         \/ pc' = "event" /\ UNCHANGED <<cur, backlog>>
  BY Zenon DEF HandleAccept
<1>1. backlog \in Seq(Clients) /\ cur = Nothing /\ OnePlace
  BY <1>0, Zenon DEF Inv, TypeOK, LoopTypeOK, NetTypeOK
<1>2. ASSUME pc' = "insert"
      PROVE  /\ cur' \in [fd : Fds, peer : Clients] /\ ~Open(cur'.fd) /\ cur'.peer = backlog[1]
             /\ backlog' \in Seq(Clients) /\ Len(backlog) \in Nat /\ 1 <= Len(backlog)
             /\ Len(backlog') = Len(backlog) - 1
             /\ \A i \in 1..Len(backlog') : backlog'[i] = backlog[i + 1]
  <2>1. free \in SUBSET Nat
    BY ServerAssumption, Zenon
  <2>2. Min(free) \in free
    <3>1. free # {}
      BY <1>0, <1>2, Zenon
    <3> HIDE DEF free
    <3> QED
      BY <2>1, <3>1, MinOfNumbers, Zenon
  <2>3. backlog # <<>> /\ cur' = [fd |-> Min(free), peer |-> Head(backlog)] /\ backlog' = Tail(backlog)
    BY <1>0, <1>2, Zenon
  <2>4. Min(free) \in Fds /\ ~Open(Min(free))
    BY <2>2, Zenon
  <2> HIDE DEF free
  <2> QED
    BY <1>1, <2>3, <2>4
<1>3. LoopTypeOK'
  BY <1>0, <1>1, <1>2, Zenon DEF Inv, TypeOK, LoopTypeOK
<1>4. NetTypeOK'
  BY <1>0, <1>2, Zenon DEF Inv, TypeOK, NetTypeOK, Room
<1>5. OnePlace'
  <2>1. CASE pc' = "event"
    BY <1>0, <2>1, SMTT(30) DEF Inv, OnePlace, Untouched, Open
  <2>2. CASE pc' = "insert"
    <3>1. \A i \in 1..Len(backlog') : i + 1 \in 1..Len(backlog) /\ i + 1 # 1
      BY <1>2, <2>2, SMTT(30)
    <3>2. 1 \in 1..Len(backlog)
      BY <1>2, <2>2, SMTT(30)
    <3>3. \A c \in Clients : client'[c] = "new" => Untouched(c)'
      BY <1>0, <1>1, Zenon DEF OnePlace, Untouched
    <3>4. ASSUME NEW i \in 1..Len(backlog')
          PROVE  /\ client'[backlog'[i]] # "new" /\ got'[backlog'[i]] = 0 /\ out'[backlog'[i]] = <<>>
                 /\ \A j \in 1..Len(backlog') : backlog'[i] = backlog'[j] => i = j
                 /\ backlog'[i] # cur'.peer
                 /\ \A fd \in Fds : Open(fd) => backlog'[i] # connections[fd].peer
      <4>1. /\ client[backlog[i + 1]] # "new" /\ Untouched(backlog[i + 1])
            /\ \A j \in 1..Len(backlog) : backlog[i + 1] = backlog[j] => i + 1 = j
            /\ \A fd \in Fds : Open(fd) => backlog[i + 1] # connections[fd].peer
        BY <1>1, <3>1, Zenon DEF OnePlace
      <4>2. ASSUME NEW j \in 1..Len(backlog'), backlog'[i] = backlog'[j]
            PROVE  i = j
        <5>1. backlog[i + 1] = backlog[j + 1] /\ j + 1 \in 1..Len(backlog)
          BY <1>2, <2>2, <3>1, <4>2, Zenon
        <5>2. i + 1 = j + 1
          BY <4>1, <5>1, Zenon
        <5> QED
          BY <5>2
      <4> QED
        BY <1>0, <1>2, <2>2, <3>1, <3>2, <4>1, <4>2, Zenon DEF Untouched
    <3>5. /\ client'[cur'.peer] # "new" /\ got'[cur'.peer] = 0 /\ out'[cur'.peer] = <<>>
          /\ \A fd \in Fds : Open(fd) => cur'.peer # connections[fd].peer
      BY <1>0, <1>1, <1>2, <2>2, <3>2, SMTT(30) DEF OnePlace, Untouched
    <3>6. \A fd \in Fds : Open(fd)' = Open(fd)
      BY <1>0, Zenon DEF Open
    <3>7. ~Open(cur.fd)'
      BY <1>0, <1>2, <2>2, Zenon DEF Open
    <3>8. ASSUME NEW fd \in Fds, Open(fd)
          PROVE  /\ client'[connections[fd].peer] # "new"
                 /\ \A gd \in Fds : Open(gd) /\ connections[gd].peer = connections[fd].peer => fd = gd
      BY <1>0, <1>1, <3>8, Zenon DEF OnePlace
    <3>9. connections' = connections
      BY <1>0, Zenon
    <3> QED
      BY <3>3, <3>4, <3>5, <3>6, <3>7, <3>8, <3>9, Zenon DEF OnePlace, Untouched
  <2> QED
    BY <1>0, <2>1, <2>2, ZenonT(30)
<1>6. Ending'
  BY <1>0, ZenonT(30) DEF Inv, Ending, Joined, Open, poolVars
<1> QED
  BY <1>0, <1>3, <1>4, <1>5, <1>6, PoolTypeFrame, CommandsFrame, InFlightFrame, CountingFrame,
     JustifiedFrame, Zenon
  DEF Inv, TypeOK, poolVars, AnswersInOrder

\* try_emplace: the new connection is of a generation that no task has.
LEMMA InsertConnectionStep ==
  ASSUME Inv, InsertConnection
  PROVE  Inv'
PROOF
<1> DEFINE new == Connection(cur.peer, next_generation)
<1>0. /\ UNCHANGED <<running, stopping, listening, batch,
                     completed_queue, wake, netVars, out, taken, versions, poolVars>>
      /\ pc = "insert" /\ pc' = "accept" /\ cur' = Nothing /\ next_generation' = next_generation + 1
      /\ \/ connections' = [connections EXCEPT ![cur.fd] = new]
         \/ connections' = connections
      /\ faulted' \in {faulted, TRUE}
  BY Zenon DEF InsertConnection
<1>1. /\ cur.fd \in Fds /\ cur.peer \in Clients /\ next_generation \in Nat
      /\ connections \in [Fds -> Connections \cup {NoConn}]
      /\ got[cur.peer] = 0 /\ out[cur.peer] = <<>> /\ client[cur.peer] # "new"
      /\ \A i \in 1..Len(backlog) : backlog[i] # cur.peer
      /\ \A fd \in Fds : Open(fd) => connections[fd].peer # cur.peer
  BY <1>0, ZenonT(30) DEF Inv, TypeOK, LoopTypeOK, OnePlace, Untouched
<1>2. /\ new \in Connections /\ new.peer = cur.peer /\ new.generation = next_generation
      /\ new.next_request_seq = 0 /\ new.next_write_seq = 0 /\ new.output = <<>>
      /\ new.pending_responses = {}
  BY <1>1, SMTT(30) DEF Connection, Connections
<1> HIDE DEF new
<1>3. /\ connections' \in [Fds -> Connections \cup {NoConn}]
      /\ \A fd \in Fds : connections'[fd] = connections[fd] \/ (fd = cur.fd /\ connections'[fd] = new)
  BY <1>0, <1>1, <1>2, Zenon
<1>4. LoopTypeOK'
  <2>1. next_generation' \in Nat
    BY <1>0, <1>1
  <2>2. faulted' \in BOOLEAN
    BY <1>0, Zenon DEF Inv, TypeOK, LoopTypeOK
  <2> QED
    BY <1>0, <1>3, <2>1, <2>2, Zenon DEF Inv, TypeOK, LoopTypeOK
<1>5. UNCHANGED <<backlog, client, got, sent>>
  BY <1>0, Zenon DEF netVars
<1>6. OnePlace'
  <2>1. OnePlace
    BY Zenon DEF Inv
  <2>2. ASSUME NEW fd \in Fds, connections'[fd] # NoConn
        PROVE  /\ client'[connections'[fd].peer] # "new"
               /\ \A i \in 1..Len(backlog') : backlog'[i] # connections'[fd].peer
               /\ \A gd \in Fds : connections'[gd] # NoConn /\ connections'[gd].peer = connections'[fd].peer
                                  => fd = gd
    <3>1. CASE connections'[fd] = connections[fd]
      <4>1. Open(fd) /\ connections[fd].peer # cur.peer
        BY <1>1, <2>2, <3>1, Zenon DEF Open
      <4>2. client'[connections'[fd].peer] # "new" /\ \A i \in 1..Len(backlog') : backlog'[i] # connections'[fd].peer
        BY <1>5, <2>1, <3>1, <4>1, Zenon DEF OnePlace
      <4>3. ASSUME NEW gd \in Fds, connections'[gd] # NoConn, connections'[gd].peer = connections'[fd].peer
            PROVE  fd = gd
        <5>1. connections'[gd] = connections[gd]
          BY <1>2, <1>3, <3>1, <4>1, <4>3, Zenon
        <5> QED
          BY <2>1, <3>1, <4>1, <4>3, <5>1, Zenon DEF OnePlace, Open
      <4> QED
        BY <4>2, <4>3, Zenon
    <3>2. CASE fd = cur.fd /\ connections'[fd] = new
      BY <1>1, <1>2, <1>3, <1>5, <3>2, ZenonT(30) DEF Open
    <3> QED
      BY <1>3, <3>1, <3>2, Zenon
  <2>3. /\ \A c \in Clients : client'[c] = "new" => Untouched(c)'
        /\ \A i \in 1..Len(backlog') :
             /\ client'[backlog'[i]] # "new" /\ got'[backlog'[i]] = 0 /\ out'[backlog'[i]] = <<>>
             /\ \A j \in 1..Len(backlog') : backlog'[i] = backlog'[j] => i = j
    BY <1>0, <1>5, <2>1 DEF OnePlace, Untouched
  <2> QED
    BY <1>0, <2>2, <2>3, Zenon DEF OnePlace, Untouched, Open
<1>7. InFlight'
  <2>1. ASSUME NEW t, NEW cmd, ForConnection(t, cmd), t.fd \in Fds, t.generation \in Nat
        PROVE  ForConnection(t, cmd)'
    <3>1. t.generation < next_generation' /\ t.generation # next_generation
      BY <1>0, <1>1, <2>1, SMTT(30) DEF ForConnection
    <3>2. CASE connections'[t.fd] = connections[t.fd]
      BY <2>1, <3>1, <3>2, Zenon DEF ForConnection, Open
    <3>3. CASE connections'[t.fd] = new
      BY <1>2, <3>1, <3>3, Zenon DEF ForConnection
    <3> QED
      BY <1>3, <2>1, <3>2, <3>3, ZenonT(30)
  <2>2. /\ \A i \in 1..Len(tasks) : tasks[i] \in Tasks
        /\ \A i \in 1..Len(completed_queue) : completed_queue[i] \in Completed
        /\ \A w \in Workers : at[w] = "run" => job[w] \in Tasks
        /\ \A w \in Workers : at[w] = "push" => job[w] \in Completed
    BY DEF Inv, TypeOK, LoopTypeOK, PoolTypeOK
  <2>3. /\ \A t \in Tasks : t.fd \in Fds /\ t.generation \in Nat
        /\ \A t \in Completed : t.fd \in Fds /\ t.generation \in Nat
    BY Zenon DEF Tasks, Completed
  <2>4. UNCHANGED <<tasks, completed_queue, at, job>>
    BY <1>0, Zenon DEF poolVars
  <2> QED
    BY <2>1, <2>2, <2>3, <2>4, Zenon DEF Inv, InFlight
<1>8. AllCounting'
  <2>1. ASSUME NEW fd \in Fds, Open(fd)'
        PROVE  /\ connections'[fd].generation < next_generation'
               /\ Counting(connections'[fd], Len(out'[connections'[fd].peer]), got'[connections'[fd].peer])
    <3>1. CASE connections'[fd] = connections[fd]
      <4>1. Open(fd) /\ connections[fd] \in Connections
        BY <1>1, <2>1, <3>1, Zenon DEF Open
      <4>2. connections[fd].generation < next_generation /\ connections[fd].generation \in Nat
        BY <4>1, Zenon DEF Inv, AllCounting, Connections
      <4> QED
        BY <1>0, <1>1, <1>5, <3>1, <4>1, <4>2, SMTT(30) DEF Inv, AllCounting
    <3>2. CASE connections'[fd] = new
      <4>1. new.generation < next_generation'
        BY <1>0, <1>1, <1>2, SMTT(30)
      <4>2. Len(out'[new.peer]) = 0 /\ got'[new.peer] = 0 /\ Len(new.output) = 0
        BY <1>0, <1>1, <1>2, <1>5, SMTT(30)
      <4>3. Counting(new, 0, 0)
        BY <1>2, <4>2 DEF Counting
      <4> QED
        BY <3>2, <4>1, <4>2, <4>3, Zenon
    <3> QED
      BY <1>3, <3>1, <3>2, Zenon
  <2> QED
    BY <2>1, Zenon DEF AllCounting
<1>9. AllJustified'
  <2>1. \A t : (Timely(t) => Timely(t)') /\ (Justified(t) => Justified(t)') /\ (JustifiedIn(t) => JustifiedIn(t)')
    BY <1>0, Zenon DEF Timely, Justified, JustifiedIn
  <2>2. JustifiedIn(new)
    BY <1>2 DEF JustifiedIn
  <2>3. \A fd \in Fds : connections'[fd] # NoConn => JustifiedIn(connections'[fd])
    BY <1>3, <2>2, Zenon DEF Inv, AllJustified, Open
  <2>4. UNCHANGED <<tasks, completed_queue, at, job, out>>
    BY <1>0, Zenon DEF poolVars
  <2> QED
    BY <2>1, <2>3, <2>4, Zenon DEF Inv, AllJustified, Open
<1>10. Ending'
  <2>1. \A fd \in Fds : ~running' /\ connections'[fd] # NoConn => connections'[fd].next_request_seq = 0
    BY <1>0, <1>2, <1>3, Zenon DEF Inv, Ending, Open
  <2> QED
    BY <1>0, <2>1, Zenon DEF Inv, Ending, Joined, Open, poolVars
<1> QED
  BY <1>0, <1>4, <1>6, <1>7, <1>8, <1>9, <1>10, NetTypeFrame, PoolTypeFrame, CommandsFrame, SMTT(30)
  DEF Inv, TypeOK, netVars, AnswersInOrder

-----------------------------------------------------------------------------
(* Shutdown.                                                                 *)

\* Stop: the connections that owe an answer go on, closing.
LEMMA StopStep ==
  ASSUME Inv, Stop
  PROVE  Inv'
PROOF
<1> DEFINE closed(fd) == [connections[fd] EXCEPT !.closing = TRUE, !.partial = FALSE, !.interest = {"OUT"}]
<1>0. /\ UNCHANGED <<next_generation, pc, cur, batch, completed_queue, sent, got, out, taken,
                     versions, poolVars>>
      /\ running /\ wake' = TRUE /\ backlog' \in {backlog, <<>>}
      /\ stopping' \in {stopping, TRUE} /\ listening' \in {listening, FALSE}
      /\ \/ client' = client
         \/ client' = [c \in Clients |-> IF c \in Range(backlog) THEN "gone" ELSE client[c]]
      /\ \/ UNCHANGED <<running, connections, faulted>>
         \/ \E kept, any :
              /\ faulted' = (faulted \/ any) /\ any \in BOOLEAN /\ running' = (kept # {})
              /\ kept \subseteq {fd \in Fds : Open(fd)}
              /\ connections' = [fd \in Fds |-> IF fd \in kept THEN closed(fd) ELSE NoConn]
  <2>1. CASE stopping
    BY <2>1, Zenon DEF Stop
  <2>2. CASE ~stopping
    <3>1. PICK kept \in SUBSET {fd \in Fds : Open(fd) /\ ~IsConnectionDrained(connections[fd])} :
            /\ faulted' = (faulted \/ kept # {fd \in Fds : Open(fd) /\ ~IsConnectionDrained(connections[fd])})
            /\ connections' = [fd \in Fds |-> IF fd \in kept THEN closed(fd) ELSE NoConn]
            /\ running' = (kept # {})
      BY <2>2, Zenon DEF Stop
    <3>2. kept \subseteq {fd \in Fds : Open(fd)}
      BY Zenon
    <3> HIDE DEF closed
    <3>3. \E kept1, any :
              /\ faulted' = (faulted \/ any) /\ any \in BOOLEAN /\ running' = (kept1 # {})
              /\ kept1 \subseteq {fd \in Fds : Open(fd)}
              /\ connections' = [fd \in Fds |-> IF fd \in kept1 THEN closed(fd) ELSE NoConn]
      BY <3>1, <3>2, Zenon
    <3> QED
      BY <2>2, <3>3, Zenon DEF Stop
  <2> QED
    BY <2>1, <2>2, Zenon DEF Inv, TypeOK, LoopTypeOK
<1>1. ASSUME NEW fd \in Fds, Open(fd)
      PROVE  /\ connections[fd] \in Connections /\ closed(fd) \in Connections
             /\ closed(fd).peer = connections[fd].peer /\ closed(fd).generation = connections[fd].generation
             /\ closed(fd).next_request_seq = connections[fd].next_request_seq
             /\ connections[fd].next_request_seq <= connections[fd].next_request_seq
             /\ Counting(closed(fd), Len(out[connections[fd].peer]), got[connections[fd].peer])
             /\ JustifiedIn(closed(fd))
  <2>1. PICK conn : conn = connections[fd]
    BY Zenon
  <2>2. PICK new : new = [conn EXCEPT !.closing = TRUE, !.partial = FALSE, !.interest = {"OUT"}]
    BY Zenon
  <2>3. conn \in Connections /\ Counting(conn, Len(out[conn.peer]), got[conn.peer]) /\ JustifiedIn(conn)
    BY <1>1, <2>1, ZenonT(30) DEF Inv, TypeOK, LoopTypeOK, Open, AllCounting, AllJustified
  <2>4. /\ new \in Connections /\ new.peer = conn.peer /\ new.generation = conn.generation
        /\ new.next_request_seq = conn.next_request_seq /\ new.closing = TRUE
        /\ new.output = conn.output /\ new.next_write_seq = conn.next_write_seq
        /\ new.pending_responses = conn.pending_responses
    BY <2>2, <2>3, Zenon DEF Connections
  <2>5. Counting(new, Len(out[conn.peer]), got[conn.peer]) /\ JustifiedIn(new)
    BY <2>3, <2>4, ZenonT(30) DEF Counting, JustifiedIn
  <2>6. conn.next_request_seq <= conn.next_request_seq
    BY <2>3 DEF Connections
  <2>7. closed(fd) = new
    BY <2>1, <2>2, Zenon
  <2> HIDE DEF closed
  <2> QED
    BY <2>1, <2>3, <2>4, <2>5, <2>6, <2>7, Zenon
<1>2. \A fd \in Fds : connections'[fd] # NoConn =>
        Open(fd) /\ (connections'[fd] = connections[fd] \/ connections'[fd] = closed(fd))
  <2> HIDE DEF closed
  <2> QED
    BY <1>0, Zenon DEF Open
<1> HIDE DEF closed
<1>3. /\ connections' \in [Fds -> Connections \cup {NoConn}]
      /\ running' \in BOOLEAN /\ faulted' \in BOOLEAN
      /\ ~running' => \A fd \in Fds : connections'[fd] = NoConn
  <2>1. CASE UNCHANGED <<running, connections, faulted>>
    BY <1>0, <2>1, Zenon DEF Inv, TypeOK, LoopTypeOK
  <2>2. ASSUME NEW kept, NEW any, faulted' = (faulted \/ any), any \in BOOLEAN, running' = (kept # {}),
               kept \subseteq {fd \in Fds : Open(fd)},
               connections' = [fd \in Fds |-> IF fd \in kept THEN closed(fd) ELSE NoConn]
        PROVE  /\ connections' \in [Fds -> Connections \cup {NoConn}]
               /\ running' \in BOOLEAN /\ faulted' \in BOOLEAN
               /\ ~running' => \A fd \in Fds : connections'[fd] = NoConn
    <3>1. \A fd \in kept : closed(fd) \in Connections
      BY <1>1, <2>2, Zenon
    <3>2. faulted' \in BOOLEAN
      BY <2>2, Zenon DEF Inv, TypeOK, LoopTypeOK
    <3> QED
      BY <2>2, <3>1, <3>2, Zenon
  <2> QED
    BY <1>0, <2>1, <2>2, Zenon
<1>4. Evolves
  BY <1>0, <1>1, <1>2, <1>3, Zenon DEF Evolves, Open
<1>5. UNCHANGED <<tasks, stop, at, job>>
  BY <1>0, Zenon DEF poolVars
<1>6. client' \in [Clients -> {"new", "open", "eof", "gone"}]
      /\ \A c \in Clients : client'[c] = "new" => client[c] = "new"
  BY <1>0, Zenon DEF Inv, TypeOK, NetTypeOK
<1>7. OnePlace'
  BY <1>0, <1>4, <1>6, StillOnePlace, Zenon DEF Inv
<1>8. InFlight'
  BY <1>0, <1>4, <1>5, StillInFlight, Zenon DEF Inv
<1>9. AllCounting'
  BY <1>0, <1>1, <1>2, SMTT(30) DEF AllCounting, Open, Inv
<1>10. AllJustified'
  <2>1. \A t : (Timely(t) => Timely(t)') /\ (Justified(t) => Justified(t)') /\ (JustifiedIn(t) => JustifiedIn(t)')
    BY <1>0, Zenon DEF Timely, Justified, JustifiedIn
  <2>2. \A fd \in Fds : connections'[fd] # NoConn => JustifiedIn(connections'[fd])
    BY <1>1, <1>2, Zenon DEF Inv, AllJustified
  <2> QED
    BY <1>0, <1>5, <2>1, <2>2, Zenon DEF Inv, AllJustified, Open
<1>11. Ending'
  BY <1>0, <1>3, <1>5, Zenon DEF Inv, Ending, Joined, Open
<1>12. NetTypeOK'
  <2>0. backlog' = backlog \/ backlog' = <<>>
    BY <1>0, Zenon
  <2>a. backlog \in Seq(Clients) /\ <<>> \in Seq(Clients)
    BY DEF Inv, TypeOK, NetTypeOK
  <2>1. backlog' \in Seq(Clients)
    BY <2>0, <2>a, Zenon
  <2>2. UNCHANGED <<sent, got, out, taken, versions>>
    BY <1>0, Zenon
  <2> QED
    BY <1>6, <2>1, <2>2, Zenon DEF Inv, TypeOK, NetTypeOK, Room
<1>13. LoopTypeOK'
  BY <1>0, <1>3, Zenon DEF Inv, TypeOK, LoopTypeOK
<1> QED
  BY <1>0, <1>7, <1>8, <1>9, <1>10, <1>11, <1>12, <1>13, PoolTypeFrame, CommandsFrame, ZenonT(30)
  DEF Inv, TypeOK, AnswersInOrder

\* Cleanup: the pool is told to stop, and after the joins what is left is dropped.
LEMMA CleanupStep ==
  ASSUME Inv, StartCleanup \/ FinishCleanup
  PROVE  Inv'
PROOF
<1>1. CASE StartCleanup
  <2>0. /\ UNCHANGED <<running, stopping, connections, next_generation, cur, completed_queue, wake, netVars,
                       out, taken, versions, faulted, tasks, job>>
        /\ pc = "event" /\ pc' = "join" /\ listening' = FALSE /\ batch' = {}
        /\ stop' = TRUE /\ at' = Ready(Waiting)
    BY <1>1, Zenon DEF StartCleanup, ShutdownBegins
  <2>1. /\ at \in [Workers -> {"ready", "wait", "run", "push", "notify", "gone"}] /\ ~stop
        /\ \A w \in Workers : at[w] # "gone"
    BY <2>0, Zenon DEF Inv, TypeOK, PoolTypeOK, Ending
  <2>2. /\ at' \in [Workers -> {"ready", "wait", "run", "push", "notify", "gone"}]
        /\ \A w \in Workers : at'[w] = at[w] \/ (at'[w] = "ready" /\ at[w] = "wait")
    BY <2>0, <2>1, Zenon DEF Ready, Waiting
  <2>3. PoolTypeOK'
    BY <2>0, <2>2, Zenon DEF Inv, TypeOK, PoolTypeOK
  <2>4. LoopTypeOK'
    BY <2>0, Zenon DEF Inv, TypeOK, LoopTypeOK
  <2>5. InFlight'
    <3>1. \A t, cmd : ForConnection(t, cmd) => ForConnection(t, cmd)'
      BY <2>0, Zenon DEF ForConnection, Open
    <3> QED
      BY <2>0, <2>2, <3>1, Zenon DEF Inv, InFlight
  <2>6. AllJustified'
    <3>1. \A t : (Timely(t) => Timely(t)') /\ (Justified(t) => Justified(t)') /\ (JustifiedIn(t) => JustifiedIn(t)')
      BY <2>0, Zenon DEF Timely, Justified, JustifiedIn
    <3> QED
      BY <2>0, <2>2, <3>1, Zenon DEF Inv, AllJustified, Open
  <2>7. Ending'
    BY <2>0, <2>1, <2>2, ZenonT(30) DEF Inv, Ending, Open
  <2>8. OnePlace'
    BY <2>0, ZenonT(30) DEF Inv, OnePlace, Untouched, Open, netVars
  <2> QED
    BY <2>0, <2>3, <2>4, <2>5, <2>6, <2>7, <2>8, NetTypeFrame, CommandsFrame, CountingFrame, ZenonT(30)
    DEF Inv, TypeOK, netVars, AnswersInOrder
<1>2. CASE FinishCleanup
  <2>0. /\ UNCHANGED <<running, stopping, listening, next_generation, cur, batch, netVars, out, taken,
                       versions, faulted, poolVars>>
        /\ pc = "join" /\ pc' = "exited" /\ Joined /\ completed_queue' = <<>> /\ wake' = FALSE
        /\ connections' = [fd \in Fds |-> NoConn]
    BY <1>2, Zenon DEF FinishCleanup
  <2>1. UNCHANGED <<tasks, stop, at, job, client, backlog, sent, got>> /\ \A fd \in Fds : connections'[fd] = NoConn
    BY <2>0, Zenon DEF poolVars, netVars
  <2>2. Evolves
    BY <2>0, <2>1, Zenon DEF Evolves
  <2>3. LoopTypeOK'
    <3>1. connections' \in [Fds -> Connections \cup {NoConn}] /\ completed_queue' \in Seq(Completed)
      BY <2>0
    <3> QED
      BY <2>0, <3>1, Zenon DEF Inv, TypeOK, LoopTypeOK
  <2>4. OnePlace'
    BY <2>0, <2>1, <2>2, StillOnePlace, Zenon DEF Inv
  <2>5. \A w \in Workers : at'[w] = "gone"
    BY <2>0, <2>1, Zenon DEF Joined
  <2>6. InFlight'
    <3>1. /\ \A i \in 1..Len(tasks) : tasks[i] \in Tasks
      BY DEF Inv, TypeOK, PoolTypeOK
    <3>2. \A t \in Tasks : t.fd \in Fds /\ t.seq \in Nat
      BY Zenon DEF Tasks
    <3>3. \A t, cmd : t.fd \in Fds /\ t.seq \in Nat /\ ForConnection(t, cmd) => ForConnection(t, cmd)'
      BY <2>2, StillForConnection, Zenon DEF Inv
    <3>4. \A i \in 1..Len(completed_queue') : FALSE
      BY <2>0, SMTT(30)
    <3> QED
      BY <2>1, <2>5, <3>1, <3>2, <3>3, <3>4, ZenonT(30) DEF Inv, InFlight
  <2>7. AllCounting'
    BY <2>1, Zenon DEF AllCounting, Open
  <2>8. AllJustified'
    <3>1. \A t : (Timely(t) => Timely(t)') /\ (Justified(t) => Justified(t)') /\ (JustifiedIn(t) => JustifiedIn(t)')
      BY <2>0, Zenon DEF Timely, Justified, JustifiedIn
    <3> QED
      BY <2>0, <2>1, <2>5, <3>1, SMTT(30) DEF Inv, AllJustified, Open
  <2>9. Ending'
    BY <2>0, <2>1, Zenon DEF Inv, Ending, Joined, Open
  <2> QED
    BY <2>0, <2>1, <2>3, <2>4, <2>6, <2>7, <2>8, <2>9, NetTypeFrame, PoolTypeFrame, CommandsFrame, Zenon
    DEF Inv, TypeOK, AnswersInOrder
<1> QED
  BY <1>1, <1>2, Zenon

-----------------------------------------------------------------------------
(* The initial states.                                                       *)

\* The invariant holds at the start.
LEMMA InitInv == Init => Inv
PROOF
<1> SUFFICES ASSUME Init
             PROVE  Inv
  BY Zenon
<1>1. LoopTypeOK
  <2>1. connections \in [Fds -> Connections \cup {NoConn}] /\ completed_queue \in Seq(Completed)
    BY DEF Init
  <2> QED
    BY <2>1, Zenon DEF Init, LoopTypeOK
<1>2. NetTypeOK
  <2> DEFINE first == [made_by |-> Nothing, db |-> [k \in Keys |-> Null]]
             Vers == [made_by : Commands \cup {Nothing}, db : [Keys -> (Clients \X Nat) \cup {Null}]]
  <2>1. first \in Vers
    BY Zenon
  <2>2. versions = <<first>>
    BY Zenon DEF Init
  <2>3. versions # <<>> /\ versions \in Seq(Vers)
    <3> HIDE DEF first, Vers
    <3> QED
      BY <2>1, <2>2, SMTT(30)
  <2>4. /\ client \in [Clients -> {"new", "open", "eof", "gone"}] /\ backlog \in Seq(Clients)
        /\ sent \in [Clients -> Seq(Commands)] /\ got \in [Clients -> Nat]
        /\ out \in [Clients -> Seq(Responses)] /\ taken \in [Clients -> Nat]
    BY DEF Init
  <2>5. \A c \in Clients : Room(c) \in 0..SndCap
    <3>1. \A c \in Clients : Len(out[c]) = 0 /\ taken[c] = 0
      BY Zenon DEF Init
    <3> QED
      BY <3>1, ServerAssumption, SMTT(30) DEF Room
  <2> QED
    BY <2>3, <2>4, <2>5, Zenon DEF NetTypeOK
<1>3. PoolTypeOK
  <2>0. /\ job = [w \in Workers |-> NoTask] /\ at = [w \in Workers |-> "ready"]
        /\ tasks = <<>> /\ stop = FALSE
    BY Zenon DEF Init, PoolInit
  <2>a. job = [w \in Workers |-> job[w]]
    BY <2>0, Zenon
  <2>b. at \in [Workers -> {"ready", "wait", "run", "push", "notify", "gone"}]
    BY <2>0, Zenon
  <2>c. tasks = <<>> /\ stop = FALSE
    BY <2>0, Zenon
  <2>d. tasks \in Seq(Tasks)
    BY <2>c
  <2>1. stop \in BOOLEAN
    BY <2>c, Zenon
  <2>2. \A w \in Workers : at[w] = "ready" /\ job[w] = NoTask
    BY Zenon DEF Init, PoolInit
  <2> QED
    BY <2>a, <2>b, <2>d, <2>1, <2>2, Zenon DEF PoolTypeOK
<1>4. /\ \A fd \in Fds : ~Open(fd)
      /\ tasks = <<>> /\ completed_queue = <<>> /\ backlog = <<>> /\ ~stop /\ pc = "event"
      /\ \A c \in Clients : got[c] = 0 /\ out[c] = <<>> /\ sent[c] = <<>>
      /\ \A w \in Workers : at[w] = "ready"
  BY Zenon DEF Init, PoolInit, Open
<1>5. CommandsNumbered
  BY <1>4, SMTT(30) DEF CommandsNumbered
<1>6. OnePlace
  BY <1>4, SMTT(30) DEF OnePlace, Untouched
<1>7. InFlight
  BY <1>4, SMTT(30) DEF InFlight
<1>8. AllCounting
  BY <1>4, Zenon DEF AllCounting
<1>9. AllJustified
  BY <1>4, SMTT(30) DEF AllJustified
<1>10. Ending
  BY <1>4, Zenon DEF Ending
<1>11. AnswersInOrder
  BY <1>4 DEF AnswersInOrder
<1> QED
  BY <1>1, <1>2, <1>3, <1>5, <1>6, <1>7, <1>8, <1>9, <1>10, <1>11, SMTT(30) DEF Inv, TypeOK
=============================================================================
