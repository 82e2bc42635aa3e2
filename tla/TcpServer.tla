----------------------------- MODULE TcpServer -----------------------------
(***************************************************************************)
(* TcpServer: an epoll loop that accepts, reads and writes connections, the   *)
(* thread pool that executes their commands, the completion queue and the     *)
(* eventfd that bring the answers back, and the shutdown that a signal starts. *)
(*                                                                           *)
(* The loop runs one handler at a time.  What interleaves with it are the      *)
(* workers, whose task has three steps (execute, push, write to the eventfd),   *)
(* the clients and the network, and Stop, which a signal handler runs on the    *)
(* loop's own thread at one of the places SignalAt.                           *)
(*                                                                           *)
(* A command carries who sent it and as its how manieth; a response carries    *)
(* the command it answers.  No code looks at either: they are what the          *)
(* properties are about.  A read may end inside a command.                    *)
(***************************************************************************)
EXTENDS CommandExecutor, ThreadPool, FiniteSetsExt, Functions

CONSTANTS
  Clients,      \* each connects at most once
  Fds,          \* descriptors (integers) for connections; the lowest free one is taken
  Requests,     \* what a client may send: [name, argc, key]; the name "BAD" breaks the protocol
  MaxCommands,  \* bound: commands of all clients
  MaxLeaves,    \* bound: clients that leave
  SndCap,       \* responses that fit between the server's write and the client's read
  SignalAt,     \* the places of the loop at which the stop signal may arrive
  CtlMayFail,   \* whether epoll_ctl may fail
  StoreMayThrow,\* whether a command may end in an exception from the store
  NoConn        \* no connection under a descriptor

ASSUME ServerAssumption ==
  /\ Fds \subseteq Nat /\ Workers # {} /\ SndCap \in Nat \ {0}
  /\ Requests \subseteq [name : STRING, argc : Nat, key : Keys]

VARIABLES
  running, stopping, listening,   \* running_, stopping_, listen_fd_ >= 0
  connections,                    \* connections_ and the events each is registered for
  next_generation,
  completed_queue,
  wake,                           \* the eventfd's counter is not 0
  pc, cur,                        \* what the loop does, and to which descriptor and client
  batch,                          \* the events of the last epoll_wait not yet handled
  client,                         \* "new", "open", "eof" (sent FIN) or "gone" (reset)
  backlog,                        \* clients that wait for accept
  sent,                           \* the commands each client has sent
  got,                            \* how many of them the server has read
  out, taken,                     \* responses written to the socket, and how many were received
  versions,                       \* the store: its states so far, each with the command that made it
  faulted                         \* history: an epoll_ctl failed

loopVars == <<running, stopping, listening, connections, next_generation, pc, cur, batch>>
netVars == <<client, backlog, sent, got>>
vars == <<loopVars, completed_queue, wake, netVars, out, taken, versions, faulted, poolVars>>

Nothing == [fd |-> -1]

Init ==
  /\ running = TRUE /\ stopping = FALSE /\ listening = TRUE
  /\ connections = [fd \in Fds |-> NoConn] /\ next_generation = 1
  /\ completed_queue = <<>> /\ wake = FALSE
  /\ pc = "event" /\ cur = Nothing /\ batch = {}
  /\ client = [c \in Clients |-> "new"] /\ backlog = <<>>
  /\ sent = [c \in Clients |-> <<>>] /\ got = [c \in Clients |-> 0]
  /\ out = [c \in Clients |-> <<>>] /\ taken = [c \in Clients |-> 0]
  /\ versions = <<[made_by |-> Nothing, db |-> [k \in Keys |-> Null]]>> /\ faulted = FALSE
  /\ PoolInit

Open(fd) == connections[fd] # NoConn
Connected(c) ==
  \/ \E fd \in Fds : Open(fd) /\ connections[fd].peer = c
  \/ \E i \in 1..Len(backlog) : backlog[i] = c
  \/ pc = "insert" /\ cur.peer = c
Room(c) == SndCap - (Len(out[c]) - taken[c])

-----------------------------------------------------------------------------
(* Clients and the network (external).                                       *)

\* The last version of the store that some client has been told of.
Acknowledged ==
  Max({1} \cup {j \in 1..Len(versions) :
                  \E c \in Clients : \E i \in 1..taken[c] : out[c][i].cmd = versions[j].made_by})

Connect(c) ==
  /\ client[c] = "new" /\ listening
  /\ client' = [client EXCEPT ![c] = "open"]
  /\ backlog' = Append(backlog, c)
  /\ UNCHANGED <<loopVars, completed_queue, wake, sent, got, out, taken, versions, faulted, poolVars>>

Send(c) ==
  /\ client[c] = "open" /\ Connected(c)
  /\ SumFunction([d \in Clients |-> Len(sent[d])]) < MaxCommands
  /\ LET n == Len(sent[c]) + 1
     IN \E r \in Requests :
          sent' = [sent EXCEPT ![c] =
                     Append(@, [by |-> c, n |-> n, name |-> r.name, argc |-> r.argc, key |-> r.key,
                                value |-> <<c, n>>, floor |-> Acknowledged])]
  /\ UNCHANGED <<loopVars, completed_queue, wake, client, backlog, got, out, taken, versions, faulted, poolVars>>

Receive(c) ==
  /\ taken[c] < Len(out[c]) /\ client[c] # "gone"
  /\ taken' = [taken EXCEPT ![c] = @ + 1]
  /\ UNCHANGED <<loopVars, completed_queue, wake, netVars, out, versions, faulted, poolVars>>

\* FIN (the client still reads), or a reset.
ClientLeaves(c) ==
  /\ Connected(c)
  /\ Cardinality({d \in Clients \ {c} : client[d] \in {"eof", "gone"}}) < MaxLeaves
  /\ \/ client[c] = "open" /\ client' = [client EXCEPT ![c] = "eof"]
     \/ client[c] \in {"open", "eof"} /\ client' = [client EXCEPT ![c] = "gone"]
  /\ UNCHANGED <<loopVars, completed_queue, wake, backlog, sent, got, out, taken, versions, faulted, poolVars>>

-----------------------------------------------------------------------------
(* Connections.                                                              *)

Connection(c, g) ==
  [peer |-> c, generation |-> g, interest |-> {"IN"}, closing |-> FALSE,
   partial |-> FALSE, output |-> <<>>, next_request_seq |-> 0, next_write_seq |-> 0,
   pending_responses |-> {}]

DrainedUncounted(conn) == conn.output = <<>> /\ conn.pending_responses = {}
IsConnectionDrained(conn) ==
  /\ conn.output = <<>> /\ conn.pending_responses = {}
  /\ conn.next_write_seq = conn.next_request_seq

\* The loop that moves responses to output while the one for next_write_seq is there.
NextMissing(conn) ==
  LET here == {r.seq : r \in conn.pending_responses}
  IN CHOOSE n \in conn.next_write_seq..conn.next_request_seq :
       n \notin here /\ \A m \in conn.next_write_seq..(n - 1) : m \in here

ResponseFor(conn, seq) == (CHOOSE r \in conn.pending_responses : r.seq = seq).response

MoveReady(conn) ==
  LET first == conn.next_write_seq
      n == NextMissing(conn)
  IN [conn EXCEPT !.output = @ \o [i \in 1..(n - first) |-> ResponseFor(conn, first + i - 1)],
                  !.pending_responses = {r \in @ : r.seq >= n},
                  !.next_write_seq = n]

\* MaybeFinishShutdown, once connections is cs.
MaybeFinishShutdown(cs) ==
  IF stopping /\ ~listening /\ \A fd \in Fds : cs[fd] = NoConn
  THEN running' = FALSE /\ wake' = TRUE
  ELSE UNCHANGED <<running, wake>>

CloseOnly(fd) ==
  /\ connections' = [connections EXCEPT ![fd] = NoConn]
  /\ UNCHANGED <<running, wake>>
CloseConnection(fd) ==
  /\ connections' = [connections EXCEPT ![fd] = NoConn]
  /\ MaybeFinishShutdown([connections EXCEPT ![fd] = NoConn])

\* UpdateEpollEvent, and CloseConnection where it fails.
UpdateEpollEvent(fd, conn) ==
  \/ /\ connections' = [connections EXCEPT ![fd] = conn]
     /\ UNCHANGED <<running, wake, faulted>>
  \/ /\ CtlMayFail /\ faulted' = TRUE
     /\ CloseConnection(fd)

\* FailConnectionProtocol: the error takes its turn among the responses.
FailConnectionProtocol(conn, cmd) ==
  LET failed == [conn EXCEPT !.next_request_seq = @ + 1, !.closing = TRUE, !.partial = FALSE,
                             !.pending_responses = @ \cup
                               {[seq |-> conn.next_request_seq,
                                 response |-> [cmd |-> cmd, reply |-> Error]]}]
      moved == MoveReady(failed)
  IN [moved EXCEPT !.interest =
        IF moved.next_write_seq > conn.next_write_seq THEN {"OUT"} ELSE {}]

-----------------------------------------------------------------------------
(* The loop.                                                                 *)

ListenFd == -2
WakeFd == -1
Event(fd, hup, in, out_) == [fd |-> fd, hup |-> hup, in |-> in, out |-> out_]

ConnectionEvent(fd) ==
  LET conn == connections[fd]
      c == conn.peer
  IN Event(fd, client[c] = "gone",
           "IN" \in conn.interest /\ (got[c] < Len(sent[c]) \/ client[c] # "open"),
           "OUT" \in conn.interest /\ (Room(c) > 0 \/ client[c] = "gone"))

\* epoll_wait: everything that is ready, level-triggered.
ReadyEvents ==
  LET all == {ConnectionEvent(fd) : fd \in {fd \in Fds : Open(fd)}}
             \cup {Event(ListenFd, FALSE, listening /\ backlog # <<>>, FALSE),
                   Event(WakeFd, FALSE, wake, FALSE)}
  IN {e \in all : e.hup \/ e.in \/ e.out}

EpollWait ==
  /\ pc = "event" /\ running /\ batch = {} /\ ReadyEvents # {}
  /\ batch' = ReadyEvents
  /\ UNCHANGED <<running, stopping, listening, connections, next_generation, pc, cur,
                 completed_queue, wake, netVars, out, taken, versions, faulted, poolVars>>

\* The loop goes on with an event of the batch, in the order epoll gave them.
Handle(e) == pc = "event" /\ running /\ e \in batch /\ batch' = batch \ {e}

StartAccept(e) ==
  /\ e.fd = ListenFd /\ Handle(e)
  /\ pc' = "accept"
  /\ UNCHANGED <<running, stopping, listening, connections, next_generation, cur,
                 completed_queue, wake, netVars, out, taken, versions, faulted, poolVars>>

\* One turn of HandleAccept's loop up to accept; it ends when there is no client, no
\* descriptor, no listening socket any more, or the loop is to end.
HandleAccept ==
  LET free == {fd \in Fds : ~Open(fd)}
  IN /\ pc = "accept"
     /\ IF running /\ listening /\ backlog # <<>> /\ free # {}
        THEN /\ pc' = "insert" /\ cur' = [fd |-> Min(free), peer |-> Head(backlog)]
             /\ backlog' = Tail(backlog)
        ELSE pc' = "event" /\ UNCHANGED <<cur, backlog>>
     /\ UNCHANGED <<running, stopping, listening, connections, next_generation, batch,
                    completed_queue, wake, client, sent, got, out, taken, versions, faulted, poolVars>>

\* The rest of the turn: try_emplace and AddEpollEvent.
InsertConnection ==
  /\ pc = "insert"
  /\ pc' = "accept" /\ cur' = Nothing
  /\ next_generation' = next_generation + 1
  /\ \/ connections' = [connections EXCEPT ![cur.fd] = Connection(cur.peer, next_generation)]
        /\ UNCHANGED faulted
     \/ CtlMayFail /\ faulted' = TRUE /\ UNCHANGED connections
  /\ UNCHANGED <<running, stopping, listening, batch,
                 completed_queue, wake, netVars, out, taken, versions, poolVars>>

\* A completed task is for the connection that is now under its descriptor.
BelongsBySeq(t, fd) == t.fd = fd /\ t.seq < connections[fd].next_request_seq
Belongs(t, fd) == t.fd = fd /\ t.generation = connections[fd].generation

\* A handler that writes the responses itself, and closes where the client is gone.
WatchedOrClosed(conn) ==
  IF client[conn.peer] = "gone" THEN NoConn
  ELSE [conn EXCEPT !.interest = IF conn.closing THEN {"OUT"} ELSE {"IN", "OUT"}]

\* The events of a connection that has something to write.
Watched(conn) == [conn EXCEPT !.interest = IF conn.closing THEN {"OUT"} ELSE {"IN", "OUT"}]

HandleWorkerCompletions(e) ==
  LET arrived(fd) == {t \in Range(completed_queue) : Belongs(t, fd)}
      absorbed(fd) == MoveReady([connections[fd] EXCEPT !.pending_responses =
                        @ \cup {[seq |-> t.seq, response |-> t.response] : t \in arrived(fd)}])
      appended == {fd \in Fds : Open(fd) /\ absorbed(fd).next_write_seq # connections[fd].next_write_seq}
  IN /\ e.fd = WakeFd /\ Handle(e)
     /\ completed_queue' = <<>>
     /\ \E failing \in SUBSET appended :
          /\ failing # {} => CtlMayFail
          /\ faulted' = (faulted \/ failing # {})
          /\ connections' = [fd \in Fds |-> IF fd \in failing \/ ~Open(fd) THEN NoConn
                                            ELSE IF fd \in appended THEN Watched(absorbed(fd)) ELSE absorbed(fd)]
     /\ LET finished == stopping /\ ~listening /\ \A fd \in Fds : connections'[fd] = NoConn
        IN running' = (running /\ ~finished) /\ wake' = finished
     /\ UNCHANGED <<stopping, listening, next_generation, pc, cur, netVars, out, taken, versions, poolVars>>

\* An error or a hangup closes the connection whatever it still owes.
HandleHangup(e) ==
  /\ e.fd \in Fds /\ e.hup /\ Handle(e)
  /\ IF Open(e.fd) THEN CloseConnection(e.fd) ELSE UNCHANGED <<connections, running, wake>>
  /\ UNCHANGED <<stopping, listening, next_generation, pc, cur, completed_queue, netVars, out, taken,
                 versions, faulted, poolVars>>

\* HandleRead after its guards.  The input now reaches to the end of command m, or into the
\* next one.  The commands are parsed up to the first that breaks the protocol; the rest of
\* the input is dropped with it.  The pool does not stop before the loop has ended, so
\* enqueue does not throw.
ReadCommands(fd, m, partial) ==
  LET conn == connections[fd]
      c == conn.peer
      bad == {i \in (got[c] + 1)..m : sent[c][i].name = "BAD"}
      last == IF bad = {} THEN m ELSE Min(bad) - 1
      parsed == [conn EXCEPT !.next_request_seq = @ + last - got[c], !.partial = partial]
      task(i) == [fd |-> fd, generation |-> conn.generation,
                  seq |-> conn.next_request_seq + i - 1, cmd |-> sent[c][got[c] + i]]
  IN /\ Enqueue([i \in 1..(last - got[c]) |-> task(i)])
     /\ got' = [got EXCEPT ![c] = m]
     /\ IF bad # {}
        THEN UpdateEpollEvent(fd, FailConnectionProtocol(parsed, sent[c][Min(bad)]))
        ELSE /\ connections' = [connections EXCEPT ![fd] = parsed]
             /\ UNCHANGED <<running, wake, faulted>>

HandleRead(e) ==
  LET fd == e.fd
      conn == connections[fd]
      c == conn.peer
      unread == got[c] < Len(sent[c])
  IN /\ fd \in Fds /\ ~e.hup /\ e.in /\ Handle(e)
     /\ IF ~Open(fd) \/ conn.closing \/ (client[c] = "open" /\ ~unread)
        THEN UNCHANGED <<connections, running, wake, got, faulted, poolVars>>
        ELSE IF client[c] = "gone" \/ ~unread
        THEN CloseConnection(fd) /\ UNCHANGED <<got, faulted, poolVars>>
        ELSE \E m \in got[c]..Len(sent[c]), partial \in BOOLEAN :
               /\ m = got[c] => partial /\ ~conn.partial
               /\ partial => m < Len(sent[c])
               /\ ReadCommands(fd, m, partial)
     /\ IF e.out THEN pc' = "write" /\ cur' = [fd |-> fd] ELSE UNCHANGED <<pc, cur>>
     /\ UNCHANGED <<stopping, listening, next_generation, completed_queue, client, backlog, sent,
                    out, taken, versions>>

\* Writes that take no notice of a full socket; and how many responses it takes.
TakenAll(conn) == Len(conn.output)
TakenNow(conn) == Min({Len(conn.output), Room(conn.peer)})

\* The writes, until the socket takes no more, and what follows from an empty output.
WriteOut(fd) ==
  LET conn == connections[fd]
      c == conn.peer
      n == TakenNow(conn)
      left == [conn EXCEPT !.output = SubSeq(@, n + 1, Len(@))]
  IN IF ~Open(fd) THEN UNCHANGED <<connections, running, wake, out, faulted>>
     ELSE IF client[c] = "gone" /\ conn.output # <<>>
     THEN CloseConnection(fd) /\ UNCHANGED <<out, faulted>>
     ELSE /\ out' = [out EXCEPT ![c] = @ \o SubSeq(conn.output, 1, n)]
          /\ IF left.output # <<>>
             THEN connections' = [connections EXCEPT ![fd] = left] /\ UNCHANGED <<running, wake, faulted>>
             ELSE IF conn.closing /\ IsConnectionDrained(left)
             THEN CloseConnection(fd) /\ UNCHANGED faulted
             ELSE UpdateEpollEvent(fd, [left EXCEPT !.interest = IF conn.closing THEN {} ELSE {"IN"}])

HandleWrite(e) ==
  /\ e.fd \in Fds /\ ~e.hup /\ ~e.in /\ e.out /\ Handle(e)
  /\ WriteOut(e.fd)
  /\ UNCHANGED <<stopping, listening, next_generation, pc, cur, completed_queue, netVars, taken,
                 versions, poolVars>>

WriteAfterRead ==
  /\ pc = "write" /\ pc' = "event" /\ cur' = Nothing
  /\ WriteOut(cur.fd)
  /\ UNCHANGED <<stopping, listening, next_generation, batch, completed_queue, netVars, taken,
                 versions, poolVars>>

-----------------------------------------------------------------------------
(* Shutdown.                                                                 *)

\* Stop, in the signal handler.
Stop ==
  LET closed(fd) == [connections[fd] EXCEPT !.closing = TRUE, !.partial = FALSE, !.interest = {"OUT"}]
      owing == {fd \in Fds : Open(fd) /\ ~IsConnectionDrained(connections[fd])}
  IN /\ pc \in SignalAt /\ running
     /\ wake' = TRUE
     /\ IF stopping
        THEN UNCHANGED <<running, stopping, listening, connections, client, backlog, faulted>>
        ELSE /\ stopping' = TRUE /\ listening' = FALSE /\ backlog' = <<>>
             /\ client' = [c \in Clients |-> IF c \in Range(backlog) THEN "gone" ELSE client[c]]
             /\ \E kept \in SUBSET owing :
                  /\ kept # owing => CtlMayFail
                  /\ faulted' = (faulted \/ kept # owing)
                  /\ connections' = [fd \in Fds |-> IF fd \in kept THEN closed(fd) ELSE NoConn]
                  /\ running' = (kept # {})
     /\ UNCHANGED <<next_generation, pc, cur, batch, completed_queue, sent, got, out, taken,
                    versions, poolVars>>

\* Run leaves its loop; Cleanup up to the joins of the pool.
StartCleanup ==
  /\ pc = "event" /\ ~running
  /\ pc' = "join" /\ listening' = FALSE /\ batch' = {}
  /\ ShutdownBegins
  /\ UNCHANGED <<running, stopping, connections, next_generation, cur, completed_queue, wake, netVars,
                 out, taken, versions, faulted>>

FinishCleanup ==
  /\ pc = "join" /\ Joined
  /\ pc' = "exited"
  /\ completed_queue' = <<>> /\ wake' = FALSE
  /\ connections' = [fd \in Fds |-> NoConn]
  /\ UNCHANGED <<running, stopping, listening, next_generation, cur, batch, netVars, out, taken,
                 versions, faulted, poolVars>>

-----------------------------------------------------------------------------
(* The task of a worker: the lambda that HandleRead enqueues.                 *)

\* A worker that answers from what the store was when the server started.
ExecuteOnSnapshot(w) ==
  LET t == job[w]
      db == versions[Len(versions)].db
  IN /\ at[w] = "run" /\ at' = [at EXCEPT ![w] = "push"]
     /\ job' = [job EXCEPT ![w] =
                  [fd |-> t.fd, generation |-> t.generation, seq |-> t.seq,
                   response |-> [cmd |-> t.cmd, reply |-> Reply(t.cmd, versions[1].db)]]]
     /\ versions' = IF IsWrite(t.cmd)
                    THEN Append(versions, [made_by |-> t.cmd, db |-> Effect(t.cmd, db)])
                    ELSE versions
     /\ UNCHANGED <<loopVars, completed_queue, wake, netVars, out, taken, faulted, tasks, stop>>

\* executor_.Execute, or an exception from the store.
Execute(w) ==
  LET t == job[w]
      db == versions[Len(versions)].db
      done(reply) == [fd |-> t.fd, generation |-> t.generation, seq |-> t.seq,
                      response |-> [cmd |-> t.cmd, reply |-> reply]]
  IN /\ at[w] = "run" /\ at' = [at EXCEPT ![w] = "push"]
     /\ \/ /\ job' = [job EXCEPT ![w] = done(Reply(t.cmd, db))]
           /\ versions' = IF IsWrite(t.cmd)
                          THEN Append(versions, [made_by |-> t.cmd, db |-> Effect(t.cmd, db)])
                          ELSE versions
        \/ StoreMayThrow /\ job' = [job EXCEPT ![w] = done(Error)] /\ UNCHANGED versions
     /\ UNCHANGED <<loopVars, completed_queue, wake, netVars, out, taken, faulted, tasks, stop>>

PushCompleted(w) ==
  /\ at[w] = "push" /\ at' = [at EXCEPT ![w] = "notify"]
  /\ completed_queue' = Append(completed_queue, job[w])
  /\ job' = [job EXCEPT ![w] = NoTask]
  /\ UNCHANGED <<loopVars, wake, netVars, out, taken, versions, faulted, tasks, stop>>

WakeLoop(w) ==
  /\ at[w] = "notify" /\ at' = [at EXCEPT ![w] = "ready"]
  /\ wake' = TRUE
  /\ UNCHANGED <<loopVars, completed_queue, netVars, out, taken, versions, faulted, tasks, stop, job>>

Spurious(w) ==
  /\ SpuriousWakeup(w)
  /\ UNCHANGED <<loopVars, completed_queue, wake, netVars, out, taken, versions, faulted>>

Pool(w) ==
  /\ PoolStep(w)
  /\ UNCHANGED <<loopVars, completed_queue, wake, netVars, out, taken, versions, faulted>>

-----------------------------------------------------------------------------
LoopStep ==
  \/ EpollWait \/ HandleAccept \/ InsertConnection \/ WriteAfterRead
  \/ StartCleanup \/ FinishCleanup
  \/ \E e \in batch : StartAccept(e) \/ HandleWorkerCompletions(e) \/ HandleHangup(e)
                      \/ HandleRead(e) \/ HandleWrite(e)

WorkerStep(w) == Pool(w) \/ Execute(w) \/ PushCompleted(w) \/ WakeLoop(w)

ClientStep(c) == Connect(c) \/ Send(c) \/ Receive(c) \/ ClientLeaves(c)

Next ==
  \/ LoopStep \/ Stop
  \/ \E w \in Workers : WorkerStep(w) \/ Spurious(w)
  \/ \E c \in Clients : ClientStep(c)

Spec == Init /\ [][Next]_vars

\* The loop and the workers are threads that run; a client reads what it is sent.  Nobody
\* need connect, send, leave or send the signal.
FairSpec ==
  /\ Spec /\ WF_vars(LoopStep)
  /\ \A w \in Workers : WF_vars(WorkerStep(w))
  /\ \A c \in Clients : WF_vars(Receive(c))

-----------------------------------------------------------------------------
Commands ==
  [by : Clients, n : Nat \ {0}, name : STRING, argc : Nat, key : Keys,
   value : Clients \X Nat, floor : Nat \ {0}]
Replies ==
  {Ok, Error, NullBulk} \cup [kind : {"bulk"}, value : Clients \X Nat]
  \cup [kind : {"array"}, rows : UNION {[S -> Clients \X Nat] : S \in SUBSET Keys}]
Responses == [cmd : Commands, reply : Replies]
Tasks == [fd : Fds, generation : Nat, seq : Nat, cmd : Commands]
Completed == [fd : Fds, generation : Nat, seq : Nat, response : Responses]
Connections ==
  [peer : Clients, generation : Nat, interest : SUBSET {"IN", "OUT"}, closing : BOOLEAN,
   partial : BOOLEAN, output : Seq(Responses), next_request_seq : Nat, next_write_seq : Nat,
   pending_responses : SUBSET [seq : Nat, response : Responses]]

ASSUME NoConnAssumption == NoConn \notin Connections

\* The types; the loop has a descriptor in hand, and a worker a task, exactly where the code
\* uses one, and no more is under way to a client than fits.
LoopTypeOK ==
  /\ running \in BOOLEAN /\ stopping \in BOOLEAN /\ listening \in BOOLEAN
  /\ wake \in BOOLEAN /\ faulted \in BOOLEAN
  /\ connections \in [Fds -> Connections \cup {NoConn}] /\ next_generation \in Nat
  /\ completed_queue \in Seq(Completed)
  /\ pc \in {"event", "accept", "insert", "write", "join", "exited"}
  /\ pc = "insert" => cur \in [fd : Fds, peer : Clients]
  /\ pc = "write" => cur \in [fd : Fds]
  /\ pc \notin {"insert", "write"} => cur = Nothing
  /\ batch \subseteq [fd : Fds \cup {ListenFd, WakeFd}, hup : BOOLEAN, in : BOOLEAN, out : BOOLEAN]
NetTypeOK ==
  /\ client \in [Clients -> {"new", "open", "eof", "gone"}] /\ backlog \in Seq(Clients)
  /\ sent \in [Clients -> Seq(Commands)] /\ got \in [Clients -> Nat]
  /\ out \in [Clients -> Seq(Responses)] /\ taken \in [Clients -> Nat]
  /\ \A c \in Clients : Room(c) \in 0..SndCap
  /\ versions # <<>> /\ versions \in Seq([made_by : Commands \cup {Nothing},
                                          db : [Keys -> (Clients \X Nat) \cup {Null}]])
PoolTypeOK ==
  /\ stop \in BOOLEAN /\ tasks \in Seq(Tasks)
  /\ at \in [Workers -> {"ready", "wait", "run", "push", "notify", "gone"}]
  /\ job = [w \in Workers |-> job[w]]
  /\ \A w \in Workers : /\ at[w] = "run" => job[w] \in Tasks
                        /\ at[w] = "push" => job[w] \in Completed
                        /\ at[w] \notin {"run", "push"} => job[w] = NoTask
TypeOK == LoopTypeOK /\ NetTypeOK /\ PoolTypeOK

\* The i-th response that is written to a client answers the i-th command of that client:
\* over commands that several workers finish in any order, protocol errors, and descriptors
\* that a later client is given while tasks of the earlier one are still on their way.
AnswersInOrder ==
  \A c \in Clients : \A i \in 1..Len(out[c]) : out[c][i].cmd.by = c /\ out[c][i].cmd.n = i

\* A command is executed on a state of the store that is at least as new as what any client
\* had been told when it was sent: a GET after the response to a SET, over whatever
\* connection, shows that SET or a later one.
SeesAcknowledged ==
  \A c \in Clients : \A i \in 1..Len(out[c]) :
    LET r == out[c][i]
    IN r.reply # Error =>
         \E j \in r.cmd.floor..Len(versions) : r.reply = Reply(r.cmd, versions[j].db)

\* The server closes no connection, unless its client left or an epoll_ctl failed, before
\* every request it has taken from it is answered.
AnsweredBeforeClose ==
  [][\A fd \in Fds :
       Open(fd) /\ connections'[fd] = NoConn =>
         LET c == connections[fd].peer
         IN client[c] \in {"eof", "gone"} \/ faulted'
            \/ Len(out'[c]) = connections[fd].next_request_seq]_vars

\* Without an epoll_ctl failure, a hang-up that still waits in the batch, if it names an open
\* descriptor, names one whose client is gone: it closes no connection that took a descriptor over.
FreshEvents ==
  ~faulted => \A e \in batch : e.fd \in Fds /\ Open(e.fd) /\ e.hup
                                => client[connections[e.fd].peer] = "gone"

\* When Run returns every task that was accepted has run, and no worker is left to touch the
\* store, which main destroys next.
PoolDrained == pc = "exited" => Joined /\ tasks = <<>>

\* A request is answered, unless its client leaves, breaks the protocol, a shutdown starts,
\* or an epoll_ctl failed.
RequestsAnswered ==
  \A c \in Clients : \A n \in 1..MaxCommands :
    Len(sent[c]) = n ~> \/ Len(out[c]) >= n \/ client[c] \in {"eof", "gone"} \/ stopping \/ faulted
                  \/ \E i \in 1..Len(out[c]) : out[c][i].cmd.name = "BAD"

\* Once the signal has been handled the loop drains its connections and Run returns.
ShutdownEnds == stopping ~> pc = "exited"

-----------------------------------------------------------------------------
(* The invariant of the proofs in ServerProofs.                               *)

\* A client's commands are numbered as it sent them, and know no version to come.
Timely(cmd) == cmd.floor <= Len(versions)
CommandsNumbered ==
  \A c \in Clients :
    /\ got[c] <= Len(sent[c])
    /\ \A i \in 1..Len(sent[c]) : sent[c][i].by = c /\ sent[c][i].n = i /\ Timely(sent[c][i])

\* A client is in one place: not there yet, in the backlog, between accept and try_emplace, or
\* under one descriptor.  Before the last of these nothing was read from it or sent to it.
Untouched(c) == got[c] = 0 /\ out[c] = <<>>
OnePlace ==
  /\ \A c \in Clients : client[c] = "new" => Untouched(c)
  /\ \A i \in 1..Len(backlog) :
       /\ client[backlog[i]] # "new" /\ Untouched(backlog[i])
       /\ \A j \in 1..Len(backlog) : backlog[i] = backlog[j] => i = j
  /\ pc = "insert" =>
       /\ client[cur.peer] # "new" /\ Untouched(cur.peer) /\ ~Open(cur.fd)
       /\ \A i \in 1..Len(backlog) : backlog[i] # cur.peer
  /\ \A fd \in Fds : Open(fd) =>
       LET c == connections[fd].peer
       IN /\ client[c] # "new" /\ (pc = "insert" => cur.peer # c)
          /\ \A i \in 1..Len(backlog) : backlog[i] # c
          /\ \A gd \in Fds : Open(gd) /\ connections[gd].peer = c => fd = gd

\* A task or completion, wherever it is, is older than the next connection; and if it has the
\* generation of the connection under its descriptor, it is that client's command of that number.
ForConnection(t, cmd) ==
  /\ t.generation < next_generation
  /\ Open(t.fd) /\ t.generation = connections[t.fd].generation =>
       /\ cmd.by = connections[t.fd].peer /\ cmd.n = t.seq + 1
       /\ t.seq < connections[t.fd].next_request_seq
InFlight ==
  /\ \A i \in 1..Len(tasks) : ForConnection(tasks[i], tasks[i].cmd)
  /\ \A i \in 1..Len(completed_queue) : ForConnection(completed_queue[i], completed_queue[i].response.cmd)
  /\ \A w \in Workers : /\ at[w] = "run" => ForConnection(job[w], job[w].cmd)
                        /\ at[w] = "push" => ForConnection(job[w], job[w].response.cmd)

\* The counters of a connection count: the responses written and those in the buffer are the
\* first next_write_seq, and what waits is numbered below next_request_seq.
Counting(conn, written, read) ==
  /\ conn.next_write_seq = written + Len(conn.output)
  /\ conn.next_write_seq <= conn.next_request_seq
  /\ ~conn.closing => conn.next_request_seq = read
  /\ \A i \in 1..Len(conn.output) :
       conn.output[i].cmd.by = conn.peer /\ conn.output[i].cmd.n = written + i
  /\ \A r \in conn.pending_responses :
       /\ r.response.cmd.by = conn.peer /\ r.response.cmd.n = r.seq + 1
       /\ r.seq < conn.next_request_seq
AllCounting ==
  \A fd \in Fds : Open(fd) =>
    LET conn == connections[fd]
    IN conn.generation < next_generation /\ Counting(conn, Len(out[conn.peer]), got[conn.peer])

\* Every response, wherever it is, comes from a version that is new enough.
Justified(r) ==
  r.reply # Error => \E j \in r.cmd.floor..Len(versions) : r.reply = Reply(r.cmd, versions[j].db)
JustifiedIn(conn) ==
  /\ \A i \in 1..Len(conn.output) : Justified(conn.output[i])
  /\ \A r \in conn.pending_responses : Justified(r.response)
AllJustified ==
  /\ \A i \in 1..Len(tasks) : Timely(tasks[i].cmd)
  /\ \A i \in 1..Len(completed_queue) : Justified(completed_queue[i].response)
  /\ \A w \in Workers : /\ at[w] = "run" => Timely(job[w].cmd)
                        /\ at[w] = "push" => Justified(job[w].response)
  /\ \A fd \in Fds : Open(fd) => JustifiedIn(connections[fd])
  /\ \A c \in Clients : \A i \in 1..Len(out[c]) : Justified(out[c][i])

\* The pool stops after the loop, a worker leaves when there is nothing to do any more, and a
\* connection that is accepted while the loop ends is never read.
Ending ==
  /\ stop => pc \in {"join", "exited"}
  /\ \A w \in Workers : at[w] = "gone" => stop /\ tasks = <<>>
  /\ pc = "exited" => Joined
  /\ ~running => \A fd \in Fds : Open(fd) => connections[fd].next_request_seq = 0

Inv ==
  /\ TypeOK /\ CommandsNumbered /\ OnePlace /\ InFlight /\ AllCounting /\ AllJustified
  /\ Ending /\ AnswersInOrder
=============================================================================
