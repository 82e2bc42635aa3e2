---------------------------- MODULE ServerProofs ----------------------------
(***************************************************************************)
(* What holds of TcpServer, for any number of clients, descriptors, workers  *)
(* and commands, with or without failing epoll_ctl, wherever the signal      *)
(* arrives: responses leave in the order of the requests and only to their   *)
(* client, a command sees what was acknowledged when it was sent, and a      *)
(* shutdown drops neither a task nor an answer.  Before that: the events of  *)
(* a batch belong to the connections they are handled for, no connection is  *)
(* closed before its answers are written, and Inv is kept by the handlers of *)
(* those events: hang-up, write, read and completions.                       *)
(***************************************************************************)
EXTENDS ServerSteps

\* A hangup in the batch is that of the connection under its descriptor, which is still there, or
\* was closed by Stop, after which the descriptor is given to nobody.
Fresh(e) ==
  \/ Open(e.fd) /\ client[connections[e.fd].peer] = "gone"
  \/ ~Open(e.fd) /\ stopping /\ ~listening /\ (pc = "insert" => cur.fd # e.fd)
EventsInv ==
  /\ pc \in {"join", "exited"} => ~running /\ batch = {}
  /\ \A e, f \in batch : e.fd = f.fd => e = f
  /\ pc = "write" => \A e \in batch : e.fd # cur.fd
  /\ ~faulted => \A e \in batch : e.fd \in Fds /\ e.hup => Fresh(e)

\* Steps of clients and workers.
LEMMA EventsFrame ==
  ASSUME Inv, EventsInv, UNCHANGED <<loopVars, faulted>>,
         \A c \in Clients : client[c] = "gone" => client'[c] = "gone"
  PROVE  EventsInv'
PROOF
<1>1. UNCHANGED <<running, stopping, listening, connections, pc, cur, batch>>
  BY Zenon DEF loopVars
<1>2. \A fd \in Fds : Open(fd) => connections[fd].peer \in Clients
  BY Zenon DEF Inv, TypeOK, LoopTypeOK, Open, Connections
<1>3. \A e : e.fd \in Fds /\ Fresh(e) => Fresh(e)'
  BY <1>1, <1>2, Zenon DEF Fresh, Open
<1> QED
  BY <1>1, <1>3, Zenon DEF EventsInv

\* Steps of the loop that handle an event or nothing of the batch, and touch no other connection
\* of it.
LEMMA EventsKept ==
  ASSUME Inv, EventsInv, UNCHANGED <<stopping, listening, client>>, batch' \subseteq batch,
         pc' \in {"join", "exited"} => ~running' /\ batch' = {},
         pc' = "write" => \A e \in batch' : e.fd # cur'.fd,
         pc' = "insert" => listening,
         ~faulted' => ~faulted,
         ~faulted' => \A e \in batch' : e.fd \in Fds /\ e.hup =>
           \/ connections'[e.fd] = connections[e.fd]
           \/ /\ Open(e.fd) /\ connections'[e.fd] # NoConn
              /\ connections'[e.fd].peer = connections[e.fd].peer
  PROVE  EventsInv'
PROOF
<1>1. ASSUME NEW e \in batch', e.fd \in Fds, e.hup, ~faulted'
      PROVE  Fresh(e)'
  <2>1. Fresh(e)
    BY <1>1, Zenon DEF EventsInv
  <2>2. CASE connections'[e.fd] = connections[e.fd]
    BY <2>1, <2>2, Zenon DEF Fresh, Open
  <2>3. CASE /\ Open(e.fd) /\ connections'[e.fd] # NoConn
             /\ connections'[e.fd].peer = connections[e.fd].peer
    BY <2>1, <2>3, Zenon DEF Fresh, Open
  <2> QED
    BY <1>1, <2>2, <2>3, Zenon
<1>2. \A e, f \in batch' : e.fd = f.fd => e = f
  BY Zenon DEF EventsInv
<1> QED
  BY <1>1, <1>2, Zenon DEF EventsInv

\* An event of the batch that is handled is the only one of its descriptor.
LEMMA OnlyEvent ==
  ASSUME EventsInv, NEW e \in batch, Handle(e)
  PROVE  batch' \subseteq batch /\ \A f \in batch' : f.fd # e.fd
  BY Zenon DEF EventsInv, Handle

\* What CloseConnection and UpdateEpollEvent leave alone.
LEMMA OthersKept ==
  ASSUME Inv, NEW fd \in Fds, NEW conn, OneConnection(fd, conn)
  PROVE  \A gd \in Fds : gd # fd => connections'[gd] = connections[gd]
  BY Zenon DEF OneConnection, Inv, TypeOK, LoopTypeOK

\* HandleRead touches its own connection only, and fails only with an epoll_ctl.
LEMMA ReadTouches ==
  ASSUME LeastNumber, Inv, NEW e \in batch, HandleRead(e)
  PROVE  /\ e.fd \in Fds /\ \A gd \in Fds : gd # e.fd => connections'[gd] = connections[gd]
         /\ faulted => faulted'
         /\ Open(e.fd) /\ connections'[e.fd] = NoConn =>
              faulted' \/ client[connections[e.fd].peer] \in {"eof", "gone"}
PROOF
<1> DEFINE fd == e.fd
           conn == connections[fd]
           c == conn.peer
           unread == got[c] < Len(sent[c])
<1>1. fd \in Fds
  BY Zenon DEF HandleRead
<1>2. CASE UNCHANGED <<connections, faulted>>
  BY <1>1, <1>2, Zenon DEF Open
<1>3. CASE Open(fd) /\ CloseConnection(fd) /\ UNCHANGED faulted /\ client[c] # "open"
  <2>1. OneConnection(fd, conn)
    BY <1>1, <1>3, CloseOrUpdate, Zenon
  <2>2. c \in Clients /\ client[c] # "new" /\ client[c] \in {"new", "open", "eof", "gone"}
    BY <1>1, <1>3, Zenon DEF Inv, TypeOK, LoopTypeOK, NetTypeOK, Open, Connections, OnePlace
  <2> QED
    BY <1>1, <1>3, <2>1, <2>2, OthersKept, Zenon
<1>4. ASSUME NEW m \in got[c]..Len(sent[c]), NEW partial \in BOOLEAN, Open(fd), ~conn.closing,
             ReadCommands(fd, m, partial)
      PROVE  /\ \A gd \in Fds : gd # fd => connections'[gd] = connections[gd]
             /\ faulted => faulted'
             /\ connections'[fd] = NoConn => faulted'
  <2>1. PICK new, ts : ReadInto(fd, new, ts)
    BY <1>1, <1>4, ReadCommandsFacts, Zenon
  <2>2. \A gd \in Fds : gd # fd => connections'[gd] = connections[gd]
    BY <1>1, <2>1, OthersKept, Zenon DEF ReadInto
  <2>3. faulted' = faulted \/ faulted' = TRUE
    BY <1>4, Zenon DEF ReadCommands, UpdateEpollEvent
  <2>4. CASE faulted' = TRUE
    BY <2>2, <2>4, Zenon
  <2>5. CASE faulted' # TRUE
    <3>1. faulted' = faulted /\ faulted \in BOOLEAN
      BY <2>3, <2>5, Zenon DEF Inv, TypeOK, LoopTypeOK
    <3>2. connections' = [connections EXCEPT ![fd] = new] /\ new \in Connections
      BY <2>1, <2>5, Zenon DEF ReadInto
    <3>3. connections'[fd] # NoConn
      BY <1>1, <3>2, NoConnAssumption, Zenon DEF Inv, TypeOK, LoopTypeOK
    <3> QED
      BY <2>2, <3>1, <3>3, Zenon
  <2> QED
    BY <2>4, <2>5, Zenon
<1> QED
  BY <1>1, <1>2, <1>3, <1>4, Zenon DEF HandleRead

\* How many responses a write takes from the buffer.
LEMMA WriteCount ==
  ASSUME Inv, NEW conn \in Connections, NEW n, n = Min({Len(conn.output), Room(conn.peer)})
  PROVE  n \in 0..Len(conn.output)
PROOF
<1>1. conn.peer \in Clients /\ Len(conn.output) \in Nat
  BY DEF Connections
<1>2. Room(conn.peer) \in Nat
  BY <1>1, ServerAssumption DEF Inv, TypeOK, NetTypeOK
<1> QED
  BY <1>1, <1>2, MinOfTwo, Zenon

\* HandleWrite touches its own connection only, and closes it when all is written, unless its
\* client is gone or an epoll_ctl fails.
LEMMA WriteTouches ==
  ASSUME Inv, NEW fd \in Fds, WriteOut(fd)
  PROVE  /\ \A gd \in Fds : gd # fd => connections'[gd] = connections[gd]
         /\ faulted => faulted'
         /\ Open(fd) /\ connections'[fd] = NoConn =>
              \/ faulted' \/ client[connections[fd].peer] = "gone"
              \/ Len(out'[connections[fd].peer]) = connections[fd].next_request_seq
PROOF
<1>1. CASE ~Open(fd)
  BY <1>1, Zenon DEF WriteOut
<1>2. CASE Open(fd)
  <2>1. PICK conn : conn = connections[fd]
    BY Zenon
  <2>2. PICK p : p = conn.peer
    BY Zenon
  <2>3. PICK n : n = Min({Len(conn.output), Room(p)})
    BY Zenon
  <2>4. PICK left : left = [conn EXCEPT !.output = SubSeq(@, n + 1, Len(@))]
    BY Zenon
  <2>5. /\ conn \in Connections /\ p \in Clients /\ Len(out[p]) \in Nat /\ out \in [Clients -> Seq(Responses)]
        /\ conn.output \in Seq(Responses) /\ Counting(conn, Len(out[p]), got[p]) /\ JustifiedIn(conn)
    <3>1. conn \in Connections /\ out \in [Clients -> Seq(Responses)]
      BY <1>2, <2>1, Zenon DEF Inv, TypeOK, LoopTypeOK, NetTypeOK, Open
    <3>2. p \in Clients /\ conn.output \in Seq(Responses)
      BY <2>2, <3>1, Zenon DEF Connections
    <3>3. Counting(conn, Len(out[p]), got[p]) /\ JustifiedIn(conn)
      BY <1>2, <2>1, <2>2, Zenon DEF Inv, AllCounting, AllJustified
    <3> QED
      BY <3>1, <3>2, <3>3
  <2>6. n \in 0..Len(conn.output)
    BY <2>2, <2>3, <2>5, WriteCount, Zenon
  <2>7. Rest(conn, left, Len(out[p]) + n, got[p])
    BY <2>4, <2>5, <2>6, WrittenCounts, Zenon
  <2>8. /\ left \in Connections /\ Counting(left, Len(out[p]) + n, got[p])
        /\ left.next_request_seq = conn.next_request_seq
    BY <2>7, Zenon DEF Rest
  <2> DEFINE ints == IF conn.closing THEN {} ELSE {"IN"}
  <2>9. \/ client[p] = "gone" /\ CloseConnection(fd) /\ UNCHANGED faulted
        \/ connections' = [connections EXCEPT ![fd] = left] /\ UNCHANGED <<running, wake, faulted>>
        \/ /\ CloseConnection(fd) /\ UNCHANGED faulted /\ left.output = <<>> /\ IsConnectionDrained(left)
           /\ out' = [out EXCEPT ![p] = @ \o SubSeq(conn.output, 1, n)]
        \/ UpdateEpollEvent(fd, [left EXCEPT !.interest = ints])
    BY <1>2, <2>1, <2>2, <2>3, <2>4, Zenon DEF WriteOut, TakenNow
  <2>10. CASE client[p] = "gone" /\ CloseConnection(fd) /\ UNCHANGED faulted
    BY <2>1, <2>2, <2>10, CloseOrUpdate, OthersKept, Zenon
  <2>11. CASE connections' = [connections EXCEPT ![fd] = left] /\ UNCHANGED <<running, wake, faulted>>
    BY <2>8, <2>11, NoConnAssumption, Zenon DEF Inv, TypeOK, LoopTypeOK
  <2>12. CASE /\ CloseConnection(fd) /\ UNCHANGED faulted /\ left.output = <<>> /\ IsConnectionDrained(left)
              /\ out' = [out EXCEPT ![p] = @ \o SubSeq(conn.output, 1, n)]
    <3>1. \A gd \in Fds : gd # fd => connections'[gd] = connections[gd]
      BY <2>12, CloseOrUpdate, OthersKept, Zenon
    <3>2. left.next_request_seq = (Len(out[p]) + n) + Len(left.output)
      BY <2>8, <2>12, Zenon DEF Counting, IsConnectionDrained
    <3>3. conn.next_request_seq = Len(out[p]) + n
      BY <2>5, <2>6, <2>8, <2>12, <3>2
    <3>4. SubSeq(conn.output, 1, n) \in Seq(Responses) /\ Len(SubSeq(conn.output, 1, n)) = n
      BY <2>5, <2>6, PrefixAndRest
    <3>5. out'[p] = out[p] \o SubSeq(conn.output, 1, n)
      BY <2>5, <2>12, Zenon
    <3>6. Len(out'[p]) = Len(out[p]) + n
      BY <2>5, <3>4, <3>5
    <3> QED
      BY <2>1, <2>2, <2>12, <3>1, <3>3, <3>6, Zenon
  <2>13. CASE UpdateEpollEvent(fd, [left EXCEPT !.interest = ints])
    <3>1. PICK new : new = [left EXCEPT !.interest = ints]
      BY Zenon
    <3>2. new \in Connections
      BY <2>8, <3>1, Zenon DEF Connections
    <3>3. \A gd \in Fds : gd # fd => connections'[gd] = connections[gd]
      BY <2>13, <3>1, CloseOrUpdate, OthersKept, Zenon
    <3>4. faulted' = TRUE \/ (faulted' = faulted /\ connections' = [connections EXCEPT ![fd] = new])
      BY <2>13, <3>1, Zenon DEF UpdateEpollEvent
    <3> QED
      BY <3>2, <3>3, <3>4, NoConnAssumption, Zenon DEF Inv, TypeOK, LoopTypeOK
  <2> QED
    BY <2>9, <2>10, <2>11, <2>12, <2>13, Zenon
<1> QED
  BY <1>1, <1>2, Zenon

\* Without a failing epoll_ctl, HandleWorkerCompletions closes nothing, and opens nothing ever.
LEMMA CompletionsTouch ==
  ASSUME LeastNumber, Inv, NEW e \in batch, HandleWorkerCompletions(e)
  PROVE  /\ faulted => faulted'
         /\ ~faulted' => \A fd \in Fds : Open(fd) =>
              connections'[fd] # NoConn /\ connections'[fd].peer = connections[fd].peer
         /\ \A fd \in Fds : ~Open(fd) => connections'[fd] = NoConn
PROOF
<1> DEFINE ints(fd) == IF Absorbed(fd).closing THEN {"OUT"} ELSE {"IN", "OUT"}
           updated(fd) == [Absorbed(fd) EXCEPT !.interest = ints(fd)]
           appended == {fd \in Fds : /\ Open(fd)
                                     /\ Absorbed(fd).next_write_seq # connections[fd].next_write_seq}
<1>1. PICK failing \in SUBSET appended :
        /\ faulted' = (faulted \/ failing # {})
        /\ connections' = [fd \in Fds |-> IF fd \in failing \/ ~Open(fd) THEN NoConn
                                          ELSE IF fd \in appended THEN updated(fd) ELSE Absorbed(fd)]
  BY Zenon DEF HandleWorkerCompletions, Absorbed, Watched
<1>2. ASSUME NEW fd \in Fds, Open(fd)
      PROVE  /\ updated(fd) \in Connections /\ Absorbed(fd) \in Connections
             /\ updated(fd).peer = connections[fd].peer /\ Absorbed(fd).peer = connections[fd].peer
  <2>1. PICK is : is = ints(fd) /\ is \in SUBSET {"IN", "OUT"}
    BY Zenon
  <2>2. updated(fd) = [Absorbed(fd) EXCEPT !.interest = is]
    BY <2>1, Zenon
  <2>3. AbsorbedInto(fd, Absorbed(fd))
    BY <1>2, <2>1, AbsorbedCounts, Zenon
  <2> HIDE DEF updated
  <2>4. AbsorbedInto(fd, updated(fd))
    BY <1>2, <2>1, <2>2, AbsorbedCounts, Zenon
  <2> QED
    BY <2>3, <2>4, Zenon DEF AbsorbedInto
<1> HIDE DEF appended, updated
<1>3. ASSUME ~faulted', NEW fd \in Fds, Open(fd)
      PROVE  connections'[fd] # NoConn /\ connections'[fd].peer = connections[fd].peer
  <2>1. connections'[fd] = updated(fd) \/ connections'[fd] = Absorbed(fd)
    BY <1>1, <1>3, Zenon
  <2> QED
    BY <1>2, <1>3, <2>1, NoConnAssumption, Zenon
<1>4. \A fd \in Fds : ~Open(fd) => connections'[fd] = NoConn
  BY <1>1, Zenon
<1> QED
  BY <1>1, <1>3, <1>4, Zenon

\* Without a failing epoll_ctl, Stop closes only what owes nothing.
LEMMA StopTouches ==
  ASSUME Inv, Stop
  PROVE  /\ faulted => faulted'
         /\ \A fd \in Fds : ~Open(fd) => connections'[fd] = NoConn
         /\ \A c \in Clients : client[c] = "gone" => client'[c] = "gone"
         /\ \A fd \in Fds : connections'[fd] # NoConn => connections'[fd].peer = connections[fd].peer
         /\ \A fd \in Fds : Open(fd) /\ connections'[fd] = NoConn =>
              /\ stopping' /\ ~listening' /\ ~stopping
              /\ faulted' \/ Len(out[connections[fd].peer]) = connections[fd].next_request_seq
PROOF
<1> DEFINE closed(fd) == [connections[fd] EXCEPT !.closing = TRUE, !.partial = FALSE, !.interest = {"OUT"}]
           owing == {fd \in Fds : Open(fd) /\ ~IsConnectionDrained(connections[fd])}
<1>1. CASE stopping
  BY <1>1, Zenon DEF Stop, Open
<1>2. CASE ~stopping
  <2>1. PICK kept \in SUBSET owing :
          /\ faulted' = (faulted \/ kept # owing)
          /\ connections' = [fd \in Fds |-> IF fd \in kept THEN closed(fd) ELSE NoConn]
    BY <1>2, Zenon DEF Stop
  <2>2. stopping' = TRUE /\ listening' = FALSE
        /\ client' = [c \in Clients |-> IF c \in Range(backlog) THEN "gone" ELSE client[c]]
    BY <1>2, Zenon DEF Stop
  <2>3. \A fd \in Fds : Open(fd) => /\ connections[fd] \in Connections
                                    /\ Counting(connections[fd], Len(out[connections[fd].peer]), got[connections[fd].peer])
    BY Zenon DEF Inv, TypeOK, LoopTypeOK, Open, AllCounting
  <2>4. ASSUME NEW fd \in Fds, Open(fd)
        PROVE  closed(fd) \in Connections /\ closed(fd).peer = connections[fd].peer
    BY <2>3, <2>4, Zenon DEF Connections
  <2>5. ASSUME NEW fd \in Fds, Open(fd), IsConnectionDrained(connections[fd])
        PROVE  Len(out[connections[fd].peer]) = connections[fd].next_request_seq
    <3>1. PICK conn : conn = connections[fd]
      BY Zenon
    <3>2. /\ conn.next_write_seq = Len(out[conn.peer]) + Len(conn.output)
          /\ conn.output = <<>> /\ conn.next_write_seq = conn.next_request_seq
      BY <2>3, <2>5, <3>1, Zenon DEF Counting, IsConnectionDrained
    <3>3. conn.peer \in Clients
      BY <2>3, <2>5, <3>1, Zenon DEF Connections
    <3>4. Len(out[conn.peer]) \in Nat
      BY <3>3 DEF Inv, TypeOK, NetTypeOK
    <3> QED
      BY <3>1, <3>2, <3>4
  <2> HIDE DEF closed
  <2>6. ASSUME NEW fd \in Fds, Open(fd), connections'[fd] = NoConn, ~faulted'
        PROVE  IsConnectionDrained(connections[fd])
    <3>1. kept = owing
      BY <2>1, <2>6, Zenon
    <3>2. fd \notin kept
      BY <2>1, <2>4, <2>6, NoConnAssumption, Zenon
    <3> QED
      BY <2>6, <3>1, <3>2, Zenon
  <2>7. \A fd \in Fds : ~Open(fd) => connections'[fd] = NoConn
    BY <2>1, Zenon
  <2>8. \A fd \in Fds : connections'[fd] # NoConn => connections'[fd].peer = connections[fd].peer
    BY <2>1, <2>4, Zenon
  <2>9. \A c \in Clients : client[c] = "gone" => client'[c] = "gone"
    BY <2>2, Zenon
  <2>10. faulted => faulted'
    BY <2>1, Zenon
  <2> QED
    BY <1>2, <2>2, <2>5, <2>6, <2>7, <2>8, <2>9, <2>10, Zenon
<1> QED
  BY <1>1, <1>2, Zenon

\* What the loop does to the events, step by step.
LEMMA EventsLoopStep == ASSUME LeastNumber, Inv, EventsInv, LoopStep PROVE EventsInv'
PROOF
<1>1. CASE EpollWait
  <2>1. /\ batch' = ReadyEvents /\ pc = "event"
        /\ UNCHANGED <<pc, connections, client, faulted>>
    BY <1>1, Zenon DEF EpollWait, netVars
  <2>2. ASSUME NEW e \in ReadyEvents
        PROVE  \/ e.fd \in Fds /\ Open(e.fd) /\ e = ConnectionEvent(e.fd)
               \/ e = Event(ListenFd, FALSE, listening /\ backlog # <<>>, FALSE)
               \/ e = Event(WakeFd, FALSE, wake, FALSE)
    BY <2>2 DEF ReadyEvents, ConnectionEvent, Event
  <2>3. ListenFd # WakeFd /\ ListenFd \notin Fds /\ WakeFd \notin Fds
    BY ServerAssumption DEF ListenFd, WakeFd
  <2> DEFINE le == Event(ListenFd, FALSE, listening /\ backlog # <<>>, FALSE)
             we == Event(WakeFd, FALSE, wake, FALSE)
  <2>4. le.fd = ListenFd /\ we.fd = WakeFd
    BY Zenon DEF Event
  <2>5. \A e, f \in ReadyEvents : e.fd = f.fd => e = f
    <3> HIDE DEF le, we
    <3>1. \A e \in ReadyEvents : (e.fd \in Fds /\ e = ConnectionEvent(e.fd)) \/ e = le \/ e = we
      BY <2>2, Zenon DEF le, we
    <3> QED
      BY <2>3, <2>4, <3>1, Zenon
  <2>6. ASSUME NEW e \in ReadyEvents, e.fd \in Fds, e.hup
        PROVE  Open(e.fd) /\ client[connections[e.fd].peer] = "gone"
    <3> HIDE DEF le, we
    <3>1. Open(e.fd) /\ e = ConnectionEvent(e.fd)
      BY <2>2, <2>3, <2>4, <2>6, Zenon DEF le, we
    <3>2. ConnectionEvent(e.fd).hup = (client[connections[e.fd].peer] = "gone")
      BY Zenon DEF ConnectionEvent, Event
    <3> QED
      BY <2>6, <3>1, <3>2, Zenon
  <2>7. \A e \in batch' : e.fd \in Fds /\ e.hup => Fresh(e)'
    BY <2>1, <2>6, Zenon DEF Fresh, Open
  <2> QED
    BY <2>1, <2>5, <2>7, Zenon DEF EventsInv
<1>2. CASE HandleAccept
  <2>1. /\ UNCHANGED <<stopping, listening, client, batch, connections, faulted>>
        /\ pc' \in {"insert", "event"} /\ (pc' = "insert" => listening)
    BY <1>2, Zenon DEF HandleAccept
  <2> QED
    BY <2>1, EventsKept, Zenon
<1>3. CASE InsertConnection
  <2>1. /\ UNCHANGED <<stopping, listening, client, batch>> /\ pc = "insert" /\ pc' = "accept"
        /\ ~faulted' => ~faulted /\ \A fd \in Fds : fd # cur.fd => connections'[fd] = connections[fd]
    BY <1>3, Zenon DEF InsertConnection, netVars, Inv, TypeOK, LoopTypeOK
  <2>2. ~Open(cur.fd)
    BY <2>1, Zenon DEF Inv, OnePlace
  <2>3. ~faulted => \A e \in batch : e.fd \in Fds /\ e.hup => e.fd # cur.fd
    BY <2>1, <2>2, Zenon DEF EventsInv, Fresh
  <2> QED
    BY <2>1, <2>3, EventsKept, Zenon
<1>4. CASE WriteAfterRead
  <2>1. /\ UNCHANGED <<stopping, listening, client, batch>> /\ pc = "write" /\ pc' = "event"
        /\ WriteOut(cur.fd) /\ cur.fd \in Fds
    BY <1>4, Zenon DEF WriteAfterRead, netVars, Inv, TypeOK, LoopTypeOK
  <2>2. \A e \in batch : e.fd # cur.fd
    BY <2>1, Zenon DEF EventsInv
  <2>3. /\ \A gd \in Fds : gd # cur.fd => connections'[gd] = connections[gd]
        /\ faulted => faulted'
    BY <2>1, WriteTouches, Zenon
  <2> QED
    BY <2>1, <2>2, <2>3, EventsKept, Zenon
<1>5. CASE StartCleanup
  <2>1. batch' = {} /\ pc' = "join" /\ ~running /\ UNCHANGED running
    BY <1>5, Zenon DEF StartCleanup
  <2> QED
    BY <2>1, Zenon DEF EventsInv
<1>6. CASE FinishCleanup
  <2>1. pc = "join" /\ pc' = "exited" /\ UNCHANGED <<running, batch>>
    BY <1>6, Zenon DEF FinishCleanup
  <2>2. batch = {} /\ ~running
    BY <2>1, Zenon DEF EventsInv
  <2> QED
    BY <2>1, <2>2, Zenon DEF EventsInv
<1>7. ASSUME NEW e \in batch, StartAccept(e)
      PROVE  EventsInv'
  <2>1. UNCHANGED <<stopping, listening, client, connections, faulted>> /\ pc' = "accept" /\ Handle(e)
    BY <1>7, Zenon DEF StartAccept, netVars
  <2> QED
    BY <2>1, OnlyEvent, EventsKept, Zenon
<1>8. ASSUME NEW e \in batch, HandleWorkerCompletions(e)
      PROVE  EventsInv'
  <2>1. UNCHANGED <<stopping, listening, client>> /\ pc = "event" /\ pc' = pc /\ Handle(e)
    BY <1>8, Zenon DEF HandleWorkerCompletions, netVars, Handle
  <2>2. /\ faulted => faulted'
        /\ ~faulted' => \A fd \in Fds : Open(fd) =>
             connections'[fd] # NoConn /\ connections'[fd].peer = connections[fd].peer
        /\ \A fd \in Fds : ~Open(fd) => connections'[fd] = NoConn
    BY <1>8, CompletionsTouch, Zenon
  <2>3. ~faulted' => \A fd \in Fds :
          \/ connections'[fd] = connections[fd]
          \/ /\ Open(fd) /\ connections'[fd] # NoConn
             /\ connections'[fd].peer = connections[fd].peer
    BY <2>2, Zenon DEF Open
  <2> QED
    BY <2>1, <2>2, <2>3, OnlyEvent, EventsKept, Zenon
<1>9. ASSUME NEW e \in batch, HandleHangup(e)
      PROVE  EventsInv'
  <2>1. /\ UNCHANGED <<stopping, listening, client, faulted>> /\ pc = "event" /\ pc' = pc /\ Handle(e)
        /\ e.fd \in Fds
        /\ CloseConnection(e.fd) \/ connections' = connections
    BY <1>9, Zenon DEF HandleHangup, netVars, Handle
  <2>2. \A gd \in Fds : gd # e.fd => connections'[gd] = connections[gd]
    BY <2>1, CloseOrUpdate, OthersKept, Zenon
  <2> QED
    BY <2>1, <2>2, OnlyEvent, EventsKept, Zenon
<1>10. ASSUME NEW e \in batch, HandleRead(e)
       PROVE  EventsInv'
  <2>1. /\ UNCHANGED <<stopping, listening, client>> /\ pc = "event" /\ Handle(e)
        /\ \/ pc' = "write" /\ cur' = [fd |-> e.fd]
           \/ pc' = pc
    BY <1>10, Zenon DEF HandleRead, Handle
  <2>2. /\ e.fd \in Fds /\ \A gd \in Fds : gd # e.fd => connections'[gd] = connections[gd]
        /\ faulted => faulted'
    BY <1>10, ReadTouches, Zenon
  <2> QED
    BY <2>1, <2>2, OnlyEvent, EventsKept
<1>11. ASSUME NEW e \in batch, HandleWrite(e)
       PROVE  EventsInv'
  <2>1. /\ UNCHANGED <<stopping, listening, client>> /\ pc = "event" /\ pc' = pc /\ Handle(e)
        /\ e.fd \in Fds /\ WriteOut(e.fd)
    BY <1>11, Zenon DEF HandleWrite, netVars, Handle
  <2>2. /\ \A gd \in Fds : gd # e.fd => connections'[gd] = connections[gd]
        /\ faulted => faulted'
    BY <2>1, WriteTouches, Zenon
  <2> QED
    BY <2>1, <2>2, OnlyEvent, EventsKept, Zenon
<1> QED
  BY <1>1, <1>2, <1>3, <1>4, <1>5, <1>6, <1>7, <1>8, <1>9, <1>10, <1>11, Zenon DEF LoopStep

\* Stop makes hangups of what it closes harmless: no descriptor is given out after it.
LEMMA EventsStopStep == ASSUME Inv, EventsInv, Stop PROVE EventsInv'
PROOF
<1>1. UNCHANGED <<pc, cur, batch>> /\ running /\ (stopping => UNCHANGED <<stopping, listening>>)
  BY Zenon DEF Stop
<1>2. pc \notin {"join", "exited"}
  BY <1>1, Zenon DEF EventsInv
<1>3. pc = "insert" => ~Open(cur.fd)
  BY Zenon DEF Inv, OnePlace
<1>4. ASSUME NEW e \in batch, e.fd \in Fds, e.hup, ~faulted'
      PROVE  Fresh(e)'
  <2>1. Fresh(e)
    BY <1>4, StopTouches, Zenon DEF EventsInv
  <2>2. CASE Open(e.fd) /\ connections'[e.fd] # NoConn
    <3>1. connections[e.fd].peer \in Clients
      BY <1>4, <2>2, Zenon DEF Inv, TypeOK, LoopTypeOK, Open, Connections
    <3>2. client[connections[e.fd].peer] = "gone" /\ connections'[e.fd].peer = connections[e.fd].peer
      BY <1>4, <2>1, <2>2, StopTouches, Zenon DEF Fresh
    <3>3. client'[connections'[e.fd].peer] = "gone"
      BY <3>1, <3>2, StopTouches, Zenon
    <3> QED
      BY <2>2, <3>3, Zenon DEF Fresh, Open
  <2>3. CASE Open(e.fd) /\ connections'[e.fd] = NoConn
    <3>1. stopping' /\ ~listening'
      BY <1>4, <2>3, StopTouches, Zenon
    <3> QED
      BY <1>1, <1>3, <2>3, <3>1, Zenon DEF Fresh, Open
  <2>4. CASE ~Open(e.fd)
    <3>1. connections'[e.fd] = NoConn
      BY <1>4, <2>4, StopTouches, Zenon
    <3> QED
      BY <1>1, <2>1, <2>4, <3>1, SMTT(30) DEF Fresh, Open
  <2> QED
    BY <2>2, <2>3, <2>4, Zenon
<1> QED
  BY <1>1, <1>2, <1>4, Zenon DEF EventsInv

\* EventsInv is kept by every step.
LEMMA EventsNext == LeastNumber /\ Inv /\ EventsInv /\ [Next]_vars => EventsInv'
PROOF
<1> SUFFICES ASSUME LeastNumber, Inv, EventsInv, [Next]_vars
             PROVE  EventsInv'
  BY Zenon
<1>1. CASE UNCHANGED vars
  <2>1. UNCHANGED <<loopVars, faulted>> /\ UNCHANGED client
    BY <1>1, Zenon DEF vars, netVars
  <2> QED
    BY <2>1, EventsFrame, Zenon
<1>2. CASE LoopStep
  BY <1>2, EventsLoopStep, Zenon
<1>3. CASE Stop
  BY <1>3, EventsStopStep, Zenon
<1>4. ASSUME NEW w \in Workers, WorkerStep(w) \/ Spurious(w)
      PROVE  EventsInv'
  <2>1. UNCHANGED <<loopVars, faulted>> /\ UNCHANGED client
    BY <1>4, Zenon DEF WorkerStep, Spurious, Pool, Execute, PushCompleted, WakeLoop, netVars
  <2> QED
    BY <2>1, EventsFrame, Zenon
<1>5. ASSUME NEW c \in Clients, ClientStep(c)
      PROVE  EventsInv'
  <2>1. UNCHANGED <<loopVars, faulted>>
    BY <1>5, Zenon DEF ClientStep, Connect, Send, Receive, ClientLeaves
  <2>2. \A d \in Clients : client[d] = "gone" => client'[d] = "gone"
    BY <1>5, Zenon DEF ClientStep, Connect, Send, Receive, ClientLeaves, netVars, Inv, TypeOK, NetTypeOK
  <2> QED
    BY <2>1, <2>2, EventsFrame, Zenon
<1> QED
  BY <1>1, <1>2, <1>3, <1>4, <1>5, Zenon DEF Next

\* Everything that was taken from the connection under fd has been answered, or its client left, or
\* an epoll_ctl failed.
Answered(fd) ==
  LET c == connections[fd].peer
  IN client[c] \in {"eof", "gone"} \/ faulted' \/ Len(out'[c]) = connections[fd].next_request_seq

\* A step closes no other connections.
Closing == \A fd \in Fds : Open(fd) /\ connections'[fd] = NoConn => Answered(fd)

\* Every step closes only connections that may be closed (CloseConnection's callers, Stop, Cleanup).
LEMMA ClosesAnswered == LeastNumber /\ Inv /\ EventsInv /\ [Next]_vars => [Closing]_vars
PROOF
<1> USE DEF Answered, Closing
<1> SUFFICES ASSUME LeastNumber, Inv, EventsInv, Next, NEW fd \in Fds, Open(fd), connections'[fd] = NoConn
             PROVE  Answered(fd)
  BY Zenon
<1>1. ASSUME NEW e \in batch, e.fd \in Fds, \A gd \in Fds : gd # e.fd => connections'[gd] = connections[gd]
      PROVE  fd = e.fd
  BY <1>1, Zenon DEF Open
<1>2. CASE UNCHANGED connections
  BY <1>2, Zenon DEF Open
<1>3. CASE InsertConnection
  <2>1. pc = "insert" /\ ~Open(cur.fd)
    BY <1>3, Zenon DEF InsertConnection, Inv, OnePlace
  <2>2. connections'[fd] = connections[fd]
    <3>1. connections \in [Fds -> Connections \cup {NoConn}]
      BY Zenon DEF Inv, TypeOK, LoopTypeOK
    <3>2. cur.fd # fd
      BY <2>1, Zenon
    <3>3. PICK new : connections' = [connections EXCEPT ![cur.fd] = new] \/ connections' = connections
      BY <1>3, Zenon DEF InsertConnection
    <3> QED
      BY <3>1, <3>2, <3>3, Zenon
  <2> QED
    BY <2>2, Zenon DEF Open
<1>4. CASE WriteAfterRead
  <2>1. WriteOut(cur.fd) /\ cur.fd \in Fds
    BY <1>4, Zenon DEF WriteAfterRead, Inv, TypeOK, LoopTypeOK
  <2>2. fd = cur.fd
    BY <2>1, WriteTouches, Zenon DEF Open
  <2> QED
    BY <2>1, <2>2, WriteTouches, Zenon
<1>5. CASE FinishCleanup
  <2>1. pc = "join" /\ UNCHANGED out
    BY <1>5, Zenon DEF FinishCleanup
  <2>2. ~running
    BY <2>1, Zenon DEF EventsInv
  <2>3. PICK conn : conn = connections[fd]
    BY Zenon
  <2>4. conn.next_request_seq = 0
    BY <2>2, <2>3, Zenon DEF Inv, Ending
  <2>5. conn \in Connections /\ Counting(conn, Len(out[conn.peer]), got[conn.peer])
    BY <2>3, Zenon DEF Inv, TypeOK, LoopTypeOK, AllCounting, Open
  <2>6. conn.peer \in Clients /\ Len(conn.output) \in Nat
    BY <2>5 DEF Connections
  <2>7. Len(out[conn.peer]) \in Nat
    BY <2>6, SMTT(30) DEF Inv, TypeOK, NetTypeOK
  <2>8. /\ conn.next_write_seq = Len(out[conn.peer]) + Len(conn.output)
        /\ conn.next_write_seq <= conn.next_request_seq
    BY <2>5, Zenon DEF Counting
  <2>9. Len(out[conn.peer]) = conn.next_request_seq
    <3>1. \A m, n \in Nat : m + n <= 0 => m = 0
      OBVIOUS
    <3>2. Len(out[conn.peer]) + Len(conn.output) <= 0
      BY <2>4, <2>8, Zenon
    <3> QED
      BY <2>4, <2>6, <2>7, <3>1, <3>2, Zenon
  <2> QED
    BY <2>1, <2>3, <2>9, Zenon
<1>6. ASSUME NEW e \in batch, HandleWorkerCompletions(e)
      PROVE  Answered(fd)
  BY <1>6, CompletionsTouch, Zenon
<1>7. ASSUME NEW e \in batch, HandleHangup(e)
      PROVE  Answered(fd)
  <2>1. /\ UNCHANGED faulted /\ e.fd \in Fds /\ e.hup
        /\ CloseConnection(e.fd) \/ connections' = connections
    BY <1>7, Zenon DEF HandleHangup
  <2>2. fd = e.fd
    BY <1>1, <2>1, CloseOrUpdate, OthersKept, Zenon
  <2>3. ~faulted => Fresh(e)
    BY <2>1, Zenon DEF EventsInv
  <2> QED
    BY <2>1, <2>2, <2>3, Zenon DEF Fresh
<1>8. ASSUME NEW e \in batch, HandleRead(e)
      PROVE  Answered(fd)
  <2>1. fd = e.fd
    BY <1>1, <1>8, ReadTouches, Zenon
  <2> QED
    BY <1>8, <2>1, ReadTouches, Zenon
<1>9. ASSUME NEW e \in batch, HandleWrite(e)
      PROVE  Answered(fd)
  <2>1. e.fd \in Fds /\ WriteOut(e.fd)
    BY <1>9, Zenon DEF HandleWrite
  <2>2. fd = e.fd
    BY <1>1, <2>1, WriteTouches, Zenon
  <2> QED
    BY <2>1, <2>2, WriteTouches, Zenon
<1>10. CASE Stop
  <2>1. UNCHANGED out
    BY <1>10, Zenon DEF Stop
  <2> QED
    BY <1>10, <2>1, StopTouches, Zenon
<1>11. CASE LoopStep
  <2>1. EpollWait \/ HandleAccept \/ StartCleanup => UNCHANGED connections
    BY Zenon DEF EpollWait, HandleAccept, StartCleanup
  <2>2. \A e \in batch : StartAccept(e) => UNCHANGED connections
    BY Zenon DEF StartAccept
  <2> HIDE DEF Answered
  <2> QED
    BY <1>2, <1>3, <1>4, <1>5, <1>6, <1>7, <1>8, <1>9, <1>11, <2>1, <2>2, Zenon DEF LoopStep
<1>12. ASSUME NEW w \in Workers, WorkerStep(w) \/ Spurious(w)
       PROVE  UNCHANGED connections
  BY <1>12, Zenon DEF WorkerStep, Spurious, Pool, Execute, PushCompleted, WakeLoop, loopVars
<1>13. ASSUME NEW c \in Clients, ClientStep(c)
       PROVE  UNCHANGED connections
  BY <1>13, Zenon DEF ClientStep, Connect, Send, Receive, ClientLeaves, loopVars
<1> HIDE DEF Answered
<1> QED
  BY <1>2, <1>10, <1>11, <1>12, <1>13, Zenon DEF Next

-----------------------------------------------------------------------------
(* Steps on one connection.                                                  *)

\* A hangup.
LEMMA HandleHangupStep ==
  ASSUME Inv, NEW e \in batch, HandleHangup(e)
  PROVE  Inv'
PROOF
<1>0. /\ UNCHANGED <<stopping, listening, next_generation, pc, cur, completed_queue, netVars, out, taken,
                     versions, faulted, poolVars>>
      /\ e.fd \in Fds /\ pc = "event" /\ batch' = batch \ {e}
      /\ \/ Open(e.fd) /\ CloseConnection(e.fd)
         \/ UNCHANGED <<connections, running, wake>>
  BY Zenon DEF HandleHangup, Handle
<1>1. Kept /\ running' \in BOOLEAN /\ wake' \in BOOLEAN
  <2>1. CASE UNCHANGED <<connections, running, wake>>
    BY <1>0, <2>1, NoConnectionKeeps, Zenon DEF netVars, Inv, TypeOK, LoopTypeOK
  <2>2. CASE Open(e.fd) /\ CloseConnection(e.fd)
    <3> DEFINE conn == connections[e.fd]
    <3>1. conn \in Connections /\ OneConnection(e.fd, conn)
      BY <1>0, <2>2, CloseOrUpdate, ZenonT(30) DEF Inv, TypeOK, LoopTypeOK, Open
    <3>2. Counting(conn, Len(out[conn.peer]), got[conn.peer]) /\ JustifiedIn(conn)
      BY <1>0, <2>2, Zenon DEF Inv, AllCounting, AllJustified
    <3>3. conn.next_request_seq <= conn.next_request_seq
      BY <3>1 DEF Connections
    <3>4. UNCHANGED <<out, got, next_generation>>
      BY <1>0, Zenon DEF netVars
    <3>5. Kept
      BY <1>0, <2>2, <3>1, <3>2, <3>3, <3>4, OneConnectionKeeps, ZenonT(30)
    <3> QED
      BY <3>1, <3>5, Zenon DEF OneConnection
  <2> QED
    BY <1>0, <2>1, <2>2, Zenon
<1>2. LoopTypeOK'
  BY <1>0, <1>1, Zenon DEF Inv, TypeOK, LoopTypeOK, Kept, Evolves
<1>3. NetTypeOK' /\ AnswersInOrder' /\ \A c \in Clients : \A i \in 1..Len(out'[c]) : Justified(out'[c][i])
  BY <1>0, NetTypeFrame, Zenon DEF Inv, TypeOK, AnswersInOrder, AllJustified
<1> QED
  BY <1>0, <1>1, <1>2, <1>3, KeptStep, Zenon DEF netVars

\* The writes: what goes out continues what was written, in the order of the requests.
LEMMA WriteOutKeeps ==
  ASSUME Inv, NEW fd \in Fds, WriteOut(fd),
         UNCHANGED <<next_generation, client, backlog, sent, got, taken, versions>>
  PROVE  /\ Kept /\ running' \in BOOLEAN /\ wake' \in BOOLEAN /\ faulted' \in BOOLEAN
         /\ NetTypeOK' /\ AnswersInOrder'
         /\ \A c \in Clients : \A i \in 1..Len(out'[c]) : Justified(out'[c][i])
         /\ \A c \in Clients : (\A gd \in Fds : Open(gd) => connections[gd].peer # c) => out'[c] = out[c]
PROOF
<1> DEFINE conn == connections[fd]
           p == conn.peer
           n == Min({Len(conn.output), Room(p)})
           left == [conn EXCEPT !.output = SubSeq(@, n + 1, Len(@))]
           ints == IF conn.closing THEN {} ELSE {"IN"}
<1>1. /\ running \in BOOLEAN /\ wake \in BOOLEAN /\ faulted \in BOOLEAN
      /\ out \in [Clients -> Seq(Responses)] /\ NetTypeOK /\ AnswersInOrder
      /\ \A c \in Clients : \A i \in 1..Len(out[c]) : Justified(out[c][i])
  BY Zenon DEF Inv, TypeOK, LoopTypeOK, NetTypeOK, AllJustified
<1>2. ASSUME out' = out
      PROVE  /\ NetTypeOK' /\ AnswersInOrder'
             /\ \A c \in Clients : \A i \in 1..Len(out'[c]) : Justified(out'[c][i])
  BY <1>1, <1>2, NetTypeFrame, Zenon DEF AnswersInOrder, netVars
<1>3. CASE ~Open(fd)
  <2>1. UNCHANGED <<connections, running, wake, out, faulted>>
    BY <1>3, Zenon DEF WriteOut
  <2>2. Kept
    BY <2>1, NoConnectionKeeps, Zenon
  <2> QED
    BY <1>1, <1>2, <2>1, <2>2, Zenon
<1>4. CASE Open(fd)
  <2>1. /\ conn \in Connections /\ p \in Clients /\ Len(out[p]) \in Nat
        /\ conn.output \in Seq(Responses) /\ conn.next_request_seq \in Nat
        /\ Counting(conn, Len(out[p]), got[p]) /\ JustifiedIn(conn)
    BY <1>1, <1>4, SMTT(30) DEF Inv, TypeOK, LoopTypeOK, Open, Connections, AllCounting, AllJustified
  <2>2. \/ CloseConnection(fd) /\ UNCHANGED <<out, faulted>>
        \/ /\ out' = [out EXCEPT ![p] = @ \o SubSeq(conn.output, 1, n)]
           /\ \/ connections' = [connections EXCEPT ![fd] = left] /\ UNCHANGED <<running, wake, faulted>>
              \/ CloseConnection(fd) /\ UNCHANGED faulted
              \/ UpdateEpollEvent(fd, [left EXCEPT !.interest = ints])
    BY <1>4, Zenon DEF WriteOut, TakenNow
  <2>3. CASE CloseConnection(fd) /\ UNCHANGED <<out, faulted>>
    <3>1. OneConnection(fd, conn)
      BY <2>3, CloseOrUpdate, Zenon
    <3>2. Counting(conn, Len(out'[p]), got'[p]) /\ conn.next_request_seq <= conn.next_request_seq
      BY <2>1, <2>3
    <3>3. Kept
      BY <1>4, <2>1, <2>3, <3>1, <3>2, OneConnectionKeeps, ZenonT(30)
    <3> QED
      BY <1>2, <2>3, <3>1, <3>3, Zenon DEF OneConnection
  <2>4. CASE /\ out' = [out EXCEPT ![p] = @ \o SubSeq(conn.output, 1, n)]
             /\ \/ connections' = [connections EXCEPT ![fd] = left] /\ UNCHANGED <<running, wake, faulted>>
                \/ CloseConnection(fd) /\ UNCHANGED faulted
                \/ UpdateEpollEvent(fd, [left EXCEPT !.interest = ints])
    <3>1. n \in 0..Len(conn.output) /\ n <= Room(p) /\ Room(p) \in 0..SndCap /\ SndCap \in Nat
      <4>1. Room(p) \in 0..SndCap /\ SndCap \in Nat
        BY <1>1, <2>1, ServerAssumption, Zenon DEF NetTypeOK
      <4>2. Len(conn.output) \in Nat /\ Room(p) \in Nat
        BY <2>1, <4>1
      <4> QED
        BY <4>1, <4>2, MinOfTwo, Zenon
    <3>2. PICK k : k = n
      BY Zenon
    <3>3. PICK sub : sub = SubSeq(conn.output, 1, k)
      BY Zenon
    <3>4. /\ sub \in Seq(Responses) /\ Len(sub) = k /\ k \in Nat
          /\ \A i \in 1..k : sub[i] = conn.output[i] /\ i \in 1..Len(conn.output)
      <4> HIDE DEF n, conn
      <4>1. /\ SubSeq(conn.output, 1, k) \in Seq(Responses) /\ Len(SubSeq(conn.output, 1, k)) = k
            /\ \A i \in 1..k : SubSeq(conn.output, 1, k)[i] = conn.output[i]
        BY <2>1, <3>1, <3>2, PrefixAndRest, SMTT(30)
      <4>2. k \in Nat /\ k <= Len(conn.output) /\ Len(conn.output) \in Nat
        BY <2>1, <3>1, <3>2, SMTT(30)
      <4> QED
        BY <3>3, <4>1, <4>2, SMTT(30)
    <3>5. /\ out' \in [Clients -> Seq(Responses)] /\ out'[p] = out[p] \o sub
          /\ \A c \in Clients : c # p => out'[c] = out[c]
      <4> HIDE DEF n, conn, p
      <4> QED
        BY <1>1, <2>1, <2>4, <3>2, <3>3, <3>4, SMTT(30)
    <3>6. /\ Len(out'[p]) = Len(out[p]) + k
          /\ \A i \in 1..Len(out[p]) : out'[p][i] = out[p][i]
          /\ \A i \in (Len(out[p]) + 1)..Len(out'[p]) :
               /\ out'[p][i] = sub[i - Len(out[p])] /\ i - Len(out[p]) \in 1..k
               /\ Len(out[p]) + (i - Len(out[p])) = i
          /\ \A i \in 1..Len(out'[p]) : i \in 1..Len(out[p]) \/ i \in (Len(out[p]) + 1)..Len(out'[p])
      <4>1. out[p] \in Seq(Responses)
        BY <1>1, <2>1, Zenon
      <4>2. PICK u : u = out'[p]
        BY Zenon
      <4> HIDE DEF n, conn, p
      <4>3. Appended(out[p], sub, u)
        <5>1. u = out[p] \o sub /\ sub \in Seq(Responses)
          BY <3>4, <3>5, <4>2, Zenon
        <5> QED
          BY <4>1, <5>1, AppendedParts, Zenon
      <4>4. Len(sub) = k
        BY <3>4, Zenon
      <4> QED
        BY <4>2, <4>3, <4>4, Zenon DEF Appended
    <3>7. NetTypeOK'
      <4>1. ASSUME NEW c \in Clients
            PROVE  SndCap - (Len(out'[c]) - taken'[c]) \in 0..SndCap
        <5>1. Len(out[c]) \in Nat /\ taken[c] \in Nat /\ SndCap - (Len(out[c]) - taken[c]) \in 0..SndCap
          BY <1>1 DEF NetTypeOK, Room
        <5>2. CASE c # p
          BY <3>5, <5>1, <5>2, Zenon
        <5>3. CASE c = p
          <6>1. k <= SndCap - (Len(out[p]) - taken[p]) /\ taken' = taken
            BY <3>1, <3>2, Zenon DEF Room
          <6>2. k <= SndCap - (Len(out[c]) - taken[c]) /\ Len(out'[c]) = Len(out[c]) + k
            BY <3>6, <5>3, <6>1, Zenon
          <6>3. taken'[c] = taken[c] /\ k \in Nat /\ SndCap \in Nat
            BY <3>1, <3>4, Zenon
          <6> QED
            BY <5>1, <6>2, <6>3, RoomLeft, Zenon
        <5> QED
          BY <5>2, <5>3, Zenon
      <4> QED
        BY <1>1, <3>5, <4>1, Zenon DEF NetTypeOK, Room
    <3>8. ASSUME NEW c \in Clients, NEW i \in 1..Len(out'[c])
          PROVE  out'[c][i].cmd.by = c /\ out'[c][i].cmd.n = i /\ Justified(out'[c][i])
      <4>1. CASE c # p \/ i \in 1..Len(out[p])
        BY <1>1, <3>5, <3>6, <4>1, SMTT(30) DEF AnswersInOrder
      <4>2. CASE c = p /\ i \in (Len(out[p]) + 1)..Len(out'[p])
        <5> DEFINE j == i - Len(out[p])
        <5>1. out'[p][i] = conn.output[j] /\ j \in 1..Len(conn.output) /\ Len(out[p]) + j = i
          BY <3>4, <3>6, <4>2, Zenon
        <5> HIDE DEF j
        <5> QED
          BY <2>1, <4>2, <5>1, Zenon DEF Counting, JustifiedIn
      <4> QED
        BY <3>6, <4>1, <4>2, ZenonT(30)
    <3>9. PICK rest : rest = left
      BY Zenon
    <3>10. /\ rest \in Connections /\ Counting(rest, Len(out'[p]), got'[p]) /\ JustifiedIn(rest)
           /\ rest.peer = p /\ rest.generation = conn.generation
           /\ rest.next_request_seq = conn.next_request_seq
      <4>1. rest = [conn EXCEPT !.output = SubSeq(@, k + 1, Len(@))] /\ k \in 0..Len(conn.output)
        BY <3>1, <3>2, <3>9, Zenon
      <4> HIDE DEF n, conn, left
      <4>2. Rest(conn, rest, Len(out[p]) + k, got[p])
        BY <2>1, <4>1, WrittenCounts, Zenon
      <4>3. Len(out'[p]) = Len(out[p]) + k /\ got' = got
        BY <3>6, Zenon
      <4> QED
        BY <4>2, <4>3, Zenon DEF Rest
    <3>11. PICK new : /\ OneConnection(fd, new)
                      /\ new = rest \/ new = [rest EXCEPT !.interest = ints]
      <4>1. CASE connections' = [connections EXCEPT ![fd] = rest] /\ UNCHANGED <<running, wake, faulted>>
        BY <4>1, CloseOrUpdate, Zenon
      <4>2. CASE CloseConnection(fd) /\ UNCHANGED faulted
        BY <4>2, CloseOrUpdate, Zenon
      <4>3. CASE UpdateEpollEvent(fd, [rest EXCEPT !.interest = ints])
        BY <4>3, CloseOrUpdate, Zenon
      <4> QED
        BY <2>4, <3>9, <4>1, <4>2, <4>3, Zenon
    <3>12. /\ new \in Connections /\ Counting(new, Len(out'[p]), got'[p]) /\ JustifiedIn(new)
           /\ new.peer = p /\ new.generation = conn.generation
           /\ new.next_request_seq = conn.next_request_seq
      <4>1. ints \in SUBSET {"IN", "OUT"}
        BY Zenon
      <4> HIDE DEF ints
      <4>2. CASE new = rest
        BY <3>10, <4>2, Zenon
      <4>3. CASE new = [rest EXCEPT !.interest = ints]
        <5>1. /\ new \in Connections /\ new.peer = rest.peer /\ new.generation = rest.generation
              /\ new.next_request_seq = rest.next_request_seq /\ new.output = rest.output
              /\ new.next_write_seq = rest.next_write_seq /\ new.closing = rest.closing
              /\ new.pending_responses = rest.pending_responses
          BY <3>10, <4>1, <4>3, Zenon DEF Connections
        <5> QED
          BY <3>10, <5>1, Zenon DEF Counting, JustifiedIn
      <4> QED
        BY <3>11, <4>2, <4>3, Zenon
    <3>13. Kept
      <4>1. conn.next_request_seq <= new.next_request_seq
        BY <2>1, <3>12
      <4> QED
        BY <1>4, <3>5, <3>11, <3>12, <4>1, OneConnectionKeeps, ZenonT(30)
    <3> QED
      BY <1>4, <3>5, <3>7, <3>8, <3>11, <3>13, SMTT(30) DEF OneConnection, AnswersInOrder
  <2> QED
    BY <2>2, <2>3, <2>4, Zenon
<1> QED
  BY <1>3, <1>4, Zenon

\* HandleWrite, for an event of its own or after a read.
LEMMA HandleWriteStep ==
  ASSUME Inv, WriteAfterRead \/ \E e \in batch : HandleWrite(e)
  PROVE  Inv'
PROOF
<1>0. /\ UNCHANGED <<stopping, listening, next_generation, completed_queue, netVars, taken, versions, poolVars>>
      /\ pc \in {"event", "write"} /\ pc' = "event" /\ (cur' = Nothing \/ (pc = "event" /\ cur' = cur))
      /\ batch' \subseteq batch
      /\ \E fd \in Fds : WriteOut(fd)
  BY Zenon DEF WriteAfterRead, HandleWrite, Handle, Inv, TypeOK, LoopTypeOK
<1>1. UNCHANGED <<client, backlog, sent, got>>
  BY <1>0, Zenon DEF netVars
<1>2. /\ Kept /\ running' \in BOOLEAN /\ wake' \in BOOLEAN /\ faulted' \in BOOLEAN
      /\ NetTypeOK' /\ AnswersInOrder'
      /\ \A c \in Clients : \A i \in 1..Len(out'[c]) : Justified(out'[c][i])
      /\ \A c \in Clients : (\A gd \in Fds : Open(gd) => connections[gd].peer # c) => out'[c] = out[c]
  BY <1>0, <1>1, WriteOutKeeps, Zenon
<1>3. LoopTypeOK'
  BY <1>0, <1>2, Zenon DEF Inv, TypeOK, LoopTypeOK, Kept, Evolves
<1> QED
  BY <1>0, <1>1, <1>2, <1>3, KeptStep, Zenon

\* Commands that are read become tasks of the connection they were read from.
LEMMA ReadIntoStep ==
  ASSUME Inv, NEW fd \in Fds, Open(fd), running, NEW new, NEW ts, ReadInto(fd, new, ts),
         NEW m \in 0..Len(sent[connections[fd].peer]), got' = [got EXCEPT ![connections[fd].peer] = m],
         LoopTypeOK', pc = "event", pc' \in {"event", "write"},
         UNCHANGED <<next_generation, completed_queue, client, backlog, sent, out, taken, versions>>
  PROVE  Inv'
PROOF
<1>1. PICK c : c = connections[fd].peer
  BY Zenon
<1>2. connections[fd] \in Connections /\ c \in Clients /\ got \in [Clients -> Nat]
      /\ sent[c] \in Seq(Commands)
  BY <1>1, Zenon DEF Inv, TypeOK, LoopTypeOK, NetTypeOK, Open, Connections
<1>3. /\ got' \in [Clients -> Nat] /\ got'[c] = m /\ m <= Len(sent[c])
      /\ \A d \in Clients : d # c => got'[d] = got[d]
  BY <1>1, <1>2
<1>4. /\ new \in Connections /\ OneConnection(fd, new) /\ new.peer = c
      /\ new.generation = connections[fd].generation
      /\ connections[fd].next_request_seq <= new.next_request_seq
      /\ Counting(new, Len(out[c]), got'[c]) /\ JustifiedIn(new)
      /\ ts \in Seq(Tasks) /\ Enqueue(ts)
      /\ \A i \in 1..Len(ts) :
           /\ ts[i].fd = fd /\ ts[i].generation = connections[fd].generation
           /\ ts[i].cmd.by = c /\ ts[i].cmd.n = ts[i].seq + 1
           /\ ts[i].seq < new.next_request_seq /\ Timely(ts[i].cmd)
  BY <1>1, Zenon DEF ReadInto
<1>5. Kept
  BY <1>1, <1>3, <1>4, OneConnectionKeeps, Zenon
<1>6. /\ PoolTypeOK' /\ tasks' = tasks \o ts /\ UNCHANGED <<stop, job>>
      /\ \A w \in Workers : at'[w] = at[w] \/ at'[w] = "ready"
  BY <1>4, EnqueueFacts, Zenon DEF Inv, TypeOK
<1>7. NetTypeOK'
  BY <1>3, Zenon DEF Inv, TypeOK, NetTypeOK, Room
<1>8. CommandsNumbered'
  BY <1>3, Zenon DEF Inv, CommandsNumbered, Timely
<1>9. OnePlace'
  <2>1. \A d \in Clients : (\A gd \in Fds : Open(gd) => connections[gd].peer # d) => got'[d] = got[d] /\ out'[d] = out[d]
    BY <1>1, <1>3, Zenon
  <2> QED
    BY <1>5, <2>1, StillOnePlace, Zenon DEF Inv, Kept
<1>10. /\ \A i \in 1..Len(tasks) : tasks[i] \in Tasks
       /\ \A i \in 1..Len(completed_queue) : completed_queue[i] \in Completed
       /\ \A w \in Workers : at[w] = "run" => job[w] \in Tasks
       /\ \A w \in Workers : at[w] = "push" => job[w] \in Completed
  BY DEF Inv, TypeOK, LoopTypeOK, PoolTypeOK
<1>11. /\ \A t \in Tasks : t.fd \in Fds /\ t.seq \in Nat
       /\ \A t \in Completed : t.fd \in Fds /\ t.seq \in Nat
  BY Zenon DEF Tasks, Completed
<1>12. ASSUME NEW i \in 1..Len(tasks')
       PROVE  \/ i \in 1..Len(tasks) /\ tasks'[i] = tasks[i]
              \/ \E j \in 1..Len(ts) : tasks'[i] = ts[j]
  <2>1. tasks \in Seq(Tasks)
    BY Zenon DEF Inv, TypeOK, PoolTypeOK
  <2>2. PICK u : u = tasks'
    BY Zenon
  <2>3. Appended(tasks, ts, u)
    BY <1>4, <1>6, <2>1, <2>2, AppendedParts, Zenon
  <2> QED
    BY <2>2, <2>3, Zenon DEF Appended
<1>13. ASSUME NEW j \in 1..Len(ts)
       PROVE  ForConnection(ts[j], ts[j].cmd)' /\ Timely(ts[j].cmd)'
  <2>1. connections[fd].generation < next_generation
    BY Zenon DEF Inv, AllCounting
  <2>2. connections'[fd] # NoConn => connections'[fd] = new
    BY Zenon DEF OneConnection, Inv, TypeOK, LoopTypeOK, Open, ReadInto
  <2>3. ForConnection(ts[j], ts[j].cmd)'
    BY <1>4, <2>1, <2>2, Zenon DEF ForConnection, Open
  <2> QED
    BY <1>4, <2>3, Zenon DEF Timely
<1>14. InFlight'
  <2>1. \A i \in 1..Len(tasks) : ForConnection(tasks[i], tasks[i].cmd)
    BY Zenon DEF Inv, InFlight
  <2>2. \A i \in 1..Len(tasks) : tasks[i].fd \in Fds /\ tasks[i].seq \in Nat
    BY <1>10, <1>11, Zenon
  <2>3. \A t, cmd : t.fd \in Fds /\ t.seq \in Nat /\ ForConnection(t, cmd) => ForConnection(t, cmd)'
    BY <1>5, StillForConnection, Zenon DEF Inv, Kept
  <2>4. \A i \in 1..Len(tasks') : ForConnection(tasks[i], tasks[i].cmd)'
    BY <1>12, <1>13, <2>1, <2>2, <2>3, Zenon
  <2>5. \A i \in 1..Len(completed_queue') :
          ForConnection(completed_queue[i], completed_queue[i].response.cmd)'
    BY <1>10, <1>11, <2>3, Zenon DEF Inv, InFlight
  <2>6. \A w \in Workers : /\ at'[w] = "run" => ForConnection(job[w], job[w].cmd)'
                           /\ at'[w] = "push" => ForConnection(job[w], job[w].response.cmd)'
    BY <1>6, <1>10, <1>11, <2>3, Zenon DEF Inv, InFlight
  <2> QED
    BY <2>4, <2>5, <2>6, Zenon DEF InFlight
<1>15. AllJustified'
  <2>1. \A t : (Timely(t) => Timely(t)') /\ (Justified(t) => Justified(t)') /\ (JustifiedIn(t) => JustifiedIn(t)')
    BY Zenon DEF Timely, Justified, JustifiedIn
  <2>2. \A i \in 1..Len(tasks') : Timely(tasks[i].cmd)'
    BY <1>12, <1>13, <2>1, ZenonT(30) DEF Inv, AllJustified
  <2>3. \A w \in Workers : /\ at'[w] = "run" => Timely(job[w].cmd)'
                           /\ at'[w] = "push" => Justified(job[w].response)'
    BY <1>6, <2>1, Zenon DEF Inv, AllJustified
  <2>4. /\ \A i \in 1..Len(completed_queue') : Justified(completed_queue[i].response)'
        /\ \A d \in Clients : \A i \in 1..Len(out'[d]) : Justified(out[d][i])'
    BY <2>1, Zenon DEF Inv, AllJustified
  <2>5. \A gd \in Fds : Open(gd)' => JustifiedIn(connections[gd])'
    BY <1>5, <2>1, Zenon DEF Kept, Open
  <2> QED
    BY <2>2, <2>3, <2>4, <2>5, Zenon DEF AllJustified
<1>16. Ending'
  <2>1. ~stop /\ \A w \in Workers : at[w] # "gone"
    BY Zenon DEF Inv, Ending
  <2> QED
    BY <1>5, <1>6, <2>1, Zenon DEF Kept, Ending, Open
<1> QED
  BY <1>5, <1>6, <1>7, <1>8, <1>9, <1>14, <1>15, <1>16, ZenonT(30) DEF Inv, TypeOK, Kept, AnswersInOrder

\* HandleRead.
LEMMA HandleReadStep ==
  ASSUME LeastNumber, Inv, NEW e \in batch, HandleRead(e)
  PROVE  Inv'
PROOF
<1>1. PICK fd \in Fds : fd = e.fd
  BY Zenon DEF HandleRead
<1> DEFINE conn == connections[fd]
           c == conn.peer
           unread == got[c] < Len(sent[c])
<1>0. /\ UNCHANGED <<stopping, listening, next_generation, completed_queue, client, backlog, sent,
                     out, taken, versions>>
      /\ pc = "event" /\ running /\ batch' = batch \ {e}
      /\ (pc' = "write" /\ cur' = [fd |-> fd]) \/ (pc' = pc /\ cur' = cur)
      /\ \/ UNCHANGED <<connections, running, wake, got, faulted, poolVars>>
         \/ Open(fd) /\ CloseConnection(fd) /\ UNCHANGED <<got, faulted, poolVars>>
         \/ Open(fd) /\ ~conn.closing
            /\ \E m \in got[c]..Len(sent[c]), partial \in BOOLEAN : ReadCommands(fd, m, partial)
  BY <1>1, Zenon DEF HandleRead, Handle
<1>2. ASSUME connections' \in [Fds -> Connections \cup {NoConn}],
             running' \in BOOLEAN, wake' \in BOOLEAN, faulted' \in BOOLEAN
      PROVE  LoopTypeOK'
  BY <1>0, <1>2, SMTT(30) DEF Inv, TypeOK, LoopTypeOK
<1>3. ASSUME got' = got
      PROVE  /\ NetTypeOK' /\ AnswersInOrder'
             /\ \A d \in Clients : \A i \in 1..Len(out'[d]) : Justified(out'[d][i])
  BY <1>0, <1>3, NetTypeFrame, ZenonT(30) DEF Inv, TypeOK, AnswersInOrder, AllJustified, netVars
<1>4. CASE UNCHANGED <<connections, running, wake, got, faulted, poolVars>>
  <2>1. Kept
    BY <1>0, <1>4, NoConnectionKeeps, Zenon
  <2>2. LoopTypeOK'
    BY <1>2, <1>4, Zenon DEF Inv, TypeOK, LoopTypeOK
  <2>3. NetTypeOK' /\ AnswersInOrder' /\ \A d \in Clients : \A i \in 1..Len(out'[d]) : Justified(out'[d][i])
    BY <1>3, <1>4, Zenon
  <2> QED
    BY <1>0, <1>4, <2>1, <2>2, <2>3, KeptStep, Zenon
<1>5. CASE Open(fd) /\ CloseConnection(fd) /\ UNCHANGED <<got, faulted, poolVars>>
  <2>1. conn \in Connections /\ OneConnection(fd, conn)
    BY <1>5, CloseOrUpdate, Zenon DEF Inv, TypeOK, LoopTypeOK, Open
  <2>2. Counting(conn, Len(out'[c]), got'[c]) /\ JustifiedIn(conn)
    BY <1>0, <1>5, Zenon DEF Inv, AllCounting, AllJustified
  <2>3. conn.next_request_seq <= conn.next_request_seq
    BY <2>1 DEF Connections
  <2>4. Kept
    BY <1>0, <1>5, <2>1, <2>2, <2>3, OneConnectionKeeps, Zenon
  <2>5. LoopTypeOK'
    BY <1>2, <2>1, <2>4, Zenon DEF Kept, Evolves, OneConnection
  <2>6. NetTypeOK' /\ AnswersInOrder' /\ \A d \in Clients : \A i \in 1..Len(out'[d]) : Justified(out'[d][i])
    BY <1>3, <1>5, Zenon
  <2> QED
    BY <1>0, <1>5, <2>4, <2>5, <2>6, KeptStep, ZenonT(30)
<1>6. CASE Open(fd) /\ ~conn.closing
           /\ \E m \in got[c]..Len(sent[c]), partial \in BOOLEAN : ReadCommands(fd, m, partial)
  <2>1. PICK m \in got[c]..Len(sent[c]), partial \in BOOLEAN : ReadCommands(fd, m, partial)
    BY <1>6, Zenon
  <2>2. /\ \E new, ts : ReadInto(fd, new, ts)
        /\ got' = [got EXCEPT ![c] = m]
    BY <1>6, <2>1, ReadCommandsFacts, Zenon
  <2>3. PICK new, ts : ReadInto(fd, new, ts)
    BY <2>2, Zenon
  <2>4. m \in 0..Len(sent[c])
    <3>1. c \in Clients
      BY <1>6, Zenon DEF Inv, TypeOK, LoopTypeOK, Open, Connections
    <3>2. got[c] \in Nat /\ Len(sent[c]) \in Nat
      BY <3>1 DEF Inv, TypeOK, NetTypeOK
    <3> QED
      BY <2>1, <3>2
  <2>5. LoopTypeOK'
    <3>1. connections' \in [Fds -> Connections \cup {NoConn}]
      BY <2>3, Zenon DEF ReadInto, OneConnection, Inv, TypeOK, LoopTypeOK
    <3> QED
      BY <1>2, <2>3, <3>1, Zenon DEF ReadInto, OneConnection
  <2> QED
    BY <1>0, <1>6, <2>2, <2>3, <2>4, <2>5, ReadIntoStep, ZenonT(30)
<1> QED
  BY <1>0, <1>4, <1>5, <1>6, Zenon

-----------------------------------------------------------------------------
(* Completions.                                                              *)

\* HandleWorkerCompletions.
LEMMA HandleWorkerCompletionsStep ==
  ASSUME LeastNumber, Inv, NEW e \in batch, HandleWorkerCompletions(e)
  PROVE  Inv'
PROOF
<1> DEFINE absorbed(fd) == Absorbed(fd)
           ints(fd) == IF absorbed(fd).closing THEN {"OUT"} ELSE {"IN", "OUT"}
           updated(fd) == [absorbed(fd) EXCEPT !.interest = ints(fd)]
           appended == {fd \in Fds : /\ Open(fd)
                                    /\ absorbed(fd).next_write_seq # connections[fd].next_write_seq}
           finished == stopping /\ ~listening /\ \A fd \in Fds : connections'[fd] = NoConn
<1>0. /\ UNCHANGED <<stopping, listening, next_generation, pc, cur, netVars, out, taken, versions, poolVars>>
      /\ pc = "event" /\ running /\ batch' = batch \ {e} /\ completed_queue' = <<>>
      /\ running' = (running /\ ~finished) /\ wake' = finished
  BY Zenon DEF HandleWorkerCompletions, Handle
<1>1. /\ connections' = [fd \in Fds |-> connections'[fd]] /\ faulted' \in BOOLEAN
      /\ \A fd \in Fds : connections'[fd] # NoConn =>
           Open(fd) /\ (connections'[fd] = absorbed(fd) \/ connections'[fd] = updated(fd))
  <2>1. PICK failing \in SUBSET appended :
          /\ faulted' = (faulted \/ failing # {})
          /\ connections' = [fd \in Fds |-> IF fd \in failing \/ ~Open(fd) THEN NoConn
                                            ELSE IF fd \in appended THEN updated(fd) ELSE absorbed(fd)]
    BY Zenon DEF HandleWorkerCompletions, Absorbed, Watched
  <2> HIDE DEF updated, absorbed, appended
  <2>2. faulted' \in BOOLEAN
    BY <2>1, Zenon DEF Inv, TypeOK, LoopTypeOK
  <2> QED
    BY <2>1, <2>2, Zenon
<1>2. ASSUME NEW fd \in Fds, Open(fd), NEW new, new = absorbed(fd) \/ new = updated(fd)
      PROVE  AbsorbedInto(fd, new)
  <2>1. PICK is : is = ints(fd) /\ is \in SUBSET {"IN", "OUT"}
    BY Zenon
  <2>2. new = Absorbed(fd) \/ new = [Absorbed(fd) EXCEPT !.interest = is]
    BY <1>2, <2>1, Zenon
  <2> HIDE DEF absorbed, updated, ints
  <2> QED
    BY <1>2, <2>1, <2>2, AbsorbedCounts, Zenon
<1> HIDE DEF absorbed, updated
<1>3. \A fd \in Fds : connections'[fd] # NoConn =>
        /\ Open(fd) /\ connections'[fd] \in Connections /\ connections'[fd].peer = connections[fd].peer
        /\ connections'[fd].generation = connections[fd].generation
        /\ connections'[fd].next_request_seq = connections[fd].next_request_seq
        /\ Counting(connections'[fd], Len(out[connections'[fd].peer]), got[connections'[fd].peer])
        /\ JustifiedIn(connections'[fd])
  BY <1>1, <1>2, Zenon DEF AbsorbedInto
<1>4. connections' \in [Fds -> Connections \cup {NoConn}]
  BY <1>1, <1>3, Zenon
<1>5. UNCHANGED <<client, backlog, sent, got, tasks, stop, at, job>>
  BY <1>0, Zenon DEF netVars, poolVars
<1>6. Evolves
  <2>1. \A fd \in Fds : Open(fd) => connections[fd].next_request_seq \in Nat
    BY Zenon DEF Inv, TypeOK, LoopTypeOK, Open, Connections
  <2>2. \A fd \in Fds : Open(fd) => connections[fd].next_request_seq <= connections[fd].next_request_seq
    BY <2>1
  <2> QED
    BY <1>0, <1>3, <1>4, <2>2, Zenon DEF Evolves
<1>7. AllCounting'
  <2>1. \A fd \in Fds : Open(fd) => connections[fd].generation < next_generation
    BY Zenon DEF Inv, AllCounting
  <2> QED
    BY <1>0, <1>3, <1>5, <2>1, Zenon DEF AllCounting, Open
<1>8. AllJustified'
  <2>1. \A t : (Timely(t) => Timely(t)') /\ (Justified(t) => Justified(t)') /\ (JustifiedIn(t) => JustifiedIn(t)')
    BY <1>0, Zenon DEF Timely, Justified, JustifiedIn
  <2> QED
    BY <1>0, <1>3, <1>5, <2>1, SMTT(30) DEF Inv, AllJustified, Open
<1>9. InFlight'
  <2>1. /\ \A i \in 1..Len(tasks) : tasks[i] \in Tasks
        /\ \A w \in Workers : at[w] = "run" => job[w] \in Tasks
        /\ \A w \in Workers : at[w] = "push" => job[w] \in Completed
    BY DEF Inv, TypeOK, PoolTypeOK
  <2>2. /\ \A t \in Tasks : t.fd \in Fds /\ t.seq \in Nat
        /\ \A t \in Completed : t.fd \in Fds /\ t.seq \in Nat
    BY Zenon DEF Tasks, Completed
  <2>3. \A t, cmd : t.fd \in Fds /\ t.seq \in Nat /\ ForConnection(t, cmd) => ForConnection(t, cmd)'
    BY <1>6, StillForConnection, Zenon DEF Inv
  <2>4. \A i \in 1..Len(completed_queue') : FALSE
    BY <1>0, SMTT(30)
  <2> QED
    BY <1>5, <2>1, <2>2, <2>3, <2>4, ZenonT(30) DEF Inv, InFlight
<1>10. OnePlace'
  BY <1>0, <1>5, <1>6, StillOnePlace, Zenon DEF Inv
<1>11. Ending'
  <2>1. ~running' => \A fd \in Fds : connections'[fd] = NoConn
    BY <1>0, Zenon
  <2> QED
    BY <1>0, <1>5, <2>1, Zenon DEF Inv, Ending, Joined, Open
<1>12. LoopTypeOK'
  <2>1. running' \in BOOLEAN /\ wake' \in BOOLEAN /\ completed_queue' \in Seq(Completed)
    BY <1>0
  <2> HIDE DEF finished
  <2> QED
    BY <1>0, <1>1, <1>4, <2>1, ZenonT(30) DEF Inv, TypeOK, LoopTypeOK
<1> QED
  BY <1>0, <1>5, <1>7, <1>8, <1>9, <1>10, <1>11, <1>12, NetTypeFrame, PoolTypeFrame, CommandsFrame, ZenonT(30)
  DEF Inv, TypeOK, AnswersInOrder

-----------------------------------------------------------------------------
(* Every step.                                                               *)

\* Every step keeps it.
LEMMA NextInv == LeastNumber /\ Inv /\ [Next]_vars => Inv'
PROOF
<1> SUFFICES ASSUME LeastNumber, Inv, [Next]_vars
             PROVE  Inv'
  BY Zenon
<1>1. CASE UNCHANGED vars
  <2>1. /\ UNCHANGED <<loopVars, completed_queue, wake, netVars, out, taken, versions, faulted, poolVars>>
        /\ UNCHANGED <<connections, next_generation, pc, cur, running, client, backlog, sent, got,
                       tasks, stop, at, job>>
    BY <1>1, Zenon DEF vars, loopVars, netVars, poolVars
  <2> QED
    BY <2>1, LoopTypeFrame, NetTypeFrame, PoolTypeFrame, CommandsFrame, OnePlaceFrame, InFlightFrame,
       CountingFrame, JustifiedFrame, EndingFrame, ZenonT(30)
    DEF Inv, TypeOK, AnswersInOrder
<1>2. CASE LoopStep
  BY <1>2, EpollWaitStep, HandleAcceptStep, InsertConnectionStep, HandleWriteStep, CleanupStep,
     HandleWorkerCompletionsStep, HandleHangupStep, HandleReadStep, ZenonT(30)
  DEF LoopStep
<1>3. CASE Stop
  BY <1>3, StopStep, Zenon
<1>4. ASSUME NEW w \in Workers, WorkerStep(w) \/ Spurious(w)
      PROVE  Inv'
  BY <1>4, PoolSteps, ExecuteStep, PushStep, Zenon DEF WorkerStep
<1>5. ASSUME NEW c \in Clients, ClientStep(c)
      PROVE  Inv'
  BY <1>5, ConnectStep, SendStep, ReceiveStep, ClientLeavesStep, Zenon DEF ClientStep
<1> QED
  BY <1>1, <1>2, <1>3, <1>4, <1>5, Zenon DEF Next

-----------------------------------------------------------------------------
(* The invariant, and what follows from it.                                   *)

LOCAL INSTANCE WellFoundedInduction

\* What the lemmas assumed of numbers: "<" is well founded on them.
LEMMA LeastNumberHolds == LeastNumber
PROOF
<1> SUFFICES ASSUME NEW S \in SUBSET Nat, S # {}
             PROVE  \E x \in S : \A y \in S : x <= y
  BY Zenon DEF LeastNumber
<1>1. PICK x \in S : \A y \in S : ~(<<y, x>> \in OpToRel(<, Nat))
  BY WFMin, NatLessThanWellFounded, Zenon
<1>2. \A y \in S : ~(y < x)
  BY <1>1, Zenon DEF OpToRel
<1>3. \A y \in S : x \in Nat /\ y \in Nat /\ (~(y < x) => x <= y)
  OBVIOUS
<1> QED
  BY <1>2, <1>3, Zenon

\* The invariant holds in every state.
THEOREM Invariance == Spec => []Inv
PROOF
<1>1. Inv /\ [Next]_vars => Inv'
  BY NextInv, LeastNumberHolds, Zenon
<1> QED
  BY InitInv, <1>1, PTL DEF Spec

\* Types.
THEOREM Types == Spec => []TypeOK
PROOF
<1>1. Inv => TypeOK
  BY Zenon DEF Inv
<1> QED
  BY Invariance, <1>1, PTL

\* Responses leave in the order of the requests and only to the client that sent them, in
\* whatever order workers finish and whoever is given a descriptor that was closed
\* (HandleWorkerCompletions, HandleWrite).
THEOREM ResponsesInOrder == Spec => []AnswersInOrder
PROOF
<1>1. Inv => AnswersInOrder
  BY Zenon DEF Inv
<1> QED
  BY Invariance, <1>1, PTL

\* A response is computed from a state of the store no older than what had been acknowledged
\* to anyone when its request was sent (the lambda that HandleRead enqueues).
THEOREM AcknowledgedSeen == Spec => []SeesAcknowledged
PROOF
<1>1. Inv => SeesAcknowledged
  BY Zenon DEF Inv, AllJustified, Justified, SeesAcknowledged
<1> QED
  BY Invariance, <1>1, PTL

\* Run returns with the queue empty and every worker gone (Cleanup, ThreadPool::Shutdown).
THEOREM PoolIsDrained == Spec => []PoolDrained
PROOF
<1>1. Inv => PoolDrained
  BY ServerAssumption, Zenon DEF Inv, Ending, Joined, PoolDrained
<1> QED
  BY Invariance, <1>1, PTL

-----------------------------------------------------------------------------
(* Events of the batch, and closing.                                         *)

\* The events' part of the invariant holds in every state.
THEOREM Events == Spec => []EventsInv
PROOF
<1>1. Init => EventsInv
  BY Zenon DEF Init, EventsInv
<1>2. Inv /\ EventsInv /\ [Next]_vars => EventsInv'
  BY EventsNext, LeastNumberHolds, Zenon
<1> QED
  BY <1>1, <1>2, Invariance, PTL DEF Spec

\* As long as no epoll_ctl failed, HandleConnectionEvent never takes the hangup of an earlier
\* connection for one of the connection that is now under the descriptor.
THEOREM EventsAreFresh == Spec => []FreshEvents
PROOF
<1>1. EventsInv => FreshEvents
  BY Zenon DEF EventsInv, Fresh, FreshEvents
<1> QED
  BY Events, <1>1, PTL

\* No connection is closed before what was taken from it is answered, unless its client left or an
\* epoll_ctl failed (CloseConnection's callers, Stop and Cleanup).
THEOREM AnsweredFirst == Spec => AnsweredBeforeClose
PROOF
<1>1. Inv /\ EventsInv /\ [Next]_vars => [Closing]_vars
  BY ClosesAnswered, LeastNumberHolds, Zenon
<1>2. Spec => [][Closing]_vars
  BY Invariance, Events, <1>1, PTL DEF Spec
<1> QED
  BY <1>2, Zenon DEF AnsweredBeforeClose, Closing, Answered
=============================================================================
