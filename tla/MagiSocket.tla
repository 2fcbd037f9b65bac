------------------------------ MODULE MagiSocket ------------------------------
(***************************************************************************)
(* MagiSocket descriptors (layer7/magi_socket.c) over the tables of TCP     *)
(* sockets of the hosts (layer4/tcp_socket.c), the console commands that    *)
(* use either (utils/cli.c) and the HTTP server (layer7/http_server.c).     *)
(*                                                                         *)
(* The module is about who owns what: descriptors point to slots of a       *)
(* host's table, children to their listener's slot, slots are freed and     *)
(* used again, and a segment finds its slot by ports.  What a segment does  *)
(* to its socket is TcpSocket.  Data is counted in units: a segment carries *)
(* one, and what it says is left out.  conn numbers the connection attempts *)
(* (history): slots, segments and descriptors carry it, and no guard reads  *)
(* it.                                                                      *)
(*                                                                         *)
(* The program is single-threaded, and a transmission over a link without   *)
(* delay runs the receiver's handler before it returns.  todo is what the   *)
(* command in progress has left to do, the frames of its nested calls with  *)
(* the innermost first: a handler puts its own frames before the rest.      *)
(* With delays, a segment may instead wait in the in-flight table of the    *)
(* clock until some tick between two commands, or be lost.                  *)
(***************************************************************************)
EXTENDS Integers, Sequences, FiniteSets, Bags

CONSTANTS
  Hosts,
  Clients,      \* the hosts whose user connects
  Servers,      \* the hosts whose user listens or starts the server
  MaxFds,       \* MAGI_SOCKET_MAX_SOCKETS
  MaxSlots,     \* TCP_MAX_SOCKETS
  MaxPort,      \* source ports are 1 .. MaxPort
  BufferSize,   \* TCP_SOCKET_BUFFER_SIZE and HTTP_BUFFER_SIZE, in units
  AnswerSizes,  \* AnswerSizes[delays]: the numbers of segments of an answer
                \* of the HTTP server
  MaxConns,     \* bound on the connection attempts
  MaxSends,     \* MaxSends[delays]: bound on the units that the users send
  MaxFlight     \* bound on the different segments that wait at a time

ASSUME MagiAssumption ==
  /\ {MaxFds, MaxSlots, MaxPort, BufferSize, MaxConns} \subseteq Nat \ {0}
  /\ AnswerSizes \in [BOOLEAN -> SUBSET (Nat \ {0})]
  /\ MaxSlots <= MaxPort
  /\ MaxSends \in [BOOLEAN -> Nat] /\ MaxFlight \in Nat
  /\ Clients \subseteq Hosts /\ Servers \subseteq Hosts

Tcp == INSTANCE TcpSocket

\* The server's port, 80: no source port.
Http == MaxPort + 1
Nobody == "nobody"
Fds == 1 .. MaxFds
Slots == 1 .. MaxSlots
SrcPorts == 1 .. MaxPort
TcpPorts == SrcPorts \cup {0, Http}
Conns == 0 .. MaxConns

\* struct TCPSocket; parent is the slot of the listener, 0 for none.
Slot == [in_use : BOOLEAN, lport : TcpPorts, rport : TcpPorts, peer : Hosts \cup {Nobody},
         parent : 0 .. MaxSlots, conn : Conns, tcp : Tcp!Socket]
FreeSlot == [in_use |-> FALSE, lport |-> 0, rport |-> 0, peer |-> Nobody,
             parent |-> 0, conn |-> 0, tcp |-> Tcp!FreeSocket]

\* struct MagiSocket; slot 0: no TCP socket.
Fd == [in_use : BOOLEAN, host : Hosts \cup {Nobody}, slot : 0 .. MaxSlots,
       listening : BOOLEAN, conn : Conns]
FreeFd == [in_use |-> FALSE, host |-> Nobody, slot |-> 0, listening |-> FALSE, conn |-> 0]

\* The frames of todo: a segment to its receiver, the test for a request that
\* ends host_receive, the rest of the answer that http_server_dispatch sends,
\* and the end of a magi_close that has sent its FIN.
Segment == [op : {"segment"}, to : Hosts, from : Hosts, sport : TcpPorts, dport : TcpPorts,
            conn : Conns, tcp : Tcp!Segment]
Frame == Segment \cup [op : {"check"}, host : Hosts, slot : Slots]
                 \cup [op : {"answer"}, fd : Fds, left : Nat]
                 \cup [op : {"closed"}, fd : Fds]

Idle == [stage |-> "idle", host |-> Nobody, fd |-> 0]
Call == {Idle} \cup [stage : {"sock_connect", "http_connect", "http_request"},
                     host : Hosts, fd : Fds]

VARIABLES
  delays,      \* segments may wait or be lost; otherwise all arrive at once
  slots,       \* slots[h][i]: tcp_sockets of host h
  next_port,   \* next_port[h]: next_tcp_source_port, 0 before the first
  sock_fd,     \* sock_fd[h]: magi_sock_fd, 0 for -1
  fds,         \* g_sockets
  server,      \* g_server
  todo,        \* the frames of the command in progress, innermost first
  call,        \* the command that waits for the frames to be gone
  flight,      \* the segments that wait in the in-flight table
  tried,       \* the connection attempts so far (history)
  sent,        \* the units that the users have sent (history)
  cut,         \* a socket has closed under a descriptor that stays (history)
  mixed        \* a segment has met the slot of another connection (history)

vars == <<delays, slots, next_port, sock_fd, fds, server, todo, call, flight, tried, sent, cut, mixed>>

\* Nothing calls http_server_init: the static g_server starts with the
\* descriptor 0, which is the first one here.
Init == /\ delays \in BOOLEAN
        /\ slots = [h \in Hosts |-> [i \in Slots |-> FreeSlot]]
        /\ next_port = [h \in Hosts |-> 0]
        /\ sock_fd = [h \in Hosts |-> 0]
        /\ fds = [f \in Fds |-> FreeFd]
        /\ server = [running |-> FALSE, host |-> Nobody, fd |-> 1]
        /\ todo = <<>> /\ call = Idle /\ flight = EmptyBag
        /\ tried = 0 /\ sent = 0 /\ cut = FALSE /\ mixed = FALSE

-----------------------------------------------------------------------------
FirstOf(S) == IF S = {} THEN 0 ELSE CHOOSE i \in S : \A j \in S : i <= j

\* magi_socket: the first free descriptor, 0 when there is none.
NewFd == FirstOf({f \in Fds : ~fds[f].in_use})

\* tcp_socket_alloc: a free slot, or else one in TIME_WAIT.
Alloc(table) ==
  LET free == {i \in Slots : ~table[i].in_use}
      old  == {i \in Slots : table[i].in_use /\ table[i].tcp.state = "TIME_WAIT"}
  IN IF free # {} THEN FirstOf(free) ELSE FirstOf(old)

\* tcp_socket_find: the socket of the connection, or else a listener.
Find(table, sport, dport, from) ==
  LET exact == {i \in Slots : /\ table[i].in_use
                              /\ table[i].tcp.state \notin {"CLOSED", "LISTEN"}
                              /\ table[i].lport = dport
                              /\ table[i].rport = sport /\ table[i].peer = from}
      listening == {i \in Slots : table[i].in_use /\ table[i].tcp.state = "LISTEN"
                                    /\ table[i].lport = dport}
  IN IF exact # {} THEN FirstOf(exact) ELSE FirstOf(listening)

\* Mutant: the preferred port is taken whether it is in use or not.
PreferredPort(table, h, peer) == 1

\* host_select_tcp_source_port, tcp_socket_select_source_port: the next port
\* that no connection to that peer has, 0 when all are in use.
SourcePort(table, h, peer) ==
  LET start == IF next_port[h] = 0 THEN 1 ELSE next_port[h]
      used(p) == \E i \in Slots : /\ table[i].in_use /\ table[i].tcp.state # "CLOSED"
                                  /\ table[i].lport = p
                                  /\ table[i].rport = Http /\ table[i].peer = peer
      after(n) == ((start - 1 + n) % MaxPort) + 1
      n == {k \in 0 .. MaxPort - 1 : ~used(after(k))}
  IN IF n = {} THEN 0 ELSE after(FirstOf(n))

\* The segment seg that slot t of host h sends.  The sequence numbers of a
\* connection start anew with its ports, at 1000 and at 2000 plus the source
\* port in the code: only differences matter.
Out(h, t, seg) == [op |-> "segment", to |-> t.peer, from |-> h, sport |-> t.lport,
                   dport |-> t.rport, conn |-> t.conn, tcp |-> seg]
Isn == 0
Unit == <<1>>
Syn == [flags |-> {"SYN"}, seq |-> Isn, ack |-> 0, payload |-> <<>>]
Fin(s) == [flags |-> {"FIN", "ACK"}, seq |-> s.send_seq, ack |-> s.recv_seq, payload |-> <<>>]
Data(s) == [flags |-> {"ACK", "PSH"}, seq |-> s.send_seq, ack |-> s.recv_seq, payload |-> Unit]

\* A console command starts, or a tick runs, when the last command is over.
Ready == call = Idle /\ todo = <<>>

-----------------------------------------------------------------------------
\* tcp_socket_connect on slot i, and its SYN.
Connects(h, peer, i, p) ==
  LET t == [FreeSlot EXCEPT !.in_use = TRUE, !.lport = p, !.rport = Http, !.peer = peer,
                            !.conn = tried + 1, !.tcp = Tcp!Connect(Isn)]
  IN /\ slots' = [slots EXCEPT ![h][i] = t]
     /\ next_port' = [next_port EXCEPT ![h] = (p % MaxPort) + 1]
     /\ todo' = <<Out(h, t, Syn)>>
     /\ tried' = tried + 1

\* The source port of a connect; a recycled slot is cleared before.  There are
\* fewer sockets than ports, so one is left.
ConnectPort(h, peer) == SourcePort([slots[h] EXCEPT ![Alloc(slots[h])] = FreeSlot], h, peer)

\* magi_sock_connect and http_get up to the SYN of magi_connect: a descriptor,
\* a slot, a source port.  Without a slot the descriptor is closed again.
StartConnect(h, peer, stage) ==
  LET f == NewFd
      i == Alloc(slots[h])
      p == ConnectPort(h, peer)
  IN /\ Ready /\ tried < MaxConns /\ peer # h
     /\ f # 0 /\ i # 0 /\ p # 0
     /\ Connects(h, peer, i, p)
     /\ fds' = [fds EXCEPT ![f] = [in_use |-> TRUE, host |-> h, slot |-> i,
                                   listening |-> FALSE, conn |-> tried + 1]]
     /\ call' = [stage |-> stage, host |-> h, fd |-> f]
     /\ UNCHANGED <<sock_fd, server, flight, sent, cut, mixed>>

\* tcp_connect: a connection without a descriptor.
TcpConnect(h, peer) ==
  LET i == Alloc(slots[h])
      p == ConnectPort(h, peer)
  IN /\ Ready /\ tried < MaxConns /\ peer # h
     /\ i # 0 /\ p # 0
     /\ Connects(h, peer, i, p)
     /\ UNCHANGED <<sock_fd, fds, server, call, flight, sent, cut, mixed>>

\* magi_connect, when it fails: the socket is freed.
FailConnect(h, f, table) == [table EXCEPT ![h][fds[f].slot] = FreeSlot]

\* tcp_socket_send of one unit and its segment; it refuses other states than
\* ESTABLISHED and a full send buffer.
CanSend(t) == Tcp!CanSend(t.tcp, Unit)
Sends(h, i, rest) ==
  LET t == slots[h][i]
  IN /\ slots' = [slots EXCEPT ![h][i].tcp = Tcp!Send(@, Unit)]
     /\ todo' = <<Out(h, t, Data(t.tcp))>> \o rest

\* The rest of magi_connect and of the command that called it.
\* magi_sock_connect forgets the descriptor the host had before.
ConnectReturns ==
  LET h == call.host
      f == call.fd
      t == slots[h][fds[f].slot]
  IN /\ call.stage \in {"sock_connect", "http_connect"} /\ todo = <<>>
     /\ IF t.tcp.state # "ESTABLISHED"
        THEN /\ slots' = FailConnect(h, f, slots)
             /\ fds' = [fds EXCEPT ![f] = FreeFd]
             /\ call' = Idle
             /\ UNCHANGED <<sock_fd, todo>>
        ELSE /\ IF call.stage = "sock_connect"
                THEN /\ sock_fd' = [sock_fd EXCEPT ![h] = f]
                     /\ call' = Idle
                     /\ UNCHANGED <<slots, todo>>
                ELSE /\ IF CanSend(t) THEN Sends(h, fds[f].slot, <<>>)
                        ELSE UNCHANGED <<slots, todo>>
                     /\ call' = [call EXCEPT !.stage = "http_request"]
                     /\ UNCHANGED sock_fd
             /\ UNCHANGED fds
     /\ UNCHANGED <<next_port, server, flight, tried, sent, cut, mixed>>

\* tcp_socket_close and the FIN of slot i of host h.
Closes(h, i, rest) ==
  LET t == slots[h][i]
  IN /\ slots' = [slots EXCEPT ![h][i].tcp = Tcp!Close(@)]
     /\ todo' = <<Out(h, t, Fin(t.tcp))>> \o rest

\* Mutant: a socket closed locally leaves its descriptor in use.
MagiCloseKeeps(f, table, rest) ==
  LET h == fds[f].host
      t == table[h][fds[f].slot]
  IN IF ~fds[f].in_use THEN slots' = table /\ todo' = rest /\ UNCHANGED fds
     ELSE IF Tcp!CanClose(t.tcp)
     THEN /\ slots' = [table EXCEPT ![h][fds[f].slot].tcp = Tcp!Close(@)]
          /\ todo' = <<Out(h, t, Fin(t.tcp)), [op |-> "closed", fd |-> f]>> \o rest
          /\ UNCHANGED fds
     ELSE /\ slots' = [table EXCEPT ![h][fds[f].slot] =
               IF @.tcp.state \in {"CLOSED", "LISTEN", "SYN_SENT", "SYN_RECEIVED"}
               THEN FreeSlot ELSE @]
          /\ todo' = rest
          /\ UNCHANGED fds

\* magi_close of descriptor f over the tables: a FIN and, when it has been
\* sent, the end of the descriptor; or only that end, with the socket or not.
\* A descriptor that is not in use is refused.
MagiClose(f, table, rest) ==
  LET h == fds[f].host
      t == table[h][fds[f].slot]
  IN IF ~fds[f].in_use THEN slots' = table /\ todo' = rest /\ UNCHANGED fds
     ELSE IF Tcp!CanClose(t.tcp)
     THEN /\ slots' = [table EXCEPT ![h][fds[f].slot].tcp = Tcp!Close(@)]
          /\ todo' = <<Out(h, t, Fin(t.tcp)), [op |-> "closed", fd |-> f]>> \o rest
          /\ UNCHANGED fds
     ELSE /\ slots' = [table EXCEPT ![h][fds[f].slot] =
               IF @.tcp.state \in {"CLOSED", "LISTEN", "SYN_SENT", "SYN_RECEIVED"}
               THEN FreeSlot ELSE @]
          /\ todo' = rest
          /\ fds' = [fds EXCEPT ![f] = FreeFd]

\* The tables when host h reads at most max units of slot i.
Reads(h, i, max) == [slots EXCEPT ![h][i].tcp = Tcp!Recv(@, max)]

\* The end of http_get: read the answer and close.
HttpGetReturns ==
  /\ call.stage = "http_request" /\ todo = <<>>
  /\ MagiClose(call.fd, Reads(call.host, fds[call.fd].slot, BufferSize), <<>>)
  /\ call' = Idle
  /\ UNCHANGED <<next_port, sock_fd, server, flight, tried, sent, cut, mixed>>

\* magi_sock_send, by whatever the host's descriptor is now.
SockSend(h) ==
  LET fd == fds[sock_fd[h]]
  IN /\ Ready /\ sock_fd[h] # 0 /\ fd.in_use /\ sent < MaxSends[delays]
     /\ CanSend(slots[fd.host][fd.slot])
     /\ Sends(fd.host, fd.slot, <<>>)
     /\ sent' = sent + 1
     /\ UNCHANGED <<next_port, sock_fd, fds, server, call, flight, tried, cut, mixed>>

\* magi_sock_recv: a buffer full to the last byte leaves one.
SockRecv(h) ==
  LET fd == fds[sock_fd[h]]
  IN /\ Ready /\ sock_fd[h] # 0 /\ fd.in_use
     /\ slots' = Reads(fd.host, fd.slot, BufferSize - 1)
     /\ UNCHANGED <<next_port, sock_fd, fds, server, todo, call, flight, tried, sent, cut, mixed>>

\* magi_sock_close
SockClose(h) ==
  /\ Ready /\ sock_fd[h] # 0
  /\ MagiClose(sock_fd[h], slots, <<>>)
  /\ sock_fd' = [sock_fd EXCEPT ![h] = 0]
  /\ UNCHANGED <<next_port, server, call, flight, tried, sent, cut, mixed>>

\* The first slot of host h in one of the states, whoever has opened it.
FirstIn(h, states) == FirstOf({i \in Slots : slots[h][i].in_use /\ slots[h][i].tcp.state \in states})

\* tcp_send
TcpSend(h) ==
  LET i == FirstIn(h, {"ESTABLISHED"})
  IN /\ Ready /\ i # 0 /\ sent < MaxSends[delays]
     /\ CanSend(slots[h][i])
     /\ Sends(h, i, <<>>)
     /\ sent' = sent + 1
     /\ UNCHANGED <<next_port, sock_fd, fds, server, call, flight, tried, cut, mixed>>

\* tcp_recv, of at most one full segment; a socket without data may come first.
TcpRecv(h) ==
  LET i == FirstOf({j \in Slots : /\ slots[h][j].in_use
                                  /\ \/ slots[h][j].tcp.state = "ESTABLISHED"
                                     \/ slots[h][j].tcp.data # <<>>})
  IN /\ Ready /\ i # 0
     /\ slots' = Reads(h, i, Len(Unit))
     /\ UNCHANGED <<next_port, sock_fd, fds, server, todo, call, flight, tried, sent, cut, mixed>>

\* tcp_close: the socket is closed whether a descriptor has it or not.
TcpClose(h) ==
  LET i == FirstIn(h, {"ESTABLISHED", "CLOSE_WAIT"})
  IN /\ Ready /\ i # 0
     /\ Closes(h, i, <<>>)
     /\ cut' = (cut \/ \E f \in Fds : fds[f].in_use /\ fds[f].host = h /\ fds[f].slot = i)
     /\ UNCHANGED <<next_port, sock_fd, fds, server, call, flight, tried, sent, mixed>>

\* tcp_socket_listen on the server's port.
Listener == [FreeSlot EXCEPT !.in_use = TRUE, !.lport = Http, !.tcp.state = "LISTEN"]

\* tcp_listen, on the server's port: a listener without a descriptor, that
\* nothing closes.
TcpListen(h) ==
  LET i == Alloc(slots[h])
  IN /\ Ready /\ i # 0
     /\ slots' = [slots EXCEPT ![h][i] = Listener]
     /\ UNCHANGED <<next_port, sock_fd, fds, server, todo, call, flight, tried, sent, cut, mixed>>

\* http_server start: a new descriptor listens on a new slot, whether or not
\* a server was running.
HttpStart(h) ==
  LET f == NewFd
      i == Alloc(slots[h])
  IN /\ Ready /\ f # 0 /\ i # 0
     /\ slots' = [slots EXCEPT ![h][i] = Listener]
     /\ fds' = [fds EXCEPT ![f] = [in_use |-> TRUE, host |-> h, slot |-> i,
                                   listening |-> TRUE, conn |-> 0]]
     /\ server' = [running |-> TRUE, host |-> h, fd |-> f]
     /\ UNCHANGED <<next_port, sock_fd, todo, call, flight, tried, sent, cut, mixed>>

StopServer ==
  /\ IF server.fd # 0 THEN MagiClose(server.fd, slots, <<>>) ELSE UNCHANGED <<slots, todo, fds>>
  /\ server' = [running |-> FALSE, host |-> Nobody, fd |-> 0]
  /\ UNCHANGED <<next_port, sock_fd, call, flight, tried, sent, cut, mixed>>

\* http_server start without a descriptor or a slot marks the server as
\* running and then stops it, which closes the descriptor it last had, or the
\* first one if it never had any.
HttpStartFails(h) ==
  /\ Ready
  /\ NewFd = 0 \/ Alloc(slots[h]) = 0
  /\ StopServer

\* http_server stop
HttpStop == Ready /\ server.running /\ StopServer

-----------------------------------------------------------------------------
\* A SYN for a listener: host_receive makes a child of it.
Child(l, m) ==
  [FreeSlot EXCEPT !.in_use = TRUE, !.lport = m.dport, !.rport = m.sport, !.peer = m.from,
                   !.parent = l, !.conn = m.conn]

\* Slot k of host h becomes t with the socket that the segment has made of it,
\* and the answer is sent.  On the server's port the test for a request comes
\* after it; what an answer cannot change is tested here.
Takes(h, k, t, got, rest) ==
  /\ slots' = [slots EXCEPT ![h][k] = IF got.sock = Tcp!FreeSocket THEN FreeSlot
                                      ELSE [t EXCEPT !.tcp = got.sock]]
  /\ todo' = (IF got.reply = {} THEN <<>>
              ELSE <<Out(h, t, CHOOSE seg \in got.reply : TRUE)>>)
             \o (IF t.lport = Http /\ server.running /\ server.host = h
                 THEN <<[op |-> "check", host |-> h, slot |-> k]>> ELSE <<>>)
             \o rest

\* The TCP branch of host_receive up to the answer.  A segment without ACK is
\* a SYN, which only a listener takes.
Deliver ==
  LET m   == Head(todo)
      h   == m.to
      k   == Find(slots[h], m.sport, m.dport, m.from)
      t   == slots[h][k]
      new == Alloc(slots[h])
      syn == "ACK" \notin m.tcp.flags
  IN /\ todo # <<>> /\ m.op = "segment"
     /\ IF k = 0 \/ (syn /\ (t.tcp.state # "LISTEN" \/ new = 0)) \/ (~syn /\ t.tcp.state = "LISTEN")
        THEN todo' = Tail(todo) /\ UNCHANGED slots
        ELSE IF syn
        THEN Takes(h, new, Child(k, m), Tcp!OnListen(Child(k, m).tcp, m.tcp, Isn), Tail(todo))
        ELSE Takes(h, k, t, Tcp!ReceiveSegment(t.tcp, m.tcp), Tail(todo))
     /\ mixed' = (mixed \/ (k # 0 /\ t.tcp.state # "LISTEN" /\ t.conn # m.conn))
     /\ UNCHANGED <<next_port, sock_fd, fds, server, call, flight, tried, sent, cut>>

\* Mutant: a child is accepted in any state.
AcceptedAny(fd) ==
  FirstOf({i \in Slots : /\ fd.in_use /\ fd.listening
                         /\ slots[fd.host][i].in_use
                         /\ slots[fd.host][i].parent = fd.slot})

\* magi_accept: the first established child of the listener.
Accepted(fd) ==
  FirstOf({i \in Slots : /\ fd.in_use /\ fd.listening
                         /\ slots[fd.host][i].in_use
                         /\ slots[fd.host][i].tcp.state = "ESTABLISHED"
                         /\ slots[fd.host][i].parent = fd.slot})

\* The end of host_receive: a request for the server calls
\* http_server_dispatch, which accepts a connection into a new descriptor and
\* reads it.  Without data it is closed at once.
Check ==
  LET at == Head(todo)
      t  == slots[at.host][at.slot]
      fd == fds[server.fd]
      i  == Accepted(fd)
      f  == NewFd
      got == slots[fd.host][i]
      opened == [in_use |-> TRUE, host |-> fd.host, slot |-> i, listening |-> FALSE,
                 conn |-> got.conn]
  IN /\ todo # <<>> /\ at.op = "check"
     /\ IF /\ t.tcp.state = "ESTABLISHED" /\ t.tcp.data # <<>>
           /\ i # 0 /\ f # 0
        THEN /\ fds' = [fds EXCEPT ![f] = opened]
             /\ slots' = Reads(fd.host, i, BufferSize - 1)
             /\ \E n \in IF got.tcp.data = <<>> THEN {0} ELSE AnswerSizes[delays] :
                  todo' = <<[op |-> "answer", fd |-> f, left |-> n]>> \o Tail(todo)
        ELSE todo' = Tail(todo) /\ UNCHANGED <<slots, fds>>
     /\ UNCHANGED <<next_port, sock_fd, server, call, flight, tried, sent, cut, mixed>>

\* The loop over magi_send that answers a request: it ends with magi_close,
\* also when a chunk is refused.
Answer ==
  LET at == Head(todo)
      fd == fds[at.fd]
  IN /\ todo # <<>> /\ at.op = "answer"
     /\ IF at.left > 0 /\ CanSend(slots[fd.host][fd.slot])
        THEN /\ Sends(fd.host, fd.slot, <<[at EXCEPT !.left = @ - 1]>> \o Tail(todo))
             /\ UNCHANGED fds
        ELSE MagiClose(at.fd, slots, Tail(todo))
     /\ UNCHANGED <<next_port, sock_fd, server, call, flight, tried, sent, cut, mixed>>

\* The end of magi_close after its FIN.
Closed ==
  /\ todo # <<>> /\ Head(todo).op = "closed"
  /\ fds' = [fds EXCEPT ![Head(todo).fd] = FreeFd]
  /\ todo' = Tail(todo)
  /\ UNCHANGED <<slots, next_port, sock_fd, server, call, flight, tried, sent, cut, mixed>>

\* transmit over a link with delay, in the realtime mode and while the table
\* has room: the segment waits.  One that is lost on its way waits forever.
Delay ==
  /\ delays /\ todo # <<>> /\ Head(todo).op = "segment"
  /\ Cardinality(BagToSet(flight)) < MaxFlight
  /\ flight' = flight (+) SetToBag({Head(todo)})
  /\ todo' = Tail(todo)
  /\ UNCHANGED <<slots, next_port, sock_fd, fds, server, call, tried, sent, cut, mixed>>

\* host_send_l3_packet refuses the segment and its caller gives up: magi_close
\* leaves its descriptor as it is, an answer goes no further.
Refuse ==
  LET at == Head(Tail(todo))
  IN /\ delays /\ Len(todo) > 1 /\ Head(todo).op = "segment"
     /\ \/ /\ at.op = "closed"
           /\ todo' = Tail(Tail(todo))
           /\ cut' = TRUE
        \/ /\ at.op = "answer"
           /\ todo' = <<[at EXCEPT !.left = 0]>> \o Tail(Tail(todo))
           /\ UNCHANGED cut
     /\ UNCHANGED <<slots, next_port, sock_fd, fds, server, call, flight, tried, sent, mixed>>

\* A tick between two commands takes a segment out of the table.  The table
\* is scanned by slot, so the segments may overtake each other.
Arrive ==
  /\ Ready
  /\ \E m \in BagToSet(flight) : /\ flight' = flight (-) SetToBag({m})
                                 /\ todo' = <<m>>
  /\ UNCHANGED <<slots, next_port, sock_fd, fds, server, call, tried, sent, cut, mixed>>

\* Whether segments can wait is chosen once.
Next ==
  /\ UNCHANGED delays
  /\ \/ \E h \in Clients, peer \in Hosts : \/ StartConnect(h, peer, "sock_connect")
                                           \/ StartConnect(h, peer, "http_connect")
                                           \/ TcpConnect(h, peer)
     \/ ConnectReturns \/ HttpGetReturns
     \/ \E h \in Hosts : \/ SockSend(h) \/ SockRecv(h) \/ SockClose(h)
                         \/ TcpSend(h) \/ TcpRecv(h) \/ TcpClose(h)
     \/ \E h \in Servers : TcpListen(h) \/ HttpStart(h) \/ HttpStartFails(h)
     \/ HttpStop
     \/ Deliver \/ Check \/ Answer \/ Closed
     \/ Delay \/ Refuse \/ Arrive

Spec == Init /\ [][Next]_vars

-----------------------------------------------------------------------------
\* Tables, descriptors, frames and calls have their types.
TypeOK == /\ delays \in BOOLEAN
          /\ slots \in [Hosts -> [Slots -> Slot]]
          /\ next_port \in [Hosts -> 0 .. MaxPort]
          /\ sock_fd \in [Hosts -> 0 .. MaxFds]
          /\ fds \in [Fds -> Fd]
          /\ server \in [running : BOOLEAN, host : Hosts \cup {Nobody}, fd : 0 .. MaxFds]
          /\ \A n \in DOMAIN todo : todo[n] \in Frame
          /\ BagToSet(flight) \subseteq Segment
          /\ call \in Call
          /\ tried \in Conns /\ sent \in 0 .. MaxSends[delays]
          /\ cut \in BOOLEAN /\ mixed \in BOOLEAN

\* The descriptors whose magi_close has sent its FIN and not returned.
Closing == {f \in Fds : \E n \in DOMAIN todo : todo[n] = [op |-> "closed", fd |-> f]}

\* A descriptor in use points to the socket it was opened for: however slots
\* are freed, recycled and given to children, no descriptor comes to read or
\* write another connection.  (And the state has its types.)  That is so until
\* a socket is closed under a descriptor: by tcp_close, which takes any socket
\* of its host, or by a magi_close whose FIN could not be sent.
NoStaleDescriptor ==
  /\ TypeOK
  /\ ~cut => \A f \in Fds \ Closing : fds[f].in_use =>
       LET t == slots[fds[f].host][fds[f].slot]
       IN t.in_use /\ t.conn = fds[f].conn

\* Until the source ports of a host have all been taken once, no segment meets
\* a socket of another connection, although slots are used again while old
\* segments are on their way, sockets linger in TIME_WAIT and failed connects
\* leave children behind.
NoMixing == tried <= MaxPort => ~mixed

\* What the state of an end says of the FINs: its own is acknowledged, or the
\* other end's has been taken.
Acknowledged == {"FIN_WAIT_2", "TIME_WAIT"}
Heard == {"CLOSE_WAIT", "CLOSING", "LAST_ACK", "TIME_WAIT"}
HasClosed == {"FIN_WAIT_1", "FIN_WAIT_2", "CLOSING", "LAST_ACK", "TIME_WAIT"}

\* t and u are the two ends of a connection.
OtherEnd(h, t, u) == u.in_use /\ u.conn = t.conn /\ u.peer = h /\ u.lport = t.rport /\ u.rport = t.lport

\* Between two commands, when every segment arrives at once, the two ends of a
\* connection agree: every open end has its other end, its FIN is acknowledged
\* if and only if the other end has taken it, and the other end has not taken
\* it only if it has refused data before it, for want of space.  A tcp_connect
\* that nobody has answered is no end yet, and TIME_WAIT needs no other end.
EndsAgree ==
  (~delays /\ Ready) =>
    \A h \in Hosts, i \in Slots :
      LET t == slots[h][i]
      IN t.tcp.state \notin {"CLOSED", "LISTEN", "TIME_WAIT"} =>
           IF t.tcp.state = "SYN_SENT"
           THEN \A j \in Slots : ~OtherEnd(h, t, slots[t.peer][j])
           ELSE \E j \in Slots :
                  LET u == slots[t.peer][j]
                  IN /\ OtherEnd(h, t, u)
                     /\ t.tcp.state # "SYN_RECEIVED" /\ u.tcp.state # "SYN_SENT"
                     /\ t.tcp.state \in Acknowledged <=> u.tcp.state \in Heard
                     /\ t.tcp.state \in HasClosed /\ u.tcp.state \notin Heard =>
                          u.tcp.recv_seq < t.tcp.send_seq - 1

\* The listeners of host h on the server's port.
Listeners(h) == {i \in Slots : slots[h][i].tcp.state = "LISTEN" /\ slots[h][i].lport = Http}

\* Children of the listener that the server has closed and whose client has not.
LeftOpen(s) == {i \in Slots : /\ slots[s][i].tcp.state \in {"FIN_WAIT_1", "FIN_WAIT_2"}
                              /\ slots[s][i].parent \in Listeners(s)}

\* When every segment arrives at once, a request that goes out over an
\* established connection to the host of the running server is answered before
\* http_get reads, if the server's listener is there and the only one on its
\* port, a descriptor is free, and no other connection in a slot before the
\* request's is one that its client left open: a dispatch accepts one
\* connection, and an idle one that comes first takes the turn.
RequestAnswered ==
  LET s == server.host
      t == slots[call.host][fds[call.fd].slot]
      listener == fds[server.fd]
  IN /\ ~delays /\ call.stage = "http_request" /\ todo = <<>>
     /\ server.running /\ t.peer = s
     /\ listener.in_use /\ listener.host = s /\ Listeners(s) = {listener.slot}
     /\ NewFd # 0
     /\ \A i \in LeftOpen(s), j \in Slots : slots[s][j].conn = t.conn => j <= i
     => t.tcp.data # <<>>
=============================================================================
