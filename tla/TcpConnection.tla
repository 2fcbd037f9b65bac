---------------------------- MODULE TcpConnection ----------------------------
(***************************************************************************)
(* One TCP connection between two hosts of the simulator: the socket that   *)
(* the client's tcp_connect opens and the child that the server's listener  *)
(* allocates for its SYN, the users' commands on both, and the segments     *)
(* between them.                                                            *)
(*                                                                         *)
(* The network may lose, reorder and duplicate: net keeps every segment     *)
(* ever sent, and any of them may be delivered at any time, never, or more  *)
(* than once.  In the realtime mode packets wait in the clock's in-flight   *)
(* table, which is emptied in slot order and whose delays change with the   *)
(* speed; a packet is lost when a link is removed under it or address       *)
(* resolution fails; flooding can deliver a frame twice.  A SYN that comes  *)
(* back after the server's child is gone opens a second connection, which   *)
(* is the business of the socket table and not of this module.              *)
(*                                                                         *)
(* In the synchronous mode of the CLI a whole exchange is nested in one     *)
(* command.  No handler changes its socket after it has passed a segment to *)
(* host_send_l3_packet, so a nested exchange is one of the interleavings    *)
(* below.                                                                   *)
(***************************************************************************)
EXTENDS TcpSocket

CONSTANTS
  ISN,           \* ISN[h]: the initial sequence number h chooses
  MaxSegment,    \* TCP_MAX_PAYLOAD
  MaxStream      \* MaxStream[h]: bound on the bytes the user of h sends

Client == "client"
Server == "server"
Hosts == {Client, Server}
Peer(h) == IF h = Client THEN Server ELSE Client

\* The streams are too short to wrap a 32-bit sequence number (they stay
\* below 2^31).
ASSUME ConnectionAssumption ==
  /\ MaxSegment \in Nat \ {0}
  /\ ISN \in [Hosts -> Nat]
  /\ MaxStream \in [Hosts -> Nat]
  /\ \A h \in Hosts : ISN[h] + MaxStream[h] + 2 <= 2147483647

VARIABLES
  sock,        \* sock[h]: the socket of h for this connection
  listening,   \* the server has a listening socket on the port
  net,         \* net[h]: the segments sent to h
  sent,        \* sent[h]: bytes the user of h has sent (history)
  read,        \* read[h]: bytes the user of h has received (history)
  closed       \* closed[h]: the user of h has closed (history)

vars == <<sock, listening, net, sent, read, closed>>

Init == /\ sock = [h \in Hosts |-> FreeSocket]
        /\ listening = FALSE
        /\ net = [h \in Hosts |-> {}]
        /\ sent = [h \in Hosts |-> 0]
        /\ read = [h \in Hosts |-> <<>>]
        /\ closed = [h \in Hosts |-> FALSE]

\* host_send_l3_packet: the segment is on its way to the peer.
Transmit(h, seg) == net' = [net EXCEPT ![Peer(h)] = @ \cup {seg}]

-----------------------------------------------------------------------------
TcpListen == /\ ~listening
             /\ listening' = TRUE
             /\ UNCHANGED <<sock, net, sent, read, closed>>

\* A closed connection is not opened again: the next tcp_connect gets
\* another source port, that is another connection.
TcpConnect ==
  /\ sock[Client].state = "CLOSED" /\ ~closed[Client]
  /\ sock' = [sock EXCEPT ![Client] = Connect(ISN[Client])]
  /\ Transmit(Client, [flags |-> {"SYN"}, seq |-> ISN[Client], ack |-> 0,
                       payload |-> <<>>])
  /\ UNCHANGED <<listening, sent, read, closed>>

DataSegment(s, payload) ==
  [flags |-> {"ACK", "PSH"}, seq |-> s.send_seq, ack |-> s.recv_seq,
   payload |-> payload]

TcpSend(h, len) ==
  LET payload == [i \in 1 .. len |-> sent[h] + i]
  IN /\ sent[h] + len <= MaxStream[h]
     /\ CanSend(sock[h], payload)
     /\ sock' = [sock EXCEPT ![h] = Send(@, payload)]
     /\ Transmit(h, DataSegment(sock[h], payload))
     /\ sent' = [sent EXCEPT ![h] = @ + len]
     /\ UNCHANGED <<listening, read, closed>>

TcpRecv(h, max) ==
  /\ sock[h].data # <<>>
  /\ read' = [read EXCEPT ![h] = @ \o SubSeq(sock[h].data, 1, RecvLen(sock[h], max))]
  /\ sock' = [sock EXCEPT ![h] = Recv(@, max)]
  /\ UNCHANGED <<listening, net, sent, closed>>

FinSegment(s) ==
  [flags |-> {"FIN", "ACK"}, seq |-> s.send_seq, ack |-> s.recv_seq,
   payload |-> <<>>]

TcpClose(h) ==
  /\ CanClose(sock[h])
  /\ sock' = [sock EXCEPT ![h] = Close(@)]
  /\ Transmit(h, FinSegment(sock[h]))
  /\ closed' = [closed EXCEPT ![h] = TRUE]
  /\ UNCHANGED <<listening, sent, read>>

-----------------------------------------------------------------------------
\* The TCP branch of host_receive: the socket of the connection if there is
\* one, else a child of the listener, else the segment finds nobody.
HostReceive(h, seg) ==
  IF sock[h].state # "CLOSED" THEN ReceiveSegment(sock[h], seg)
  ELSE IF h = Server /\ listening THEN OnListen(FreeSocket, seg, ISN[h])
  ELSE Ignore(FreeSocket)

Deliver(h, seg) ==
  LET r == HostReceive(h, seg)
  IN /\ ~(h = Server /\ closed[h] /\ seg.flags = {"SYN"})
     /\ sock' = [sock EXCEPT ![h] = r.sock]
     /\ net' = [net EXCEPT ![Peer(h)] = @ \cup r.reply]
     /\ UNCHANGED <<listening, sent, read, closed>>

Next ==
  \/ TcpListen
  \/ TcpConnect
  \/ \E h \in Hosts :
       \/ \E len \in 1 .. MaxSegment : TcpSend(h, len)
       \/ \E max \in 1 .. MaxSegment : TcpRecv(h, max)
       \/ TcpClose(h)
       \/ \E seg \in net[h] : Deliver(h, seg)

Spec == Init /\ [][Next]_vars

-----------------------------------------------------------------------------
Synchronized == {"ESTABLISHED", "FIN_WAIT_1", "FIN_WAIT_2", "CLOSING",
                 "CLOSE_WAIT", "LAST_ACK", "TIME_WAIT"}

\* Freed by the ACK of its FIN, as opposed to never opened.
Freed(h) == sock[h].state = "CLOSED" /\ closed[h]

\* h has taken its peer's FIN.
Eof(h) == sock[h].state \in {"CLOSE_WAIT", "LAST_ACK", "CLOSING", "TIME_WAIT"}
          \/ Freed(h)

\* Bytes received in order at h, read by its user or not.
Arrived(h) == Len(read[h]) + Len(sock[h].data)

\* The sockets, segments and histories have their types.
TypeOK == /\ sock \in [Hosts -> Socket]
          /\ listening \in BOOLEAN
          /\ net \in [Hosts -> SUBSET Segment]
          /\ sent \in [Hosts -> Nat]
          /\ read \in [Hosts -> Seq(Byte)]
          /\ closed \in [Hosts -> BOOLEAN]

\* What a host has received in order, read or still buffered, is exactly a
\* prefix of what its peer sent, however segments were lost, reordered or
\* duplicated (tcp_buffer_payload, tcp_socket_recv).
StreamIntegrity ==
  \A h \in Hosts :
    /\ \A i \in 1 .. Len(read[h]) : read[h][i] = i
    /\ \A i \in 1 .. Len(sock[h].data) : sock[h].data[i] = Len(read[h]) + i
    /\ Arrived(h) <= sent[Peer(h)]

\* A host takes its peer's FIN (CLOSE_WAIT, CLOSING, TIME_WAIT) only after
\* the peer closed and after every byte the peer sent has arrived: a FIN
\* that overtakes data never truncates the stream.
EofComplete ==
  \A h \in Hosts :
    Eof(h) => /\ closed[Peer(h)]
              /\ Freed(h) \/ Arrived(h) = sent[Peer(h)]

\* The reassembly window: unread and out-of-order bytes together fit in the
\* receive buffer, pending_count counts the valid slots, and the slot at
\* recv_seq is never left valid (tcp_buffer_payload drains it).
ReceiveWindow ==
  \A h \in Hosts :
    /\ Len(sock[h].data) + sock[h].pending_count <= BufferSize
    /\ sock[h].pending_count = Cardinality(sock[h].valid)
    /\ 0 \notin sock[h].valid

\* Until its FIN is acknowledged, the send buffer of a socket holds exactly
\* the bytes sent and not acknowledged (tcp_socket_send against
\* tcp_acknowledge_data, and send_seq advanced by the callers).
SendBufferUnacked ==
  \A h \in Hosts :
    LET s     == sock[h]
        acked == s.send_ack - ISN[h] - 1
    IN s.state \in {"ESTABLISHED", "CLOSE_WAIT", "FIN_WAIT_1", "CLOSING", "LAST_ACK"}
       => /\ s.send_data = [i \in 1 .. sent[h] - acked |-> acked + i]
          /\ s.send_data # <<>> => s.start_seq = s.send_ack

\* No byte counts as acknowledged before the peer has received it.
NoPhantomAck ==
  \A h \in Hosts :
    /\ sock[h].state \in Synchronized
    /\ sock[Peer(h)].state # "CLOSED"
    => sock[h].send_ack <= sock[Peer(h)].recv_seq

\* The server's user sees an established connection only if the client's
\* handshake completed too (three-way handshake).
HandshakeAgreement ==
  sock[Server].state \in Synchronized
    => sock[Client].state \in Synchronized \/ Freed(Client)

\* A host regards its own close as done (FIN_WAIT_2, TIME_WAIT, or the
\* socket freed in LAST_ACK) only if the peer has taken its FIN.
CloseAgreement ==
  \A h \in Hosts :
    sock[h].state \in {"FIN_WAIT_2", "TIME_WAIT"} \/ Freed(h) => Eof(Peer(h))

-----------------------------------------------------------------------------
(***************************************************************************)
(* The inductive invariant behind StreamIntegrity and EofComplete: what     *)
(* each socket, each segment and each user's history say of the streams.    *)
(***************************************************************************)
Opening == {"SYN_SENT", "SYN_RECEIVED"}
Sending == {"ESTABLISHED", "CLOSE_WAIT"}
FinSent == {"FIN_WAIT_1", "FIN_WAIT_2", "CLOSING", "LAST_ACK", "TIME_WAIT"}
Receiving == {"SYN_RECEIVED", "ESTABLISHED", "FIN_WAIT_1", "FIN_WAIT_2"}
FinTaken == {"CLOSE_WAIT", "LAST_ACK", "CLOSING", "TIME_WAIT"}

SocketOK(h, s) ==
  LET p == Peer(h)
      k == Len(read[h])
  IN /\ s.state # "LISTEN"
     /\ s.state = "CLOSED" =>
          /\ s = FreeSocket
          /\ closed[h] => closed[p]
          /\ ~closed[h] => sent[h] = 0 /\ read[h] = <<>>
     /\ s.state \in Opening =>
          /\ ~closed[h] /\ sent[h] = 0 /\ read[h] = <<>>
          /\ s.send_seq = ISN[h] /\ s.data = <<>> /\ s.valid = {}
     /\ s.state \in Sending => ~closed[h] /\ s.send_seq = ISN[h] + 1 + sent[h]
     /\ s.state \in FinSent => closed[h] /\ s.send_seq = ISN[h] + 2 + sent[h]
     /\ s.state \in Receiving => RecvOK(s, ISN[p] + 1, k, sent[p])
     /\ s.state \in FinTaken =>
          /\ closed[p] /\ k + Len(s.data) = sent[p]
          /\ s.recv_seq = ISN[p] + 2 + sent[p]
          /\ HoldsStream(s, k, sent[p])

\* A segment on its way to h.
SegmentOK(h, seg) ==
  LET p == Peer(h)
  IN /\ seg.flags \in {{"SYN"}, {"SYN", "ACK"}, {"ACK"}, {"ACK", "PSH"}, {"FIN", "ACK"}}
     /\ Slice(seg.seq, seg.payload, ISN[p] + 1, sent[p])
     /\ "SYN" \in seg.flags => seg.seq = ISN[p] /\ seg.payload = <<>>
     /\ "FIN" \in seg.flags => /\ seg.payload = <<>> /\ closed[p]
                               /\ seg.seq = ISN[p] + 1 + sent[p]

ReadOK(h) == /\ Len(read[h]) <= sent[Peer(h)]
             /\ \A i \in 1 .. Len(read[h]) : read[h][i] = i

\* Every socket, segment and history is consistent with the two streams.
StreamInv ==
  /\ TypeOK
  /\ \A h \in Hosts : /\ SocketOK(h, sock[h])
                      /\ ReadOK(h)
                      /\ \A seg \in net[h] : SegmentOK(h, seg)

-----------------------------------------------------------------------------
\* The connection implements two byte streams.
Stream == INSTANCE ByteStream WITH
            MaxWrite <- MaxSegment,
            arrived <- [h \in Hosts |-> Arrived(h)],
            eof <- [h \in Hosts |-> Eof(h)]

\* The two users of the connection see what ByteStream promises.
ImplementsByteStream == Stream!Spec
=============================================================================
