------------------------------ MODULE TcpSocket ------------------------------
(***************************************************************************)
(* One TCP socket of layer4/tcp_socket.c: the operations that change it,    *)
(* as operators from a socket to a socket.  Handlers that may answer with   *)
(* a segment return a record [sock, reply], reply being a set of at most    *)
(* one segment.                                                             *)
(*                                                                         *)
(* Bytes are never inspected by this code, so a byte is named by its        *)
(* position in the stream of its sender (1, 2, 3, ...): the labelling that  *)
(* tells the most wrong deliveries apart.                                   *)
(*                                                                         *)
(* Sequence numbers are uint32_t in the code.  They are Nat here, and the   *)
(* modules that use this one bound the streams so that none reaches 2^32.   *)
(***************************************************************************)
EXTENDS Integers, Sequences, FiniteSets

CONSTANT BufferSize     \* TCP_SOCKET_BUFFER_SIZE

ASSUME BufferAssumption == BufferSize \in Nat \ {0}

Byte == Nat
Offsets == 0 .. BufferSize - 1
States == {"CLOSED", "LISTEN", "SYN_SENT", "SYN_RECEIVED", "ESTABLISHED",
           "FIN_WAIT_1", "FIN_WAIT_2", "CLOSING", "CLOSE_WAIT", "LAST_ACK",
           "TIME_WAIT"}
Flags == {"SYN", "ACK", "FIN", "PSH"}

Segment == [flags : SUBSET Flags, seq : Nat, ack : Nat, payload : Seq(Byte)]

(***************************************************************************)
(* struct TCPSocket.  send_data and start_seq are send_buffer, data is the  *)
(* in-order part of recv_buffer, pending/valid/pending_count its            *)
(* out-of-order part, indexed from recv_seq.  has_data is Len(data) > 0.    *)
(***************************************************************************)
Socket == [state : States, send_seq : Nat, recv_seq : Nat, send_ack : Nat,
           send_data : Seq(Byte), start_seq : Nat,
           data : Seq(Byte), pending : [Offsets -> Byte],
           valid : SUBSET Offsets, pending_count : Int]

\* A zeroed slot of the socket table (tcp_socket_init, tcp_socket_free).
FreeSocket == [state |-> "CLOSED", send_seq |-> 0, recv_seq |-> 0,
               send_ack |-> 0, send_data |-> <<>>, start_seq |-> 0,
               data |-> <<>>, pending |-> [o \in Offsets |-> 0],
               valid |-> {}, pending_count |-> 0]

-----------------------------------------------------------------------------
(***************************************************************************)
(* Receiving payload: tcp_buffer_payload.                                   *)
(***************************************************************************)
\* Length of the contiguous run of valid bytes from recv_seq on.
Ready(valid) == CHOOSE r \in 0 .. BufferSize :
                  r \notin valid /\ \A o \in 0 .. r - 1 : o \in valid

\* Mutant: the window's bytes are shifted, its valid marks are not.
DrainKeepsMarks(s) ==
  LET r == Ready(s.valid)
  IN [s EXCEPT !.data = @ \o [i \in 1 .. r |-> s.pending[i - 1]],
               !.recv_seq = @ + r,
               !.pending = [o \in Offsets |->
                              IF o + r < BufferSize THEN s.pending[o + r] ELSE 0],
               !.valid = {o \in @ : o >= r},
               !.pending_count = @ - r]

\* Mutant: the marks of the drained bytes are shifted instead of dropped.
DrainShiftsAll(s) ==
  LET r == Ready(s.valid)
  IN [s EXCEPT !.data = @ \o [i \in 1 .. r |-> s.pending[i - 1]],
               !.recv_seq = @ + r,
               !.valid = {o - r : o \in @},
               !.pending_count = @ - r]

\* Moves the contiguous run from pending to data and shifts the window.
Drain(s) ==
  LET r == Ready(s.valid)
  IN [s EXCEPT !.data = @ \o [i \in 1 .. r |-> s.pending[i - 1]],
               !.recv_seq = @ + r,
               !.pending = [o \in Offsets |->
                              IF o + r < BufferSize THEN s.pending[o + r] ELSE 0],
               !.valid = {o \in Offsets : o + r \in s.valid},
               !.pending_count = @ - r]

\* Bytes at the front of a segment that recv_seq has already passed.
Already(s, seq) == IF seq < s.recv_seq THEN s.recv_seq - seq ELSE 0

\* Window offset of the first byte of the segment that is still wanted.
Offset(s, seq) == seq + Already(s, seq) - s.recv_seq

\* The window slots that the wanted part of the payload covers.
Slots(s, seq, payload) ==
  Offset(s, seq) .. seq + Len(payload) - s.recv_seq - 1

\* Mutants of Accepts: no check of the free space, and one that wants a byte
\* more than needed.
AcceptsWhenFull(s, seq, payload) ==
  /\ Offset(s, seq) < BufferSize
  /\ Len(payload) - Already(s, seq) <= BufferSize - Offset(s, seq)
AcceptsOneLess(s, seq, payload) ==
  /\ Offset(s, seq) < BufferSize
  /\ Len(payload) - Already(s, seq) <= BufferSize - Offset(s, seq)
  /\ Len(s.data) + s.pending_count
       + Cardinality(Slots(s, seq, payload) \ s.valid) < BufferSize

\* The three conditions under which a payload with new bytes is stored.
Accepts(s, seq, payload) ==
  /\ Offset(s, seq) < BufferSize
  /\ Len(payload) - Already(s, seq) <= BufferSize - Offset(s, seq)
  /\ Len(s.data) + s.pending_count
       + Cardinality(Slots(s, seq, payload) \ s.valid) <= BufferSize

\* Fills the slots that hold no byte yet; a valid slot keeps its byte.
Store(s, seq, payload) ==
  LET new == Slots(s, seq, payload) \ s.valid
  IN [s EXCEPT !.pending = [o \in Offsets |->
                              IF o \in new THEN payload[s.recv_seq + o - seq + 1]
                                           ELSE s.pending[o]],
               !.valid = @ \cup new,
               !.pending_count = @ + Cardinality(new)]

BufferPayload(s, seq, payload) ==
  IF Len(payload) > Already(s, seq) /\ Accepts(s, seq, payload)
  THEN Drain(Store(s, seq, payload))
  ELSE s

-----------------------------------------------------------------------------
(***************************************************************************)
(* The user's calls.                                                        *)
(***************************************************************************)
\* tcp_socket_connect on a fresh slot.
Connect(isn) == [FreeSocket EXCEPT !.state = "SYN_SENT", !.send_seq = isn]

\* tcp_socket_send refuses what does not fit in the send buffer.
CanSend(s, payload) ==
  /\ s.state = "ESTABLISHED"
  /\ payload # <<>>
  /\ Len(s.send_data) + Len(payload) <= BufferSize

\* tcp_socket_send, then the caller's send_seq += len.
Send(s, payload) ==
  [s EXCEPT !.start_seq = IF s.send_data = <<>> THEN s.send_seq ELSE @,
            !.send_data = @ \o payload,
            !.send_seq = @ + Len(payload)]

\* tcp_socket_recv hands out at most max bytes.
RecvLen(s, max) == IF Len(s.data) < max THEN Len(s.data) ELSE max
Recv(s, max) == [s EXCEPT !.data = SubSeq(@, RecvLen(s, max) + 1, Len(@))]

\* tcp_socket_close for the states in which the caller sends a FIN, then
\* the caller's send_seq++.
CanClose(s) == s.state \in {"ESTABLISHED", "CLOSE_WAIT"}
Close(s) ==
  [s EXCEPT !.state = IF s.state = "ESTABLISHED" THEN "FIN_WAIT_1" ELSE "LAST_ACK",
            !.send_seq = @ + 1]

-----------------------------------------------------------------------------
(***************************************************************************)
(* tcp_socket_receive_segment, one operator per state of the socket.        *)
(***************************************************************************)
Ignore(s) == [sock |-> s, reply |-> {}]
Answer(s, flags) ==
  [sock |-> s, reply |-> {[flags |-> flags, seq |-> s.send_seq,
                           ack |-> s.recv_seq, payload |-> <<>>]}]

\* Mutants of AcknowledgeData: the start of the send buffer stays behind,
\* and an acknowledgement of some bytes counts for all.
AcknowledgeKeepsStart(s, ack) ==
  LET size  == Len(s.send_data)
      acked == IF ack - s.send_ack > size THEN size ELSE ack - s.send_ack
  IN IF ack <= s.send_ack \/ ack > s.send_seq THEN s
     ELSE [s EXCEPT !.send_data = SubSeq(@, acked + 1, size),
                    !.send_ack = ack]
AcknowledgeEverything(s, ack) ==
  IF ack <= s.send_ack \/ ack > s.send_seq THEN s
  ELSE [s EXCEPT !.send_data = <<>>, !.start_seq = s.send_seq, !.send_ack = s.send_seq]

\* tcp_acknowledge_data: drops acknowledged bytes from the send buffer.
AcknowledgeData(s, ack) ==
  LET size  == Len(s.send_data)
      acked == IF ack - s.send_ack > size THEN size ELSE ack - s.send_ack
  IN IF ack <= s.send_ack \/ ack > s.send_seq THEN s
     ELSE [s EXCEPT !.send_data = SubSeq(@, acked + 1, size),
                    !.start_seq = IF acked > 0 THEN ack ELSE @,
                    !.send_ack = ack]

FinSeq(seg) == seg.seq + Len(seg.payload)
AcksAnything(s, seg) == "ACK" \in seg.flags     \* mutant of AcksAll
AcksAll(s, seg) == "ACK" \in seg.flags /\ seg.ack = s.send_seq

\* Mutant: the connection is open before the handshake's last segment.
OnListenOpens(s, seg, isn) ==
  IF "SYN" \in seg.flags /\ seg.flags \cap {"ACK", "FIN"} = {}
  THEN Answer([s EXCEPT !.state = "ESTABLISHED", !.recv_seq = seg.seq + 1,
                        !.send_seq = isn], {"SYN", "ACK"})
  ELSE Ignore(s)

\* A child socket that the listener's host has just allocated for a SYN.
OnListen(s, seg, isn) ==
  IF "SYN" \in seg.flags /\ seg.flags \cap {"ACK", "FIN"} = {}
  THEN Answer([s EXCEPT !.state = "SYN_RECEIVED", !.recv_seq = seg.seq + 1,
                        !.send_seq = isn], {"SYN", "ACK"})
  ELSE Ignore(s)

\* Mutant: the SYN is not counted in the expected acknowledgement.
OnSynSentOffByOne(s, seg) ==
  IF {"SYN", "ACK"} \subseteq seg.flags /\ "FIN" \notin seg.flags
     /\ seg.ack = s.send_seq
  THEN Answer([s EXCEPT !.state = "ESTABLISHED", !.recv_seq = seg.seq + 1,
                        !.send_ack = seg.ack, !.send_seq = seg.ack], {"ACK"})
  ELSE Ignore(s)

OnSynSent(s, seg) ==
  IF {"SYN", "ACK"} \subseteq seg.flags /\ "FIN" \notin seg.flags
     /\ seg.ack = s.send_seq + 1
  THEN Answer([s EXCEPT !.state = "ESTABLISHED", !.recv_seq = seg.seq + 1,
                        !.send_ack = seg.ack, !.send_seq = seg.ack], {"ACK"})
  ELSE Ignore(s)

OnSynReceived(s, seg) ==
  IF "ACK" \in seg.flags /\ seg.flags \cap {"SYN", "FIN"} = {}
     /\ seg.ack = s.send_seq + 1 /\ seg.seq = s.recv_seq
  THEN LET opened == [s EXCEPT !.state = "ESTABLISHED",
                               !.send_ack = seg.ack, !.send_seq = seg.ack]
           got    == BufferPayload(opened, seg.seq, seg.payload)
       IN IF seg.payload # <<>> THEN Answer(got, {"ACK"}) ELSE Ignore(got)
  ELSE Ignore(s)

\* Mutant: a FIN is taken wherever it comes in the stream.
TakeFinAnywhere(s, seg, next) ==
  Answer([s EXCEPT !.recv_seq = @ + 1, !.state = next], {"ACK"})

\* The FIN is taken only when every byte before it has been received;
\* otherwise it is dropped and the gap is acknowledged.
TakeFin(s, seg, next) ==
  IF FinSeq(seg) # s.recv_seq THEN Answer(s, {"ACK"})
  ELSE Answer([s EXCEPT !.recv_seq = @ + 1, !.state = next], {"ACK"})

\* Mutant: received bytes are not acknowledged.
OnEstablishedSilent(s, seg) ==
  LET acked == IF "ACK" \in seg.flags THEN AcknowledgeData(s, seg.ack) ELSE s
      got   == BufferPayload(acked, seg.seq, seg.payload)
  IN IF "FIN" \in seg.flags THEN TakeFin(got, seg, "CLOSE_WAIT") ELSE Ignore(got)

OnEstablished(s, seg) ==
  LET acked == IF "ACK" \in seg.flags THEN AcknowledgeData(s, seg.ack) ELSE s
      got   == BufferPayload(acked, seg.seq, seg.payload)
  IN IF "FIN" \in seg.flags THEN TakeFin(got, seg, "CLOSE_WAIT")
     ELSE IF seg.payload # <<>> THEN Answer(got, {"ACK"})
     ELSE Ignore(got)

OnFinWait1(s, seg) ==
  LET got  == BufferPayload(s, seg.seq, seg.payload)
      next == IF AcksAll(s, seg)
              THEN [got EXCEPT !.send_ack = seg.ack, !.state = "FIN_WAIT_2"]
              ELSE got
  IN IF "FIN" \in seg.flags
     THEN TakeFin(got, seg, IF AcksAll(s, seg) THEN "TIME_WAIT" ELSE "CLOSING")
     ELSE IF seg.payload # <<>> THEN Answer(next, {"ACK"})
     ELSE Ignore(next)

OnFinWait2(s, seg) ==
  LET got == BufferPayload(s, seg.seq, seg.payload)
  IN IF "FIN" \in seg.flags THEN TakeFin(got, seg, "TIME_WAIT")
     ELSE IF seg.payload # <<>> THEN Answer(got, {"ACK"})
     ELSE Ignore(got)

\* Mutant: a simultaneous close never ends.
OnClosingDeaf(s, seg) == Ignore(s)

OnClosing(s, seg) ==
  Ignore(IF AcksAll(s, seg)
         THEN [s EXCEPT !.send_ack = seg.ack, !.state = "TIME_WAIT"] ELSE s)

OnLastAck(s, seg) == Ignore(IF AcksAll(s, seg) THEN FreeSocket ELSE s)

\* The switch of tcp_socket_receive_segment; TIME_WAIT, CLOSE_WAIT and
\* CLOSED fall through without touching the socket.
ReceiveSegment(s, seg) ==
  CASE s.state = "SYN_SENT"     -> OnSynSent(s, seg)
    [] s.state = "SYN_RECEIVED" -> OnSynReceived(s, seg)
    [] s.state = "ESTABLISHED"  -> OnEstablished(s, seg)
    [] s.state = "FIN_WAIT_1"   -> OnFinWait1(s, seg)
    [] s.state = "FIN_WAIT_2"   -> OnFinWait2(s, seg)
    [] s.state = "CLOSING"      -> OnClosing(s, seg)
    [] s.state = "LAST_ACK"     -> OnLastAck(s, seg)
    [] OTHER                    -> Ignore(s)

-----------------------------------------------------------------------------
(***************************************************************************)
(* The meaning of a receive side: s holds a part of its peer's stream, of   *)
(* which base is the sequence number of the first byte, k the bytes the     *)
(* user has already read and limit the bytes the peer has sent.             *)
(***************************************************************************)
HoldsStream(s, k, limit) ==
  /\ k + Len(s.data) <= limit
  /\ \A i \in 1 .. Len(s.data) : s.data[i] = k + i
  /\ \A o \in s.valid : /\ s.pending[o] = k + Len(s.data) + o + 1
                        /\ k + Len(s.data) + o + 1 <= limit

RecvOK(s, base, k, limit) ==
  s.recv_seq = base + k + Len(s.data) /\ HoldsStream(s, k, limit)

\* A payload at sequence number seq is that slice of the peer's stream.
Slice(seq, payload, base, limit) ==
  payload # <<>> => /\ base <= seq
                    /\ seq - base + Len(payload) <= limit
                    /\ \A i \in 1 .. Len(payload) : payload[i] = seq - base + i
=============================================================================
