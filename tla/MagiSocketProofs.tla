--------------------------- MODULE MagiSocketProofs ---------------------------
(***************************************************************************)
(* Who owns what in MagiSocket, for every set of hosts and every size of    *)
(* the tables, of the buffers, of the range of source ports, of the answers *)
(* and of the run, with delays and without:                                 *)
(*                                                                         *)
(* - the operators of TcpSocket keep the types, and which states a segment  *)
(*   can lead to;                                                           *)
(* - DescriptorInv: what frames, descriptors and sockets have to do with    *)
(*   each other, from which NoStaleDescriptor follows;                      *)
(* - PortInv: every socket and segment belongs to the attempt that took its *)
(*   source port, from which NoMixing follows.                              *)
(***************************************************************************)
EXTENDS MagiSocket, SequenceTheorems, FiniteSetTheorems, WellFoundedInduction, TLAPS

-----------------------------------------------------------------------------
(* What the operators of TcpSocket do to a socket.                          *)

LEMMA Sizes == /\ MaxFds \in Nat \ {0} /\ MaxSlots \in Nat \ {0}
               /\ MaxPort \in Nat \ {0} /\ MaxConns \in Nat \ {0}
               /\ BufferSize \in Nat \ {0}
BY MagiAssumption

\* The scan of tcp_buffer_payload for the run of valid bytes ends inside the
\* buffer.
LEMMA ReadyIs ==
  ASSUME NEW valid \in SUBSET Tcp!Offsets
  PROVE  Tcp!Ready(valid) \in 0 .. BufferSize
<1> DEFINE T == {r \in 0 .. BufferSize : r \notin valid}
<1>1. T \subseteq Nat /\ BufferSize \in T
  BY Sizes DEF Tcp!Offsets
<1>2. PICK m \in T : \A y \in T : ~(<<y, m>> \in OpToRel(<, Nat))
  BY <1>1, NatLessThanWellFounded, WFMin, Zenon
<1>3. \A y \in T : ~(y < m)
  BY <1>1, <1>2 DEF OpToRel
<1>4. \A o \in 0 .. m - 1 : o \in valid
  BY <1>1, <1>3, Sizes
<1>5. \E r \in 0 .. BufferSize : r \notin valid /\ \A o \in 0 .. r - 1 : o \in valid
  BY <1>4
<1>. QED BY <1>5 DEF Tcp!Ready

\* Moving bytes from the window to the data.
LEMMA DrainTyped ==
  ASSUME NEW s \in Tcp!Socket
  PROVE  Tcp!Drain(s) \in Tcp!Socket /\ Tcp!Drain(s).state = s.state
<1> DEFINE r == Tcp!Ready(s.valid)
           run == [i \in 1 .. r |-> s.pending[i - 1]]
           pending2 == [o \in Tcp!Offsets |->
                          IF o + r < BufferSize THEN s.pending[o + r] ELSE 0]
           valid2 == {o \in Tcp!Offsets : o + r \in s.valid}
<1>1. /\ s.valid \in SUBSET Tcp!Offsets /\ s.pending \in [Tcp!Offsets -> Nat]
      /\ s.data \in Seq(Nat) /\ s.recv_seq \in Nat /\ s.pending_count \in Int
  BY DEF Tcp!Socket, Tcp!Byte
<1>2. r \in 0 .. BufferSize /\ r \in Nat
  BY <1>1, ReadyIs, Sizes
<1>3. Tcp!Drain(s) = [s EXCEPT !.data = s.data \o run, !.recv_seq = s.recv_seq + r,
                               !.pending = pending2, !.valid = valid2,
                               !.pending_count = s.pending_count - r]
  BY DEF Tcp!Drain
<1> HIDE DEF r
<1>4. \A i \in 1 .. r : i - 1 \in Tcp!Offsets
  BY <1>2, Sizes DEF Tcp!Offsets
<1>5. run \in Seq(Nat)
  BY <1>1, <1>2, <1>4, IsASeq
<1>6. pending2 \in [Tcp!Offsets -> Nat] /\ valid2 \in SUBSET Tcp!Offsets
  BY <1>1, <1>2, Sizes DEF Tcp!Offsets
<1>7. s.data \o run \in Seq(Nat) /\ s.recv_seq + r \in Nat /\ s.pending_count - r \in Int
  <2> HIDE DEF run
  <2>. QED BY <1>1, <1>2, <1>5, ConcatProperties
<1> HIDE DEF run, pending2, valid2
<1>. QED BY <1>3, <1>6, <1>7 DEF Tcp!Socket, Tcp!Byte

\* The instance of TcpSocket has its own copy of the operator.
LEMMA SameCardinality == \A S : Tcp!Cardinality(S) = Cardinality(S)
BY DEF Tcp!Cardinality, Cardinality

\* Filling the window with the accepted bytes of a segment.
LEMMA StoreTyped ==
  ASSUME NEW s \in Tcp!Socket, NEW seq \in Nat, NEW payload \in Seq(Nat),
         Tcp!Accepts(s, seq, payload)
  PROVE  Tcp!Store(s, seq, payload) \in Tcp!Socket /\ Tcp!Store(s, seq, payload).state = s.state
<1> DEFINE len == Len(payload)
           rs == s.recv_seq
           new == Tcp!Slots(s, seq, payload) \ s.valid
           pending2 == [o \in Tcp!Offsets |-> IF o \in new THEN payload[rs + o - seq + 1]
                                             ELSE s.pending[o]]
<1>1. /\ s.valid \in SUBSET Tcp!Offsets /\ s.pending \in [Tcp!Offsets -> Nat]
      /\ rs \in Nat /\ s.pending_count \in Int
  BY DEF Tcp!Socket, Tcp!Byte
<1>2. len \in Nat /\ payload \in [1 .. len -> Nat]
  BY LenProperties
<1>3. ASSUME NEW o \in new
      PROVE  o \in Tcp!Offsets /\ rs + o - seq + 1 \in 1 .. len
  <2>1. o \in Tcp!Offset(s, seq) .. seq + len - rs - 1
    BY DEF Tcp!Slots
  <2>2. /\ Tcp!Offset(s, seq) < BufferSize
        /\ len - Tcp!Already(s, seq) <= BufferSize - Tcp!Offset(s, seq)
    BY DEF Tcp!Accepts
  <2>3. \/ seq < rs /\ Tcp!Already(s, seq) = rs - seq /\ Tcp!Offset(s, seq) = 0
        \/ seq >= rs /\ Tcp!Already(s, seq) = 0 /\ Tcp!Offset(s, seq) = seq - rs
    BY <1>1 DEF Tcp!Already, Tcp!Offset
  <2> HIDE DEF new, len, rs
  <2>4. o \in Int /\ 0 <= o /\ o < BufferSize
    BY <1>1, <1>2, <2>1, <2>2, <2>3, Sizes
  <2>5. o \in Tcp!Offsets
    BY <2>4, Sizes DEF Tcp!Offsets
  <2>6. 1 <= rs + o - seq + 1 /\ rs + o - seq + 1 <= len
    BY <1>1, <1>2, <2>1, <2>3, <2>4, SMTT(30)
  <2>. QED BY <1>1, <1>2, <2>4, <2>5, <2>6
<1>4. Cardinality(new) \in Nat
  <2>1. IsFiniteSet(Tcp!Offsets)
    BY FS_Interval, Sizes DEF Tcp!Offsets
  <2>2. new \subseteq Tcp!Offsets
    BY <1>3
  <2>. QED BY <2>1, <2>2, FS_Subset, FS_CardinalityType
<1>5. pending2 \in [Tcp!Offsets -> Nat] /\ s.valid \cup new \in SUBSET Tcp!Offsets
  BY <1>1, <1>2, <1>3
<1>6. Tcp!Store(s, seq, payload) =
        [s EXCEPT !.pending = pending2, !.valid = s.valid \cup new,
                  !.pending_count = s.pending_count + Cardinality(new)]
  BY SameCardinality DEF Tcp!Store
<1> HIDE DEF new, pending2
<1>7. s.pending_count + Cardinality(new) \in Int
  BY <1>1, <1>4
<1>. QED BY <1>5, <1>6, <1>7 DEF Tcp!Socket, Tcp!Byte

LEMMA BufferPayloadTyped ==
  ASSUME NEW s \in Tcp!Socket, NEW seq \in Nat, NEW payload \in Seq(Nat)
  PROVE  /\ Tcp!BufferPayload(s, seq, payload) \in Tcp!Socket
         /\ Tcp!BufferPayload(s, seq, payload).state = s.state
<1>1. CASE Tcp!Accepts(s, seq, payload) /\ Len(payload) > Tcp!Already(s, seq)
  <2>1. PICK u \in Tcp!Socket : u = Tcp!Store(s, seq, payload) /\ u.state = s.state
    BY <1>1, StoreTyped
  <2>2. Tcp!BufferPayload(s, seq, payload) = Tcp!Drain(u)
    BY <1>1, <2>1 DEF Tcp!BufferPayload
  <2>. QED BY <2>1, <2>2, DrainTyped
<1>2. CASE ~(Tcp!Accepts(s, seq, payload) /\ Len(payload) > Tcp!Already(s, seq))
  BY <1>2 DEF Tcp!BufferPayload
<1>. QED BY <1>1, <1>2

LEMMA AcknowledgeTyped ==
  ASSUME NEW s \in Tcp!Socket, NEW ack \in Nat
  PROVE  Tcp!AcknowledgeData(s, ack) \in Tcp!Socket /\ Tcp!AcknowledgeData(s, ack).state = s.state
<1> DEFINE size == Len(s.send_data)
           acked == IF ack - s.send_ack > size THEN size ELSE ack - s.send_ack
<1>1. s.send_data \in Seq(Nat) /\ s.send_ack \in Nat /\ size \in Nat /\ s.start_seq \in Nat
  BY LenProperties DEF Tcp!Socket, Tcp!Byte
<1>2. CASE ack <= s.send_ack \/ ack > s.send_seq
  BY <1>2 DEF Tcp!AcknowledgeData
<1>3. CASE ~(ack <= s.send_ack \/ ack > s.send_seq)
  <2>1. acked \in Nat /\ acked <= size
    BY <1>1, <1>3
  <2>2. PICK d \in Seq(Nat) : d = SubSeq(s.send_data, acked + 1, size)
    <3> HIDE DEF acked
    <3>1. \A i \in acked + 1 .. size : i \in 1 .. Len(s.send_data)
      BY <1>1, <2>1
    <3>2. SubSeq(s.send_data, acked + 1, size) \in Seq(Nat)
      BY <1>1, <2>1, <3>1, SubSeqProperties
    <3>. QED BY <3>2
  <2>3. PICK st \in Nat : st = IF acked > 0 THEN ack ELSE s.start_seq
    BY <1>1
  <2>4. Tcp!AcknowledgeData(s, ack) =
          [s EXCEPT !.send_data = d, !.start_seq = st, !.send_ack = ack]
    BY <1>3, <2>2, <2>3 DEF Tcp!AcknowledgeData
  <2>. QED BY <2>2, <2>3, <2>4 DEF Tcp!Socket, Tcp!Byte
<1>. QED BY <1>2, <1>3

\* What a handler may answer: no handler sends a FIN.
Replies == {r \in SUBSET Tcp!Segment : \A seg \in r : "FIN" \notin seg.flags}

\* The changes of state that a segment can lead to, with a FIN or without.
Moves(old, new, seg) ==
  \/ new = old
  \/ old \in {"SYN_SENT", "SYN_RECEIVED"} /\ new = "ESTABLISHED"
  \/ old = "ESTABLISHED" /\ new = "CLOSE_WAIT" /\ "FIN" \in seg.flags
  \/ old = "FIN_WAIT_1" /\ new = "FIN_WAIT_2"
  \/ old \in {"FIN_WAIT_1", "FIN_WAIT_2"} /\ new \in {"CLOSING", "TIME_WAIT"} /\ "FIN" \in seg.flags
  \/ old = "CLOSING" /\ new = "TIME_WAIT"
  \/ old = "LAST_ACK" /\ new = "CLOSED"

\* A socket becomes closed only by being freed.
Freed(got) == got.sock.state = "CLOSED" => got.sock = Tcp!FreeSocket

Handled(s, seg, got) ==
  /\ got.sock \in Tcp!Socket /\ got.reply \in Replies
  /\ Moves(s.state, got.sock.state, seg) /\ Freed(got)

LEMMA StatesAre ==
  /\ "CLOSED" \in Tcp!States /\ "SYN_SENT" \in Tcp!States /\ "SYN_RECEIVED" \in Tcp!States
  /\ "ESTABLISHED" \in Tcp!States /\ "FIN_WAIT_1" \in Tcp!States /\ "FIN_WAIT_2" \in Tcp!States
  /\ "CLOSING" \in Tcp!States /\ "CLOSE_WAIT" \in Tcp!States /\ "LAST_ACK" \in Tcp!States
  /\ "TIME_WAIT" \in Tcp!States /\ "LISTEN" \in Tcp!States
BY DEF Tcp!States

LEMMA FreeSocketTyped == Tcp!FreeSocket \in Tcp!Socket /\ Tcp!FreeSocket.state = "CLOSED"
BY DEF Tcp!FreeSocket, Tcp!Socket, Tcp!Byte, Tcp!States

LEMMA SocketIs ==
  ASSUME NEW s \in Tcp!Socket
  PROVE  s.state \in Tcp!States /\ s.recv_seq \in Nat /\ s.recv_seq + 1 \in Nat
         /\ s.send_seq \in Nat /\ s.send_seq + 1 \in Nat
<1>1. s.state \in Tcp!States /\ s.recv_seq \in Nat /\ s.send_seq \in Nat
  BY DEF Tcp!Socket
<1>. QED BY <1>1

LEMMA AnswerFlags ==
  ASSUME NEW s \in Tcp!Socket, NEW flags \in SUBSET {"SYN", "ACK"}
  PROVE  Tcp!Answer(s, flags).sock = s /\ Tcp!Answer(s, flags).reply \in Replies
<1>1. [flags |-> flags, seq |-> s.send_seq, ack |-> s.recv_seq, payload |-> <<>>] \in Tcp!Segment
  BY DEF Tcp!Segment, Tcp!Socket, Tcp!Flags, Tcp!Byte
<1>. QED BY <1>1 DEF Tcp!Answer, Replies

LEMMA AnswerIs ==
  ASSUME NEW s \in Tcp!Socket
  PROVE  /\ Tcp!Answer(s, {"ACK"}).sock = s /\ Tcp!Answer(s, {"ACK"}).reply \in Replies
         /\ Tcp!Answer(s, {"SYN", "ACK"}).sock = s /\ Tcp!Answer(s, {"SYN", "ACK"}).reply \in Replies
<1>1. {"ACK"} \in SUBSET {"SYN", "ACK"} /\ {"SYN", "ACK"} \in SUBSET {"SYN", "ACK"}
  OBVIOUS
<1>. QED BY <1>1, AnswerFlags

LEMMA IgnoreIs == \A s : Tcp!Ignore(s).sock = s /\ Tcp!Ignore(s).reply = {} /\ {} \in Replies
BY DEF Tcp!Ignore, Replies

LEMMA TakeFinIs ==
  ASSUME NEW s \in Tcp!Socket, NEW seg \in Tcp!Segment, NEW next \in Tcp!States
  PROVE  LET got == Tcp!TakeFin(s, seg, next)
         IN got.sock \in Tcp!Socket /\ got.sock.state \in {s.state, next} /\ got.reply \in Replies
<1>1. PICK u \in Tcp!Socket : u = [s EXCEPT !.recv_seq = s.recv_seq + 1, !.state = next]
  BY SocketIs DEF Tcp!Socket
<1>2. u.state = next
  BY <1>1 DEF Tcp!Socket
<1>3. Tcp!TakeFin(s, seg, next) = Tcp!Answer(s, {"ACK"}) \/ Tcp!TakeFin(s, seg, next) = Tcp!Answer(u, {"ACK"})
  BY <1>1 DEF Tcp!TakeFin
<1>. QED BY <1>2, <1>3, AnswerIs

LEMMA SegmentIs ==
  ASSUME NEW seg \in Tcp!Segment
  PROVE  seg.seq \in Nat /\ seg.ack \in Nat /\ seg.payload \in Seq(Nat)
BY DEF Tcp!Segment, Tcp!Byte

\* A child that a SYN makes.
LEMMA OnListenIs ==
  ASSUME NEW seg \in Tcp!Segment
  PROVE  LET got == Tcp!OnListen(Tcp!FreeSocket, seg, Isn)
         IN /\ got.sock \in Tcp!Socket /\ got.reply \in Replies /\ Freed(got)
            /\ got.sock.state \in {"CLOSED", "SYN_RECEIVED"}
            /\ got.reply # {} => got.sock.state = "SYN_RECEIVED"
<1>1. PICK u \in Tcp!Socket :
        u = [Tcp!FreeSocket EXCEPT !.state = "SYN_RECEIVED", !.recv_seq = seg.seq + 1, !.send_seq = Isn]
  <2>1. seg.seq + 1 \in Nat /\ Isn \in Nat
    BY SegmentIs DEF Isn
  <2>. QED BY <2>1, FreeSocketTyped, StatesAre DEF Tcp!Socket
<1>2. u.state = "SYN_RECEIVED"
  BY <1>1 DEF Tcp!FreeSocket
<1>3. PICK got : got = Tcp!OnListen(Tcp!FreeSocket, seg, Isn)
  OBVIOUS
<1>4. got = Tcp!Answer(u, {"SYN", "ACK"}) \/ got = Tcp!Ignore(Tcp!FreeSocket)
  BY <1>1, <1>3 DEF Tcp!OnListen
<1>5. CASE got = Tcp!Answer(u, {"SYN", "ACK"})
  <2>1. got.sock = u /\ got.reply \in Replies
    BY <1>5, AnswerIs
  <2>. QED BY <2>1, <1>2, <1>3 DEF Freed
<1>6. CASE got = Tcp!Ignore(Tcp!FreeSocket)
  <2>1. got.sock = Tcp!FreeSocket /\ got.reply = {} /\ {} \in Replies
    BY <1>6, IgnoreIs
  <2>. QED BY <2>1, <1>3, FreeSocketTyped DEF Freed
<1>. QED BY <1>4, <1>5, <1>6

\* What tcp_socket_receive_segment makes of a socket.
LEMMA ReceiveIs ==
  ASSUME NEW s \in Tcp!Socket, NEW seg \in Tcp!Segment, s.state # "CLOSED"
  PROVE  /\ Handled(s, seg, Tcp!ReceiveSegment(s, seg))
         /\ s.state = "LISTEN" => Tcp!ReceiveSegment(s, seg) = Tcp!Ignore(s)
<1>. SUFFICES ASSUME NEW got, got = Tcp!ReceiveSegment(s, seg)
              PROVE  Handled(s, seg, got) /\ (s.state = "LISTEN" => got = Tcp!Ignore(s))
  OBVIOUS
<1>0. s.state \in Tcp!States /\ seg.seq \in Nat /\ seg.ack \in Nat /\ seg.payload \in Seq(Nat)
         /\ seg.seq + 1 \in Nat
  BY SegmentIs DEF Tcp!Socket
<1>1. ASSUME got = Tcp!Ignore(s) \/ got = Tcp!Answer(s, {"ACK"})
      PROVE  Handled(s, seg, got)
  <2>1. got.sock = s /\ got.reply \in Replies
    BY <1>1, AnswerIs, IgnoreIs
  <2>2. Handled(s, seg, got)
    BY <2>1 DEF Handled, Moves, Freed
  <2>. QED BY <2>2
<1>2. ASSUME NEW u \in Tcp!Socket, Moves(s.state, u.state, seg), u.state # "CLOSED",
             got = Tcp!Ignore(u) \/ got = Tcp!Answer(u, {"ACK"})
      PROVE  Handled(s, seg, got)
  <2>1. got.sock = u /\ got.reply \in Replies
    BY <1>2, AnswerIs, IgnoreIs
  <2>. QED BY <1>2, <2>1 DEF Handled, Freed
<1>3. ASSUME NEW u \in Tcp!Socket, u.state = s.state, NEW next \in Tcp!States, "FIN" \in seg.flags,
             Moves(s.state, next, seg), next # "CLOSED", got = Tcp!TakeFin(u, seg, next)
      PROVE  Handled(s, seg, got)
  BY <1>3, TakeFinIs DEF Handled, Freed, Moves
<1>4. CASE s.state = "SYN_SENT"
  <2>1. got = Tcp!OnSynSent(s, seg)
    BY <1>4 DEF Tcp!ReceiveSegment
  <2>2. PICK u \in Tcp!Socket :
          /\ u = [s EXCEPT !.state = "ESTABLISHED", !.recv_seq = seg.seq + 1,
                           !.send_ack = seg.ack, !.send_seq = seg.ack]
          /\ u.state = "ESTABLISHED"
    <3>1. [s EXCEPT !.state = "ESTABLISHED", !.recv_seq = seg.seq + 1,
                !.send_ack = seg.ack, !.send_seq = seg.ack] \in Tcp!Socket
      BY <1>0, StatesAre DEF Tcp!Socket
    <3>2. [s EXCEPT !.state = "ESTABLISHED", !.recv_seq = seg.seq + 1,
                !.send_ack = seg.ack, !.send_seq = seg.ack].state = "ESTABLISHED"
      BY StatesAre DEF Tcp!Socket
    <3>. QED BY <3>1, <3>2
  <2>3. got = Tcp!Answer(u, {"ACK"}) \/ got = Tcp!Ignore(s)
    BY <2>1, <2>2 DEF Tcp!OnSynSent
  <2>4. Moves(s.state, u.state, seg)
    BY <1>4, <2>2 DEF Moves
  <2>. QED BY <1>1, <1>2, <1>4, <2>2, <2>3, <2>4
<1>5. CASE s.state = "SYN_RECEIVED"
  <2>1. got = Tcp!OnSynReceived(s, seg)
    BY <1>5 DEF Tcp!ReceiveSegment
  <2>2. PICK o \in Tcp!Socket :
          /\ o = [s EXCEPT !.state = "ESTABLISHED", !.send_ack = seg.ack, !.send_seq = seg.ack]
          /\ o.state = "ESTABLISHED"
    <3>1. [s EXCEPT !.state = "ESTABLISHED", !.send_ack = seg.ack, !.send_seq = seg.ack] \in Tcp!Socket
      BY <1>0, StatesAre DEF Tcp!Socket
    <3>2. [s EXCEPT !.state = "ESTABLISHED", !.send_ack = seg.ack, !.send_seq = seg.ack].state = "ESTABLISHED"
      BY StatesAre DEF Tcp!Socket
    <3>. QED BY <3>1, <3>2
  <2>3. PICK u \in Tcp!Socket : u = Tcp!BufferPayload(o, seg.seq, seg.payload) /\ u.state = "ESTABLISHED"
    <3>1. /\ Tcp!BufferPayload(o, seg.seq, seg.payload) \in Tcp!Socket
          /\ Tcp!BufferPayload(o, seg.seq, seg.payload).state = o.state
      BY <1>0, <2>2, BufferPayloadTyped
    <3>. QED BY <3>1, <1>0, <2>2
  <2>4. got = Tcp!Answer(u, {"ACK"}) \/ got = Tcp!Ignore(u) \/ got = Tcp!Ignore(s)
    BY <2>1, <2>2, <2>3 DEF Tcp!OnSynReceived
  <2>5. Moves(s.state, u.state, seg)
    BY <1>5, <2>3 DEF Moves
  <2>. QED BY <1>1, <1>2, <1>5, <2>3, <2>4, <2>5
<1>6. CASE s.state = "ESTABLISHED"
  <2>1. got = Tcp!OnEstablished(s, seg)
    BY <1>6 DEF Tcp!ReceiveSegment
  <2>2. PICK a \in Tcp!Socket :
          /\ a = IF "ACK" \in seg.flags THEN Tcp!AcknowledgeData(s, seg.ack) ELSE s
          /\ a.state = "ESTABLISHED"
    BY <1>0, <1>6, AcknowledgeTyped
  <2>3. PICK u \in Tcp!Socket : u = Tcp!BufferPayload(a, seg.seq, seg.payload) /\ u.state = "ESTABLISHED"
    <3>1. /\ Tcp!BufferPayload(a, seg.seq, seg.payload) \in Tcp!Socket
          /\ Tcp!BufferPayload(a, seg.seq, seg.payload).state = a.state
      BY <1>0, <2>2, BufferPayloadTyped
    <3>. QED BY <3>1, <1>0, <2>2
  <2>4. \/ "FIN" \in seg.flags /\ got = Tcp!TakeFin(u, seg, "CLOSE_WAIT")
        \/ got = Tcp!Answer(u, {"ACK"}) \/ got = Tcp!Ignore(u)
    BY <2>1, <2>2, <2>3 DEF Tcp!OnEstablished
  <2>5. Moves(s.state, u.state, seg) /\ ("FIN" \in seg.flags => Moves(s.state, "CLOSE_WAIT", seg))
    BY <1>6, <2>3 DEF Moves
  <2>. QED BY <1>2, <1>3, StatesAre, <1>6, <2>3, <2>4, <2>5
<1>7. CASE s.state = "FIN_WAIT_1"
  <2>1. got = Tcp!OnFinWait1(s, seg)
    BY <1>7 DEF Tcp!ReceiveSegment
  <2>2. PICK u \in Tcp!Socket : u = Tcp!BufferPayload(s, seg.seq, seg.payload) /\ u.state = "FIN_WAIT_1"
    <3>1. /\ Tcp!BufferPayload(s, seg.seq, seg.payload) \in Tcp!Socket
          /\ Tcp!BufferPayload(s, seg.seq, seg.payload).state = s.state
      BY <1>0, BufferPayloadTyped
    <3>. QED BY <3>1, <1>0, <1>7
  <2>3. PICK v \in Tcp!Socket : v = [u EXCEPT !.send_ack = seg.ack, !.state = "FIN_WAIT_2"]
                                /\ v.state = "FIN_WAIT_2"
    <3>1. [u EXCEPT !.send_ack = seg.ack, !.state = "FIN_WAIT_2"] \in Tcp!Socket
      BY <1>0, StatesAre DEF Tcp!Socket
    <3>2. [u EXCEPT !.send_ack = seg.ack, !.state = "FIN_WAIT_2"].state = "FIN_WAIT_2"
      BY StatesAre DEF Tcp!Socket
    <3>. QED BY <3>1, <3>2
  <2>4. PICK w \in {u, v} : w = IF Tcp!AcksAll(s, seg) THEN v ELSE u
    OBVIOUS
  <2>5. \/ "FIN" \in seg.flags /\ (got = Tcp!TakeFin(u, seg, "TIME_WAIT") \/ got = Tcp!TakeFin(u, seg, "CLOSING"))
        \/ got = Tcp!Answer(w, {"ACK"}) \/ got = Tcp!Ignore(w)
    BY <2>1, <2>2, <2>3, <2>4 DEF Tcp!OnFinWait1
  <2>6. /\ Moves(s.state, w.state, seg) /\ ("FIN" \in seg.flags => Moves(s.state, "CLOSING", seg))
        /\ ("FIN" \in seg.flags => Moves(s.state, "TIME_WAIT", seg)) 
        /\ w \in Tcp!Socket /\ w.state # "CLOSED"
    BY <1>7, <2>2, <2>3, <2>4 DEF Moves
  <2>. QED BY <1>2, <1>3, StatesAre, <1>7, <2>2, <2>5, <2>6
<1>8. CASE s.state = "FIN_WAIT_2"
  <2>1. got = Tcp!OnFinWait2(s, seg)
    BY <1>8 DEF Tcp!ReceiveSegment
  <2>2. PICK u \in Tcp!Socket : u = Tcp!BufferPayload(s, seg.seq, seg.payload) /\ u.state = "FIN_WAIT_2"
    <3>1. /\ Tcp!BufferPayload(s, seg.seq, seg.payload) \in Tcp!Socket
          /\ Tcp!BufferPayload(s, seg.seq, seg.payload).state = s.state
      BY <1>0, BufferPayloadTyped
    <3>. QED BY <3>1, <1>0, <1>8
  <2>3. \/ "FIN" \in seg.flags /\ got = Tcp!TakeFin(u, seg, "TIME_WAIT")
        \/ got = Tcp!Answer(u, {"ACK"}) \/ got = Tcp!Ignore(u)
    BY <2>1, <2>2 DEF Tcp!OnFinWait2
  <2>4. Moves(s.state, u.state, seg) /\ ("FIN" \in seg.flags => Moves(s.state, "TIME_WAIT", seg))
    BY <1>8, <2>2 DEF Moves
  <2>. QED BY <1>2, <1>3, StatesAre, <1>8, <2>2, <2>3, <2>4
<1>9. CASE s.state = "CLOSING"
  <2>1. got = Tcp!OnClosing(s, seg)
    BY <1>9 DEF Tcp!ReceiveSegment
  <2>2. PICK u \in Tcp!Socket : u = [s EXCEPT !.send_ack = seg.ack, !.state = "TIME_WAIT"]
                                /\ u.state = "TIME_WAIT"
    <3>1. [s EXCEPT !.send_ack = seg.ack, !.state = "TIME_WAIT"] \in Tcp!Socket
      BY <1>0, StatesAre DEF Tcp!Socket
    <3>2. [s EXCEPT !.send_ack = seg.ack, !.state = "TIME_WAIT"].state = "TIME_WAIT"
      BY StatesAre DEF Tcp!Socket
    <3>. QED BY <3>1, <3>2
  <2>3. got = Tcp!Ignore(u) \/ got = Tcp!Ignore(s)
    BY <2>1, <2>2 DEF Tcp!OnClosing
  <2>4. Moves(s.state, u.state, seg)
    BY <1>9, <2>2 DEF Moves
  <2>. QED BY <1>1, <1>2, <1>9, <2>2, <2>3, <2>4
<1>10. CASE s.state = "LAST_ACK"
  <2>1. got = Tcp!OnLastAck(s, seg)
    BY <1>10 DEF Tcp!ReceiveSegment
  <2>2. got = Tcp!Ignore(Tcp!FreeSocket) \/ got = Tcp!Ignore(s)
    BY <2>1 DEF Tcp!OnLastAck
  <2>. QED BY <1>1, <1>10, <2>2, IgnoreIs, FreeSocketTyped DEF Handled, Moves, Freed
<1>11. CASE s.state \in {"LISTEN", "CLOSE_WAIT", "TIME_WAIT"}
  <2>1. got = Tcp!Ignore(s)
    BY <1>11 DEF Tcp!ReceiveSegment
  <2>. QED BY <1>1, <1>11, <2>1
<1>. QED BY <1>0, <1>4, <1>5, <1>6, <1>7, <1>8, <1>9, <1>10, <1>11 DEF Tcp!States

\* The user's calls.
LEMMA SendIs ==
  ASSUME NEW s \in Tcp!Socket
  PROVE  Tcp!Send(s, Unit) \in Tcp!Socket /\ Tcp!Send(s, Unit).state = s.state
<1>1. Unit \in Seq(Nat) /\ Len(Unit) \in Nat /\ s.send_data \in Seq(Nat) /\ s.send_seq \in Nat
  BY DEF Unit, Tcp!Socket, Tcp!Byte
<1>2. s.send_data \o Unit \in Seq(Nat) /\ s.send_seq + Len(Unit) \in Nat
  <2>. HIDE DEF Unit
  <2>. QED BY <1>1, ConcatProperties
<1>. QED BY <1>2 DEF Tcp!Send, Tcp!Socket, Tcp!Byte

LEMMA RecvIs ==
  ASSUME NEW s \in Tcp!Socket, NEW max \in Nat
  PROVE  Tcp!Recv(s, max) \in Tcp!Socket /\ Tcp!Recv(s, max).state = s.state
<1> DEFINE n == IF Len(s.data) < max THEN Len(s.data) ELSE max
<1>1. s.data \in Seq(Nat) /\ Len(s.data) \in Nat /\ n \in Nat
  BY LenProperties DEF Tcp!Socket, Tcp!Byte
<1>2. PICK d \in Seq(Nat) : d = SubSeq(s.data, n + 1, Len(s.data))
  <2>. HIDE DEF n
  <2>1. \A i \in n + 1 .. Len(s.data) : i \in 1 .. Len(s.data)
    BY <1>1
  <2>2. SubSeq(s.data, n + 1, Len(s.data)) \in Seq(Nat)
    BY <1>1, <2>1, SubSeqProperties
  <2>. QED BY <2>2
<1>3. Tcp!Recv(s, max) = [s EXCEPT !.data = d]
  BY <1>2 DEF Tcp!Recv, Tcp!RecvLen
<1>. QED BY <1>3 DEF Tcp!Socket, Tcp!Byte

LEMMA CloseIs ==
  ASSUME NEW s \in Tcp!Socket
  PROVE  /\ Tcp!Close(s) \in Tcp!Socket
         /\ Tcp!Close(s).state = IF s.state = "ESTABLISHED" THEN "FIN_WAIT_1" ELSE "LAST_ACK"
BY SocketIs, StatesAre DEF Tcp!Close, Tcp!Socket

LEMMA ConnectIs ==
  Tcp!Connect(Isn) \in Tcp!Socket /\ Tcp!Connect(Isn).state = "SYN_SENT"
BY FreeSocketTyped DEF Tcp!Connect, Tcp!FreeSocket, Tcp!Socket, Tcp!States, Tcp!Byte, Isn

LEMMA SentTyped ==
  ASSUME NEW s \in Tcp!Socket
  PROVE  Syn \in Tcp!Segment /\ Fin(s) \in Tcp!Segment /\ Data(s) \in Tcp!Segment
         /\ "FIN" \notin Data(s).flags /\ "FIN" \notin Syn.flags
BY DEF Syn, Fin, Data, Isn, Unit, Tcp!Segment, Tcp!Socket, Tcp!Flags, Tcp!Byte

-----------------------------------------------------------------------------
(* The least element, free slots and changes of the tables.                 *)

LEMMA FirstOfIs ==
  ASSUME NEW S \in SUBSET Nat, S # {}
  PROVE  FirstOf(S) \in S /\ \A n \in S : FirstOf(S) <= n
<1>1. PICK m \in S : \A n \in S : ~(<<n, m>> \in OpToRel(<, Nat))
  BY NatLessThanWellFounded, WFMin, Zenon
<1>2. \A n \in S : ~(n < m)
  BY <1>1 DEF OpToRel
<1>3. \A n \in S : m <= n
  BY <1>2
<1>. QED BY <1>3 DEF FirstOf

LEMMA FirstOfNone == FirstOf({}) = 0
BY DEF FirstOf

\* A slot or a descriptor that a scan finds.
LEMMA FirstSlot ==
  ASSUME NEW S \in SUBSET Slots
  PROVE  IF S = {} THEN FirstOf(S) = 0 ELSE FirstOf(S) \in S /\ FirstOf(S) # 0
<1>1. S \in SUBSET Nat /\ 0 \notin S
  BY Sizes DEF Slots
<1>. QED BY <1>1, FirstOfIs, FirstOfNone

LEMMA NewFdIs == NewFd = 0 \/ (NewFd \in Fds /\ ~fds[NewFd].in_use)
<1>. DEFINE S == {f \in Fds : ~fds[f].in_use}
<1>1. S \in SUBSET Nat
  BY Sizes DEF Fds
<1>2. CASE S = {}
  BY <1>2, FirstOfNone DEF NewFd
<1>3. CASE S # {}
  <2>1. FirstOf(S) \in S
    BY <1>1, <1>3, FirstOfIs
  <2>. QED BY <2>1 DEF NewFd
<1>. QED BY <1>2, <1>3

\* A slot that tcp_socket_alloc gives out was free or in TIME_WAIT.
LEMMA AllocIs ==
  ASSUME NEW table
  PROVE  \/ Alloc(table) = 0
         \/ /\ Alloc(table) \in Slots
            /\ table[Alloc(table)].in_use => table[Alloc(table)].tcp.state = "TIME_WAIT"
<1>. DEFINE free == {i \in Slots : ~table[i].in_use}
            old == {i \in Slots : table[i].in_use /\ table[i].tcp.state = "TIME_WAIT"}
<1>1. Alloc(table) = IF free # {} THEN FirstOf(free) ELSE FirstOf(old)
  BY DEF Alloc
<1>2. CASE free # {}
  <2>1. FirstOf(free) \in free
    BY <1>2, FirstSlot
  <2>. QED BY <1>1, <1>2, <2>1
<1>3. CASE free = {} /\ old # {}
  <2>1. FirstOf(old) \in old
    BY <1>3, FirstSlot
  <2>. QED BY <1>1, <1>3, <2>1
<1>4. CASE free = {} /\ old = {}
  BY <1>1, <1>4, FirstOfNone
<1>. QED BY <1>2, <1>3, <1>4

\* A socket that tcp_socket_find gives to a segment.
Matches(t, sport, dport, from) ==
  /\ t.in_use /\ t.lport = dport
  /\ \/ t.tcp.state = "LISTEN"
     \/ t.tcp.state \notin {"CLOSED", "LISTEN"} /\ t.rport = sport /\ t.peer = from

LEMMA FindIs ==
  ASSUME NEW table, NEW sport, NEW dport, NEW from
  PROVE  LET k == Find(table, sport, dport, from)
         IN k = 0 \/ (k \in Slots /\ Matches(table[k], sport, dport, from))
<1>. DEFINE exact == {i \in Slots : /\ table[i].in_use
                                    /\ table[i].tcp.state \notin {"CLOSED", "LISTEN"}
                                    /\ table[i].lport = dport
                                    /\ table[i].rport = sport /\ table[i].peer = from}
            listening == {i \in Slots : table[i].in_use /\ table[i].tcp.state = "LISTEN"
                                        /\ table[i].lport = dport}
            k == Find(table, sport, dport, from)
<1>1. k = IF exact # {} THEN FirstOf(exact) ELSE FirstOf(listening)
  BY DEF Find
<1>2. CASE exact # {}
  <2>1. FirstOf(exact) \in exact
    BY <1>2, FirstSlot
  <2>2. k \in exact
    BY <1>1, <1>2, <2>1
  <2>. QED BY <2>2 DEF Matches
<1>3. CASE exact = {} /\ listening # {}
  <2>1. FirstOf(listening) \in listening
    BY <1>3, FirstSlot
  <2>2. k \in listening
    BY <1>1, <1>3, <2>1
  <2>. QED BY <2>2 DEF Matches
<1>4. CASE exact = {} /\ listening = {}
  BY <1>1, <1>4, FirstOfNone
<1>. QED BY <1>2, <1>3, <1>4

Tables == [Hosts -> [Slots -> Slot]]

LEMMA SetSlot ==
  ASSUME NEW S \in Tables, NEW h \in Hosts, NEW i \in Slots, NEW u \in Slot
  PROVE  LET N == [S EXCEPT ![h][i] = u]
         IN /\ N \in Tables /\ N[h][i] = u
            /\ \A g \in Hosts, j \in Slots : N[g][j] = IF g = h /\ j = i THEN u ELSE S[g][j]
BY DEF Tables

\* The connection of a socket, which no segment changes.
Same(t, u) == /\ u.in_use = t.in_use /\ u.lport = t.lport /\ u.rport = t.rport
              /\ u.peer = t.peer /\ u.parent = t.parent /\ u.conn = t.conn

LEMMA SetTcp ==
  ASSUME NEW t \in Slot, NEW s \in Tcp!Socket
  PROVE  LET u == [t EXCEPT !.tcp = s]
         IN u \in Slot /\ u.tcp = s /\ Same(t, u)
BY DEF Slot, Same

\* The same, as the definitions write it.
LEMMA SetSlotTcp ==
  ASSUME NEW S \in Tables, NEW h \in Hosts, NEW i \in Slots, NEW s \in Tcp!Socket
  PROVE  [S EXCEPT ![h][i].tcp = s] = [S EXCEPT ![h][i] = [S[h][i] EXCEPT !.tcp = s]]
BY DEF Tables

LEMMA FreeTypes ==
  /\ FreeSlot \in Slot /\ ~FreeSlot.in_use /\ FreeSlot.tcp = Tcp!FreeSocket
  /\ FreeSlot.tcp.state = "CLOSED"
  /\ FreeFd \in Fd /\ ~FreeFd.in_use /\ ~FreeFd.listening
BY Sizes, FreeSocketTyped DEF FreeSlot, Slot, FreeFd, Fd, TcpPorts, Conns

-----------------------------------------------------------------------------
(* The frames of a command.                                                 *)

Holds(a, f) == a.op \in {"answer", "closed"} /\ a.fd = f
NoFrame(T, f) == \A n \in DOMAIN T : ~Holds(T[n], f)
Answered(T, f) == \E n \in DOMAIN T : T[n].op = "answer" /\ T[n].fd = f
NoAnswer(T) == \A n \in DOMAIN T : T[n].op # "answer"

\* No segment goes to its sender, the tests for a request are on the host of
\* the running server, where the answers are sent, and the descriptors of
\* frames are in use.
FrameOK(a, F, sv) ==
  /\ a.op = "segment" => a.to # a.from
  /\ a.op = "check" => sv.running /\ a.host = sv.host
  /\ a.op = "answer" => F[a.fd].in_use /\ sv.running /\ F[a.fd].host = sv.host
  /\ a.op = "closed" => F[a.fd].in_use

\* Below the innermost frame, no segment waits, and each descriptor has at
\* most one frame.
RestOK(R, F, sv) ==
  /\ R \in Seq(Frame)
  /\ \A n \in DOMAIN R : R[n].op # "segment" /\ FrameOK(R[n], F, sv)
  /\ \A m, n \in DOMAIN R, f \in Fds : Holds(R[m], f) /\ Holds(R[n], f) => m = n

\* While an answer is under way only the server sends a FIN.
HeadOK(a, R, F, sv) ==
  /\ FrameOK(a, F, sv)
  /\ \A f \in Fds : Holds(a, f) => NoFrame(R, f)
  /\ a.op = "segment" /\ "FIN" \in a.tcp.flags /\ a.from # sv.host => NoAnswer(R)

TodoOK(T, F, sv) ==
  /\ T \in Seq(Frame)
  /\ T # <<>> => HeadOK(Head(T), Tail(T), F, sv) /\ RestOK(Tail(T), F, sv)

LEMMA PushIs ==
  ASSUME NEW a \in Frame, NEW R \in Seq(Frame)
  PROVE  /\ <<a>> \o R \in Seq(Frame) /\ <<a>> \o R # <<>>
         /\ Head(<<a>> \o R) = a /\ Tail(<<a>> \o R) = R
         /\ DOMAIN (<<a>> \o R) = 1 .. Len(R) + 1 /\ (<<a>> \o R)[1] = a
         /\ Len(R) \in Nat /\ DOMAIN R = 1 .. Len(R)
         /\ \A n \in DOMAIN R : (<<a>> \o R)[n + 1] = R[n]
         /\ \A n \in DOMAIN (<<a>> \o R) : n = 1 \/ (n - 1 \in DOMAIN R /\ (<<a>> \o R)[n] = R[n - 1])
<1>1. PICK T : T = <<a>> \o R
  OBVIOUS
<1>2. <<a>> \in Seq(Frame) /\ Len(<<a>>) = 1 /\ <<a>>[1] = a
  OBVIOUS
<1>3. Len(R) \in Nat /\ DOMAIN R = 1 .. Len(R)
  BY LenProperties
<1>4. /\ T \in Seq(Frame) /\ Len(T) = Len(R) + 1
      /\ \A n \in 1 .. Len(R) + 1 : T[n] = IF n <= 1 THEN <<a>>[n] ELSE R[n - 1]
  BY <1>1, <1>2, <1>3, ConcatProperties
<1>5. DOMAIN T = 1 .. Len(R) + 1
  BY <1>4, LenProperties
<1>6. T # <<>>
  BY <1>3, <1>4
<1>7. T[1] = a
  BY <1>2, <1>3, <1>4
<1>8. \A n \in DOMAIN R : T[n + 1] = R[n]
  BY <1>3, <1>4
<1>9. \A n \in DOMAIN T : n = 1 \/ (n - 1 \in DOMAIN R /\ T[n] = R[n - 1])
  BY <1>3, <1>4, <1>5
<1>10. Head(T) = a
  BY <1>4, <1>6, <1>7, HeadTailProperties
<1>11. Tail(T) = R
  <2>1. /\ Tail(T) \in Seq(Frame) /\ Len(Tail(T)) = Len(R)
        /\ \A n \in 1 .. Len(R) : Tail(T)[n] = T[n + 1]
    BY <1>3, <1>4, <1>6, HeadTailProperties
  <2>. QED BY <2>1, <1>3, <1>8, SeqEqual
<1>. QED BY <1>1, <1>3, <1>4, <1>5, <1>6, <1>7, <1>8, <1>9, <1>10, <1>11

LEMMA PopIs ==
  ASSUME NEW T \in Seq(Frame), T # <<>>
  PROVE  Head(T) \in Frame /\ Tail(T) \in Seq(Frame) /\ T = <<Head(T)>> \o Tail(T)
<1>1. Head(T) \in Frame /\ Tail(T) \in Seq(Frame)
  BY HeadTailProperties
<1>2. PICK N \in Seq(Frame) : N = <<Head(T)>> \o Tail(T)
  BY <1>1, PushIs
<1>3. Len(T) \in Nat /\ Len(T) > 0 /\ Len(Tail(T)) = Len(T) - 1 /\ Head(T) = T[1]
      /\ \A n \in 1 .. Len(Tail(T)) : Tail(T)[n] = T[n + 1]
  BY HeadTailProperties, LenProperties
<1>4. /\ DOMAIN N = 1 .. Len(Tail(T)) + 1 /\ N[1] = Head(T)
      /\ \A n \in DOMAIN N : n = 1 \/ (n - 1 \in DOMAIN Tail(T) /\ N[n] = Tail(T)[n - 1])
      /\ DOMAIN Tail(T) = 1 .. Len(Tail(T))
  BY <1>1, <1>2, PushIs
<1>5. Len(N) = Len(T)
  BY <1>3, <1>4, LenProperties
<1>6. \A n \in 1 .. Len(T) : N[n] = T[n]
  BY <1>3, <1>4
<1>7. N = T
  BY <1>5, <1>6, SeqEqual
<1>. QED BY <1>1, <1>2, <1>7

LEMMA FrameKinds ==
  /\ Segment \subseteq Frame
  /\ \A a \in Frame : /\ a.op \in {"segment", "check", "answer", "closed"}
                      /\ a.op = "segment" => a \in Segment
                      /\ a.op = "check" => a.host \in Hosts /\ a.slot \in Slots
                      /\ a.op = "answer" => a.fd \in Fds /\ a.left \in Nat
                      /\ a.op = "closed" => a.fd \in Fds /\ a = [op |-> "closed", fd |-> a.fd]
                      /\ a.op \in {"answer", "closed"} => a.fd \in Fds
BY DEF Frame, Segment

LEMMA PushFrames ==
  ASSUME NEW a \in Frame, NEW R \in Seq(Frame)
  PROVE  /\ \A f : NoFrame(<<a>> \o R, f) <=> ~Holds(a, f) /\ NoFrame(R, f)
         /\ \A f : Answered(<<a>> \o R, f) <=> (a.op = "answer" /\ a.fd = f) \/ Answered(R, f)
         /\ NoAnswer(<<a>> \o R) <=> a.op # "answer" /\ NoAnswer(R)
<1>1. PICK T \in Seq(Frame) :
        /\ T = <<a>> \o R
        /\ DOMAIN T = 1 .. Len(R) + 1 /\ T[1] = a
        /\ Len(R) \in Nat /\ DOMAIN R = 1 .. Len(R)
        /\ \A n \in DOMAIN R : T[n + 1] = R[n]
        /\ \A n \in DOMAIN T : n = 1 \/ (n - 1 \in DOMAIN R /\ T[n] = R[n - 1])
  BY PushIs
<1>2. 1 \in DOMAIN T /\ \A n \in DOMAIN R : n + 1 \in DOMAIN T
  BY <1>1
<1>3. \A f : NoFrame(T, f) <=> ~Holds(a, f) /\ NoFrame(R, f)
  BY <1>1, <1>2 DEF NoFrame
<1>4. \A f : Answered(T, f) <=> (a.op = "answer" /\ a.fd = f) \/ Answered(R, f)
  BY <1>1, <1>2 DEF Answered
<1>5. NoAnswer(T) <=> a.op # "answer" /\ NoAnswer(R)
  BY <1>1, <1>2 DEF NoAnswer
<1>. QED BY <1>1, <1>3, <1>4, <1>5

LEMMA EmptyTodo ==
  /\ <<>> \in Seq(Frame) /\ NoAnswer(<<>>)
  /\ \A f : NoFrame(<<>>, f) /\ ~Answered(<<>>, f)
  /\ \A F, sv : RestOK(<<>>, F, sv) /\ TodoOK(<<>>, F, sv)
<1>1. <<>> \in Seq(Frame) /\ DOMAIN (<<>>) = {}
  OBVIOUS
<1>. QED BY <1>1 DEF NoAnswer, NoFrame, Answered, RestOK, TodoOK

LEMMA PushTodo ==
  ASSUME NEW F, NEW sv, NEW a \in Frame, NEW R, RestOK(R, F, sv), HeadOK(a, R, F, sv)
  PROVE  TodoOK(<<a>> \o R, F, sv)
<1>1. R \in Seq(Frame)
  BY DEF RestOK
<1>. QED BY <1>1, PushIs DEF TodoOK

LEMMA PushRest ==
  ASSUME NEW F, NEW sv, NEW a \in Frame, NEW R, RestOK(R, F, sv), HeadOK(a, R, F, sv),
         a.op # "segment"
  PROVE  RestOK(<<a>> \o R, F, sv)
<1>1. PICK T \in Seq(Frame) :
        /\ T = <<a>> \o R
        /\ DOMAIN T = 1 .. Len(R) + 1 /\ T[1] = a
        /\ Len(R) \in Nat /\ DOMAIN R = 1 .. Len(R)
        /\ \A n \in DOMAIN R : T[n + 1] = R[n]
        /\ \A n \in DOMAIN T : n = 1 \/ (n - 1 \in DOMAIN R /\ T[n] = R[n - 1])
  BY PushIs DEF RestOK
<1>2. \A n \in DOMAIN T : T[n].op # "segment" /\ FrameOK(T[n], F, sv)
  BY <1>1 DEF RestOK, HeadOK
<1>3. ASSUME NEW m \in DOMAIN T, NEW n \in DOMAIN T, NEW f \in Fds, Holds(T[m], f), Holds(T[n], f)
      PROVE  m = n
  <2>1. CASE m = 1 /\ n = 1
    BY <2>1
  <2>2. CASE m = 1 /\ n # 1
    BY <2>2, <1>1, <1>3 DEF HeadOK, NoFrame
  <2>3. CASE m # 1 /\ n = 1
    BY <2>3, <1>1, <1>3 DEF HeadOK, NoFrame
  <2>4. CASE m # 1 /\ n # 1
    <3>1. m - 1 \in DOMAIN R /\ n - 1 \in DOMAIN R /\ Holds(R[m - 1], f) /\ Holds(R[n - 1], f)
      BY <2>4, <1>1, <1>3
    <3>2. m - 1 = n - 1
      BY <3>1 DEF RestOK
    <3>. QED BY <3>1, <3>2, <1>1
  <2>. QED BY <2>1, <2>2, <2>3, <2>4
<1>. QED BY <1>1, <1>2, <1>3 DEF RestOK

\* What is left when the innermost frame is gone.
LEMMA RestTodo ==
  ASSUME NEW F, NEW sv, NEW R, RestOK(R, F, sv)
  PROVE  TodoOK(R, F, sv)
<1>. SUFFICES ASSUME R # <<>> PROVE HeadOK(Head(R), Tail(R), F, sv) /\ RestOK(Tail(R), F, sv)
  BY DEF TodoOK, RestOK
<1>1. PICK a \in Frame, N \in Seq(Frame) : a = Head(R) /\ N = Tail(R) /\ R = <<a>> \o N
  BY PopIs DEF RestOK
<1>2. /\ DOMAIN R = 1 .. Len(N) + 1 /\ R[1] = a
      /\ Len(N) \in Nat /\ DOMAIN N = 1 .. Len(N)
      /\ \A n \in DOMAIN N : R[n + 1] = N[n]
  BY <1>1, PushIs
<1>3. 1 \in DOMAIN R /\ \A n \in DOMAIN N : n + 1 \in DOMAIN R /\ n + 1 # 1
  BY <1>2
<1>4. a.op # "segment" /\ FrameOK(a, F, sv)
  BY <1>2, <1>3 DEF RestOK
<1>5. \A n \in DOMAIN N : N[n].op # "segment" /\ FrameOK(N[n], F, sv)
  BY <1>2, <1>3 DEF RestOK
<1>6. \A f \in Fds : Holds(a, f) => NoFrame(N, f)
  BY <1>2, <1>3 DEF RestOK, NoFrame
<1>7. ASSUME NEW m \in DOMAIN N, NEW n \in DOMAIN N, NEW f \in Fds, Holds(N[m], f), Holds(N[n], f)
      PROVE  m = n
  <2>1. m + 1 = n + 1
    BY <1>2, <1>3, <1>7 DEF RestOK
  <2>. QED BY <2>1, <1>2
<1>. QED BY <1>1, <1>4, <1>5, <1>6, <1>7 DEF HeadOK, RestOK

\* Descriptors that no frame has may change.
LEMMA RestKept ==
  ASSUME NEW F, NEW G, NEW sv, NEW R, RestOK(R, F, sv),
         \A f \in Fds : G[f] = F[f] \/ NoFrame(R, f)
  PROVE  RestOK(R, G, sv)
<1>1. ASSUME NEW n \in DOMAIN R PROVE FrameOK(R[n], G, sv)
  <2>1. R[n] \in Frame /\ FrameOK(R[n], F, sv)
    <3>1. R \in Seq(Frame)
      BY DEF RestOK
    <3>2. R[n] \in Frame
      BY <3>1
    <3>. QED BY <3>2 DEF RestOK
  <2>2. R[n].op \in {"answer", "closed"} => R[n].fd \in Fds /\ G[R[n].fd] = F[R[n].fd]
    BY <2>1, FrameKinds DEF NoFrame, Holds
  <2>. QED BY <2>1, <2>2 DEF FrameOK
<1>. QED BY <1>1 DEF RestOK

-----------------------------------------------------------------------------
(* Descriptors keep their sockets.                                          *)

\* An open socket belongs to a host and another one.
SocketOK(h, t) == t.tcp.state \notin {"CLOSED", "LISTEN"} => t.in_use /\ t.peer \in Hosts \ {h}
SocketsOK(S) == \A h \in Hosts, i \in Slots : SocketOK(h, S[h][i])

FdsOK(F) == \A f \in Fds : F[f].in_use => F[f].host \in Hosts /\ F[f].slot \in Slots

\* A running server has had its descriptor on its own host.
ServerOK(F, sv) ==
  sv.running => /\ sv.fd \in Fds /\ sv.host \in Hosts
                /\ F[sv.fd].in_use /\ F[sv.fd].listening => F[sv.fd].host = sv.host

\* The descriptor of a call in progress is in use, on the caller's host.
CallOK(F, T, c) == c # Idle => /\ c.fd \in Fds /\ c.host \in Hosts
                               /\ F[c.fd].in_use /\ F[c.fd].host = c.host /\ NoFrame(T, c.fd)

\* The socket of a descriptor without a frame: nobody's child, in a state that
\* only its user can end.
PlainSocket(t, c) == /\ t.in_use /\ t.conn = c /\ t.parent = 0
                     /\ t.tcp.state \in {"SYN_SENT", "ESTABLISHED", "CLOSE_WAIT", "LISTEN"}

\* The socket that an answer goes to: a child that the server's side closes
\* first.  Two answers may share it.
AnswerSocket(t, c) == /\ t.in_use /\ t.conn = c /\ t.parent # 0
                      /\ t.tcp.state \in {"ESTABLISHED", "FIN_WAIT_1", "FIN_WAIT_2"}

Plain(F, T, f) == F[f].in_use /\ NoFrame(T, f)
Socket(S, F, f) == S[F[f].host][F[f].slot]
Together(F, f, g) == F[f].host = F[g].host /\ F[f].slot = F[g].slot

OwnersOK(S, F, T) ==
  /\ \A f \in Fds : Plain(F, T, f) => PlainSocket(Socket(S, F, f), F[f].conn)
  /\ \A f, g \in Fds : Plain(F, T, f) /\ Plain(F, T, g) /\ Together(F, f, g) => f = g
  /\ \A f \in Fds : Answered(T, f) => AnswerSocket(Socket(S, F, f), F[f].conn)

FlightOK == \A m \in BagToSet(flight) : m.to # m.from

DescriptorInv ==
  /\ TypeOK /\ SocketsOK(slots) /\ FdsOK(fds) /\ ServerOK(fds, server) /\ CallOK(fds, todo, call)
  /\ TodoOK(todo, fds, server) /\ FlightOK
  /\ ~cut => OwnersOK(slots, fds, todo)

\* The owners after slot i of host h has become u, whether descriptors have
\* been closed and frames have come and gone or not.  g is a descriptor that
\* has just been opened, if any.
LEMMA OwnersKept ==
  ASSUME NEW S \in Tables, NEW h \in Hosts, NEW i \in Slots, NEW u \in Slot,
         NEW F, FdsOK(F), NEW G, NEW T, NEW M, NEW g, OwnersOK(S, F, T),
         \A f \in Fds \ {g} : Plain(G, M, f) => G[f] = F[f] /\ Plain(F, T, f),
         \A f \in Fds \ {g} : Answered(M, f) => G[f] = F[f] /\ F[f].in_use /\ Answered(T, f),
         \A f \in Fds \ {g} : Plain(G, M, f) /\ F[f].host = h /\ F[f].slot = i /\
             PlainSocket(S[h][i], F[f].conn) => PlainSocket(u, F[f].conn),
         \A f \in Fds \ {g} : Answered(M, f) /\ F[f].host = h /\ F[f].slot = i /\
             AnswerSocket(S[h][i], F[f].conn) => AnswerSocket(u, F[f].conn),
         g \in Fds => /\ Plain(G, M, g) => /\ PlainSocket(Socket([S EXCEPT ![h][i] = u], G, g), G[g].conn)
                                           /\ \A f \in Fds \ {g} : Plain(G, M, f) => ~Together(G, f, g)
                      /\ Answered(M, g) => AnswerSocket(Socket([S EXCEPT ![h][i] = u], G, g), G[g].conn)
  PROVE  OwnersOK([S EXCEPT ![h][i] = u], G, M)
<1>. DEFINE N == [S EXCEPT ![h][i] = u]
<1>1. \A k \in Hosts, j \in Slots : N[k][j] = IF k = h /\ j = i THEN u ELSE S[k][j]
  BY SetSlot
<1>2. ASSUME NEW f \in Fds, Plain(G, M, f) PROVE PlainSocket(Socket(N, G, f), G[f].conn)
  <2>1. CASE f = g
    BY <1>2, <2>1
  <2>2. CASE f # g
    <3>1. G[f] = F[f] /\ Plain(F, T, f)
      BY <1>2, <2>2
    <3>2. F[f].host \in Hosts /\ F[f].slot \in Slots
      BY <3>1 DEF FdsOK, Plain
    <3>3. PlainSocket(S[F[f].host][F[f].slot], F[f].conn)
      BY <3>1 DEF OwnersOK, Socket
    <3>4. CASE F[f].host = h /\ F[f].slot = i
      <4>1. PlainSocket(u, F[f].conn)
        BY <1>2, <2>2, <3>3, <3>4
      <4>2. Socket(N, G, f) = u
        BY <1>1, <3>1, <3>4 DEF Socket
      <4>. QED BY <3>1, <4>1, <4>2
    <3>5. CASE ~(F[f].host = h /\ F[f].slot = i)
      <4>1. Socket(N, G, f) = S[F[f].host][F[f].slot]
        BY <1>1, <3>1, <3>2, <3>5 DEF Socket
      <4>. QED BY <3>1, <3>3, <4>1
    <3>. QED BY <3>4, <3>5
  <2>. QED BY <2>1, <2>2
<1>3. ASSUME NEW f \in Fds, Answered(M, f) PROVE AnswerSocket(Socket(N, G, f), G[f].conn)
  <2>1. CASE f = g
    BY <1>3, <2>1
  <2>2. CASE f # g
    <3>1. G[f] = F[f] /\ F[f].in_use /\ Answered(T, f)
      BY <1>3, <2>2
    <3>2. F[f].host \in Hosts /\ F[f].slot \in Slots
      BY <3>1 DEF FdsOK
    <3>3. AnswerSocket(S[F[f].host][F[f].slot], F[f].conn)
      BY <3>1 DEF OwnersOK, Socket
    <3>4. CASE F[f].host = h /\ F[f].slot = i
      <4>1. AnswerSocket(u, F[f].conn)
        BY <1>3, <2>2, <3>3, <3>4
      <4>2. Socket(N, G, f) = u
        BY <1>1, <3>1, <3>4 DEF Socket
      <4>. QED BY <3>1, <4>1, <4>2
    <3>5. CASE ~(F[f].host = h /\ F[f].slot = i)
      <4>1. Socket(N, G, f) = S[F[f].host][F[f].slot]
        BY <1>1, <3>1, <3>2, <3>5 DEF Socket
      <4>. QED BY <3>1, <3>3, <4>1
    <3>. QED BY <3>4, <3>5
  <2>. QED BY <2>1, <2>2
<1>4. ASSUME NEW f \in Fds, NEW k \in Fds, Plain(G, M, f), Plain(G, M, k), Together(G, f, k)
      PROVE  f = k
  <2>1. CASE f = g
    BY <1>4, <2>1 DEF Together
  <2>2. CASE k = g
    BY <1>4, <2>2 DEF Together
  <2>3. CASE f # g /\ k # g
    <3>1. G[f] = F[f] /\ Plain(F, T, f) /\ G[k] = F[k] /\ Plain(F, T, k)
      BY <1>4, <2>3
    <3>2. Together(F, f, k)
      BY <1>4, <3>1 DEF Together
    <3>. QED BY <3>1, <3>2 DEF OwnersOK
  <2>. QED BY <2>1, <2>2, <2>3
<1>. QED BY <1>2, <1>3, <1>4 DEF OwnersOK

LEMMA SocketsKept ==
  ASSUME NEW S \in Tables, SocketsOK(S), NEW h \in Hosts, NEW i \in Slots, NEW u \in Slot,
         SocketOK(h, u)
  PROVE  SocketsOK([S EXCEPT ![h][i] = u])
BY SetSlot DEF SocketsOK

\* What a socket sends.
LEMMA OutIs ==
  ASSUME NEW h \in Hosts, NEW t \in Slot, NEW seg \in Tcp!Segment, t.peer \in Hosts \ {h}
  PROVE  LET m == Out(h, t, seg)
         IN /\ m \in Segment /\ m \in Frame /\ m.op = "segment" /\ m.to = t.peer /\ m.from = h
            /\ m.sport = t.lport /\ m.dport = t.rport /\ m.conn = t.conn /\ m.tcp = seg
            /\ \A F, sv : FrameOK(m, F, sv)
            /\ \A f : ~Holds(m, f)
BY FrameKinds DEF Out, Segment, Slot, FrameOK, Holds

LEMMA SendsIs ==
  ASSUME slots \in Tables, NEW h \in Hosts, NEW i \in Slots, NEW rest,
         SocketOK(h, slots[h][i]), CanSend(slots[h][i]), Sends(h, i, rest)
  PROVE  \E u \in Slot, m \in Segment :
           /\ slots' = [slots EXCEPT ![h][i] = u] /\ todo' = <<m>> \o rest
           /\ Same(slots[h][i], u) /\ u.tcp.state = "ESTABLISHED" /\ slots[h][i].tcp.state = "ESTABLISHED"
           /\ m = Out(h, slots[h][i], m.tcp) /\ m.tcp \in Tcp!Segment /\ "FIN" \notin m.tcp.flags
           /\ slots[h][i].in_use /\ slots[h][i].peer \in Hosts \ {h}
<1>1. PICK t \in Slot : t = slots[h][i]
  BY DEF Tables
<1>2. t.tcp \in Tcp!Socket /\ t.tcp.state = "ESTABLISHED"
  BY <1>1 DEF Slot, CanSend, Tcp!CanSend
<1>3. t.in_use /\ t.peer \in Hosts \ {h}
  BY <1>1, <1>2 DEF SocketOK
<1>4. PICK s \in Tcp!Socket : s = Tcp!Send(t.tcp, Unit) /\ s.state = "ESTABLISHED"
  BY <1>2, SendIs
<1>5. PICK u \in Slot : u = [t EXCEPT !.tcp = s] /\ u.tcp = s /\ Same(t, u)
  BY SetTcp
<1>6. slots' = [slots EXCEPT ![h][i].tcp = s]
  BY <1>1, <1>4 DEF Sends, Tables
<1>7. slots' = [slots EXCEPT ![h][i] = u]
  BY <1>1, <1>5, <1>6, SetSlotTcp
<1>8. Data(t.tcp) \in Tcp!Segment /\ "FIN" \notin Data(t.tcp).flags
  BY <1>2, SentTyped
<1>9. PICK m \in Segment : m = Out(h, t, Data(t.tcp)) /\ m.tcp = Data(t.tcp)
  BY <1>3, <1>8, OutIs
<1>10. todo' = <<m>> \o rest
  BY <1>1, <1>9 DEF Sends
<1>. QED BY <1>1, <1>2, <1>3, <1>4, <1>5, <1>7, <1>8, <1>9, <1>10

\* The states before and after a local close.
HalfClosed(old, new) == \/ old = "ESTABLISHED" /\ new = "FIN_WAIT_1"
                        \/ old = "CLOSE_WAIT" /\ new = "LAST_ACK"

\* tcp_socket_close of a socket of a table, and its FIN.
LEMMA ClosesIs ==
  ASSUME NEW S \in Tables, NEW h \in Hosts, NEW i \in Slots, SocketOK(h, S[h][i]),
         Tcp!CanClose(S[h][i].tcp)
  PROVE  \E u \in Slot, m \in Segment :
           /\ [S EXCEPT ![h][i].tcp = Tcp!Close(@)] = [S EXCEPT ![h][i] = u]
           /\ m = Out(h, S[h][i], Fin(S[h][i].tcp)) /\ m = Out(h, S[h][i], m.tcp)
           /\ m.tcp \in Tcp!Segment
           /\ Same(S[h][i], u) /\ S[h][i].in_use /\ S[h][i].peer \in Hosts \ {h}
           /\ HalfClosed(S[h][i].tcp.state, u.tcp.state)
<1>1. PICK t \in Slot : t = S[h][i]
  BY DEF Tables
<1>2. t.tcp \in Tcp!Socket /\ t.tcp.state \in {"ESTABLISHED", "CLOSE_WAIT"}
  BY <1>1 DEF Slot, Tcp!CanClose
<1>3. t.in_use /\ t.peer \in Hosts \ {h}
  BY <1>1, <1>2 DEF SocketOK
<1>4. PICK s \in Tcp!Socket : s = Tcp!Close(t.tcp) /\
         s.state = IF t.tcp.state = "ESTABLISHED" THEN "FIN_WAIT_1" ELSE "LAST_ACK"
  BY <1>2, CloseIs
<1>5. PICK u \in Slot : u = [t EXCEPT !.tcp = s] /\ u.tcp = s /\ Same(t, u)
  BY SetTcp
<1>6. [S EXCEPT ![h][i].tcp = Tcp!Close(@)] = [S EXCEPT ![h][i].tcp = s]
  BY <1>1, <1>4 DEF Tables
<1>7. [S EXCEPT ![h][i].tcp = s] = [S EXCEPT ![h][i] = u]
  BY <1>1, <1>5, SetSlotTcp
<1>8. Fin(t.tcp) \in Tcp!Segment
  BY <1>2, SentTyped
<1>9. PICK m \in Segment : m = Out(h, t, Fin(t.tcp)) /\ m.tcp = Fin(t.tcp)
  BY <1>3, <1>8, OutIs
<1>10. [S EXCEPT ![h][i].tcp = Tcp!Close(@)] = [S EXCEPT ![h][i] = u]
  BY <1>6, <1>7
<1>11. m = Out(h, S[h][i], Fin(S[h][i].tcp)) /\ m = Out(h, S[h][i], m.tcp) /\ m.tcp \in Tcp!Segment
  BY <1>1, <1>8, <1>9
<1>12. HalfClosed(S[h][i].tcp.state, u.tcp.state)
  BY <1>1, <1>2, <1>4, <1>5 DEF HalfClosed
<1>13. Same(S[h][i], u) /\ S[h][i].in_use /\ S[h][i].peer \in Hosts \ {h}
  BY <1>1, <1>3, <1>5
<1>. QED BY <1>10, <1>11, <1>12, <1>13, Zenon

\* tcp_socket_recv of a socket.
LEMMA ReadsIs ==
  ASSUME slots \in Tables, NEW h \in Hosts, NEW i \in Slots, NEW max \in Nat
  PROVE  \E u \in Slot : /\ Reads(h, i, max) = [slots EXCEPT ![h][i] = u]
                         /\ Same(slots[h][i], u) /\ u.tcp.state = slots[h][i].tcp.state
<1>1. PICK t \in Slot : t = slots[h][i]
  BY DEF Tables
<1>2. t.tcp \in Tcp!Socket
  BY <1>1 DEF Slot
<1>3. PICK s \in Tcp!Socket : s = Tcp!Recv(t.tcp, max) /\ s.state = t.tcp.state
  BY <1>2, RecvIs
<1>4. PICK u \in Slot : u = [t EXCEPT !.tcp = s] /\ u.tcp = s /\ Same(t, u)
  BY SetTcp
<1>5. Reads(h, i, max) = [slots EXCEPT ![h][i].tcp = s]
  BY <1>1, <1>3 DEF Reads, Tables
<1>6. [slots EXCEPT ![h][i].tcp = s] = [slots EXCEPT ![h][i] = u]
  BY <1>1, <1>4, SetSlotTcp
<1>. QED BY <1>1, <1>3, <1>4, <1>5, <1>6

LEMMA ClosedFrame ==
  ASSUME NEW f \in Fds
  PROVE  LET c == [op |-> "closed", fd |-> f] IN c \in Frame /\ c.op = "closed" /\ c.fd = f
BY DEF Frame

\* magi_close keeps everything in order: a descriptor without a frame is alone
\* with its socket, and the one of an answer has a socket that no other kind
\* of descriptor has.
LEMMA MagiCloseIs ==
  ASSUME NEW S \in Tables, SocketsOK(S), fds \in [Fds -> Fd], FdsOK(fds), NEW f \in Fds,
         NEW rest, NEW sv, RestOK(rest, fds, sv), NoFrame(rest, f),
         NoAnswer(rest) \/ (fds[f].in_use => fds[f].host = sv.host),
         MagiClose(f, S, rest)
  PROVE  /\ slots' \in Tables /\ SocketsOK(slots') /\ fds' \in [Fds -> Fd] /\ FdsOK(fds')
         /\ TodoOK(todo', fds', sv)
         /\ \A g \in Fds : fds'[g] = fds[g] \/ (g = f /\ fds'[g] = FreeFd)
         /\ \A g \in Fds \ {f} : NoFrame(rest, g) => NoFrame(todo', g)
<1>1. CASE ~fds[f].in_use
  BY <1>1, RestTodo DEF MagiClose
<1>2. CASE fds[f].in_use
  <2>1. PICK h \in Hosts, i \in Slots : h = fds[f].host /\ i = fds[f].slot
    BY <1>2 DEF FdsOK
  <2>2. SocketOK(h, S[h][i])
    BY DEF SocketsOK
  <2>3. CASE Tcp!CanClose(S[h][i].tcp)
    <3>1. PICK u \in Slot, m \in Segment :
            /\ [S EXCEPT ![h][i].tcp = Tcp!Close(@)] = [S EXCEPT ![h][i] = u]
            /\ m = Out(h, S[h][i], Fin(S[h][i].tcp)) /\ m = Out(h, S[h][i], m.tcp) /\ m.tcp \in Tcp!Segment
            /\ Same(S[h][i], u) /\ S[h][i].in_use /\ S[h][i].peer \in Hosts \ {h}
      BY <2>2, <2>3, ClosesIs
    <3>2. /\ slots' = [S EXCEPT ![h][i] = u] /\ fds' = fds
          /\ todo' = <<m, [op |-> "closed", fd |-> f]>> \o rest
      BY <1>2, <2>1, <2>3, <3>1 DEF MagiClose
    <3>3. SocketOK(h, u)
      BY <3>1 DEF SocketOK, Same
    <3>4. slots' \in Tables /\ SocketsOK(slots')
      BY <3>2, <3>3, SetSlot, SocketsKept
    <3>5. PICK c \in Frame : c = [op |-> "closed", fd |-> f] /\ c.op = "closed" /\ c.fd = f
      BY ClosedFrame
    <3>6. HeadOK(c, rest, fds, sv)
      BY <1>2, <3>5 DEF HeadOK, FrameOK, Holds
    <3>7. PICK R : R = <<c>> \o rest /\ RestOK(R, fds, sv)
      BY <3>5, <3>6, PushRest
    <3>8. NoAnswer(R) <=> NoAnswer(rest)
      BY <3>5, <3>7, PushFrames DEF RestOK
    <3>9. S[h][i] \in Slot
      BY DEF Tables
    <3>10. m \in Frame /\ m.from = h /\ FrameOK(m, fds, sv) /\ \A k : ~Holds(m, k)
      BY <3>1, <3>9, OutIs
    <3>11. HeadOK(m, R, fds, sv)
      BY <1>2, <2>1, <3>8, <3>10 DEF HeadOK
    <3>12. todo' = <<m>> \o R
      BY <3>2, <3>5, <3>7, <3>10 DEF RestOK
    <3>13. TodoOK(todo', fds', sv)
      BY <3>2, <3>7, <3>10, <3>11, <3>12, PushTodo
    <3>14. \A g \in Fds \ {f} : NoFrame(rest, g) => NoFrame(todo', g)
      <4>1. \A g : NoFrame(R, g) <=> ~Holds(c, g) /\ NoFrame(rest, g)
        BY <3>5, <3>7, PushFrames DEF RestOK
      <4>2. \A g : NoFrame(todo', g) <=> ~Holds(m, g) /\ NoFrame(R, g)
        BY <3>7, <3>10, <3>12, PushFrames DEF RestOK
      <4>. QED BY <3>5, <3>10, <4>1, <4>2 DEF Holds
    <3>. QED BY <3>2, <3>4, <3>13, <3>14
  <2>4. CASE ~Tcp!CanClose(S[h][i].tcp)
    <3>1. PICK u \in Slot : u = IF S[h][i].tcp.state \in {"CLOSED", "LISTEN", "SYN_SENT", "SYN_RECEIVED"}
                                THEN FreeSlot ELSE S[h][i]
      BY FreeTypes DEF Tables
    <3>2. slots' = [S EXCEPT ![h][i] = u] /\ todo' = rest /\ fds' = [fds EXCEPT ![f] = FreeFd]
      BY <1>2, <2>1, <2>4, <3>1 DEF MagiClose, Tables
    <3>3. SocketOK(h, u)
      BY <2>2, <3>1, FreeTypes DEF SocketOK
    <3>4. slots' \in Tables /\ SocketsOK(slots')
      BY <3>2, <3>3, SetSlot, SocketsKept
    <3>5. \A g \in Fds : fds'[g] = IF g = f THEN FreeFd ELSE fds[g]
      BY <3>2
    <3>6. fds' \in [Fds -> Fd] /\ FdsOK(fds')
      BY <3>2, <3>5, FreeTypes DEF FdsOK
    <3>7. RestOK(rest, fds', sv)
      BY <3>5, RestKept
    <3>. QED BY <3>2, <3>4, <3>5, <3>6, <3>7, RestTodo
  <2>. QED BY <2>3, <2>4
<1>. QED BY <1>1, <1>2

LEMMA MagiCloseOwners ==
  ASSUME NEW S \in Tables, SocketsOK(S), fds \in [Fds -> Fd], FdsOK(fds), NEW f \in Fds,
         NEW rest, NEW sv, RestOK(rest, fds, sv), NoFrame(rest, f), MagiClose(f, S, rest),
         NEW T, OwnersOK(S, fds, T), fds[f].in_use => NoFrame(T, f) \/ Answered(T, f),
         \A g \in Fds \ {f} : NoFrame(rest, g) => NoFrame(T, g),
         \A g \in Fds : Answered(rest, g) => Answered(T, g)
  PROVE  OwnersOK(slots', fds', todo')
<1>1. \A g \in Fds : Answered(rest, g) => g # f /\ fds[g].in_use
  BY DEF RestOK, FrameOK, Answered, NoFrame, Holds
<1>2. CASE ~fds[f].in_use
  <2>1. slots' = S /\ todo' = rest /\ fds' = fds
    BY <1>2 DEF MagiClose
  <2>. QED BY <1>2, <2>1 DEF OwnersOK, Plain
<1>3. CASE fds[f].in_use
  <2>1. PICK h \in Hosts, i \in Slots : h = fds[f].host /\ i = fds[f].slot
    BY <1>3 DEF FdsOK
  <2>2. PICK t \in Slot : t = S[h][i]
    BY DEF Tables
  <2>3. SocketOK(h, S[h][i])
    BY DEF SocketsOK
  <2>4. Plain(fds, T, f) => PlainSocket(t, fds[f].conn)
    BY <2>1, <2>2 DEF OwnersOK, Socket
  <2>5. Answered(T, f) => AnswerSocket(t, fds[f].conn)
    BY <2>1, <2>2 DEF OwnersOK, Socket
  <2>6. Plain(fds, T, f) \/ Answered(T, f)
    BY <1>3 DEF Plain
  <2>7. CASE Tcp!CanClose(S[h][i].tcp)
    <3>1. PICK u \in Slot, m \in Segment :
            /\ [S EXCEPT ![h][i].tcp = Tcp!Close(@)] = [S EXCEPT ![h][i] = u]
            /\ m = Out(h, S[h][i], Fin(S[h][i].tcp)) /\ m = Out(h, S[h][i], m.tcp) /\ m.tcp \in Tcp!Segment
            /\ Same(S[h][i], u) /\ S[h][i].in_use /\ S[h][i].peer \in Hosts \ {h}
            /\ HalfClosed(S[h][i].tcp.state, u.tcp.state)
      BY <2>3, <2>7, ClosesIs
    <3>2. PICK c \in Frame : c = [op |-> "closed", fd |-> f] /\ c.op = "closed" /\ c.fd = f
      BY ClosedFrame
    <3>3. m \in Frame /\ (\A k : ~Holds(m, k)) /\ m.op = "segment"
      BY <2>2, <3>1, OutIs
    <3>4. PICK R \in Seq(Frame) : R = <<c>> \o rest
      BY <3>2, PushIs DEF RestOK
    <3>5. slots' = [S EXCEPT ![h][i] = u] /\ fds' = fds /\ todo' = <<m>> \o R
      <4>1. todo' = <<m, c>> \o rest /\ slots' = [S EXCEPT ![h][i] = u] /\ fds' = fds
        BY <1>3, <2>1, <2>2, <2>7, <3>1, <3>2 DEF MagiClose
      <4>2. <<m, c>> \o rest = <<m>> \o R
        BY <3>2, <3>3, <3>4 DEF RestOK
      <4>. QED BY <4>1, <4>2
    <3>6. /\ \A g : NoFrame(todo', g) => g # f /\ NoFrame(rest, g)
          /\ \A g : Answered(todo', g) => Answered(rest, g)
      <4>1. /\ \A g : NoFrame(R, g) <=> ~Holds(c, g) /\ NoFrame(rest, g)
            /\ \A g : Answered(R, g) <=> (c.op = "answer" /\ c.fd = g) \/ Answered(rest, g)
        BY <3>2, <3>4, PushFrames DEF RestOK
      <4>2. /\ \A g : NoFrame(todo', g) <=> ~Holds(m, g) /\ NoFrame(R, g)
            /\ \A g : Answered(todo', g) <=> (m.op = "answer" /\ m.fd = g) \/ Answered(R, g)
        BY <3>3, <3>5, PushFrames
      <4>. QED BY <3>2, <3>3, <4>1, <4>2 DEF Holds
    <3>7. \A g \in Fds \ {0} : Plain(fds', todo', g) => fds'[g] = fds[g] /\ Plain(fds, T, g)
      BY <3>5, <3>6 DEF Plain
    <3>8. \A g \in Fds \ {0} : Answered(todo', g) => fds'[g] = fds[g] /\ fds[g].in_use /\ Answered(T, g)
      BY <1>1, <3>5, <3>6
    <3>9. \A g \in Fds \ {0} : Plain(fds', todo', g) /\ fds[g].host = h /\ fds[g].slot = i /\
            PlainSocket(S[h][i], fds[g].conn) => PlainSocket(u, fds[g].conn)
      <4>. SUFFICES ASSUME NEW g \in Fds \ {0}, Plain(fds', todo', g), fds[g].host = h, fds[g].slot = i,
                           PlainSocket(S[h][i], fds[g].conn)
                    PROVE  PlainSocket(u, fds[g].conn)
        OBVIOUS
      <4>1. g # f /\ Plain(fds, T, g)
        BY <3>6, <3>7 DEF Plain
      <4>2. ~Plain(fds, T, f)
        BY <2>1, <4>1 DEF OwnersOK, Together
      <4>. QED BY <2>2, <2>5, <2>6, <4>2 DEF PlainSocket, AnswerSocket
    <3>10. \A g \in Fds \ {0} : Answered(todo', g) /\ fds[g].host = h /\ fds[g].slot = i /\
            AnswerSocket(S[h][i], fds[g].conn) => AnswerSocket(u, fds[g].conn)
      BY <2>2, <3>1 DEF AnswerSocket, Same, HalfClosed
    <3>11. 0 \notin Fds
      BY Sizes DEF Fds
    <3>12. OwnersOK([S EXCEPT ![h][i] = u], fds', todo')
      BY <3>7, <3>8, <3>9, <3>10, <3>11, OwnersKept
    <3>. QED BY <3>5, <3>12
  <2>8. CASE ~Tcp!CanClose(S[h][i].tcp)
    <3>1. PICK u \in Slot : u = IF t.tcp.state \in {"CLOSED", "LISTEN", "SYN_SENT", "SYN_RECEIVED"}
                                THEN FreeSlot ELSE t
      BY FreeTypes
    <3>2. slots' = [S EXCEPT ![h][i] = u] /\ todo' = rest /\ fds' = [fds EXCEPT ![f] = FreeFd]
      BY <1>3, <2>1, <2>2, <2>8, <3>1 DEF MagiClose, Tables
    <3>3. \A g \in Fds : fds'[g] = IF g = f THEN FreeFd ELSE fds[g]
      BY <3>2
    <3>4. \A g \in Fds \ {0} : Plain(fds', todo', g) => g # f /\ fds'[g] = fds[g] /\ Plain(fds, T, g)
      BY <3>2, <3>3, FreeTypes DEF Plain
    <3>5. \A g \in Fds \ {0} : Answered(todo', g) => fds'[g] = fds[g] /\ fds[g].in_use /\ Answered(T, g)
      BY <1>1, <3>2, <3>3
    <3>6. \A g \in Fds \ {0} : Plain(fds', todo', g) /\ fds[g].host = h /\ fds[g].slot = i /\
            PlainSocket(S[h][i], fds[g].conn) => PlainSocket(u, fds[g].conn)
      <4>. SUFFICES ASSUME NEW g \in Fds \ {0}, Plain(fds', todo', g), fds[g].host = h, fds[g].slot = i,
                           PlainSocket(S[h][i], fds[g].conn)
                    PROVE  PlainSocket(u, fds[g].conn)
        OBVIOUS
      <4>1. g # f /\ Plain(fds, T, g)
        BY <3>4
      <4>2. ~Plain(fds, T, f)
        BY <2>1, <4>1 DEF OwnersOK, Together
      <4>. QED BY <2>2, <2>5, <2>6, <4>2 DEF PlainSocket, AnswerSocket
    <3>7. \A g \in Fds \ {0} : Answered(todo', g) /\ fds[g].host = h /\ fds[g].slot = i /\
            AnswerSocket(S[h][i], fds[g].conn) => AnswerSocket(u, fds[g].conn)
      BY <2>2, <3>1 DEF AnswerSocket
    <3>8. 0 \notin Fds
      BY Sizes DEF Fds
    <3>9. \A g \in Fds \ {0} : Plain(fds', todo', g) => fds'[g] = fds[g] /\ Plain(fds, T, g)
      BY <3>4
    <3>10. OwnersOK([S EXCEPT ![h][i] = u], fds', todo')
      BY <3>9, <3>5, <3>6, <3>7, <3>8, OwnersKept
    <3>. QED BY <3>2, <3>10
  <2>. QED BY <2>7, <2>8
<1>. QED BY <1>2, <1>3

-----------------------------------------------------------------------------
(* The invariant holds initially and is kept by each action.                *)

LEMMA EmptyFlight == BagToSet(EmptyBag) = {}
BY DEF BagToSet, EmptyBag, SetToBag

LEMMA DescriptorInit == Init => DescriptorInv
<1>. SUFFICES ASSUME Init PROVE DescriptorInv
  OBVIOUS
<1>1. \A f \in Fds : ~fds[f].in_use /\ fds[f] = FreeFd
  BY FreeTypes DEF Init
<1>2. \A h \in Hosts, i \in Slots : slots[h][i] = FreeSlot
  BY DEF Init
<1>3. todo = <<>> /\ call = Idle /\ flight = EmptyBag /\ ~server.running
  BY DEF Init
<1>4. TypeOK
  <2>1. /\ slots \in [Hosts -> [Slots -> Slot]] /\ fds \in [Fds -> Fd]
        /\ next_port \in [Hosts -> 0 .. MaxPort] /\ sock_fd \in [Hosts -> 0 .. MaxFds]
    BY Sizes, FreeTypes DEF Init
  <2>2. server \in [running : BOOLEAN, host : Hosts \cup {Nobody}, fd : 0 .. MaxFds]
    BY Sizes DEF Init
  <2>3. /\ delays \in BOOLEAN /\ cut \in BOOLEAN /\ mixed \in BOOLEAN
        /\ tried \in Conns /\ sent \in 0 .. MaxSends[delays]
    <3>1. delays \in BOOLEAN /\ cut = FALSE /\ mixed = FALSE /\ tried = 0 /\ sent = 0
      BY DEF Init
    <3>2. MaxSends[delays] \in Nat
      BY <3>1, MagiAssumption
    <3>3. 0 \in Conns /\ 0 \in 0 .. MaxSends[delays]
      BY <3>2, Sizes DEF Conns
    <3>. QED BY <3>1, <3>3, Zenon
  <2>4. (\A n \in DOMAIN todo : todo[n] \in Frame) /\ BagToSet(flight) \subseteq Segment /\ call \in Call
    BY <1>3, EmptyFlight DEF Call
  <2>. QED BY <2>1, <2>2, <2>3, <2>4 DEF TypeOK
<1>5. SocketsOK(slots) /\ FdsOK(fds) /\ ServerOK(fds, server) /\ CallOK(fds, todo, call)
  BY <1>1, <1>2, <1>3, FreeTypes DEF SocketsOK, SocketOK, FdsOK, ServerOK, CallOK
<1>6. TodoOK(todo, fds, server) /\ FlightOK
  BY <1>3, EmptyTodo, EmptyFlight DEF FlightOK
<1>7. OwnersOK(slots, fds, todo)
  BY <1>1, <1>3, EmptyTodo DEF OwnersOK, Plain
<1>. QED BY <1>4, <1>5, <1>6, <1>7 DEF DescriptorInv

LEMMA DescriptorTypes ==
  ASSUME DescriptorInv
  PROVE  /\ slots \in Tables /\ SocketsOK(slots) /\ fds \in [Fds -> Fd] /\ FdsOK(fds)
         /\ next_port \in [Hosts -> 0 .. MaxPort] /\ sock_fd \in [Hosts -> 0 .. MaxFds]
         /\ server \in [running : BOOLEAN, host : Hosts \cup {Nobody}, fd : 0 .. MaxFds]
         /\ server.fd \in 0 .. MaxFds
         /\ TodoOK(todo, fds, server) /\ todo \in Seq(Frame)
         /\ BagToSet(flight) \subseteq Segment /\ call \in Call
         /\ tried \in Conns /\ cut \in BOOLEAN /\ mixed \in BOOLEAN /\ delays \in BOOLEAN
         /\ sent \in 0 .. MaxSends[delays] /\ MaxSends[delays] \in Nat
<1>1. MaxSends[delays] \in Nat
  BY MagiAssumption DEF DescriptorInv, TypeOK
<1>2. todo \in Seq(Frame)
  BY DEF DescriptorInv, TodoOK
<1>3. server.fd \in 0 .. MaxFds
  BY DEF DescriptorInv, TypeOK
<1>. QED BY <1>1, <1>2, <1>3 DEF DescriptorInv, TypeOK, Tables

\* The parts of the invariant that a step has to keep.
LEMMA Assemble ==
  ASSUME DescriptorInv, delays' = delays,
         slots' \in Tables, SocketsOK(slots'), fds' \in [Fds -> Fd], FdsOK(fds'),
         next_port' \in [Hosts -> 0 .. MaxPort], sock_fd' \in [Hosts -> 0 .. MaxFds],
         server' \in [running : BOOLEAN, host : Hosts \cup {Nobody}, fd : 0 .. MaxFds],
         ServerOK(fds', server'), call' \in Call, CallOK(fds', todo', call'),
         TodoOK(todo', fds', server'),
         flight' = flight \/ \A m \in BagToSet(flight') : m \in Segment /\ m.to # m.from,
         tried' \in Conns, sent' \in 0 .. MaxSends[delays], cut' \in BOOLEAN, mixed' \in BOOLEAN,
         ~cut' => OwnersOK(slots', fds', todo')
  PROVE  DescriptorInv'
<1>1. \A n \in DOMAIN todo' : todo'[n] \in Frame
  <2>1. todo' \in Seq(Frame)
    BY DEF TodoOK
  <2>. QED BY <2>1
<1>2. BagToSet(flight') \subseteq Segment /\ \A m \in BagToSet(flight') : m.to # m.from
  BY DEF DescriptorInv, TypeOK, FlightOK
<1>3. TypeOK'
  BY <1>1, <1>2, DescriptorTypes DEF TypeOK, Tables
<1>. QED BY <1>2, <1>3 DEF DescriptorInv, FlightOK

LEMMA SourcePortIs ==
  ASSUME NEW table, NEW h \in Hosts, NEW peer, next_port \in [Hosts -> 0 .. MaxPort]
  PROVE  SourcePort(table, h, peer) \in 0 .. MaxPort
<1>. DEFINE start == IF next_port[h] = 0 THEN 1 ELSE next_port[h]
            used(p) == \E i \in Slots : /\ table[i].in_use /\ table[i].tcp.state # "CLOSED"
                                        /\ table[i].lport = p
                                        /\ table[i].rport = Http /\ table[i].peer = peer
            after(n) == ((start - 1 + n) % MaxPort) + 1
            n == {k \in 0 .. MaxPort - 1 : ~used(after(k))}
<1>1. SourcePort(table, h, peer) = IF n = {} THEN 0 ELSE after(FirstOf(n))
  BY DEF SourcePort
<1>2. start \in 1 .. MaxPort
  BY Sizes
<1>3. n \in SUBSET Nat
  BY Sizes
<1>4. CASE n = {}
  BY <1>1, <1>4, Sizes
<1>5. CASE n # {}
  <2>1. FirstOf(n) \in Nat
    BY <1>3, <1>5, FirstOfIs
  <2>. HIDE DEF n, start
  <2>2. PICK k \in Nat : k = start - 1 + FirstOf(n)
    BY <2>1, <1>2
  <2>3. k % MaxPort \in 0 .. MaxPort - 1
    BY Sizes
  <2>. QED BY <1>1, <1>5, <2>2, <2>3, Sizes
<1>. QED BY <1>4, <1>5

\* A slot that can be given out belongs to no descriptor.
LEMMA AllocNotOwned ==
  ASSUME NEW h, NEW i, i = Alloc(slots[h]), i # 0
  PROVE  /\ i \in Slots
         /\ \A c : ~PlainSocket(slots[h][i], c) /\ ~AnswerSocket(slots[h][i], c)
<1>1. i \in Slots /\ (slots[h][i].in_use => slots[h][i].tcp.state = "TIME_WAIT")
  BY AllocIs
<1>. QED BY <1>1 DEF PlainSocket, AnswerSocket

\* A socket without a descriptor in such a slot.
LEMMA AllocKept ==
  ASSUME NEW S \in Tables, NEW h \in Hosts, NEW i \in Slots, NEW u \in Slot, NEW F, FdsOK(F),
         NEW T, NEW M, OwnersOK(S, F, T),
         \A c : ~PlainSocket(S[h][i], c) /\ ~AnswerSocket(S[h][i], c),
         \A f \in Fds : F[f].in_use /\ NoFrame(M, f) => NoFrame(T, f),
         \A f \in Fds : Answered(M, f) => F[f].in_use /\ Answered(T, f)
  PROVE  OwnersOK([S EXCEPT ![h][i] = u], F, M)
<1>1. \A f \in Fds \ {0} : Plain(F, M, f) => F[f] = F[f] /\ Plain(F, T, f)
  BY DEF Plain
<1>2. \A f \in Fds \ {0} : Answered(M, f) => F[f] = F[f] /\ F[f].in_use /\ Answered(T, f)
  OBVIOUS
<1>3. 0 \notin Fds
  BY Sizes DEF Fds
<1>. QED BY <1>1, <1>2, <1>3, OwnersKept

\* What a connect does to the tables.
LEMMA ConnectsIs ==
  ASSUME DescriptorInv, NEW h \in Hosts, NEW peer \in Hosts \ {h}, NEW i \in Slots, NEW p \in SrcPorts,
         tried < MaxConns, Connects(h, peer, i, p)
  PROVE  \E t \in Slot, m \in Segment :
           /\ slots' = [slots EXCEPT ![h][i] = t]
           /\ t.in_use /\ t.tcp.state = "SYN_SENT" /\ t.lport = p /\ t.rport = Http
           /\ t.peer = peer /\ t.parent = 0 /\ t.conn = tried + 1
           /\ m = Out(h, t, Syn) /\ todo' = <<m>>
           /\ next_port' = [next_port EXCEPT ![h] = (p % MaxPort) + 1]
           /\ next_port' \in [Hosts -> 0 .. MaxPort]
           /\ tried' = tried + 1 /\ tried' \in Conns
           /\ slots' \in Tables /\ SocketsOK(slots')
           /\ \A F, sv : TodoOK(todo', F, sv)
           /\ \A f : NoFrame(todo', f) /\ ~Answered(todo', f)
<1>1. PICK t : t = [FreeSlot EXCEPT !.in_use = TRUE, !.lport = p, !.rport = Http, !.peer = peer,
                                    !.conn = tried + 1, !.tcp = Tcp!Connect(Isn)]
  OBVIOUS
<1>2. tried + 1 \in Conns /\ p \in TcpPorts /\ Http \in TcpPorts
  BY DescriptorTypes, Sizes DEF Conns, TcpPorts
<1>3. t \in Slot
  BY <1>1, <1>2, FreeTypes, ConnectIs DEF Slot
<1>4. /\ t.in_use /\ t.tcp.state = "SYN_SENT" /\ t.lport = p /\ t.rport = Http
      /\ t.peer = peer /\ t.parent = 0 /\ t.conn = tried + 1
  BY <1>1, ConnectIs DEF FreeSlot
<1>5. PICK m \in Segment : m = Out(h, t, Syn)
  BY <1>3, <1>4, SentTyped, OutIs, FreeSocketTyped
<1>6. /\ slots' = [slots EXCEPT ![h][i] = t] /\ todo' = <<m>> /\ tried' = tried + 1
      /\ next_port' = [next_port EXCEPT ![h] = (p % MaxPort) + 1]
  BY <1>1, <1>5 DEF Connects
<1>7. next_port' \in [Hosts -> 0 .. MaxPort]
  <2>1. (p % MaxPort) + 1 \in 0 .. MaxPort
    BY Sizes DEF SrcPorts
  <2>. QED BY <2>1, <1>6, DescriptorTypes
<1>8. slots' \in Tables /\ SocketsOK(slots')
  BY <1>3, <1>4, <1>6, DescriptorTypes, SetSlot, SocketsKept DEF SocketOK
<1>9. /\ m \in Frame /\ m.op = "segment" /\ \A F, sv : FrameOK(m, F, sv)
      /\ \A f : ~Holds(m, f)
  BY <1>3, <1>4, <1>5, SentTyped, OutIs, FreeSocketTyped
<1>10. todo' = <<m>> \o <<>>
  BY <1>6, <1>9
<1>11. \A F, sv : HeadOK(m, <<>>, F, sv)
  BY <1>9, EmptyTodo DEF HeadOK
<1>12. \A F, sv : TodoOK(todo', F, sv)
  BY <1>9, <1>10, <1>11, EmptyTodo, PushTodo
<1>13. \A f : NoFrame(todo', f) /\ ~Answered(todo', f)
  BY <1>9, <1>10, EmptyTodo, PushFrames
<1>14. tried' \in Conns
  BY <1>2, <1>6
<1>. QED BY <1>3, <1>4, <1>5, <1>6, <1>7, <1>8, <1>12, <1>13, <1>14

\* A descriptor that has just been opened.
LEMMA OpenedIs ==
  ASSUME NEW h \in Hosts, NEW i \in 0 .. MaxSlots, NEW n \in Conns
  PROVE  \E d \in Fd : /\ d = [in_use |-> TRUE, host |-> h, slot |-> i, listening |-> FALSE, conn |-> n]
                       /\ d.in_use /\ d.host = h /\ d.slot = i /\ ~d.listening /\ d.conn = n
<1>1. PICK d : d = [in_use |-> TRUE, host |-> h, slot |-> i, listening |-> FALSE, conn |-> n]
  OBVIOUS
<1>2. d \in Fd
  BY <1>1 DEF Fd
<1>3. d.in_use /\ d.host = h /\ d.slot = i /\ ~d.listening /\ d.conn = n
  BY <1>1
<1>. QED BY <1>1, <1>2, <1>3

LEMMA StartConnectKeeps ==
  ASSUME DescriptorInv, UNCHANGED delays, NEW h \in Hosts, NEW peer \in Hosts,
         NEW stage \in {"sock_connect", "http_connect"}, StartConnect(h, peer, stage)
  PROVE  DescriptorInv'
<1>1. PICK f, i, p : f = NewFd /\ i = Alloc(slots[h]) /\ p = ConnectPort(h, peer)
  OBVIOUS
<1>2. /\ f \in Fds /\ ~fds[f].in_use /\ i \in Slots /\ p \in SrcPorts /\ peer \in Hosts \ {h}
      /\ tried < MaxConns /\ Ready /\ i # 0
  <2>1. p \in 0 .. MaxPort
    BY <1>1, SourcePortIs, DescriptorTypes DEF ConnectPort
  <2>. QED BY <1>1, <2>1, NewFdIs, AllocIs, Sizes DEF StartConnect, SrcPorts
<1>3. /\ Connects(h, peer, i, p)
      /\ fds' = [fds EXCEPT ![f] = [in_use |-> TRUE, host |-> h, slot |-> i,
                                    listening |-> FALSE, conn |-> tried + 1]]
      /\ call' = [stage |-> stage, host |-> h, fd |-> f]
      /\ UNCHANGED <<sock_fd, server, flight, sent, cut, mixed>>
  BY <1>1 DEF StartConnect
<1>4. PICK t \in Slot, m \in Segment :
           /\ slots' = [slots EXCEPT ![h][i] = t]
           /\ t.in_use /\ t.tcp.state = "SYN_SENT" /\ t.lport = p /\ t.rport = Http
           /\ t.peer = peer /\ t.parent = 0 /\ t.conn = tried + 1
           /\ m = Out(h, t, Syn) /\ todo' = <<m>>
           /\ next_port' = [next_port EXCEPT ![h] = (p % MaxPort) + 1]
           /\ next_port' \in [Hosts -> 0 .. MaxPort]
           /\ tried' = tried + 1 /\ tried' \in Conns
           /\ slots' \in Tables /\ SocketsOK(slots')
           /\ \A F, sv : TodoOK(todo', F, sv)
           /\ \A k : NoFrame(todo', k) /\ ~Answered(todo', k)
  BY <1>2, <1>3, ConnectsIs
<1>5. PICK d \in Fd : /\ d = [in_use |-> TRUE, host |-> h, slot |-> i, listening |-> FALSE, conn |-> tried + 1]
                      /\ d.in_use /\ d.host = h /\ d.slot = i /\ ~d.listening /\ d.conn = tried + 1
  <2>1. tried + 1 \in Conns /\ i \in 0 .. MaxSlots
    BY <1>2, <1>4, Sizes DEF Slots
  <2>. QED BY <2>1, OpenedIs
<1>6. /\ fds' = [fds EXCEPT ![f] = d] /\ fds' \in [Fds -> Fd]
      /\ \A k \in Fds : fds'[k] = IF k = f THEN d ELSE fds[k]
  BY <1>2, <1>3, <1>5, DescriptorTypes
<1>7. FdsOK(fds') /\ ServerOK(fds', server')
  BY <1>2, <1>3, <1>5, <1>6 DEF DescriptorInv, FdsOK, ServerOK
<1>8. call' \in Call /\ CallOK(fds', todo', call')
  BY <1>2, <1>3, <1>4, <1>5, <1>6 DEF Call, CallOK
<1>9. ASSUME ~cut PROVE OwnersOK(slots', fds', todo')
  <2>1. OwnersOK(slots, fds, todo) /\ todo = <<>>
    BY <1>2, <1>9 DEF DescriptorInv, Ready
  <2>2. \A k \in Fds \ {f} : Plain(fds', todo', k) => fds'[k] = fds[k] /\ Plain(fds, todo, k)
    BY <1>6, <2>1, EmptyTodo DEF Plain
  <2>3. \A c : ~PlainSocket(slots[h][i], c) /\ ~AnswerSocket(slots[h][i], c)
    BY <1>1, <1>2, AllocNotOwned
  <2>4. PlainSocket(Socket(slots', fds', f), fds'[f].conn)
    <3>1. Socket(slots', fds', f) = t /\ fds'[f].conn = tried + 1
      BY <1>2, <1>4, <1>5, <1>6, SetSlot, DescriptorTypes DEF Socket
    <3>. QED BY <3>1, <1>4 DEF PlainSocket
  <2>5. \A k \in Fds \ {f} : Plain(fds', todo', k) => ~Together(fds', k, f)
    <3>. SUFFICES ASSUME NEW k \in Fds \ {f}, Plain(fds', todo', k), Together(fds', k, f) PROVE FALSE
      OBVIOUS
    <3>1. fds[k].host = h /\ fds[k].slot = i /\ Plain(fds, todo, k)
      BY <1>2, <1>5, <1>6, <2>2 DEF Together
    <3>2. PlainSocket(slots[h][i], fds[k].conn)
      BY <2>1, <3>1 DEF OwnersOK, Socket
    <3>. QED BY <2>3, <3>2
  <2>6. slots \in Tables /\ FdsOK(fds)
    BY DescriptorTypes
  <2>7. OwnersOK([slots EXCEPT ![h][i] = t], fds', todo')
    BY <1>2, <1>4, <2>1, <2>2, <2>3, <2>4, <2>5, <2>6, OwnersKept
  <2>. QED BY <1>4, <2>7
<1>. QED BY <1>3, <1>4, <1>6, <1>7, <1>8, <1>9, DescriptorTypes, Assemble

LEMMA TcpConnectKeeps ==
  ASSUME DescriptorInv, UNCHANGED delays, NEW h \in Hosts, NEW peer \in Hosts, TcpConnect(h, peer)
  PROVE  DescriptorInv'
<1>1. PICK i, p : i = Alloc(slots[h]) /\ p = ConnectPort(h, peer)
  OBVIOUS
<1>2. /\ i \in Slots /\ p \in SrcPorts /\ peer \in Hosts \ {h}
      /\ tried < MaxConns /\ Ready /\ i # 0
  <2>1. p \in 0 .. MaxPort
    BY <1>1, SourcePortIs, DescriptorTypes DEF ConnectPort
  <2>. QED BY <1>1, <2>1, AllocIs, Sizes DEF TcpConnect, SrcPorts
<1>3. /\ Connects(h, peer, i, p)
      /\ UNCHANGED <<sock_fd, fds, server, call, flight, sent, cut, mixed>>
  BY <1>1 DEF TcpConnect
<1>4. PICK t \in Slot, m \in Segment :
           /\ slots' = [slots EXCEPT ![h][i] = t]
           /\ t.in_use /\ t.tcp.state = "SYN_SENT" /\ t.lport = p /\ t.rport = Http
           /\ t.peer = peer /\ t.parent = 0 /\ t.conn = tried + 1
           /\ m = Out(h, t, Syn) /\ todo' = <<m>>
           /\ next_port' = [next_port EXCEPT ![h] = (p % MaxPort) + 1]
           /\ next_port' \in [Hosts -> 0 .. MaxPort]
           /\ tried' = tried + 1 /\ tried' \in Conns
           /\ slots' \in Tables /\ SocketsOK(slots')
           /\ \A F, sv : TodoOK(todo', F, sv)
           /\ \A k : NoFrame(todo', k) /\ ~Answered(todo', k)
  BY <1>2, <1>3, ConnectsIs
<1>5. ServerOK(fds', server') /\ CallOK(fds', todo', call')
  BY <1>2, <1>3 DEF DescriptorInv, CallOK, Ready
<1>6. ASSUME ~cut PROVE OwnersOK(slots', fds', todo')
  <2>1. OwnersOK(slots, fds, todo) /\ todo = <<>> /\ slots \in Tables /\ FdsOK(fds)
    BY <1>2, <1>6, DescriptorTypes DEF DescriptorInv, Ready
  <2>2. \A c : ~PlainSocket(slots[h][i], c) /\ ~AnswerSocket(slots[h][i], c)
    BY <1>1, <1>2, AllocNotOwned
  <2>3. OwnersOK([slots EXCEPT ![h][i] = t], fds, todo')
    BY <1>2, <1>4, <2>1, <2>2, EmptyTodo, AllocKept
  <2>. QED BY <1>3, <1>4, <2>3
<1>. QED BY <1>3, <1>4, <1>5, <1>6, DescriptorTypes, Assemble

\* The descriptors of answers in progress are in use.
LEMMA AnsweredInUse ==
  ASSUME NEW F, NEW sv, NEW T, TodoOK(T, F, sv), NEW f \in Fds, Answered(T, f)
  PROVE  F[f].in_use
<1>1. T # <<>> /\ T \in Seq(Frame)
  BY EmptyTodo DEF TodoOK
<1>2. PICK a \in Frame, R \in Seq(Frame) : a = Head(T) /\ R = Tail(T) /\ T = <<a>> \o R
  BY <1>1, PopIs
<1>3. HeadOK(a, R, F, sv) /\ RestOK(R, F, sv)
  BY <1>1, <1>2 DEF TodoOK
<1>4. (a.op = "answer" /\ a.fd = f) \/ Answered(R, f)
  BY <1>2, PushFrames
<1>. QED BY <1>3, <1>4 DEF HeadOK, RestOK, FrameOK, Answered

\* A slot whose socket keeps its connection and its state.
LEMMA SameKept ==
  ASSUME NEW S \in Tables, SocketsOK(S), NEW h \in Hosts, NEW i \in Slots, NEW u \in Slot,
         Same(S[h][i], u), u.tcp.state = S[h][i].tcp.state, NEW F, FdsOK(F), NEW T, NEW M,
         \A f \in Fds : F[f].in_use /\ NoFrame(M, f) => NoFrame(T, f),
         \A f \in Fds : Answered(M, f) => F[f].in_use /\ Answered(T, f)
  PROVE  LET N == [S EXCEPT ![h][i] = u]
         IN N \in Tables /\ SocketsOK(N) /\ (OwnersOK(S, F, T) => OwnersOK(N, F, M))
<1>1. SocketOK(h, u)
  BY DEF SocketsOK, SocketOK, Same
<1>2. \A f \in Fds \ {0} : Plain(F, M, f) => F[f] = F[f] /\ Plain(F, T, f)
  BY DEF Plain
<1>3. \A f \in Fds \ {0} : Answered(M, f) => F[f] = F[f] /\ F[f].in_use /\ Answered(T, f)
  OBVIOUS
<1>4. \A c : PlainSocket(S[h][i], c) => PlainSocket(u, c)
  BY DEF PlainSocket, Same
<1>5. \A c : AnswerSocket(S[h][i], c) => AnswerSocket(u, c)
  BY DEF AnswerSocket, Same
<1>6. 0 \notin Fds
  BY Sizes DEF Fds
<1>7. ASSUME OwnersOK(S, F, T) PROVE OwnersOK([S EXCEPT ![h][i] = u], F, M)
  <2>1. \A f \in Fds \ {0} : Plain(F, M, f) /\ F[f].host = h /\ F[f].slot = i /\
          PlainSocket(S[h][i], F[f].conn) => PlainSocket(u, F[f].conn)
    BY <1>4
  <2>2. \A f \in Fds \ {0} : Answered(M, f) /\ F[f].host = h /\ F[f].slot = i /\
          AnswerSocket(S[h][i], F[f].conn) => AnswerSocket(u, F[f].conn)
    BY <1>5
  <2>. QED BY <1>2, <1>3, <1>6, <1>7, <2>1, <2>2, OwnersKept
<1>. QED BY <1>1, <1>7, SetSlot, SocketsKept

\* A socket sends a unit, with the frames of rest left behind it.
LEMMA SendKeeps ==
  ASSUME DescriptorInv, NEW h \in Hosts, NEW i \in Slots, NEW rest, CanSend(slots[h][i]),
         Sends(h, i, rest), RestOK(rest, fds, server),
         \A f \in Fds : fds[f].in_use /\ NoFrame(rest, f) => NoFrame(todo, f),
         \A f \in Fds : Answered(rest, f) => Answered(todo, f)
  PROVE  /\ slots' \in Tables /\ SocketsOK(slots') /\ TodoOK(todo', fds, server)
         /\ ~cut => OwnersOK(slots', fds, todo')
         /\ \A f : NoFrame(todo', f) <=> NoFrame(rest, f)
<1>1. slots \in Tables /\ SocketsOK(slots) /\ FdsOK(fds) /\ SocketOK(h, slots[h][i])
  BY DescriptorTypes DEF SocketsOK
<1>2. PICK u \in Slot, m \in Segment :
           /\ slots' = [slots EXCEPT ![h][i] = u] /\ todo' = <<m>> \o rest
           /\ Same(slots[h][i], u) /\ u.tcp.state = "ESTABLISHED" /\ slots[h][i].tcp.state = "ESTABLISHED"
           /\ m = Out(h, slots[h][i], m.tcp) /\ m.tcp \in Tcp!Segment /\ "FIN" \notin m.tcp.flags
           /\ slots[h][i].in_use /\ slots[h][i].peer \in Hosts \ {h}
  BY <1>1, SendsIs
<1>3. slots[h][i] \in Slot
  BY <1>1 DEF Tables
<1>4. /\ m \in Frame /\ m.op = "segment" /\ FrameOK(m, fds, server) /\ \A f : ~Holds(m, f)
  BY <1>2, <1>3, OutIs
<1>5. HeadOK(m, rest, fds, server)
  BY <1>2, <1>4 DEF HeadOK
<1>6. TodoOK(todo', fds, server)
  BY <1>2, <1>4, <1>5, PushTodo
<1>7. rest \in Seq(Frame)
  BY DEF RestOK
<1>8. /\ \A f : NoFrame(todo', f) <=> NoFrame(rest, f)
      /\ \A f : Answered(todo', f) <=> Answered(rest, f)
  BY <1>2, <1>4, <1>7, PushFrames
<1>9. \A f \in Fds : fds[f].in_use /\ NoFrame(todo', f) => NoFrame(todo, f)
  BY <1>8
<1>10. \A f \in Fds : Answered(todo', f) => fds[f].in_use /\ Answered(todo, f)
  BY <1>8, AnsweredInUse, DescriptorTypes
<1>11. slots' \in Tables /\ SocketsOK(slots') /\ (OwnersOK(slots, fds, todo) => OwnersOK(slots', fds, todo'))
  BY <1>1, <1>2, <1>9, <1>10, SameKept
<1>. QED BY <1>6, <1>8, <1>11 DEF DescriptorInv

\* A socket is read.
LEMMA ReadKeeps ==
  ASSUME DescriptorInv, NEW h \in Hosts, NEW i \in Slots, NEW max \in Nat
  PROVE  LET N == Reads(h, i, max)
         IN N \in Tables /\ SocketsOK(N) /\ (~cut => OwnersOK(N, fds, todo))
<1>1. slots \in Tables /\ SocketsOK(slots) /\ FdsOK(fds)
  BY DescriptorTypes
<1>2. PICK u \in Slot : /\ Reads(h, i, max) = [slots EXCEPT ![h][i] = u]
                        /\ Same(slots[h][i], u) /\ u.tcp.state = slots[h][i].tcp.state
  BY <1>1, ReadsIs
<1>3. \A f \in Fds : Answered(todo, f) => fds[f].in_use /\ Answered(todo, f)
  BY AnsweredInUse, DescriptorTypes
<1>4. LET N == [slots EXCEPT ![h][i] = u]
      IN N \in Tables /\ SocketsOK(N) /\ (OwnersOK(slots, fds, todo) => OwnersOK(N, fds, todo))
  BY <1>1, <1>2, <1>3, SameKept
<1>. QED BY <1>2, <1>4 DEF DescriptorInv

\* No command is in progress.
LEMMA ReadyTodo ==
  ASSUME DescriptorInv, todo = <<>>
  PROVE  /\ RestOK(<<>>, fds, server) /\ (\A f : NoFrame(todo, f) /\ ~Answered(todo, f))
         /\ \A f : NoFrame(<<>>, f) /\ ~Answered(<<>>, f)
         /\ NoAnswer(<<>>)
BY EmptyTodo

LEMMA SockSendKeeps ==
  ASSUME DescriptorInv, UNCHANGED delays, NEW h \in Hosts, SockSend(h)
  PROVE  DescriptorInv'
<1>1. /\ todo = <<>> /\ call = Idle /\ sock_fd[h] \in Fds /\ fds[sock_fd[h]].in_use
      /\ sent < MaxSends[delays] /\ sent' = sent + 1
      /\ UNCHANGED <<next_port, sock_fd, fds, server, call, flight, tried, cut, mixed>>
  BY DescriptorTypes DEF SockSend, Ready, Fds
<1>2. PICK k \in Hosts, i \in Slots : k = fds[sock_fd[h]].host /\ i = fds[sock_fd[h]].slot
  BY <1>1, DescriptorTypes DEF FdsOK
<1>3. CanSend(slots[k][i]) /\ Sends(k, i, <<>>)
  BY <1>2 DEF SockSend
<1>4. slots' \in Tables /\ SocketsOK(slots') /\ TodoOK(todo', fds, server) /\ (~cut => OwnersOK(slots', fds, todo'))
  BY <1>1, <1>3, SendKeeps, ReadyTodo
<1>5. sent' \in 0 .. MaxSends[delays]
  BY <1>1, DescriptorTypes
<1>6. ServerOK(fds, server) /\ CallOK(fds, todo', call)
  BY <1>1 DEF DescriptorInv, CallOK
<1>. QED BY <1>1, <1>4, <1>5, <1>6, DescriptorTypes, Assemble

LEMMA SockRecvKeeps ==
  ASSUME DescriptorInv, UNCHANGED delays, NEW h \in Hosts, SockRecv(h)
  PROVE  DescriptorInv'
<1>1. /\ sock_fd[h] \in Fds /\ fds[sock_fd[h]].in_use
      /\ UNCHANGED <<next_port, sock_fd, fds, server, todo, call, flight, tried, sent, cut, mixed>>
  BY DescriptorTypes DEF SockRecv, Fds
<1>2. PICK k \in Hosts, i \in Slots : k = fds[sock_fd[h]].host /\ i = fds[sock_fd[h]].slot
  BY <1>1, DescriptorTypes DEF FdsOK
<1>3. slots' = Reads(k, i, BufferSize - 1) /\ BufferSize - 1 \in Nat
  BY <1>2, Sizes DEF SockRecv
<1>4. slots' \in Tables /\ SocketsOK(slots') /\ (~cut => OwnersOK(slots', fds, todo))
  BY <1>3, ReadKeeps
<1>. QED BY <1>1, <1>4, DescriptorTypes, Assemble DEF DescriptorInv

\* The first slot of a scan of a host's table.
LEMMA FirstInIs ==
  ASSUME NEW h, NEW states, NEW i, i = FirstIn(h, states), i # 0
  PROVE  i \in Slots /\ slots[h][i].in_use /\ slots[h][i].tcp.state \in states
<1>. DEFINE S == {j \in Slots : slots[h][j].in_use /\ slots[h][j].tcp.state \in states}
<1>1. S # {} => FirstOf(S) \in S
  BY FirstSlot
<1>2. S = {} => FirstOf(S) = 0
  BY FirstSlot
<1>3. i = FirstOf(S)
  BY DEF FirstIn
<1>. QED BY <1>1, <1>2, <1>3

LEMMA TcpSendKeeps ==
  ASSUME DescriptorInv, UNCHANGED delays, NEW h \in Hosts, TcpSend(h)
  PROVE  DescriptorInv'
<1>1. PICK i : i = FirstIn(h, {"ESTABLISHED"})
  OBVIOUS
<1>2. /\ todo = <<>> /\ call = Idle /\ i \in Slots
      /\ sent < MaxSends[delays] /\ sent' = sent + 1
      /\ UNCHANGED <<next_port, sock_fd, fds, server, call, flight, tried, cut, mixed>>
  BY <1>1, FirstInIs DEF TcpSend, Ready
<1>3. CanSend(slots[h][i]) /\ Sends(h, i, <<>>)
  BY <1>1 DEF TcpSend
<1>4. slots' \in Tables /\ SocketsOK(slots') /\ TodoOK(todo', fds, server) /\ (~cut => OwnersOK(slots', fds, todo'))
  BY <1>2, <1>3, SendKeeps, ReadyTodo
<1>5. sent' \in 0 .. MaxSends[delays]
  BY <1>2, DescriptorTypes
<1>6. ServerOK(fds, server) /\ CallOK(fds, todo', call)
  BY <1>2 DEF DescriptorInv, CallOK
<1>. QED BY <1>2, <1>4, <1>5, <1>6, DescriptorTypes, Assemble

LEMMA TcpRecvKeeps ==
  ASSUME DescriptorInv, UNCHANGED delays, NEW h \in Hosts, TcpRecv(h)
  PROVE  DescriptorInv'
<1>. DEFINE S == {j \in Slots : /\ slots[h][j].in_use
                                /\ \/ slots[h][j].tcp.state = "ESTABLISHED"
                                   \/ slots[h][j].tcp.data # <<>>}
<1>1. PICK i : i = FirstOf(S)
  OBVIOUS
<1>2. i # 0 /\ slots' = Reads(h, i, Len(Unit))
      /\ UNCHANGED <<next_port, sock_fd, fds, server, todo, call, flight, tried, sent, cut, mixed>>
  BY <1>1 DEF TcpRecv
<1>3. i \in Slots
  BY <1>1, <1>2, FirstSlot
<1>4. Len(Unit) \in Nat
  BY DEF Unit
<1>5. slots' \in Tables /\ SocketsOK(slots') /\ (~cut => OwnersOK(slots', fds, todo))
  BY <1>2, <1>3, <1>4, ReadKeeps
<1>. QED BY <1>2, <1>5, DescriptorTypes, Assemble DEF DescriptorInv

\* A descriptor is closed by the user or at the end of a command, when no
\* frame is left.
LEMMA CloseAlone ==
  ASSUME DescriptorInv, todo = <<>>, NEW S \in Tables, SocketsOK(S), ~cut => OwnersOK(S, fds, todo),
         NEW f \in Fds, MagiClose(f, S, <<>>), NEW sv
  PROVE  /\ slots' \in Tables /\ SocketsOK(slots') /\ fds' \in [Fds -> Fd] /\ FdsOK(fds')
         /\ TodoOK(todo', fds', sv) /\ (~cut => OwnersOK(slots', fds', todo'))
         /\ ServerOK(fds', server)
<1>1. /\ RestOK(<<>>, fds, sv) /\ NoFrame(<<>>, f) /\ NoAnswer(<<>>)
      /\ \A g : NoFrame(todo, g) /\ NoFrame(<<>>, g) /\ ~Answered(<<>>, g)
  BY EmptyTodo
<1>2. fds \in [Fds -> Fd] /\ FdsOK(fds)
  BY DescriptorTypes
<1>3. /\ slots' \in Tables /\ SocketsOK(slots') /\ fds' \in [Fds -> Fd] /\ FdsOK(fds')
      /\ TodoOK(todo', fds', sv)
      /\ \A g \in Fds : fds'[g] = fds[g] \/ (g = f /\ fds'[g] = FreeFd)
  BY <1>1, <1>2, MagiCloseIs
<1>4. ~cut => OwnersOK(slots', fds', todo')
  BY <1>1, <1>2, MagiCloseOwners
<1>5. ServerOK(fds', server)
  BY <1>3, FreeTypes DEF DescriptorInv, ServerOK
<1>. QED BY <1>3, <1>4, <1>5

LEMMA SockCloseKeeps ==
  ASSUME DescriptorInv, UNCHANGED delays, NEW h \in Hosts, SockClose(h)
  PROVE  DescriptorInv'
<1>1. /\ todo = <<>> /\ call = Idle /\ sock_fd[h] \in Fds /\ MagiClose(sock_fd[h], slots, <<>>)
      /\ sock_fd' = [sock_fd EXCEPT ![h] = 0]
      /\ UNCHANGED <<next_port, server, call, flight, tried, sent, cut, mixed>>
  BY DescriptorTypes DEF SockClose, Ready, Fds
<1>2. slots \in Tables /\ SocketsOK(slots) /\ (~cut => OwnersOK(slots, fds, todo))
  BY DescriptorTypes DEF DescriptorInv
<1>3. /\ slots' \in Tables /\ SocketsOK(slots') /\ fds' \in [Fds -> Fd] /\ FdsOK(fds')
      /\ TodoOK(todo', fds', server) /\ (~cut => OwnersOK(slots', fds', todo'))
      /\ ServerOK(fds', server)
  BY <1>1, <1>2, CloseAlone
<1>4. sock_fd' \in [Hosts -> 0 .. MaxFds]
  BY <1>1, DescriptorTypes, Sizes
<1>5. CallOK(fds', todo', call')
  BY <1>1 DEF CallOK
<1>. QED BY <1>1, <1>3, <1>4, <1>5, DescriptorTypes, Assemble

LEMMA CallIs ==
  ASSUME DescriptorInv, call.stage # "idle"
  PROVE  /\ call # Idle /\ call \in [stage : {"sock_connect", "http_connect", "http_request"},
                                      host : Hosts, fd : Fds]
         /\ call.fd \in Fds /\ call.host \in Hosts
         /\ fds[call.fd].in_use /\ fds[call.fd].host = call.host /\ NoFrame(todo, call.fd)
         /\ fds[call.fd].slot \in Slots
<1>1. call # Idle
  BY DEF Idle
<1>. QED BY <1>1, DescriptorTypes DEF DescriptorInv, CallOK, Call, FdsOK

LEMMA HttpGetReturnsKeeps ==
  ASSUME DescriptorInv, UNCHANGED delays, HttpGetReturns
  PROVE  DescriptorInv'
<1>1. /\ todo = <<>> /\ call.stage # "idle"
      /\ MagiClose(call.fd, Reads(call.host, fds[call.fd].slot, BufferSize), <<>>)
      /\ call' = Idle
      /\ UNCHANGED <<next_port, sock_fd, server, flight, tried, sent, cut, mixed>>
  BY DEF HttpGetReturns
<1>2. call.fd \in Fds /\ call.host \in Hosts /\ fds[call.fd].slot \in Slots
  BY <1>1, CallIs
<1>3. PICK N : N = Reads(call.host, fds[call.fd].slot, BufferSize)
  OBVIOUS
<1>4. N \in Tables /\ SocketsOK(N) /\ (~cut => OwnersOK(N, fds, todo))
  BY <1>2, <1>3, ReadKeeps, Sizes
<1>5. /\ slots' \in Tables /\ SocketsOK(slots') /\ fds' \in [Fds -> Fd] /\ FdsOK(fds')
      /\ TodoOK(todo', fds', server) /\ (~cut => OwnersOK(slots', fds', todo'))
      /\ ServerOK(fds', server)
  BY <1>1, <1>2, <1>3, <1>4, CloseAlone
<1>6. call' \in Call /\ CallOK(fds', todo', call')
  BY <1>1 DEF CallOK, Call
<1>. QED BY <1>1, <1>5, <1>6, DescriptorTypes, Assemble

\* The connect has failed: the socket and the descriptor are given back.
LEMMA ConnectFailsKeeps ==
  ASSUME DescriptorInv, UNCHANGED delays, todo = <<>>, call.stage # "idle",
         slots' = FailConnect(call.host, call.fd, slots), fds' = [fds EXCEPT ![call.fd] = FreeFd],
         call' = Idle,
         UNCHANGED <<next_port, sock_fd, server, todo, flight, tried, sent, cut, mixed>>
  PROVE  DescriptorInv'
<1>1. PICK h \in Hosts, f \in Fds, i \in Slots :
        /\ h = call.host /\ f = call.fd /\ i = fds[f].slot
        /\ fds[f].in_use /\ fds[f].host = h /\ NoFrame(todo, f)
  BY CallIs
<1>2. slots' = [slots EXCEPT ![h][i] = FreeSlot] /\ fds' = [fds EXCEPT ![f] = FreeFd]
  BY <1>1 DEF FailConnect
<1>3. SocketOK(h, FreeSlot)
  BY FreeTypes DEF SocketOK
<1>4. slots' \in Tables /\ SocketsOK(slots')
  <2>1. slots \in Tables /\ SocketsOK(slots) /\ FreeSlot \in Slot
    BY FreeTypes, DescriptorTypes
  <2>2. [slots EXCEPT ![h][i] = FreeSlot] \in Tables
    BY <2>1, SetSlot
  <2>3. SocketsOK([slots EXCEPT ![h][i] = FreeSlot])
    BY <1>3, <2>1, SocketsKept
  <2>. QED BY <1>2, <2>2, <2>3
<1>5. /\ fds' \in [Fds -> Fd] /\ \A g \in Fds : fds'[g] = IF g = f THEN FreeFd ELSE fds[g]
  BY <1>2, DescriptorTypes, FreeTypes
<1>6. FdsOK(fds') /\ ServerOK(fds', server')
  BY <1>5, FreeTypes DEF DescriptorInv, FdsOK, ServerOK
<1>7. call' \in Call /\ CallOK(fds', todo', call')
  BY DEF CallOK, Call
<1>8. TodoOK(todo', fds', server')
  BY EmptyTodo
<1>9. ASSUME ~cut PROVE OwnersOK(slots', fds', todo')
  <2>1. OwnersOK(slots, fds, todo) /\ slots \in Tables /\ FdsOK(fds)
    BY <1>9, DescriptorTypes DEF DescriptorInv
  <2>2. \A g \in Fds \ {0} : Plain(fds', todo', g) => fds'[g] = fds[g] /\ Plain(fds, todo, g)
    BY <1>5, FreeTypes DEF Plain
  <2>3. \A g \in Fds \ {0} : Answered(todo', g) => fds'[g] = fds[g] /\ fds[g].in_use /\ Answered(todo, g)
    BY EmptyTodo
  <2>4. \A g \in Fds \ {0} : Plain(fds', todo', g) /\ fds[g].host = h /\ fds[g].slot = i /\
          PlainSocket(slots[h][i], fds[g].conn) => PlainSocket(FreeSlot, fds[g].conn)
    <3>. SUFFICES ASSUME NEW g \in Fds \ {0}, Plain(fds', todo', g), fds[g].host = h, fds[g].slot = i
                  PROVE  FALSE
      OBVIOUS
    <3>1. g # f /\ Plain(fds, todo, g)
      BY <1>5, <2>2, FreeTypes DEF Plain
    <3>2. Plain(fds, todo, f) /\ Together(fds, f, g)
      BY <1>1 DEF Plain, Together
    <3>. QED BY <2>1, <3>1, <3>2 DEF OwnersOK
  <2>5. \A g \in Fds \ {0} : Answered(todo', g) /\ fds[g].host = h /\ fds[g].slot = i /\
          AnswerSocket(slots[h][i], fds[g].conn) => AnswerSocket(FreeSlot, fds[g].conn)
    BY EmptyTodo
  <2>6. 0 \notin Fds
    BY Sizes DEF Fds
  <2>7. OwnersOK([slots EXCEPT ![h][i] = FreeSlot], fds', todo')
    BY <2>1, <2>2, <2>3, <2>4, <2>5, <2>6, FreeTypes, OwnersKept
  <2>. QED BY <1>2, <2>7
<1>. QED BY <1>4, <1>5, <1>6, <1>7, <1>8, <1>9, DescriptorTypes, Assemble

LEMMA ConnectReturnsKeeps ==
  ASSUME DescriptorInv, UNCHANGED delays, ConnectReturns
  PROVE  DescriptorInv'
<1>1. /\ call.stage \in {"sock_connect", "http_connect"} /\ todo = <<>> /\ call.stage # "idle"
      /\ UNCHANGED <<next_port, server, flight, tried, sent, cut, mixed>>
  BY DEF ConnectReturns
<1>2. PICK h \in Hosts, f \in Fds, i \in Slots :
        /\ h = call.host /\ f = call.fd /\ i = fds[f].slot
        /\ fds[f].in_use /\ fds[f].host = h /\ NoFrame(todo, f)
  BY <1>1, CallIs
<1>3. CASE slots[h][i].tcp.state # "ESTABLISHED"
  <2>1. /\ slots' = FailConnect(call.host, call.fd, slots) /\ fds' = [fds EXCEPT ![call.fd] = FreeFd]
        /\ call' = Idle /\ UNCHANGED <<sock_fd, todo>>
    BY <1>2, <1>3 DEF ConnectReturns
  <2>. QED BY <1>1, <2>1, ConnectFailsKeeps
<1>4. CASE slots[h][i].tcp.state = "ESTABLISHED" /\ call.stage = "sock_connect"
  <2>1. /\ sock_fd' = [sock_fd EXCEPT ![h] = f] /\ call' = Idle /\ UNCHANGED <<slots, todo, fds>>
    BY <1>2, <1>4 DEF ConnectReturns
  <2>2. call' \in Call /\ CallOK(fds', todo', call')
    BY <2>1 DEF CallOK, Call
  <2>3. sock_fd' \in [Hosts -> 0 .. MaxFds]
    BY <2>1, DescriptorTypes, Sizes DEF Fds
  <2>. QED BY <1>1, <2>1, <2>2, <2>3, DescriptorTypes, Assemble DEF DescriptorInv
<1>5. CASE slots[h][i].tcp.state = "ESTABLISHED" /\ call.stage # "sock_connect"
  <2>1. /\ call' = [call EXCEPT !.stage = "http_request"] /\ UNCHANGED <<sock_fd, fds>>
        /\ IF CanSend(slots[h][i]) THEN Sends(h, i, <<>>) ELSE UNCHANGED <<slots, todo>>
    BY <1>2, <1>5 DEF ConnectReturns
  <2>2. call' \in Call /\ call'.host = h /\ call'.fd = f
    BY <1>1, <1>2, <2>1, CallIs DEF Call
  <2>3. ServerOK(fds', server')
    BY <1>1, <2>1 DEF DescriptorInv
  <2>4. /\ slots' \in Tables /\ SocketsOK(slots') /\ TodoOK(todo', fds, server)
        /\ (~cut => OwnersOK(slots', fds, todo')) /\ NoFrame(todo', f)
    <3>1. CASE CanSend(slots[h][i])
      <4>1. Sends(h, i, <<>>)
        BY <2>1, <3>1
      <4>2. /\ RestOK(<<>>, fds, server) /\ (\A g : NoFrame(todo, g) /\ ~Answered(todo, g))
            /\ \A g : NoFrame(<<>>, g) /\ ~Answered(<<>>, g)
        BY <1>1, ReadyTodo
      <4>. QED BY <3>1, <4>1, <4>2, SendKeeps
    <3>2. CASE ~CanSend(slots[h][i])
      <4>1. slots' = slots /\ todo' = todo
        BY <2>1, <3>2
      <4>. QED BY <1>2, <4>1, DescriptorTypes DEF DescriptorInv
    <3>. QED BY <3>1, <3>2
  <2>5. CallOK(fds', todo', call')
    BY <1>2, <2>1, <2>2, <2>4 DEF CallOK
  <2>. QED BY <1>1, <2>1, <2>2, <2>3, <2>4, <2>5, DescriptorTypes, Assemble
<1>. QED BY <1>3, <1>4, <1>5

\* The innermost frame and the rest.
LEMMA PopTodo ==
  ASSUME DescriptorInv, todo # <<>>
  PROVE  LET a == Head(todo)
             R == Tail(todo)
         IN /\ a \in Frame /\ R \in Seq(Frame) /\ todo = <<a>> \o R
            /\ HeadOK(a, R, fds, server) /\ RestOK(R, fds, server)
            /\ \A f : NoFrame(todo, f) <=> ~Holds(a, f) /\ NoFrame(R, f)
            /\ \A f : Answered(todo, f) <=> (a.op = "answer" /\ a.fd = f) \/ Answered(R, f)
<1>1. todo \in Seq(Frame) /\ TodoOK(todo, fds, server)
  BY DescriptorTypes
<1>2. PICK a \in Frame, R \in Seq(Frame) : a = Head(todo) /\ R = Tail(todo) /\ todo = <<a>> \o R
  BY <1>1, PopIs
<1>3. HeadOK(a, R, fds, server) /\ RestOK(R, fds, server)
  BY <1>1, <1>2 DEF TodoOK
<1>4. /\ \A f : NoFrame(todo, f) <=> ~Holds(a, f) /\ NoFrame(R, f)
      /\ \A f : Answered(todo, f) <=> (a.op = "answer" /\ a.fd = f) \/ Answered(R, f)
  <2>1. todo = <<a>> \o R
    BY <1>2
  <2>. QED BY <2>1, PushFrames
<1>. QED BY <1>2, <1>3, <1>4

\* The owners when only the frames change.
LEMMA FramesKept ==
  ASSUME NEW S, NEW F, NEW T, NEW M, OwnersOK(S, F, T),
         \A f \in Fds : F[f].in_use /\ NoFrame(M, f) => NoFrame(T, f),
         \A f \in Fds : Answered(M, f) => Answered(T, f)
  PROVE  OwnersOK(S, F, M)
<1>1. \A f \in Fds : Plain(F, M, f) => Plain(F, T, f)
  BY DEF Plain
<1>. QED BY <1>1 DEF OwnersOK

LEMMA TcpCloseKeeps ==
  ASSUME DescriptorInv, UNCHANGED delays, NEW h \in Hosts, TcpClose(h)
  PROVE  DescriptorInv'
<1>1. PICK i : i = FirstIn(h, {"ESTABLISHED", "CLOSE_WAIT"})
  OBVIOUS
<1>2. /\ todo = <<>> /\ call = Idle /\ i # 0 /\ Closes(h, i, <<>>)
      /\ cut' = (cut \/ \E f \in Fds : fds[f].in_use /\ fds[f].host = h /\ fds[f].slot = i)
      /\ UNCHANGED <<next_port, sock_fd, fds, server, call, flight, tried, sent, mixed>>
  BY <1>1 DEF TcpClose, Ready
<1>3. i \in Slots /\ slots[h][i].tcp.state \in {"ESTABLISHED", "CLOSE_WAIT"}
  BY <1>1, <1>2, FirstInIs
<1>4. slots \in Tables /\ SocketsOK(slots) /\ FdsOK(fds) /\ SocketOK(h, slots[h][i])
  BY <1>3, DescriptorTypes DEF SocketsOK
<1>5. PICK u \in Slot, m \in Segment :
           /\ [slots EXCEPT ![h][i].tcp = Tcp!Close(@)] = [slots EXCEPT ![h][i] = u]
           /\ m = Out(h, slots[h][i], Fin(slots[h][i].tcp)) /\ m = Out(h, slots[h][i], m.tcp)
           /\ m.tcp \in Tcp!Segment
           /\ Same(slots[h][i], u) /\ slots[h][i].in_use /\ slots[h][i].peer \in Hosts \ {h}
           /\ HalfClosed(slots[h][i].tcp.state, u.tcp.state)
  <2>1. Tcp!CanClose(slots[h][i].tcp)
    BY <1>3 DEF Tcp!CanClose
  <2>. QED BY <1>3, <1>4, <2>1, ClosesIs
<1>6. slots' = [slots EXCEPT ![h][i] = u] /\ todo' = <<m>> \o <<>>
  BY <1>2, <1>5 DEF Closes
<1>7. /\ m \in Frame /\ (\A F, sv : FrameOK(m, F, sv)) /\ \A f : ~Holds(m, f)
      /\ m.op = "segment"
  BY <1>3, <1>4, <1>5, OutIs DEF Tables
<1>8. TodoOK(todo', fds, server)
  <2>1. HeadOK(m, <<>>, fds, server)
    BY <1>7, EmptyTodo DEF HeadOK
  <2>. QED BY <1>6, <1>7, <2>1, EmptyTodo, PushTodo
<1>9. \A f : NoFrame(todo', f) /\ ~Answered(todo', f)
  BY <1>6, <1>7, EmptyTodo, PushFrames
<1>10. SocketOK(h, u)
  BY <1>5 DEF SocketOK, Same
<1>11. slots' \in Tables /\ SocketsOK(slots')
  <2>1. [slots EXCEPT ![h][i] = u] \in Tables
    BY <1>3, <1>4, SetSlot
  <2>2. SocketsOK([slots EXCEPT ![h][i] = u])
    BY <1>3, <1>4, <1>10, SocketsKept
  <2>. QED BY <1>6, <2>1, <2>2
<1>12. ASSUME ~cut' PROVE OwnersOK(slots', fds, todo')
  <2>1. OwnersOK(slots, fds, todo) /\ \A f \in Fds : ~(fds[f].in_use /\ fds[f].host = h /\ fds[f].slot = i)
    BY <1>2, <1>12 DEF DescriptorInv
  <2>2. \A f \in Fds \ {0} : Plain(fds, todo', f) => fds[f] = fds[f] /\ Plain(fds, todo, f)
    BY <1>2, EmptyTodo DEF Plain
  <2>3. \A f \in Fds \ {0} : Answered(todo', f) => fds[f] = fds[f] /\ fds[f].in_use /\ Answered(todo, f)
    BY <1>9
  <2>4. \A f \in Fds \ {0} : Plain(fds, todo', f) /\ fds[f].host = h /\ fds[f].slot = i /\
          PlainSocket(slots[h][i], fds[f].conn) => PlainSocket(u, fds[f].conn)
    BY <2>1 DEF Plain
  <2>5. \A f \in Fds \ {0} : Answered(todo', f) /\ fds[f].host = h /\ fds[f].slot = i /\
          AnswerSocket(slots[h][i], fds[f].conn) => AnswerSocket(u, fds[f].conn)
    BY <1>9
  <2>6. 0 \notin Fds
    BY Sizes DEF Fds
  <2>7. OwnersOK([slots EXCEPT ![h][i] = u], fds, todo')
    BY <1>3, <1>4, <2>1, <2>2, <2>3, <2>4, <2>5, <2>6, OwnersKept
  <2>. QED BY <1>6, <2>7
<1>13. ServerOK(fds, server) /\ CallOK(fds, todo', call) /\ cut \in BOOLEAN
  BY <1>2, DescriptorTypes DEF DescriptorInv, CallOK
<1>14. cut' \in BOOLEAN
  BY <1>2, <1>13
<1>. QED BY <1>2, <1>8, <1>11, <1>12, <1>13, <1>14, DescriptorTypes, Assemble

LEMMA ListenerIs ==
  /\ Listener \in Slot /\ Listener.in_use /\ Listener.conn = 0 /\ Listener.parent = 0
  /\ Listener.tcp.state = "LISTEN" /\ \A h : SocketOK(h, Listener)
<1>1. PICK s \in Tcp!Socket : s = [Tcp!FreeSocket EXCEPT !.state = "LISTEN"]
  BY FreeSocketTyped, StatesAre DEF Tcp!Socket
<1>0. s.state = "LISTEN"
  BY <1>1 DEF Tcp!FreeSocket
<1>2. Listener = [FreeSlot EXCEPT !.in_use = TRUE, !.lport = Http, !.tcp = s]
  BY <1>1 DEF Listener, FreeSlot
<1>3. Http \in TcpPorts
  BY DEF TcpPorts
<1>4. Listener \in Slot
  BY <1>2, <1>3, FreeTypes DEF Slot
<1>5. /\ Listener.in_use /\ Listener.conn = 0 /\ Listener.parent = 0 /\ Listener.tcp = s
  BY <1>2 DEF FreeSlot
<1>. QED BY <1>0, <1>4, <1>5 DEF SocketOK

\* A slot for a listener.
LEMMA ListenSlot ==
  ASSUME DescriptorInv, NEW h \in Hosts, NEW i, i = Alloc(slots[h]), i # 0,
         slots' = [slots EXCEPT ![h][i] = Listener]
  PROVE  /\ i \in Slots /\ slots' \in Tables /\ SocketsOK(slots')
         /\ slots'[h][i] = Listener
<1>1. i \in Slots
  BY AllocIs
<1>2. slots \in Tables /\ SocketsOK(slots) /\ Listener \in Slot /\ SocketOK(h, Listener)
  BY ListenerIs, DescriptorTypes
<1>3. SocketsOK([slots EXCEPT ![h][i] = Listener])
  BY <1>1, <1>2, SocketsKept
<1>4. [slots EXCEPT ![h][i] = Listener] \in Tables
  BY <1>1, <1>2, SetSlot
<1>5. [slots EXCEPT ![h][i] = Listener][h][i] = Listener
  BY <1>1, <1>2, SetSlot
<1>. QED BY <1>1, <1>3, <1>4, <1>5

LEMMA TcpListenKeeps ==
  ASSUME DescriptorInv, UNCHANGED delays, NEW h \in Hosts, TcpListen(h)
  PROVE  DescriptorInv'
<1>1. PICK i : i = Alloc(slots[h])
  OBVIOUS
<1>2. /\ i # 0 /\ slots' = [slots EXCEPT ![h][i] = Listener] /\ todo = <<>>
      /\ UNCHANGED <<next_port, sock_fd, fds, server, todo, call, flight, tried, sent, cut, mixed>>
  BY <1>1 DEF TcpListen, Ready
<1>3. i \in Slots /\ slots' \in Tables /\ SocketsOK(slots')
  BY <1>1, <1>2, ListenSlot
<1>4. ASSUME ~cut PROVE OwnersOK(slots', fds, todo)
  <2>1. OwnersOK(slots, fds, todo) /\ slots \in Tables /\ FdsOK(fds) /\ Listener \in Slot
    BY <1>4, DescriptorTypes, ListenerIs DEF DescriptorInv
  <2>2. \A c : ~PlainSocket(slots[h][i], c) /\ ~AnswerSocket(slots[h][i], c)
    BY <1>1, <1>2, AllocNotOwned
  <2>3. \A f \in Fds : Answered(todo, f) => fds[f].in_use /\ Answered(todo, f)
    BY <1>2, EmptyTodo
  <2>4. OwnersOK([slots EXCEPT ![h][i] = Listener], fds, todo)
    BY <1>3, <2>1, <2>2, <2>3, AllocKept
  <2>. QED BY <1>2, <2>4
<1>. QED BY <1>2, <1>3, <1>4, DescriptorTypes, Assemble DEF DescriptorInv

LEMMA HttpStartKeeps ==
  ASSUME DescriptorInv, UNCHANGED delays, NEW h \in Hosts, HttpStart(h)
  PROVE  DescriptorInv'
<1>1. PICK f, i, d : /\ f = NewFd /\ i = Alloc(slots[h])
                     /\ d = [in_use |-> TRUE, host |-> h, slot |-> i, listening |-> TRUE, conn |-> 0]
  OBVIOUS
<1>2. /\ f \in Fds /\ ~fds[f].in_use /\ i # 0 /\ slots' = [slots EXCEPT ![h][i] = Listener]
      /\ fds' = [fds EXCEPT ![f] = d] /\ server' = [running |-> TRUE, host |-> h, fd |-> f]
      /\ todo = <<>> /\ call = Idle
      /\ UNCHANGED <<next_port, sock_fd, todo, call, flight, tried, sent, cut, mixed>>
  BY <1>1, NewFdIs DEF HttpStart, Ready
<1>3. i \in Slots /\ slots' \in Tables /\ SocketsOK(slots') /\ slots'[h][i] = Listener
  BY <1>1, <1>2, ListenSlot
<1>4. d \in Fd /\ d.in_use /\ d.host = h /\ d.slot = i /\ d.conn = 0
  <2>1. 0 \in Conns /\ i \in 0 .. MaxSlots
    BY <1>3, Sizes DEF Conns, Slots
  <2>. QED BY <1>1, <2>1 DEF Fd
<1>5. fds' \in [Fds -> Fd] /\ \A k \in Fds : fds'[k] = IF k = f THEN d ELSE fds[k]
  BY <1>2, <1>4, DescriptorTypes
<1>6. FdsOK(fds') /\ ServerOK(fds', server')
  BY <1>2, <1>3, <1>4, <1>5 DEF DescriptorInv, FdsOK, ServerOK
<1>7. server' \in [running : BOOLEAN, host : Hosts \cup {Nobody}, fd : 0 .. MaxFds]
  BY <1>2, Sizes DEF Fds
<1>8. TodoOK(todo', fds', server') /\ CallOK(fds', todo', call')
  BY <1>2, EmptyTodo DEF CallOK
<1>9. ASSUME ~cut PROVE OwnersOK(slots', fds', todo')
  <2>1. OwnersOK(slots, fds, todo) /\ slots \in Tables /\ FdsOK(fds) /\ Listener \in Slot
    BY <1>9, DescriptorTypes, ListenerIs DEF DescriptorInv
  <2>2. \A c : ~PlainSocket(slots[h][i], c) /\ ~AnswerSocket(slots[h][i], c)
    BY <1>1, <1>2, AllocNotOwned
  <2>3. \A k \in Fds \ {f} : Plain(fds', todo', k) => fds'[k] = fds[k] /\ Plain(fds, todo, k)
    BY <1>2, <1>5 DEF Plain
  <2>4. \A k : ~Answered(todo', k)
    BY <1>2, EmptyTodo
  <2>5. PlainSocket(Socket(slots', fds', f), fds'[f].conn)
    BY <1>2, <1>3, <1>4, <1>5, ListenerIs DEF Socket, PlainSocket
  <2>6. \A k \in Fds \ {f} : Plain(fds', todo', k) => ~Together(fds', k, f)
    <3>. SUFFICES ASSUME NEW k \in Fds \ {f}, Plain(fds', todo', k), Together(fds', k, f) PROVE FALSE
      OBVIOUS
    <3>1. fds[k].host = h /\ fds[k].slot = i /\ Plain(fds, todo, k)
      BY <1>2, <1>4, <1>5, <2>3 DEF Together
    <3>2. PlainSocket(slots[h][i], fds[k].conn)
      BY <2>1, <3>1 DEF OwnersOK, Socket
    <3>. QED BY <2>2, <3>2
  <2>7. OwnersOK([slots EXCEPT ![h][i] = Listener], fds', todo')
    BY <1>2, <1>3, <2>1, <2>2, <2>3, <2>4, <2>5, <2>6, OwnersKept
  <2>. QED BY <1>2, <2>7
<1>. QED BY <1>2, <1>3, <1>5, <1>6, <1>7, <1>8, <1>9, DescriptorTypes, Assemble

LEMMA StopServerKeeps ==
  ASSUME DescriptorInv, UNCHANGED delays, Ready, StopServer
  PROVE  DescriptorInv'
<1>1. /\ todo = <<>> /\ call = Idle /\ server' = [running |-> FALSE, host |-> Nobody, fd |-> 0]
      /\ UNCHANGED <<next_port, sock_fd, call, flight, tried, sent, cut, mixed>>
      /\ IF server.fd # 0 THEN MagiClose(server.fd, slots, <<>>) ELSE UNCHANGED <<slots, todo, fds>>
  BY DEF Ready, StopServer
<1>2. /\ slots' \in Tables /\ SocketsOK(slots') /\ fds' \in [Fds -> Fd] /\ FdsOK(fds')
      /\ TodoOK(todo', fds', server') /\ (~cut => OwnersOK(slots', fds', todo'))
  <2>1. CASE server.fd # 0
    <3>1. server.fd \in Fds /\ MagiClose(server.fd, slots, <<>>)
      BY <1>1, <2>1, DescriptorTypes DEF Fds
    <3>2. slots \in Tables /\ SocketsOK(slots) /\ (~cut => OwnersOK(slots, fds, todo))
      BY DescriptorTypes DEF DescriptorInv
    <3>. QED BY <1>1, <3>1, <3>2, CloseAlone
  <2>2. CASE server.fd = 0
    BY <1>1, <2>2, DescriptorTypes, EmptyTodo DEF DescriptorInv
  <2>. QED BY <2>1, <2>2
<1>3. ServerOK(fds', server') /\ CallOK(fds', todo', call')
  BY <1>1 DEF ServerOK, CallOK
<1>4. server' \in [running : BOOLEAN, host : Hosts \cup {Nobody}, fd : 0 .. MaxFds]
  BY <1>1, Sizes
<1>. QED BY <1>1, <1>2, <1>3, <1>4, DescriptorTypes, Assemble

\* Descriptors with no frame left may be given back.
LEMMA ClosedKeeps ==
  ASSUME DescriptorInv, UNCHANGED delays, Closed
  PROVE  DescriptorInv'
<1>1. PICK a, R, f : a = Head(todo) /\ R = Tail(todo) /\ f = a.fd
  OBVIOUS
<1>2. /\ todo # <<>> /\ a.op = "closed" /\ fds' = [fds EXCEPT ![f] = FreeFd] /\ todo' = R
      /\ UNCHANGED <<slots, next_port, sock_fd, server, call, flight, tried, sent, cut, mixed>>
  BY <1>1 DEF Closed
<1>3. /\ a \in Frame /\ HeadOK(a, R, fds, server) /\ RestOK(R, fds, server)
      /\ \A k : NoFrame(todo, k) <=> ~Holds(a, k) /\ NoFrame(R, k)
      /\ \A k : Answered(todo, k) <=> (a.op = "answer" /\ a.fd = k) \/ Answered(R, k)
  BY <1>1, <1>2, PopTodo
<1>4. f \in Fds /\ Holds(a, f) /\ NoFrame(R, f) /\ \A k : Holds(a, k) => k = f
  BY <1>1, <1>2, <1>3, FrameKinds DEF HeadOK, Holds
<1>5. fds' \in [Fds -> Fd] /\ \A k \in Fds : fds'[k] = IF k = f THEN FreeFd ELSE fds[k]
  BY <1>2, <1>4, FreeTypes, DescriptorTypes
<1>6. FdsOK(fds') /\ ServerOK(fds', server')
  BY <1>2, <1>5, FreeTypes DEF DescriptorInv, FdsOK, ServerOK
<1>7. RestOK(R, fds', server)
  BY <1>3, <1>4, <1>5, RestKept
<1>8. TodoOK(todo', fds', server')
  BY <1>2, <1>7, RestTodo
<1>9. CallOK(fds', todo', call')
  <2>1. ASSUME call # Idle PROVE fds'[call.fd] = fds[call.fd] /\ NoFrame(R, call.fd) /\ call.fd \in Fds
    BY <1>3, <1>4, <1>5, <2>1 DEF DescriptorInv, CallOK
  <2>. QED BY <1>2, <2>1 DEF DescriptorInv, CallOK
<1>10. ASSUME ~cut PROVE OwnersOK(slots', fds', todo')
  <2>1. OwnersOK(slots, fds, todo)
    BY <1>10 DEF DescriptorInv
  <2>2. \A k \in Fds : Plain(fds', todo', k) => fds'[k] = fds[k] /\ Plain(fds, todo, k)
    BY <1>2, <1>3, <1>4, <1>5, FreeTypes DEF Plain
  <2>3. \A k \in Fds : Answered(todo', k) => fds'[k] = fds[k] /\ Answered(todo, k)
    <3>1. \A k \in Fds : Answered(R, k) => k # f
      BY <1>4 DEF Answered, NoFrame, Holds
    <3>. QED BY <1>2, <1>3, <1>5, <3>1
  <2>4. \A k \in Fds : Plain(fds', todo', k) => PlainSocket(Socket(slots', fds', k), fds'[k].conn)
    BY <1>2, <2>1, <2>2 DEF OwnersOK, Socket
  <2>5. \A k \in Fds : Answered(todo', k) => AnswerSocket(Socket(slots', fds', k), fds'[k].conn)
    BY <1>2, <2>1, <2>3 DEF OwnersOK, Socket
  <2>6. \A k, g \in Fds : Plain(fds', todo', k) /\ Plain(fds', todo', g) /\ Together(fds', k, g) => k = g
    BY <2>1, <2>2 DEF OwnersOK, Together
  <2>. QED BY <2>4, <2>5, <2>6 DEF OwnersOK
<1>. QED BY <1>2, <1>5, <1>6, <1>8, <1>9, <1>10, DescriptorTypes, Assemble DEF DescriptorInv

\* The segments that wait after one more, or one less.
LEMMA BagsAre ==
  ASSUME NEW B, NEW m
  PROVE  /\ BagToSet(B (+) SetToBag({m})) = BagToSet(B) \cup {m}
         /\ BagToSet(B (-) SetToBag({m})) \subseteq BagToSet(B)
BY DEF BagToSet, SetToBag, (+), (-)

LEMMA DelayKeeps ==
  ASSUME DescriptorInv, UNCHANGED delays, Delay
  PROVE  DescriptorInv'
<1>1. PICK a, R : a = Head(todo) /\ R = Tail(todo)
  OBVIOUS
<1>2. /\ todo # <<>> /\ a.op = "segment" /\ flight' = flight (+) SetToBag({a}) /\ todo' = R
      /\ UNCHANGED <<slots, next_port, sock_fd, fds, server, call, tried, sent, cut, mixed>>
  BY <1>1 DEF Delay
<1>3. /\ a \in Frame /\ HeadOK(a, R, fds, server) /\ RestOK(R, fds, server)
      /\ \A k : NoFrame(todo, k) <=> ~Holds(a, k) /\ NoFrame(R, k)
      /\ \A k : Answered(todo, k) <=> (a.op = "answer" /\ a.fd = k) \/ Answered(R, k)
  BY <1>1, <1>2, PopTodo
<1>4. a \in Segment /\ a.to # a.from /\ \A k : ~Holds(a, k)
  BY <1>2, <1>3, FrameKinds DEF HeadOK, FrameOK, Holds
<1>5. \A m \in BagToSet(flight') : m \in Segment /\ m.to # m.from
  <2>1. BagToSet(flight') = BagToSet(flight) \cup {a}
    BY <1>2, BagsAre
  <2>. QED BY <1>4, <2>1 DEF DescriptorInv, TypeOK, FlightOK
<1>6. TodoOK(todo', fds, server)
  BY <1>2, <1>3, RestTodo
<1>7. CallOK(fds, todo', call)
  BY <1>2, <1>3 DEF DescriptorInv, CallOK
<1>8. ASSUME ~cut PROVE OwnersOK(slots, fds, todo')
  <2>1. OwnersOK(slots, fds, todo)
    BY <1>8 DEF DescriptorInv
  <2>2. \A k \in Fds : fds[k].in_use /\ NoFrame(todo', k) => NoFrame(todo, k)
    BY <1>2, <1>3, <1>4
  <2>3. \A k \in Fds : Answered(todo', k) => Answered(todo, k)
    BY <1>2, <1>3
  <2>. QED BY <2>1, <2>2, <2>3, FramesKept
<1>. QED BY <1>2, <1>5, <1>6, <1>7, <1>8, DescriptorTypes, Assemble DEF DescriptorInv

LEMMA ArriveKeeps ==
  ASSUME DescriptorInv, UNCHANGED delays, Arrive
  PROVE  DescriptorInv'
<1>1. PICK m \in BagToSet(flight) : flight' = flight (-) SetToBag({m}) /\ todo' = <<m>>
  BY DEF Arrive
<1>2. /\ todo = <<>> /\ call = Idle
      /\ UNCHANGED <<slots, next_port, sock_fd, fds, server, call, tried, sent, cut, mixed>>
  BY DEF Arrive, Ready
<1>3. m \in Segment /\ m \in Frame /\ m.op = "segment" /\ m.to # m.from /\ \A k : ~Holds(m, k)
  BY FrameKinds DEF DescriptorInv, TypeOK, FlightOK, Segment, Holds
<1>4. todo' = <<m>> \o <<>> /\ HeadOK(m, <<>>, fds, server)
  BY <1>1, <1>3, EmptyTodo DEF HeadOK, FrameOK
<1>5. TodoOK(todo', fds, server)
  BY <1>3, <1>4, EmptyTodo, PushTodo
<1>6. \A k : NoFrame(todo', k) /\ ~Answered(todo', k)
  BY <1>3, <1>4, EmptyTodo, PushFrames
<1>7. \A n \in BagToSet(flight') : n \in Segment /\ n.to # n.from
  BY <1>1, BagsAre DEF DescriptorInv, TypeOK, FlightOK
<1>8. ASSUME ~cut PROVE OwnersOK(slots, fds, todo')
  <2>1. OwnersOK(slots, fds, todo) /\ \A k : NoFrame(todo, k)
    BY <1>2, <1>8, EmptyTodo DEF DescriptorInv
  <2>. QED BY <1>6, <2>1, FramesKept
<1>9. CallOK(fds, todo', call)
  BY <1>2 DEF CallOK
<1>. QED BY <1>2, <1>5, <1>7, <1>8, <1>9, DescriptorTypes, Assemble DEF DescriptorInv

\* An answer with another number of segments left.
LEMMA AnswerFrame ==
  ASSUME NEW b \in Frame, b.op = "answer", NEW n \in Nat
  PROVE  LET c == [b EXCEPT !.left = n] IN c \in Frame /\ c.op = "answer" /\ c.fd = b.fd /\ c.left = n
<1>1. b \in [op : {"answer"}, fd : Fds, left : Nat]
  BY DEF Frame, Segment
<1>. QED BY <1>1 DEF Frame

LEMMA RefuseKeeps ==
  ASSUME DescriptorInv, UNCHANGED delays, Refuse
  PROVE  DescriptorInv'
<1>1. PICK a, R : a = Head(todo) /\ R = Tail(todo)
  OBVIOUS
<1>2. /\ todo # <<>> /\ R # <<>> /\ a.op = "segment"
      /\ UNCHANGED <<slots, next_port, sock_fd, fds, server, call, flight, tried, sent, mixed>>
  <2>1. todo \in Seq(Frame) /\ Len(todo) > 1
    BY DescriptorTypes DEF Refuse
  <2>2. todo # <<>> /\ Len(R) = Len(todo) - 1 /\ Len(todo) \in Nat
    BY <1>1, <2>1, HeadTailProperties, LenProperties
  <2>3. R # <<>>
    BY <2>1, <2>2
  <2>. QED BY <1>1, <2>2, <2>3 DEF Refuse
<1>3. /\ a \in Frame /\ RestOK(R, fds, server) /\ R \in Seq(Frame)
      /\ \A k : NoFrame(todo, k) <=> ~Holds(a, k) /\ NoFrame(R, k)
      /\ \A k : Answered(todo, k) <=> (a.op = "answer" /\ a.fd = k) \/ Answered(R, k)
  BY <1>1, <1>2, PopTodo
<1>4. PICK b \in Frame, Q \in Seq(Frame) : b = Head(R) /\ Q = Tail(R) /\ R = <<b>> \o Q
  BY <1>2, <1>3, PopIs
<1>5. HeadOK(b, Q, fds, server) /\ RestOK(Q, fds, server)
  BY <1>2, <1>3, <1>4, RestTodo DEF TodoOK
<1>6. /\ \A k : NoFrame(R, k) <=> ~Holds(b, k) /\ NoFrame(Q, k)
      /\ \A k : Answered(R, k) <=> (b.op = "answer" /\ b.fd = k) \/ Answered(Q, k)
  <2>1. R = <<b>> \o Q
    BY <1>4
  <2>. QED BY <2>1, PushFrames
<1>7. \A k : ~Holds(a, k)
  BY <1>2 DEF Holds
<1>8. CASE b.op = "closed" /\ todo' = Q /\ cut'
  <2>1. TodoOK(todo', fds, server)
    BY <1>5, <1>8, RestTodo
  <2>2. CallOK(fds, todo', call)
    BY <1>3, <1>6, <1>8 DEF DescriptorInv, CallOK
  <2>3. cut' \in BOOLEAN
    BY <1>1, <1>4, <1>8 DEF Refuse
  <2>. QED BY <1>2, <1>8, <2>1, <2>2, <2>3, DescriptorTypes, Assemble DEF DescriptorInv
<1>9. CASE b.op = "answer" /\ todo' = <<[b EXCEPT !.left = 0]>> \o Q /\ cut' = cut
  <2>1. PICK c \in Frame : c = [b EXCEPT !.left = 0] /\ c.op = "answer" /\ c.fd = b.fd
    BY <1>9, AnswerFrame
  <2>2. \A k : Holds(c, k) <=> Holds(b, k)
    BY <1>9, <2>1 DEF Holds
  <2>3. HeadOK(c, Q, fds, server)
    BY <1>5, <1>9, <2>1, <2>2 DEF HeadOK, FrameOK
  <2>4. TodoOK(todo', fds, server)
    BY <1>5, <1>9, <2>1, <2>3, PushTodo
  <2>5. /\ \A k : NoFrame(todo', k) <=> NoFrame(R, k)
        /\ \A k : Answered(todo', k) <=> Answered(R, k)
    <3>1. /\ \A k : NoFrame(todo', k) <=> ~Holds(c, k) /\ NoFrame(Q, k)
          /\ \A k : Answered(todo', k) <=> (c.op = "answer" /\ c.fd = k) \/ Answered(Q, k)
      BY <1>9, <2>1, PushFrames
    <3>. QED BY <1>6, <1>9, <2>1, <2>2, <3>1
  <2>6. CallOK(fds, todo', call)
    BY <1>3, <2>5 DEF DescriptorInv, CallOK
  <2>7. ASSUME ~cut PROVE OwnersOK(slots, fds, todo')
    <3>1. OwnersOK(slots, fds, todo)
      BY <2>7 DEF DescriptorInv
    <3>2. \A k \in Fds : fds[k].in_use /\ NoFrame(todo', k) => NoFrame(todo, k)
      BY <1>3, <1>7, <2>5
    <3>3. \A k \in Fds : Answered(todo', k) => Answered(todo, k)
      BY <1>3, <2>5
    <3>. QED BY <3>1, <3>2, <3>3, FramesKept
  <2>. QED BY <1>2, <1>9, <2>4, <2>6, <2>7, DescriptorTypes, Assemble DEF DescriptorInv
<1>. QED BY <1>1, <1>4, <1>8, <1>9 DEF Refuse

LEMMA AnswerKeeps ==
  ASSUME DescriptorInv, UNCHANGED delays, Answer
  PROVE  DescriptorInv'
<1>1. PICK a, R, f : a = Head(todo) /\ R = Tail(todo) /\ f = a.fd
  OBVIOUS
<1>2. /\ todo # <<>> /\ a.op = "answer"
      /\ IF a.left > 0 /\ CanSend(slots[fds[f].host][fds[f].slot])
         THEN /\ Sends(fds[f].host, fds[f].slot, <<[a EXCEPT !.left = @ - 1]>> \o R)
              /\ UNCHANGED fds
         ELSE MagiClose(f, slots, R)
      /\ UNCHANGED <<next_port, sock_fd, server, call, flight, tried, sent, cut, mixed>>
  BY <1>1 DEF Answer
<1>3. /\ a \in Frame /\ HeadOK(a, R, fds, server) /\ RestOK(R, fds, server)
      /\ \A k : NoFrame(todo, k) <=> ~Holds(a, k) /\ NoFrame(R, k)
      /\ \A k : Answered(todo, k) <=> (a.op = "answer" /\ a.fd = k) \/ Answered(R, k)
  BY <1>1, <1>2, PopTodo
<1>4. f \in Fds /\ a.left \in Nat /\ Holds(a, f) /\ NoFrame(R, f) /\ \A k : Holds(a, k) => k = f
  BY <1>1, <1>2, <1>3, FrameKinds DEF HeadOK, Holds
<1>5. fds[f].in_use /\ server.running /\ fds[f].host = server.host
  BY <1>1, <1>2, <1>3 DEF HeadOK, FrameOK
<1>6. PICK h \in Hosts, i \in Slots : h = fds[f].host /\ i = fds[f].slot
  BY <1>4, <1>5, DescriptorTypes DEF FdsOK
<1>7. CASE a.left > 0 /\ CanSend(slots[h][i])
  <2>1. PICK c \in Frame : c = [a EXCEPT !.left = @ - 1] /\ c.op = "answer" /\ c.fd = f
    <3>1. a.left - 1 \in Nat
      BY <1>4, <1>7
    <3>2. [a EXCEPT !.left = @ - 1] = [a EXCEPT !.left = a.left - 1]
      OBVIOUS
    <3>3. LET c == [a EXCEPT !.left = a.left - 1] IN c \in Frame /\ c.op = "answer" /\ c.fd = a.fd
      BY <1>2, <1>3, <3>1, AnswerFrame
    <3>. QED BY <1>1, <3>2, <3>3
  <2>2. \A k : Holds(c, k) <=> Holds(a, k)
    BY <1>1, <1>2, <2>1 DEF Holds
  <2>3. HeadOK(c, R, fds, server)
    BY <1>3, <1>5, <2>1, <2>2 DEF HeadOK, FrameOK
  <2>4. PICK Q : Q = <<c>> \o R /\ RestOK(Q, fds, server)
    BY <1>3, <2>1, <2>3, PushRest
  <2>5. /\ \A k : NoFrame(Q, k) <=> ~Holds(c, k) /\ NoFrame(R, k)
        /\ \A k : Answered(Q, k) <=> (c.op = "answer" /\ c.fd = k) \/ Answered(R, k)
    <3>1. Q = <<c>> \o R /\ R \in Seq(Frame)
      BY <1>3, <2>4 DEF RestOK
    <3>. QED BY <2>1, <3>1, PushFrames
  <2>6. /\ \A k : NoFrame(Q, k) <=> NoFrame(todo, k)
        /\ \A k : Answered(Q, k) <=> Answered(todo, k)
    BY <1>1, <1>2, <1>3, <2>1, <2>2, <2>5
  <2>7. Sends(h, i, Q) /\ fds' = fds
    BY <1>2, <1>6, <1>7, <2>1, <2>4
  <2>8. /\ slots' \in Tables /\ SocketsOK(slots') /\ TodoOK(todo', fds, server)
        /\ (~cut => OwnersOK(slots', fds, todo'))
        /\ \A k : NoFrame(todo', k) <=> NoFrame(Q, k)
    BY <1>7, <2>4, <2>6, <2>7, SendKeeps
  <2>9. CallOK(fds, todo', call)
    BY <2>6, <2>8 DEF DescriptorInv, CallOK
  <2>. QED BY <1>2, <2>7, <2>8, <2>9, DescriptorTypes, Assemble DEF DescriptorInv
<1>8. CASE ~(a.left > 0 /\ CanSend(slots[h][i]))
  <2>1. MagiClose(f, slots, R)
    BY <1>2, <1>6, <1>8
  <2>2. slots \in Tables /\ SocketsOK(slots) /\ fds \in [Fds -> Fd] /\ FdsOK(fds)
    BY DescriptorTypes
  <2>3. /\ slots' \in Tables /\ SocketsOK(slots') /\ fds' \in [Fds -> Fd] /\ FdsOK(fds')
        /\ TodoOK(todo', fds', server)
        /\ \A g \in Fds : fds'[g] = fds[g] \/ (g = f /\ fds'[g] = FreeFd)
        /\ \A g \in Fds \ {f} : NoFrame(R, g) => NoFrame(todo', g)
    BY <1>3, <1>4, <1>5, <2>1, <2>2, MagiCloseIs
  <2>4. ASSUME ~cut PROVE OwnersOK(slots', fds', todo')
    <3>1. OwnersOK(slots, fds, todo)
      BY <2>4 DEF DescriptorInv
    <3>2. Answered(todo, f)
      BY <1>1, <1>2, <1>3
    <3>3. \A g \in Fds \ {f} : NoFrame(R, g) => NoFrame(todo, g)
      BY <1>3, <1>4
    <3>4. \A g \in Fds : Answered(R, g) => Answered(todo, g)
      BY <1>3
    <3>. QED BY <1>3, <1>4, <2>1, <2>2, <3>1, <3>2, <3>3, <3>4, MagiCloseOwners
  <2>5. ServerOK(fds', server)
    BY <2>3, FreeTypes DEF DescriptorInv, ServerOK
  <2>6. CallOK(fds', todo', call)
    <3>. SUFFICES ASSUME call # Idle
                  PROVE  call.fd \in Fds /\ call.host \in Hosts /\ fds'[call.fd] = fds[call.fd]
                         /\ fds[call.fd].in_use /\ fds[call.fd].host = call.host /\ NoFrame(todo', call.fd)
      BY DEF CallOK
    <3>1. /\ call.fd \in Fds /\ call.host \in Hosts /\ fds[call.fd].in_use
          /\ fds[call.fd].host = call.host /\ NoFrame(todo, call.fd)
      BY DEF DescriptorInv, CallOK
    <3>2. call.fd # f /\ NoFrame(R, call.fd)
      BY <1>3, <1>4, <3>1
    <3>. QED BY <2>3, <3>1, <3>2
  <2>. QED BY <1>2, <2>3, <2>4, <2>5, <2>6, DescriptorTypes, Assemble
<1>. QED BY <1>7, <1>8

\* magi_accept takes a child of a listening descriptor's socket.
LEMMA AcceptedIs ==
  ASSUME NEW fd, NEW i, i = Accepted(fd), i # 0
  PROVE  /\ i \in Slots /\ fd.in_use /\ fd.listening /\ slots[fd.host][i].in_use
         /\ slots[fd.host][i].tcp.state = "ESTABLISHED" /\ slots[fd.host][i].parent = fd.slot
<1>. DEFINE S == {j \in Slots : /\ fd.in_use /\ fd.listening
                                /\ slots[fd.host][j].in_use
                                /\ slots[fd.host][j].tcp.state = "ESTABLISHED"
                                /\ slots[fd.host][j].parent = fd.slot}
<1>1. S # {} => FirstOf(S) \in S
  BY FirstSlot
<1>2. S = {} => FirstOf(S) = 0
  BY FirstSlot
<1>3. i = FirstOf(S)
  BY DEF Accepted
<1>. QED BY <1>1, <1>2, <1>3

\* The owners when descriptor f has been opened for an answer over an
\* established child.
LEMMA AnswerOpened ==
  ASSUME NEW S \in Tables, NEW h \in Hosts, NEW i \in Slots, NEW u \in Slot,
         Same(S[h][i], u), u.tcp.state = S[h][i].tcp.state, S[h][i].in_use,
         S[h][i].tcp.state = "ESTABLISHED", S[h][i].parent # 0,
         NEW F, FdsOK(F), NEW f \in Fds, NEW d, d.host = h, d.slot = i, d.conn = S[h][i].conn,
         NEW G, \A k \in Fds : G[k] = IF k = f THEN d ELSE F[k],
         NEW T, NEW M, OwnersOK(S, F, T), ~NoFrame(M, f),
         \A k \in Fds \ {f} : NoFrame(M, k) => NoFrame(T, k),
         \A k \in Fds \ {f} : Answered(M, k) => F[k].in_use /\ Answered(T, k)
  PROVE  OwnersOK([S EXCEPT ![h][i] = u], G, M)
<1>1. \A k \in Fds \ {f} : Plain(G, M, k) => G[k] = F[k] /\ Plain(F, T, k)
  BY DEF Plain
<1>2. \A k \in Fds \ {f} : Answered(M, k) => G[k] = F[k] /\ F[k].in_use /\ Answered(T, k)
  OBVIOUS
<1>3. \A k \in Fds \ {f} : Plain(G, M, k) /\ F[k].host = h /\ F[k].slot = i /\
        PlainSocket(S[h][i], F[k].conn) => PlainSocket(u, F[k].conn)
  BY DEF PlainSocket, Same
<1>4. \A k \in Fds \ {f} : Answered(M, k) /\ F[k].host = h /\ F[k].slot = i /\
        AnswerSocket(S[h][i], F[k].conn) => AnswerSocket(u, F[k].conn)
  BY DEF AnswerSocket, Same
<1>5. ~Plain(G, M, f)
  BY DEF Plain
<1>6. AnswerSocket(Socket([S EXCEPT ![h][i] = u], G, f), G[f].conn)
  <2>1. [S EXCEPT ![h][i] = u][h][i] = u
    BY DEF Tables
  <2>2. Socket([S EXCEPT ![h][i] = u], G, f) = u /\ G[f].conn = S[h][i].conn
    BY <2>1 DEF Socket
  <2>. QED BY <2>2 DEF AnswerSocket, Same
<1>. QED BY <1>1, <1>2, <1>3, <1>4, <1>5, <1>6, OwnersKept

\* http_server_dispatch opens descriptor f for slot i of host h.
LEMMA DispatchKeeps ==
  ASSUME DescriptorInv, UNCHANGED delays, todo # <<>>, Head(todo).op = "check",
         NEW h \in Hosts, NEW i \in Slots, NEW f, f = NewFd, f # 0, NEW d \in Fd, NEW n \in Nat,
         server.running, h = server.host, slots[h][i].in_use,
         slots[h][i].tcp.state = "ESTABLISHED", slots[h][i].parent # 0,
         d.in_use, d.host = h, d.slot = i, ~d.listening, d.conn = slots[h][i].conn,
         fds' = [fds EXCEPT ![f] = d], slots' = Reads(h, i, BufferSize - 1),
         todo' = <<[op |-> "answer", fd |-> f, left |-> n]>> \o Tail(todo),
         UNCHANGED <<next_port, sock_fd, server, call, flight, tried, sent, cut, mixed>>
  PROVE  DescriptorInv'
<1>1. PICK a, R : a = Head(todo) /\ R = Tail(todo)
  OBVIOUS
<1>2. /\ a \in Frame /\ HeadOK(a, R, fds, server) /\ RestOK(R, fds, server) /\ R \in Seq(Frame)
      /\ \A k : NoFrame(todo, k) <=> ~Holds(a, k) /\ NoFrame(R, k)
      /\ \A k : Answered(todo, k) <=> (a.op = "answer" /\ a.fd = k) \/ Answered(R, k)
  BY <1>1, PopTodo
<1>3. \A k : ~Holds(a, k)
  BY <1>1 DEF Holds
<1>4. f \in Fds /\ ~fds[f].in_use
  BY NewFdIs
<1>5. NoFrame(R, f)
  BY <1>2, <1>4 DEF RestOK, FrameOK, NoFrame, Holds
<1>6. fds' \in [Fds -> Fd] /\ \A k \in Fds : fds'[k] = IF k = f THEN d ELSE fds[k]
  BY <1>4, DescriptorTypes
<1>7. FdsOK(fds')
  BY <1>6, DescriptorTypes DEF FdsOK
<1>8. ServerOK(fds', server)
  BY <1>4, <1>6 DEF DescriptorInv, ServerOK
<1>9. PICK c \in Frame : c = [op |-> "answer", fd |-> f, left |-> n] /\ c.op = "answer" /\ c.fd = f
  BY <1>4 DEF Frame
<1>10. \A k : Holds(c, k) <=> k = f
  BY <1>9 DEF Holds
<1>11. RestOK(R, fds', server)
  BY <1>2, <1>5, <1>6, RestKept
<1>12. HeadOK(c, R, fds', server)
  BY <1>4, <1>5, <1>6, <1>9, <1>10 DEF HeadOK, FrameOK
<1>13. todo' = <<c>> \o R
  BY <1>1, <1>9
<1>14. TodoOK(todo', fds', server)
  BY <1>9, <1>11, <1>12, <1>13, PushTodo
<1>15. /\ \A k : NoFrame(todo', k) <=> ~Holds(c, k) /\ NoFrame(R, k)
       /\ \A k : Answered(todo', k) <=> (c.op = "answer" /\ c.fd = k) \/ Answered(R, k)
  <2>1. c \in Frame /\ R \in Seq(Frame)
    BY <1>2, <1>9
  <2>2. /\ \A k : NoFrame(<<c>> \o R, k) <=> ~Holds(c, k) /\ NoFrame(R, k)
        /\ \A k : Answered(<<c>> \o R, k) <=> (c.op = "answer" /\ c.fd = k) \/ Answered(R, k)
    BY <2>1, PushFrames
  <2>. QED BY <1>13, <2>2
<1>16. CallOK(fds', todo', call)
  <2>1. ASSUME call # Idle
        PROVE  /\ call.fd \in Fds /\ call.host \in Hosts /\ fds'[call.fd] = fds[call.fd]
               /\ fds[call.fd].in_use /\ fds[call.fd].host = call.host /\ NoFrame(todo', call.fd)
    <3>1. /\ call.fd \in Fds /\ call.host \in Hosts /\ fds[call.fd].in_use
          /\ fds[call.fd].host = call.host /\ NoFrame(todo, call.fd)
      BY <2>1 DEF DescriptorInv, CallOK
    <3>2. call.fd # f /\ NoFrame(R, call.fd)
      BY <1>2, <1>4, <3>1
    <3>. QED BY <1>6, <1>10, <1>15, <3>1, <3>2
  <2>. QED BY <2>1 DEF CallOK
<1>17. PICK u \in Slot : /\ Reads(h, i, BufferSize - 1) = [slots EXCEPT ![h][i] = u]
                         /\ Same(slots[h][i], u) /\ u.tcp.state = slots[h][i].tcp.state
  <2>1. BufferSize - 1 \in Nat /\ slots \in Tables
    BY Sizes, DescriptorTypes
  <2>. QED BY <2>1, ReadsIs
<1>18. slots' \in Tables /\ SocketsOK(slots')
  <2>1. BufferSize - 1 \in Nat
    BY Sizes
  <2>. QED BY <2>1, ReadKeeps
<1>19. ASSUME ~cut PROVE OwnersOK(slots', fds', todo')
  <2>1. OwnersOK(slots, fds, todo) /\ slots \in Tables /\ FdsOK(fds)
    BY <1>19, DescriptorTypes DEF DescriptorInv
  <2>2. \A k \in Fds \ {f} : NoFrame(todo', k) => NoFrame(todo, k)
    BY <1>2, <1>3, <1>15
  <2>3. \A k \in Fds \ {f} : Answered(todo', k) => fds[k].in_use /\ Answered(todo, k)
    BY <1>2, <1>9, <1>15, AnsweredInUse, DescriptorTypes
  <2>4. ~NoFrame(todo', f)
    BY <1>10, <1>15
  <2>5. OwnersOK([slots EXCEPT ![h][i] = u], fds', todo')
    BY <1>4, <1>6, <1>17, <2>1, <2>2, <2>3, <2>4, AnswerOpened
  <2>. QED BY <1>17, <2>5
<1>. QED BY <1>6, <1>7, <1>8, <1>14, <1>16, <1>18, <1>19, DescriptorTypes, Assemble

\* A frame that holds no descriptor is done, and nothing else changes.
LEMMA PopKeeps ==
  ASSUME DescriptorInv, UNCHANGED delays, todo # <<>>, Head(todo).op \in {"segment", "check"},
         todo' = Tail(todo), mixed' \in BOOLEAN,
         UNCHANGED <<slots, next_port, sock_fd, fds, server, call, flight, tried, sent, cut>>
  PROVE  DescriptorInv'
<1>1. PICK a, R : a = Head(todo) /\ R = Tail(todo)
  OBVIOUS
<1>2. /\ RestOK(R, fds, server)
      /\ \A k : NoFrame(todo, k) <=> ~Holds(a, k) /\ NoFrame(R, k)
      /\ \A k : Answered(todo, k) <=> (a.op = "answer" /\ a.fd = k) \/ Answered(R, k)
  BY <1>1, PopTodo
<1>3. \A k : ~Holds(a, k)
  BY <1>1 DEF Holds
<1>4. TodoOK(todo', fds, server)
  BY <1>1, <1>2, RestTodo
<1>5. CallOK(fds, todo', call)
  BY <1>1, <1>2 DEF DescriptorInv, CallOK
<1>6. ASSUME ~cut PROVE OwnersOK(slots, fds, todo')
  <2>1. OwnersOK(slots, fds, todo)
    BY <1>6 DEF DescriptorInv
  <2>2. \A k \in Fds : fds[k].in_use /\ NoFrame(todo', k) => NoFrame(todo, k)
    BY <1>1, <1>2, <1>3
  <2>3. \A k \in Fds : Answered(todo', k) => Answered(todo, k)
    BY <1>1, <1>2
  <2>. QED BY <2>1, <2>2, <2>3, FramesKept
<1>. QED BY <1>4, <1>5, <1>6, DescriptorTypes, Assemble DEF DescriptorInv

LEMMA CheckKeeps ==
  ASSUME DescriptorInv, UNCHANGED delays, Check
  PROVE  DescriptorInv'
<1>1. PICK fd, i, f, h, got, opened :
        /\ fd = fds[server.fd] /\ i = Accepted(fd) /\ f = NewFd /\ h = fd.host
        /\ got = slots[h][i]
        /\ opened = [in_use |-> TRUE, host |-> h, slot |-> i, listening |-> FALSE, conn |-> got.conn]
  OBVIOUS
<1>2. /\ todo # <<>> /\ Head(todo).op = "check"
      /\ UNCHANGED <<next_port, sock_fd, server, call, flight, tried, sent, cut, mixed>>
  BY DEF Check
<1>3. CASE todo' = Tail(todo) /\ UNCHANGED <<slots, fds>>
  BY <1>2, <1>3, PopKeeps, DescriptorTypes
<1>4. CASE /\ i # 0 /\ f # 0 /\ fds' = [fds EXCEPT ![f] = opened] /\ slots' = Reads(h, i, BufferSize - 1)
           /\ \E n \in IF got.tcp.data = <<>> THEN {0} ELSE AnswerSizes[delays] :
                todo' = <<[op |-> "answer", fd |-> f, left |-> n]>> \o Tail(todo)
  <2>1. /\ i \in Slots /\ fd.in_use /\ fd.listening /\ got.in_use
        /\ got.tcp.state = "ESTABLISHED" /\ got.parent = fd.slot
    BY <1>1, <1>4, AcceptedIs
  <2>2. server.running /\ server.fd \in Fds
    BY <1>2, PopTodo DEF HeadOK, FrameOK, DescriptorInv, ServerOK
  <2>3. h \in Hosts /\ h = server.host /\ fd.slot \in Slots
    BY <1>1, <2>1, <2>2, DescriptorTypes DEF DescriptorInv, ServerOK, FdsOK
  <2>4. got.conn \in Conns /\ got.parent # 0
    BY <1>1, <2>1, <2>3, DescriptorTypes, Sizes DEF Tables, Slot, Slots
  <2>5. PICK d \in Fd : d = opened /\ d.in_use /\ d.host = h /\ d.slot = i /\ ~d.listening /\ d.conn = got.conn
    <3>1. i \in 0 .. MaxSlots
      BY <2>1, Sizes DEF Slots
    <3>. QED BY <1>1, <2>3, <2>4, <3>1, OpenedIs
  <2>6. PICK n \in Nat : todo' = <<[op |-> "answer", fd |-> f, left |-> n]>> \o Tail(todo)
    <3>1. AnswerSizes[delays] \subseteq Nat
      BY MagiAssumption, DescriptorTypes
    <3>. QED BY <1>4, <3>1
  <2>. QED BY <1>1, <1>2, <1>4, <2>1, <2>2, <2>3, <2>4, <2>5, <2>6, DispatchKeeps
<1>. QED BY <1>1, <1>3, <1>4 DEF Check

\* A slot takes what a segment has made of its socket: the answer, if any,
\* carries no FIN, and no descriptor has a frame more or less.
LEMMA TakesIs ==
  ASSUME slots \in Tables, SocketsOK(slots), NEW h \in Hosts, NEW k \in Slots, NEW t \in Slot,
         t.in_use, t.peer \in Hosts \ {h}, NEW got, got.sock \in Tcp!Socket, got.reply \in Replies,
         NEW R, RestOK(R, fds, server), Takes(h, k, t, got, R)
  PROVE  /\ \E u \in Slot : /\ slots' = [slots EXCEPT ![h][k] = u]
                            /\ got.sock # Tcp!FreeSocket => Same(t, u) /\ u.tcp = got.sock
         /\ slots' \in Tables /\ SocketsOK(slots') /\ TodoOK(todo', fds, server)
         /\ \A f : NoFrame(todo', f) <=> NoFrame(R, f)
         /\ \A f : Answered(todo', f) <=> Answered(R, f)
<1>1. PICK u \in Slot : u = IF got.sock = Tcp!FreeSocket THEN FreeSlot ELSE [t EXCEPT !.tcp = got.sock]
  BY FreeTypes, SetTcp
<1>2. slots' = [slots EXCEPT ![h][k] = u]
  BY <1>1 DEF Takes
<1>3. got.sock # Tcp!FreeSocket => Same(t, u) /\ u.tcp = got.sock
  BY <1>1, SetTcp
<1>4. SocketOK(h, u)
  BY <1>1, <1>3, FreeTypes DEF SocketOK, Same
<1>5. slots' \in Tables /\ SocketsOK(slots')
  <2>1. [slots EXCEPT ![h][k] = u] \in Tables
    BY SetSlot
  <2>2. SocketsOK([slots EXCEPT ![h][k] = u])
    BY <1>4, SocketsKept
  <2>. QED BY <1>2, <2>1, <2>2
<1>6. PICK A, B : /\ todo' = A \o B \o R
                  /\ A = IF got.reply = {} THEN <<>> ELSE <<Out(h, t, CHOOSE seg \in got.reply : TRUE)>>
                  /\ B = IF t.lport = Http /\ server.running /\ server.host = h
                         THEN <<[op |-> "check", host |-> h, slot |-> k]>> ELSE <<>>
  BY DEF Takes
<1>7. R \in Seq(Frame)
  BY DEF RestOK
<1>8. PICK Q : /\ Q = B \o R /\ RestOK(Q, fds, server) /\ Q \in Seq(Frame) /\ B \in Seq(Frame)
               /\ \A f : NoFrame(Q, f) <=> NoFrame(R, f)
               /\ \A f : Answered(Q, f) <=> Answered(R, f)
  <2>1. CASE t.lport = Http /\ server.running /\ server.host = h
    <3>1. PICK c \in Frame : c = [op |-> "check", host |-> h, slot |-> k]
      BY DEF Frame
    <3>2. c.op = "check" /\ (\A f : ~Holds(c, f)) /\ HeadOK(c, R, fds, server)
      BY <2>1, <3>1 DEF HeadOK, FrameOK, Holds
    <3>3. B = <<c>> /\ B \in Seq(Frame)
      BY <1>6, <2>1, <3>1
    <3>4. RestOK(<<c>> \o R, fds, server)
      BY <3>2, PushRest
    <3>5. /\ \A f : NoFrame(<<c>> \o R, f) <=> ~Holds(c, f) /\ NoFrame(R, f)
          /\ \A f : Answered(<<c>> \o R, f) <=> (c.op = "answer" /\ c.fd = f) \/ Answered(R, f)
      BY <1>7, PushFrames
    <3>. QED BY <3>2, <3>3, <3>4, <3>5 DEF RestOK
  <2>2. CASE ~(t.lport = Http /\ server.running /\ server.host = h)
    <3>1. B = <<>> /\ B \in Seq(Frame) /\ <<>> \o R = R
      BY <1>6, <1>7, <2>2, ConcatEmptySeq
    <3>. QED BY <1>7, <3>1
  <2>. QED BY <2>1, <2>2
<1>9. /\ TodoOK(todo', fds, server)
      /\ \A f : NoFrame(todo', f) <=> NoFrame(Q, f)
      /\ \A f : Answered(todo', f) <=> Answered(Q, f)
  <2>1. CASE got.reply = {}
    <3>1. A = <<>> /\ A \o B = B
      BY <1>6, <1>8, <2>1, ConcatEmptySeq
    <3>2. todo' = Q
      BY <1>6, <1>8, <3>1
    <3>. QED BY <1>8, <3>2, RestTodo
  <2>2. CASE got.reply # {}
    <3>1. PICK seg \in got.reply : seg = CHOOSE s \in got.reply : TRUE
      BY <2>2
    <3>2. seg \in Tcp!Segment /\ "FIN" \notin seg.flags
      BY DEF Replies
    <3>3. PICK m \in Frame : /\ m = Out(h, t, seg) /\ m.op = "segment" /\ m.tcp = seg
                             /\ FrameOK(m, fds, server) /\ \A f : ~Holds(m, f)
      BY <3>2, OutIs
    <3>4. A = <<m>> /\ A \in Seq(Frame)
      BY <1>6, <2>2, <3>1, <3>3
    <3>5. todo' = <<m>> \o Q
      <4>1. (A \o B) \o R = A \o (B \o R)
        BY <1>7, <1>8, <3>4, ConcatAssociative
      <4>. QED BY <1>6, <1>8, <3>4, <4>1
    <3>6. HeadOK(m, Q, fds, server)
      BY <3>2, <3>3 DEF HeadOK
    <3>7. TodoOK(todo', fds, server)
      BY <1>8, <3>3, <3>5, <3>6, PushTodo
    <3>8. /\ \A f : NoFrame(<<m>> \o Q, f) <=> ~Holds(m, f) /\ NoFrame(Q, f)
          /\ \A f : Answered(<<m>> \o Q, f) <=> (m.op = "answer" /\ m.fd = f) \/ Answered(Q, f)
      BY <1>8, <3>3, PushFrames
    <3>. QED BY <3>3, <3>5, <3>7, <3>8
  <2>. QED BY <2>1, <2>2
<1>. QED BY <1>2, <1>3, <1>5, <1>8, <1>9

\* The child that a SYN makes.
LEMMA ChildIs ==
  ASSUME NEW l \in Slots, NEW m \in Segment
  PROVE  /\ Child(l, m) \in Slot /\ Child(l, m).in_use /\ Child(l, m).peer = m.from
         /\ Child(l, m).lport = m.dport /\ Child(l, m).rport = m.sport
         /\ Child(l, m).conn = m.conn /\ Child(l, m).tcp = Tcp!FreeSocket
<1>1. l \in 0 .. MaxSlots
  BY Sizes DEF Slots
<1>2. /\ m.from \in Hosts /\ m.sport \in TcpPorts /\ m.dport \in TcpPorts /\ m.conn \in Conns
  BY DEF Segment
<1>3. Child(l, m) \in Slot
  BY <1>1, <1>2, FreeTypes DEF Child, Slot
<1>. QED BY <1>3 DEF Child, FreeSlot

LEMMA DeliverKeeps ==
  ASSUME DescriptorInv, UNCHANGED delays, Deliver
  PROVE  DescriptorInv'
<1>1. PICK m, R, h, k, t, new :
        /\ m = Head(todo) /\ R = Tail(todo) /\ h = m.to
        /\ k = Find(slots[h], m.sport, m.dport, m.from) /\ t = slots[h][k] /\ new = Alloc(slots[h])
  OBVIOUS
<1>2. /\ todo # <<>> /\ m.op = "segment"
      /\ UNCHANGED <<next_port, sock_fd, fds, server, call, flight, tried, sent, cut>>
  BY <1>1 DEF Deliver
<1>3. /\ m \in Frame /\ HeadOK(m, R, fds, server) /\ RestOK(R, fds, server)
      /\ \A f : NoFrame(todo, f) <=> ~Holds(m, f) /\ NoFrame(R, f)
      /\ \A f : Answered(todo, f) <=> (m.op = "answer" /\ m.fd = f) \/ Answered(R, f)
  BY <1>1, <1>2, PopTodo
<1>4. m \in Segment /\ h \in Hosts /\ m.from \in Hosts \ {h} /\ m.tcp \in Tcp!Segment /\ \A f : ~Holds(m, f)
  <2>1. m \in Segment /\ m.to # m.from
    BY <1>2, <1>3, FrameKinds DEF HeadOK, FrameOK
  <2>. QED BY <1>1, <1>2, <2>1 DEF Segment, Holds
<1>5. mixed' \in BOOLEAN
  <2>1. mixed' = (mixed \/ (k # 0 /\ t.tcp.state # "LISTEN" /\ t.conn # m.conn))
    BY <1>1 DEF Deliver
  <2>. QED BY <2>1, DescriptorTypes
<1>6. k = 0 \/ (k \in Slots /\ Matches(t, m.sport, m.dport, m.from))
  BY <1>1, FindIs
<1>7. slots \in Tables /\ SocketsOK(slots) /\ FdsOK(fds)
  BY DescriptorTypes
<1>8. /\ \A f : NoFrame(todo, f) <=> NoFrame(R, f)
      /\ \A f : Answered(todo, f) <=> Answered(R, f)
  BY <1>2, <1>3, <1>4
<1>9. ASSUME slots' \in Tables, SocketsOK(slots'), TodoOK(todo', fds, server),
             \A f : NoFrame(todo', f) <=> NoFrame(R, f), ~cut => OwnersOK(slots', fds, todo')
      PROVE  DescriptorInv'
  <2>1. ServerOK(fds, server) /\ CallOK(fds, todo', call)
    BY <1>8, <1>9 DEF DescriptorInv, CallOK
  <2>. QED BY <1>2, <1>5, <1>9, <2>1, DescriptorTypes, Assemble
<1>10. CASE todo' = Tail(todo) /\ UNCHANGED slots
  BY <1>1, <1>2, <1>5, <1>10, PopKeeps
<1>11. CASE /\ k # 0 /\ new # 0
            /\ Takes(h, new, Child(k, m), Tcp!OnListen(Child(k, m).tcp, m.tcp, Isn), Tail(todo))
  <2>1. PICK c \in Slot : /\ c = Child(k, m) /\ c.in_use /\ c.peer = m.from /\ c.tcp = Tcp!FreeSocket
    BY <1>4, <1>6, <1>11, ChildIs
  <2>2. PICK got : /\ got = Tcp!OnListen(Tcp!FreeSocket, m.tcp, Isn)
                   /\ got.sock \in Tcp!Socket /\ got.reply \in Replies
    BY <1>4, OnListenIs
  <2>3. new \in Slots /\ \A c0 : ~PlainSocket(slots[h][new], c0) /\ ~AnswerSocket(slots[h][new], c0)
    BY <1>1, <1>11, AllocNotOwned
  <2>4. Takes(h, new, c, got, R)
    BY <1>1, <1>11, <2>1, <2>2
  <2>5. /\ \E u \in Slot : /\ slots' = [slots EXCEPT ![h][new] = u]
                           /\ got.sock # Tcp!FreeSocket => Same(c, u) /\ u.tcp = got.sock
        /\ slots' \in Tables /\ SocketsOK(slots') /\ TodoOK(todo', fds, server)
        /\ \A f : NoFrame(todo', f) <=> NoFrame(R, f)
        /\ \A f : Answered(todo', f) <=> Answered(R, f)
    BY <1>3, <1>4, <1>7, <2>1, <2>2, <2>3, <2>4, TakesIs
  <2>6. ASSUME ~cut PROVE OwnersOK(slots', fds, todo')
    <3>1. OwnersOK(slots, fds, todo)
      BY <2>6 DEF DescriptorInv
    <3>2. PICK u \in Slot : slots' = [slots EXCEPT ![h][new] = u]
      BY <2>5
    <3>3. \A f \in Fds : fds[f].in_use /\ NoFrame(todo', f) => NoFrame(todo, f)
      BY <1>8, <2>5
    <3>4. \A f \in Fds : Answered(todo', f) => fds[f].in_use /\ Answered(todo, f)
      BY <1>8, <2>5, AnsweredInUse, DescriptorTypes
    <3>5. OwnersOK([slots EXCEPT ![h][new] = u], fds, todo')
      BY <1>4, <1>7, <2>3, <3>1, <3>3, <3>4, AllocKept
    <3>. QED BY <3>2, <3>5
  <2>. QED BY <1>9, <2>5, <2>6
<1>12. CASE /\ k # 0 /\ t.tcp.state # "LISTEN"
            /\ Takes(h, k, t, Tcp!ReceiveSegment(t.tcp, m.tcp), Tail(todo))
  <2>1. k \in Slots /\ t \in Slot /\ t.in_use /\ t.tcp.state \notin {"CLOSED", "LISTEN"} /\ t.tcp \in Tcp!Socket
    <3>1. k \in Slots /\ t.in_use /\ t.tcp.state \notin {"CLOSED", "LISTEN"}
      BY <1>6, <1>12 DEF Matches
    <3>2. t \in Slot
      BY <1>1, <1>4, <1>7, <3>1 DEF Tables
    <3>. QED BY <3>1, <3>2 DEF Slot
  <2>2. t.peer \in Hosts \ {h}
    BY <1>1, <1>4, <1>7, <2>1 DEF SocketsOK, SocketOK
  <2>3. PICK got : got = Tcp!ReceiveSegment(t.tcp, m.tcp)
    OBVIOUS
  <2>4. Handled(t.tcp, m.tcp, got)
    BY <1>4, <2>1, <2>3, ReceiveIs
  <2>5. /\ got.sock \in Tcp!Socket /\ got.reply \in Replies
        /\ Moves(t.tcp.state, got.sock.state, m.tcp)
        /\ got.sock.state # "CLOSED" => got.sock # Tcp!FreeSocket
    BY <2>4, FreeSocketTyped DEF Handled
  <2>6. Takes(h, k, t, got, R)
    BY <1>1, <1>12, <2>3
  <2>7. /\ \E u \in Slot : /\ slots' = [slots EXCEPT ![h][k] = u]
                           /\ got.sock # Tcp!FreeSocket => Same(t, u) /\ u.tcp = got.sock
        /\ slots' \in Tables /\ SocketsOK(slots') /\ TodoOK(todo', fds, server)
        /\ \A f : NoFrame(todo', f) <=> NoFrame(R, f)
        /\ \A f : Answered(todo', f) <=> Answered(R, f)
    BY <1>3, <1>4, <1>7, <2>1, <2>2, <2>5, <2>6, TakesIs
  <2>8. ASSUME ~cut PROVE OwnersOK(slots', fds, todo')
    <3>1. OwnersOK(slots, fds, todo)
      BY <2>8 DEF DescriptorInv
    <3>2. PICK u \in Slot : /\ slots' = [slots EXCEPT ![h][k] = u]
                            /\ got.sock # Tcp!FreeSocket => Same(t, u) /\ u.tcp = got.sock
      BY <2>7
    <3>3. \A f \in Fds \ {0} : Plain(fds, todo', f) => fds[f] = fds[f] /\ Plain(fds, todo, f)
      BY <1>8, <2>7 DEF Plain
    <3>4. \A f \in Fds \ {0} : Answered(todo', f) => fds[f] = fds[f] /\ fds[f].in_use /\ Answered(todo, f)
      BY <1>8, <2>7, AnsweredInUse, DescriptorTypes
    <3>5. ASSUME NEW c, PlainSocket(t, c) PROVE PlainSocket(u, c)
      BY <2>5, <3>2, <3>5 DEF PlainSocket, Same, Moves
    <3>6. \A f \in Fds \ {0} : Plain(fds, todo', f) /\ fds[f].host = h /\ fds[f].slot = k /\
            PlainSocket(slots[h][k], fds[f].conn) => PlainSocket(u, fds[f].conn)
      BY <1>1, <3>5
    <3>7. \A f \in Fds \ {0} : Answered(todo', f) /\ fds[f].host = h /\ fds[f].slot = k /\
            AnswerSocket(slots[h][k], fds[f].conn) => AnswerSocket(u, fds[f].conn)
      <4>. SUFFICES ASSUME NEW f \in Fds \ {0}, Answered(todo', f), fds[f].host = h, fds[f].slot = k,
                           AnswerSocket(t, fds[f].conn)
                    PROVE  AnswerSocket(u, fds[f].conn)
        BY <1>1
      <4>1. Answered(R, f)
        BY <2>7
      <4>2. server.host = h /\ ~NoAnswer(R)
        BY <1>3, <4>1 DEF Answered, NoAnswer, RestOK, FrameOK
      <4>3. "FIN" \notin m.tcp.flags
        BY <1>2, <1>3, <1>4, <4>2 DEF HeadOK
      <4>. QED BY <2>5, <3>2, <4>3 DEF AnswerSocket, Same, Moves
    <3>8. 0 \notin Fds
      BY Sizes DEF Fds
    <3>9. OwnersOK([slots EXCEPT ![h][k] = u], fds, todo')
      BY <1>4, <1>7, <2>1, <3>1, <3>3, <3>4, <3>6, <3>7, <3>8, OwnersKept
    <3>. QED BY <3>2, <3>9
  <2>. QED BY <1>9, <2>7, <2>8
<1>13. \/ todo' = Tail(todo) /\ UNCHANGED slots
       \/ /\ k # 0 /\ new # 0
          /\ Takes(h, new, Child(k, m), Tcp!OnListen(Child(k, m).tcp, m.tcp, Isn), Tail(todo))
       \/ /\ k # 0 /\ t.tcp.state # "LISTEN"
          /\ Takes(h, k, t, Tcp!ReceiveSegment(t.tcp, m.tcp), Tail(todo))
  BY <1>1 DEF Deliver
<1>. QED BY <1>10, <1>11, <1>12, <1>13

LEMMA DescriptorStep == DescriptorInv /\ [Next]_vars => DescriptorInv'
<1>. SUFFICES ASSUME DescriptorInv, [Next]_vars PROVE DescriptorInv'
  OBVIOUS
<1>1. CASE UNCHANGED vars
  BY <1>1, DescriptorTypes, Assemble DEF vars, DescriptorInv
<1>2. CASE Next
  <2>1. UNCHANGED delays
    BY <1>2 DEF Next
  <2>2. Clients \subseteq Hosts /\ Servers \subseteq Hosts
    BY MagiAssumption
  <2>3. CASE \E h \in Clients, peer \in Hosts : \/ StartConnect(h, peer, "sock_connect")
                                                \/ StartConnect(h, peer, "http_connect")
                                                \/ TcpConnect(h, peer)
    BY <2>1, <2>2, <2>3, StartConnectKeeps, TcpConnectKeeps
  <2>4. CASE ConnectReturns \/ HttpGetReturns
    BY <2>1, <2>4, ConnectReturnsKeeps, HttpGetReturnsKeeps
  <2>5. CASE \E h \in Hosts : \/ SockSend(h) \/ SockRecv(h) \/ SockClose(h)
                              \/ TcpSend(h) \/ TcpRecv(h) \/ TcpClose(h)
    BY <2>1, <2>5, SockSendKeeps, SockRecvKeeps, SockCloseKeeps, TcpSendKeeps, TcpRecvKeeps, TcpCloseKeeps
  <2>6. CASE \E h \in Servers : TcpListen(h) \/ HttpStart(h) \/ HttpStartFails(h)
    <3>1. ASSUME NEW h \in Servers, HttpStartFails(h) PROVE DescriptorInv'
      BY <2>1, <3>1, StopServerKeeps DEF HttpStartFails
    <3>. QED BY <2>1, <2>2, <2>6, <3>1, TcpListenKeeps, HttpStartKeeps
  <2>7. CASE HttpStop
    BY <2>1, <2>7, StopServerKeeps DEF HttpStop
  <2>8. CASE Deliver \/ Check \/ Answer \/ Closed
    BY <2>1, <2>8, DeliverKeeps, CheckKeeps, AnswerKeeps, ClosedKeeps
  <2>9. CASE Delay \/ Refuse \/ Arrive
    BY <2>1, <2>9, DelayKeeps, RefuseKeeps, ArriveKeeps
  <2>. QED BY <1>2, <2>3, <2>4, <2>5, <2>6, <2>7, <2>8, <2>9 DEF Next
<1>. QED BY <1>1, <1>2

LEMMA DescriptorInvariant == Spec => []DescriptorInv
BY DescriptorInit, DescriptorStep, PTL DEF Spec

LEMMA OwnedIsNotStale == DescriptorInv => NoStaleDescriptor
<1>. SUFFICES ASSUME DescriptorInv, ~cut, NEW f \in Fds \ Closing, fds[f].in_use
              PROVE  LET t == slots[fds[f].host][fds[f].slot] IN t.in_use /\ t.conn = fds[f].conn
  BY DEF NoStaleDescriptor, DescriptorInv
<1>1. NoFrame(todo, f) \/ Answered(todo, f)
  <2>. SUFFICES ASSUME NEW n \in DOMAIN todo, Holds(todo[n], f), todo[n].op # "answer" PROVE FALSE
    BY DEF NoFrame, Answered, Holds
  <2>1. todo[n] \in Frame /\ todo[n].op = "closed" /\ todo[n].fd = f
    BY DEF DescriptorInv, TypeOK, Holds
  <2>2. todo[n] = [op |-> "closed", fd |-> f]
    BY <2>1, FrameKinds
  <2>. QED BY <2>2 DEF Closing
<1>2. OwnersOK(slots, fds, todo)
  BY DEF DescriptorInv
<1>. QED BY <1>1, <1>2 DEF OwnersOK, Plain, PlainSocket, AnswerSocket, Socket

\* Whatever sockets are opened, closed and used again, a descriptor has its own
\* connection, until a socket is closed under a descriptor that stays: by
\* tcp_close, or by a magi_close whose FIN could not be sent.
THEOREM DescriptorsKeepSockets == Spec => []NoStaleDescriptor
BY DescriptorInvariant, OwnedIsNotStale, PTL

-----------------------------------------------------------------------------
(* Source ports are taken once.                                             *)

\* A socket of a connection: found by both ports and the peer.
Open(t) == t.in_use /\ t.tcp.state # "LISTEN"

\* One end has the server's port, the other a source port.
Ends(l, r) == (l = Http /\ r \in SrcPorts) \/ (l \in SrcPorts /\ r = Http)

\* The client, its port and the attempt that a socket of host h, or a segment,
\* belongs to.
SlotKey(h, t) == IF t.lport = Http THEN <<t.peer, t.rport, t.conn>> ELSE <<h, t.lport, t.conn>>
SegKey(m) == IF m.dport = Http THEN <<m.from, m.sport, m.conn>> ELSE <<m.to, m.dport, m.conn>>

\* A client, a port and an attempt that some socket or segment belongs to.
Used(key) ==
  \/ \E h \in Hosts, i \in Slots : Open(slots[h][i]) /\ key = SlotKey(h, slots[h][i])
  \/ \E n \in DOMAIN todo : todo[n].op = "segment" /\ key = SegKey(todo[n])
  \/ \E m \in BagToSet(flight) : key = SegKey(m)

KnownSlot(h, t) ==
  t.in_use => IF t.tcp.state = "LISTEN" THEN t.lport = Http
              ELSE Ends(t.lport, t.rport) /\ t.peer \in Hosts \ {h} /\ Used(SlotKey(h, t))
KnownSeg(m) == Ends(m.dport, m.sport) /\ Used(SegKey(m))

KnownSlots(S) == \A h \in Hosts, i \in Slots : KnownSlot(h, S[h][i])
KnownTodo(T) == \A n \in DOMAIN T : T[n].op = "segment" => KnownSeg(T[n])
KnownFlight(B) == \A m \in BagToSet(B) : KnownSeg(m)

\* Until the ports are exhausted a client's port means one attempt.
UsedOnce ==
  tried <= MaxPort =>
    /\ ~mixed
    /\ \A c \in Hosts, p \in SrcPorts, m, n \in Conns :
         Used(<<c, p, m>>) /\ Used(<<c, p, n>>) => m = n

\* And the ports from the next one on are fresh.
FreshPorts ==
  tried < MaxPort =>
    \A h \in Hosts :
      /\ next_port[h] <= tried + 1
      /\ \A p \in SrcPorts, n \in Conns : Used(<<h, p, n>>) => p < next_port[h]

PortInv == /\ DescriptorInv /\ KnownSlots(slots) /\ KnownTodo(todo) /\ KnownFlight(flight)
           /\ UsedOnce /\ FreshPorts

LEMMA PortInit == Init => PortInv
<1>. SUFFICES ASSUME Init PROVE PortInv
  OBVIOUS
<1>1. /\ todo = <<>> /\ DOMAIN todo = {} /\ BagToSet(flight) = {} /\ ~mixed /\ tried = 0
      /\ \A h \in Hosts : next_port[h] = 0 /\ \A i \in Slots : ~slots[h][i].in_use
  BY EmptyFlight DEF Init, FreeSlot
<1>2. \A key : ~Used(key)
  BY <1>1 DEF Used, Open
<1>3. KnownSlots(slots) /\ KnownTodo(todo) /\ KnownFlight(flight)
  BY <1>1 DEF KnownSlots, KnownSlot, KnownTodo, KnownFlight
<1>4. UsedOnce /\ FreshPorts
  BY <1>1, <1>2, Sizes DEF UsedOnce, FreshPorts
<1>. QED BY <1>3, <1>4, DescriptorInit DEF PortInv

LEMMA HttpIs == Http \in TcpPorts /\ Http \notin SrcPorts /\ Http # 0
BY Sizes DEF Http, SrcPorts, TcpPorts

\* What is known of the state after a step is known of what was there before.
LEMMA NothingNew ==
  ASSUME PortInv, DescriptorInv', KnownSlots(slots'), KnownTodo(todo'), KnownFlight(flight'),
         tried' = tried, next_port' = next_port, tried <= MaxPort => mixed' = mixed
  PROVE  PortInv'
<1>1. \A key : Used(key)' => Used(key)
  BY DEF Used, KnownSlots, KnownSlot, KnownTodo, KnownFlight, KnownSeg, Open
<1>2. KnownSlots(slots)' /\ KnownTodo(todo)' /\ KnownFlight(flight)'
  <2>1. ASSUME NEW h \in Hosts, NEW i \in Slots PROVE KnownSlot(h, slots[h][i])'
    <3>1. KnownSlot(h, slots'[h][i])
      BY DEF KnownSlots
    <3>2. Open(slots'[h][i]) => Used(SlotKey(h, slots[h][i]))'
      BY DEF Used
    <3>. QED BY <3>1, <3>2 DEF KnownSlot, Open
  <2>2. KnownTodo(todo)'
    BY DEF KnownTodo, KnownSeg, Used
  <2>3. KnownFlight(flight)'
    BY DEF KnownFlight, KnownSeg, Used
  <2>. QED BY <2>1, <2>2, <2>3 DEF KnownSlots
<1>3. UsedOnce'
  BY <1>1 DEF PortInv, UsedOnce
<1>4. FreshPorts'
  BY <1>1 DEF PortInv, FreshPorts
<1>. QED BY <1>2, <1>3, <1>4 DEF PortInv

\* What a known socket sends is known.
LEMMA OutKnown ==
  ASSUME NEW h \in Hosts, NEW t \in Slot, KnownSlot(h, t), Open(t),
         NEW m \in Segment, m = Out(h, t, m.tcp)
  PROVE  KnownSeg(m)
<1>1. t.peer \in Hosts \ {h} /\ Ends(t.lport, t.rport) /\ Used(SlotKey(h, t))
  BY DEF KnownSlot, Open
<1>2. m.to = t.peer /\ m.from = h /\ m.sport = t.lport /\ m.dport = t.rport /\ m.conn = t.conn
  BY DEF Out
<1>3. SegKey(m) = SlotKey(h, t) /\ Ends(m.dport, m.sport)
  BY <1>1, <1>2, HttpIs DEF SegKey, SlotKey, Ends
<1>. QED BY <1>1, <1>3 DEF KnownSeg

LEMMA PushKnown ==
  ASSUME NEW a \in Frame, NEW R \in Seq(Frame), KnownTodo(R), a.op = "segment" => KnownSeg(a)
  PROVE  KnownTodo(<<a>> \o R)
<1>1. PICK T \in Seq(Frame) :
        /\ T = <<a>> \o R /\ T[1] = a
        /\ \A n \in DOMAIN T : n = 1 \/ (n - 1 \in DOMAIN R /\ T[n] = R[n - 1])
  BY PushIs
<1>2. KnownTodo(T)
  BY <1>1 DEF KnownTodo
<1>. QED BY <1>1, <1>2

LEMMA PopKnown ==
  ASSUME NEW a \in Frame, NEW R \in Seq(Frame), KnownTodo(<<a>> \o R)
  PROVE  KnownTodo(R) /\ (a.op = "segment" => KnownSeg(a))
<1>1. PICK T \in Seq(Frame) :
        /\ T = <<a>> \o R /\ T[1] = a
        /\ DOMAIN T = 1 .. Len(R) + 1 /\ Len(R) \in Nat /\ DOMAIN R = 1 .. Len(R)
        /\ \A n \in DOMAIN R : T[n + 1] = R[n]
  BY PushIs
<1>2. 1 \in DOMAIN T /\ \A n \in DOMAIN R : n + 1 \in DOMAIN T
  BY <1>1
<1>. QED BY <1>1, <1>2 DEF KnownTodo

LEMMA NoneKnown == KnownTodo(<<>>) /\ <<>> \in Seq(Frame)
BY DEF KnownTodo

\* A socket keeps its connection.
LEMMA SameKnown ==
  ASSUME NEW h, NEW t, NEW u, KnownSlot(h, t), Same(t, u),
         t.tcp.state = "LISTEN" <=> u.tcp.state = "LISTEN"
  PROVE  KnownSlot(h, u)
<1>1. SlotKey(h, u) = SlotKey(h, t)
  BY DEF SlotKey, Same
<1>. QED BY <1>1 DEF KnownSlot, Same

LEMMA SetKnown ==
  ASSUME NEW S \in Tables, KnownSlots(S), NEW h \in Hosts, NEW i \in Slots, NEW u \in Slot, KnownSlot(h, u)
  PROVE  KnownSlots([S EXCEPT ![h][i] = u])
BY SetSlot DEF KnownSlots

LEMMA FreeKnown == \A h : KnownSlot(h, FreeSlot)
BY FreeTypes DEF KnownSlot

LEMMA ListenerKnown == \A h : KnownSlot(h, Listener)
BY ListenerIs DEF KnownSlot, Listener, FreeSlot

LEMMA SendKnown ==
  ASSUME PortInv, NEW h \in Hosts, NEW i \in Slots, NEW rest, rest \in Seq(Frame), KnownTodo(rest),
         CanSend(slots[h][i]), Sends(h, i, rest)
  PROVE  KnownSlots(slots') /\ KnownTodo(todo')
<1>1. slots \in Tables /\ SocketOK(h, slots[h][i]) /\ KnownSlots(slots) /\ KnownSlot(h, slots[h][i])
  BY DescriptorTypes DEF PortInv, SocketsOK, KnownSlots
<1>2. PICK t \in Slot : t = slots[h][i]
  BY <1>1 DEF Tables
<1>3. PICK u \in Slot, m \in Segment :
           /\ slots' = [slots EXCEPT ![h][i] = u] /\ todo' = <<m>> \o rest
           /\ Same(slots[h][i], u) /\ u.tcp.state = "ESTABLISHED" /\ slots[h][i].tcp.state = "ESTABLISHED"
           /\ m = Out(h, slots[h][i], m.tcp) /\ m.tcp \in Tcp!Segment /\ "FIN" \notin m.tcp.flags
           /\ slots[h][i].in_use /\ slots[h][i].peer \in Hosts \ {h}
  BY <1>1, SendsIs
<1>4. KnownSlot(h, u)
  BY <1>1, <1>3, SameKnown
<1>5. KnownSeg(m) /\ m \in Frame
  BY <1>1, <1>2, <1>3, OutKnown, FrameKinds DEF Open
<1>6. KnownSlots([slots EXCEPT ![h][i] = u])
  BY <1>1, <1>4, SetKnown
<1>7. KnownTodo(<<m>> \o rest)
  BY <1>5, PushKnown
<1>. QED BY <1>3, <1>6, <1>7

LEMMA ReadKnown ==
  ASSUME PortInv, NEW h \in Hosts, NEW i \in Slots, NEW max \in Nat
  PROVE  KnownSlots(Reads(h, i, max))
<1>1. slots \in Tables /\ KnownSlots(slots) /\ KnownSlot(h, slots[h][i])
  BY DescriptorTypes DEF PortInv, KnownSlots
<1>2. PICK u \in Slot : /\ Reads(h, i, max) = [slots EXCEPT ![h][i] = u]
                        /\ Same(slots[h][i], u) /\ u.tcp.state = slots[h][i].tcp.state
  BY <1>1, ReadsIs
<1>3. KnownSlot(h, u)
  BY <1>1, <1>2, SameKnown
<1>4. KnownSlots([slots EXCEPT ![h][i] = u])
  BY <1>1, <1>3, SetKnown
<1>. QED BY <1>2, <1>4

\* A socket is closed locally, and its FIN sent.
LEMMA CloseKnown ==
  ASSUME NEW S \in Tables, KnownSlots(S), SocketsOK(S), NEW h \in Hosts, NEW i \in Slots,
         Tcp!CanClose(S[h][i].tcp)
  PROVE  /\ KnownSlots([S EXCEPT ![h][i].tcp = Tcp!Close(@)])
         /\ Out(h, S[h][i], Fin(S[h][i].tcp)) \in Frame
         /\ KnownSeg(Out(h, S[h][i], Fin(S[h][i].tcp)))
<1>1. SocketOK(h, S[h][i]) /\ KnownSlot(h, S[h][i])
  BY DEF SocketsOK, KnownSlots
<1>2. PICK t \in Slot : t = S[h][i]
  BY DEF Tables
<1>3. PICK u \in Slot, m \in Segment :
           /\ [S EXCEPT ![h][i].tcp = Tcp!Close(@)] = [S EXCEPT ![h][i] = u]
           /\ m = Out(h, S[h][i], Fin(S[h][i].tcp)) /\ m = Out(h, S[h][i], m.tcp)
           /\ m.tcp \in Tcp!Segment
           /\ Same(S[h][i], u) /\ S[h][i].in_use /\ S[h][i].peer \in Hosts \ {h}
           /\ HalfClosed(S[h][i].tcp.state, u.tcp.state)
  BY <1>1, ClosesIs
<1>4. t.tcp.state # "LISTEN" /\ u.tcp.state # "LISTEN"
  BY <1>2, <1>3 DEF HalfClosed
<1>5. KnownSlot(h, u)
  BY <1>1, <1>2, <1>3, <1>4, SameKnown
<1>6. KnownSeg(m) /\ m \in Frame
  BY <1>1, <1>2, <1>3, <1>4, OutKnown, FrameKinds DEF Open
<1>7. KnownSlots([S EXCEPT ![h][i] = u])
  BY <1>5, SetKnown
<1>. QED BY <1>3, <1>6, <1>7

LEMMA MagiCloseKnown ==
  ASSUME NEW S \in Tables, KnownSlots(S), SocketsOK(S), FdsOK(fds), NEW f \in Fds,
         NEW rest \in Seq(Frame), KnownTodo(rest), MagiClose(f, S, rest)
  PROVE  KnownSlots(slots') /\ KnownTodo(todo')
<1>1. CASE ~fds[f].in_use
  BY <1>1 DEF MagiClose
<1>2. CASE fds[f].in_use
  <2>1. PICK h \in Hosts, i \in Slots : h = fds[f].host /\ i = fds[f].slot
    BY <1>2 DEF FdsOK
  <2>2. PICK t \in Slot : t = S[h][i] /\ KnownSlot(h, t)
    BY DEF Tables, KnownSlots
  <2>3. CASE Tcp!CanClose(t.tcp)
    <3>1. PICK m \in Frame : m = Out(h, t, Fin(t.tcp)) /\ KnownSeg(m)
      BY <2>2, <2>3, CloseKnown
    <3>2. PICK c \in Frame : c = [op |-> "closed", fd |-> f] /\ c.op = "closed"
      BY ClosedFrame
    <3>3. PICK R \in Seq(Frame) : R = <<c>> \o rest /\ KnownTodo(R)
      BY <3>2, PushIs, PushKnown
    <3>4. todo' = <<m>> \o R /\ slots' = [S EXCEPT ![h][i].tcp = Tcp!Close(@)]
      <4>1. todo' = <<m, c>> \o rest /\ slots' = [S EXCEPT ![h][i].tcp = Tcp!Close(@)]
        BY <1>2, <2>1, <2>2, <2>3, <3>1, <3>2 DEF MagiClose
      <4>2. <<m, c>> \o rest = <<m>> \o R
        BY <3>2, <3>3
      <4>. QED BY <4>1, <4>2
    <3>5. KnownSlots([S EXCEPT ![h][i].tcp = Tcp!Close(@)])
      BY <2>2, <2>3, CloseKnown
    <3>6. KnownTodo(<<m>> \o R)
      BY <3>1, <3>3, PushKnown
    <3>. QED BY <3>4, <3>5, <3>6
  <2>4. CASE ~Tcp!CanClose(t.tcp)
    <3>1. PICK u \in Slot : u = IF t.tcp.state \in {"CLOSED", "LISTEN", "SYN_SENT", "SYN_RECEIVED"}
                                THEN FreeSlot ELSE t
      BY FreeTypes
    <3>2. slots' = [S EXCEPT ![h][i] = u] /\ todo' = rest
      BY <1>2, <2>1, <2>2, <2>4, <3>1 DEF MagiClose, Tables
    <3>3. KnownSlot(h, u)
      BY <2>2, <3>1, FreeKnown
    <3>4. KnownSlots([S EXCEPT ![h][i] = u])
      BY <3>3, SetKnown
    <3>. QED BY <3>2, <3>4
  <2>. QED BY <2>3, <2>4
<1>. QED BY <1>1, <1>2

LEMMA PortTypes ==
  ASSUME PortInv
  PROVE  /\ DescriptorInv /\ KnownSlots(slots) /\ KnownTodo(todo) /\ KnownFlight(flight)
         /\ slots \in Tables /\ SocketsOK(slots) /\ fds \in [Fds -> Fd] /\ FdsOK(fds)
         /\ todo \in Seq(Frame) /\ tried \in Nat /\ mixed \in BOOLEAN
         /\ next_port \in [Hosts -> 0 .. MaxPort]
BY DescriptorTypes DEF PortInv, Conns

\* The frames of a command in progress.
LEMMA PopKnownTodo ==
  ASSUME PortInv, todo # <<>>
  PROVE  /\ Head(todo) \in Frame /\ Tail(todo) \in Seq(Frame) /\ KnownTodo(Tail(todo))
         /\ Head(todo).op = "segment" => KnownSeg(Head(todo)) /\ Head(todo) \in Segment
<1>1. todo \in Seq(Frame) /\ KnownTodo(todo)
  BY PortTypes
<1>2. PICK a \in Frame, R \in Seq(Frame) : a = Head(todo) /\ R = Tail(todo) /\ todo = <<a>> \o R
  BY <1>1, PopIs
<1>3. KnownTodo(<<a>> \o R)
  BY <1>1, <1>2
<1>. QED BY <1>2, <1>3, PopKnown, FrameKinds

\* Commands that close a descriptor.
LEMMA CloseActionsKnown ==
  ASSUME PortInv, DescriptorInv', HttpGetReturns \/ (\E h \in Hosts : SockClose(h)) \/ (Ready /\ StopServer)
  PROVE  PortInv'
<1>1. tried' = tried /\ next_port' = next_port /\ mixed' = mixed /\ flight' = flight
  BY DEF HttpGetReturns, SockClose, StopServer
<1>2. ASSUME NEW f \in Fds, NEW S \in Tables, SocketsOK(S), KnownSlots(S), MagiClose(f, S, <<>>)
      PROVE  KnownSlots(slots') /\ KnownTodo(todo')
  BY <1>2, NoneKnown, PortTypes, MagiCloseKnown
<1>3. KnownSlots(slots') /\ KnownTodo(todo')
  <2>1. CASE HttpGetReturns
    <3>1. call.stage # "idle" /\ MagiClose(call.fd, Reads(call.host, fds[call.fd].slot, BufferSize), <<>>)
      BY <2>1 DEF HttpGetReturns
    <3>2. call.fd \in Fds /\ call.host \in Hosts /\ fds[call.fd].slot \in Slots
      BY <3>1, CallIs, PortTypes
    <3>3. PICK N : N = Reads(call.host, fds[call.fd].slot, BufferSize)
      OBVIOUS
    <3>4. N \in Tables /\ SocketsOK(N)
      BY <3>2, <3>3, ReadKeeps, PortTypes, Sizes
    <3>5. KnownSlots(N)
      BY <3>2, <3>3, ReadKnown, Sizes
    <3>. QED BY <1>2, <3>1, <3>2, <3>3, <3>4, <3>5
  <2>2. ASSUME NEW h \in Hosts, SockClose(h) PROVE KnownSlots(slots') /\ KnownTodo(todo')
    <3>1. sock_fd[h] \in Fds /\ MagiClose(sock_fd[h], slots, <<>>)
      BY <2>2, PortTypes, DescriptorTypes DEF SockClose, Fds
    <3>. QED BY <1>2, <3>1, PortTypes
  <2>3. CASE Ready /\ StopServer
    <3>1. CASE server.fd = 0
      BY <2>3, <3>1, PortTypes DEF StopServer
    <3>2. CASE server.fd # 0
      <4>1. server.fd \in Fds /\ MagiClose(server.fd, slots, <<>>)
        BY <2>3, <3>2, PortTypes, DescriptorTypes DEF StopServer, Fds
      <4>. QED BY <1>2, <4>1, PortTypes
    <3>. QED BY <3>1, <3>2
  <2>. QED BY <2>1, <2>2, <2>3
<1>. QED BY <1>1, <1>3, NothingNew, PortTypes

LEMMA ListenKnown ==
  ASSUME PortInv, DescriptorInv', NEW h \in Hosts, TcpListen(h) \/ HttpStart(h)
  PROVE  PortInv'
<1>1. PICK i : i = Alloc(slots[h])
  OBVIOUS
<1>2. /\ i # 0 /\ slots' = [slots EXCEPT ![h][i] = Listener] /\ todo' = todo /\ flight' = flight
      /\ tried' = tried /\ next_port' = next_port /\ mixed' = mixed
  BY <1>1 DEF TcpListen, HttpStart
<1>3. i \in Slots
  BY <1>1, <1>2, AllocIs
<1>4. KnownSlots([slots EXCEPT ![h][i] = Listener])
  BY <1>3, PortTypes, ListenerIs, ListenerKnown, SetKnown
<1>. QED BY <1>2, <1>4, NothingNew, PortTypes

LEMMA SendActionsKnown ==
  ASSUME PortInv, DescriptorInv', NEW h \in Hosts, SockSend(h) \/ TcpSend(h)
  PROVE  PortInv'
<1>1. tried' = tried /\ next_port' = next_port /\ mixed' = mixed /\ flight' = flight
  BY DEF SockSend, TcpSend
<1>2. PICK g \in Hosts, i \in Slots : CanSend(slots[g][i]) /\ Sends(g, i, <<>>)
  <2>1. CASE SockSend(h)
    <3>1. sock_fd[h] \in Fds /\ fds[sock_fd[h]].in_use
      BY <2>1, PortTypes, DescriptorTypes DEF SockSend, Fds
    <3>2. fds[sock_fd[h]].host \in Hosts /\ fds[sock_fd[h]].slot \in Slots
      BY <3>1, PortTypes DEF FdsOK
    <3>. QED BY <2>1, <3>2 DEF SockSend
  <2>2. CASE TcpSend(h)
    <3>1. PICK i : i = FirstIn(h, {"ESTABLISHED"})
      OBVIOUS
    <3>2. i # 0 /\ CanSend(slots[h][i]) /\ Sends(h, i, <<>>)
      BY <2>2, <3>1 DEF TcpSend
    <3>. QED BY <3>1, <3>2, FirstInIs
  <2>. QED BY <2>1, <2>2
<1>3. KnownSlots(slots') /\ KnownTodo(todo')
  BY <1>2, NoneKnown, SendKnown
<1>. QED BY <1>1, <1>3, NothingNew, PortTypes

LEMMA RecvActionsKnown ==
  ASSUME PortInv, DescriptorInv', NEW h \in Hosts, SockRecv(h) \/ TcpRecv(h)
  PROVE  PortInv'
<1>1. tried' = tried /\ next_port' = next_port /\ mixed' = mixed /\ flight' = flight /\ todo' = todo
  BY DEF SockRecv, TcpRecv
<1>2. PICK g \in Hosts, i \in Slots, max \in Nat : slots' = Reads(g, i, max)
  <2>1. CASE SockRecv(h)
    <3>1. sock_fd[h] \in Fds /\ fds[sock_fd[h]].in_use
      BY <2>1, PortTypes, DescriptorTypes DEF SockRecv, Fds
    <3>2. fds[sock_fd[h]].host \in Hosts /\ fds[sock_fd[h]].slot \in Slots
      BY <3>1, PortTypes DEF FdsOK
    <3>. QED BY <2>1, <3>2, Sizes DEF SockRecv
  <2>2. CASE TcpRecv(h)
    <3>. DEFINE S == {j \in Slots : /\ slots[h][j].in_use
                                    /\ \/ slots[h][j].tcp.state = "ESTABLISHED"
                                       \/ slots[h][j].tcp.data # <<>>}
    <3>1. PICK i : i = FirstOf(S)
      OBVIOUS
    <3>2. i # 0 /\ slots' = Reads(h, i, Len(Unit))
      BY <2>2, <3>1 DEF TcpRecv
    <3>3. i \in Slots
      BY <3>1, <3>2, FirstSlot
    <3>4. Len(Unit) \in Nat
      BY DEF Unit
    <3>. QED BY <3>2, <3>3, <3>4
  <2>. QED BY <2>1, <2>2
<1>3. KnownSlots(slots')
  BY <1>2, ReadKnown
<1>. QED BY <1>1, <1>3, NothingNew, PortTypes

LEMMA TcpCloseKnown ==
  ASSUME PortInv, DescriptorInv', NEW h \in Hosts, TcpClose(h)
  PROVE  PortInv'
<1>1. PICK i : i = FirstIn(h, {"ESTABLISHED", "CLOSE_WAIT"})
  OBVIOUS
<1>2. /\ i # 0 /\ Closes(h, i, <<>>)
      /\ tried' = tried /\ next_port' = next_port /\ mixed' = mixed /\ flight' = flight
  BY <1>1 DEF TcpClose
<1>3. i \in Slots /\ slots[h][i].tcp.state \in {"ESTABLISHED", "CLOSE_WAIT"}
  BY <1>1, <1>2, FirstInIs
<1>4. Tcp!CanClose(slots[h][i].tcp)
  BY <1>3 DEF Tcp!CanClose
<1>5. PICK m \in Frame : m = Out(h, slots[h][i], Fin(slots[h][i].tcp)) /\ KnownSeg(m)
  BY <1>3, <1>4, PortTypes, CloseKnown
<1>6. slots' = [slots EXCEPT ![h][i].tcp = Tcp!Close(@)] /\ todo' = <<m>> \o <<>>
  BY <1>2, <1>5 DEF Closes
<1>7. KnownSlots([slots EXCEPT ![h][i].tcp = Tcp!Close(@)])
  BY <1>3, <1>4, PortTypes, CloseKnown
<1>8. KnownTodo(<<m>> \o <<>>)
  BY <1>5, NoneKnown, PushKnown
<1>. QED BY <1>2, <1>6, <1>7, <1>8, NothingNew, PortTypes

LEMMA ConnectReturnsKnown ==
  ASSUME PortInv, DescriptorInv', ConnectReturns
  PROVE  PortInv'
<1>1. /\ call.stage \in {"sock_connect", "http_connect"} /\ call.stage # "idle" /\ todo = <<>>
      /\ tried' = tried /\ next_port' = next_port /\ mixed' = mixed /\ flight' = flight
  BY DEF ConnectReturns
<1>2. PICK h \in Hosts, f \in Fds, i \in Slots : h = call.host /\ f = call.fd /\ i = fds[f].slot
  BY <1>1, CallIs, PortTypes
<1>3. CASE slots' = [slots EXCEPT ![h][i] = FreeSlot] /\ todo' = todo
  <2>1. KnownSlots([slots EXCEPT ![h][i] = FreeSlot])
    BY PortTypes, FreeTypes, FreeKnown, SetKnown
  <2>. QED BY <1>1, <1>3, <2>1, NothingNew, PortTypes
<1>4. CASE slots' = slots /\ todo' = todo
  BY <1>1, <1>4, NothingNew, PortTypes
<1>5. CASE CanSend(slots[h][i]) /\ Sends(h, i, <<>>)
  <2>1. KnownSlots(slots') /\ KnownTodo(todo')
    BY <1>5, NoneKnown, SendKnown
  <2>. QED BY <1>1, <2>1, NothingNew, PortTypes
<1>. QED BY <1>2, <1>3, <1>4, <1>5 DEF ConnectReturns, FailConnect

LEMMA AnswerKnown ==
  ASSUME PortInv, DescriptorInv', Answer
  PROVE  PortInv'
<1>1. PICK a, R, f : a = Head(todo) /\ R = Tail(todo) /\ f = a.fd
  OBVIOUS
<1>2. /\ todo # <<>> /\ a.op = "answer"
      /\ tried' = tried /\ next_port' = next_port /\ mixed' = mixed /\ flight' = flight
      /\ IF a.left > 0 /\ CanSend(slots[fds[f].host][fds[f].slot])
         THEN Sends(fds[f].host, fds[f].slot, <<[a EXCEPT !.left = @ - 1]>> \o R)
         ELSE MagiClose(f, slots, R)
  BY <1>1 DEF Answer
<1>3. a \in Frame /\ R \in Seq(Frame) /\ KnownTodo(R)
  BY <1>1, <1>2, PopKnownTodo
<1>4. f \in Fds /\ a.left \in Nat /\ fds[f].in_use
  <2>1. HeadOK(a, R, fds, server)
    BY <1>1, <1>2, PopTodo, PortTypes
  <2>. QED BY <1>1, <1>2, <1>3, <2>1, FrameKinds DEF HeadOK, FrameOK
<1>5. PICK h \in Hosts, i \in Slots : h = fds[f].host /\ i = fds[f].slot
  BY <1>4, PortTypes DEF FdsOK
<1>6. KnownSlots(slots') /\ KnownTodo(todo')
  <2>1. CASE a.left > 0 /\ CanSend(slots[h][i])
    <3>1. PICK c \in Frame : c = [a EXCEPT !.left = a.left - 1] /\ c.op = "answer"
      <4>1. a.left - 1 \in Nat
        BY <1>4, <2>1
      <4>. QED BY <1>2, <1>3, <4>1, AnswerFrame
    <3>2. c = [a EXCEPT !.left = @ - 1]
      BY <3>1
    <3>3. PICK Q \in Seq(Frame) : Q = <<c>> \o R
      BY <1>3, PushIs
    <3>4. KnownTodo(Q)
      BY <1>3, <3>1, <3>3, PushKnown
    <3>5. Sends(h, i, Q)
      BY <1>2, <1>5, <2>1, <3>2, <3>3
    <3>. QED BY <2>1, <3>4, <3>5, SendKnown
  <2>2. CASE ~(a.left > 0 /\ CanSend(slots[h][i]))
    <3>1. MagiClose(f, slots, R)
      BY <1>2, <1>5, <2>2
    <3>. QED BY <1>3, <1>4, <3>1, PortTypes, MagiCloseKnown
  <2>. QED BY <2>1, <2>2
<1>. QED BY <1>2, <1>6, NothingNew, PortTypes

\* A frame that has no descriptor, or whose descriptor is closed, is done.
LEMMA PopFrameKnown ==
  ASSUME PortInv, DescriptorInv', todo # <<>>, todo' = Tail(todo),
         slots' = slots, tried' = tried, next_port' = next_port, flight' = flight,
         tried <= MaxPort => mixed' = mixed
  PROVE  PortInv'
BY PopKnownTodo, NothingNew, PortTypes

LEMMA CheckKnown ==
  ASSUME PortInv, DescriptorInv', Check
  PROVE  PortInv'
<1>1. PICK fd, i : fd = fds[server.fd] /\ i = Accepted(fd)
  OBVIOUS
<1>2. /\ todo # <<>> /\ Head(todo).op = "check"
      /\ tried' = tried /\ next_port' = next_port /\ mixed' = mixed /\ flight' = flight
  BY DEF Check
<1>3. CASE todo' = Tail(todo) /\ UNCHANGED slots
  BY <1>2, <1>3, PopFrameKnown
<1>4. CASE /\ i # 0 /\ NewFd # 0 /\ slots' = Reads(fd.host, i, BufferSize - 1)
           /\ \E n \in IF slots[fd.host][i].tcp.data = <<>> THEN {0} ELSE AnswerSizes[delays] :
                todo' = <<[op |-> "answer", fd |-> NewFd, left |-> n]>> \o Tail(todo)
  <2>1. i \in Slots /\ fd.in_use
    BY <1>1, <1>4, AcceptedIs
  <2>2. server.running /\ server.fd \in Fds
    BY <1>2, PopTodo, PortTypes DEF HeadOK, FrameOK, DescriptorInv, ServerOK
  <2>3. fd.host \in Hosts
    BY <1>1, <2>1, <2>2, PortTypes DEF FdsOK
  <2>4. KnownSlots(slots')
    <3>1. BufferSize - 1 \in Nat
      BY Sizes
    <3>. QED BY <1>4, <2>1, <2>3, <3>1, ReadKnown
  <2>5. PICK n \in Nat : todo' = <<[op |-> "answer", fd |-> NewFd, left |-> n]>> \o Tail(todo)
    <3>1. AnswerSizes[delays] \subseteq Nat
      BY MagiAssumption, DescriptorTypes, PortTypes
    <3>. QED BY <1>4, <3>1
  <2>6. PICK c \in Frame : c = [op |-> "answer", fd |-> NewFd, left |-> n] /\ c.op = "answer"
    <3>1. PICK f \in Fds : f = NewFd
      BY <1>4, NewFdIs
    <3>2. [op |-> "answer", fd |-> f, left |-> n] \in Frame
      BY <2>5, <3>1 DEF Frame
    <3>. QED BY <3>1, <3>2
  <2>7. KnownTodo(<<c>> \o Tail(todo))
    BY <1>2, <2>6, PopKnownTodo, PushKnown
  <2>8. KnownTodo(todo')
    BY <2>5, <2>6, <2>7
  <2>. QED BY <1>2, <2>4, <2>8, NothingNew, PortTypes
<1>. QED BY <1>1, <1>3, <1>4 DEF Check

LEMMA DelaysKnown ==
  ASSUME PortInv, DescriptorInv', Closed \/ Delay \/ Refuse \/ Arrive
  PROVE  PortInv'
<1>1. slots' = slots /\ tried' = tried /\ next_port' = next_port /\ mixed' = mixed
  BY DEF Closed, Delay, Refuse, Arrive
<1>2. CASE Closed
  BY <1>1, <1>2, PopFrameKnown DEF Closed
<1>3. CASE Delay
  <2>1. PICK a : a = Head(todo) /\ a.op = "segment" /\ todo # <<>> /\ flight' = flight (+) SetToBag({a})
                 /\ todo' = Tail(todo)
    BY <1>3 DEF Delay
  <2>2. KnownSeg(a) /\ KnownTodo(todo')
    BY <2>1, PopKnownTodo
  <2>3. BagToSet(flight') = BagToSet(flight) \cup {a}
    BY <2>1, BagsAre
  <2>4. KnownFlight(flight')
    BY <2>2, <2>3, PortTypes DEF KnownFlight
  <2>. QED BY <1>1, <2>2, <2>4, NothingNew, PortTypes
<1>4. CASE Arrive
  <2>1. PICK m \in BagToSet(flight) : flight' = flight (-) SetToBag({m}) /\ todo' = <<m>>
    BY <1>4 DEF Arrive
  <2>2. KnownSeg(m) /\ m \in Frame
    BY PortTypes, DescriptorTypes, FrameKinds DEF KnownFlight
  <2>3. todo' = <<m>> \o <<>>
    BY <2>1, <2>2
  <2>4. KnownTodo(<<m>> \o <<>>)
    BY <2>2, NoneKnown, PushKnown
  <2>5. KnownFlight(flight')
    BY <2>1, BagsAre, PortTypes DEF KnownFlight
  <2>. QED BY <1>1, <2>3, <2>4, <2>5, NothingNew, PortTypes
<1>5. CASE Refuse
  <2>1. PICK R : R = Tail(todo)
    OBVIOUS
  <2>2. todo # <<>> /\ R # <<>> /\ flight' = flight
    <3>1. todo \in Seq(Frame) /\ Len(todo) > 1
      BY <1>5, PortTypes DEF Refuse
    <3>2. todo # <<>> /\ Len(R) = Len(todo) - 1 /\ Len(todo) \in Nat
      BY <2>1, <3>1, HeadTailProperties, LenProperties
    <3>3. R # <<>>
      BY <3>1, <3>2
    <3>. QED BY <1>5, <3>2, <3>3 DEF Refuse
  <2>3. R \in Seq(Frame) /\ KnownTodo(R)
    BY <2>1, <2>2, PopKnownTodo
  <2>4. PICK b \in Frame, Q \in Seq(Frame) : b = Head(R) /\ Q = Tail(R) /\ R = <<b>> \o Q
    BY <2>2, <2>3, PopIs
  <2>5. KnownTodo(Q)
    <3>1. KnownTodo(<<b>> \o Q)
      BY <2>3, <2>4
    <3>. QED BY <3>1, PopKnown
  <2>6. KnownTodo(todo')
    <3>1. CASE todo' = Q
      BY <2>5, <3>1
    <3>2. CASE b.op = "answer" /\ todo' = <<[b EXCEPT !.left = 0]>> \o Q
      <4>1. PICK c \in Frame : c = [b EXCEPT !.left = 0] /\ c.op = "answer"
        BY <3>2, AnswerFrame
      <4>2. KnownTodo(<<c>> \o Q)
        BY <2>5, <4>1, PushKnown
      <4>. QED BY <3>2, <4>1, <4>2
    <3>. QED BY <1>5, <2>1, <2>4, <3>1, <3>2 DEF Refuse
  <2>. QED BY <1>1, <2>2, <2>6, NothingNew, PortTypes
<1>. QED BY <1>2, <1>3, <1>4, <1>5

\* A slot takes what a segment has made of its socket, and the answer goes out.
LEMMA TakesKnown ==
  ASSUME PortInv, NEW h \in Hosts, NEW k \in Slots, NEW t \in Slot, Ends(t.lport, t.rport),
         t.in_use, t.peer \in Hosts \ {h}, Used(SlotKey(h, t)),
         NEW got, got.sock \in Tcp!Socket, got.reply \in Replies, got.sock.state # "LISTEN",
         NEW R \in Seq(Frame), KnownTodo(R), Takes(h, k, t, got, R)
  PROVE  KnownSlots(slots') /\ KnownTodo(todo')
<1>1. PICK u \in Slot : /\ u = IF got.sock = Tcp!FreeSocket THEN FreeSlot ELSE [t EXCEPT !.tcp = got.sock]
                        /\ got.sock # Tcp!FreeSocket => Same(t, u) /\ u.tcp = got.sock
  BY FreeTypes, SetTcp
<1>2. slots' = [slots EXCEPT ![h][k] = u]
  BY <1>1 DEF Takes
<1>3. KnownSlot(h, u)
  <2>1. CASE got.sock = Tcp!FreeSocket
    BY <1>1, <2>1, FreeKnown
  <2>2. CASE got.sock # Tcp!FreeSocket
    <3>1. Same(t, u) /\ u.tcp.state # "LISTEN"
      BY <1>1, <2>2
    <3>2. SlotKey(h, u) = SlotKey(h, t)
      BY <3>1 DEF SlotKey, Same
    <3>. QED BY <3>1, <3>2 DEF KnownSlot, Same
  <2>. QED BY <2>1, <2>2
<1>4. KnownSlots(slots')
  <2>1. KnownSlots([slots EXCEPT ![h][k] = u])
    BY <1>3, PortTypes, SetKnown
  <2>. QED BY <1>2, <2>1
<1>5. PICK A, B : /\ todo' = A \o B \o R
                  /\ A = IF got.reply = {} THEN <<>> ELSE <<Out(h, t, CHOOSE seg \in got.reply : TRUE)>>
                  /\ B = IF t.lport = Http /\ server.running /\ server.host = h
                         THEN <<[op |-> "check", host |-> h, slot |-> k]>> ELSE <<>>
  BY DEF Takes
<1>6. PICK Q : Q = B \o R /\ Q \in Seq(Frame) /\ B \in Seq(Frame) /\ KnownTodo(Q)
  <2>1. CASE t.lport = Http /\ server.running /\ server.host = h
    <3>1. PICK c \in Frame : c = [op |-> "check", host |-> h, slot |-> k]
      BY DEF Frame
    <3>2. B = <<c>> /\ B \in Seq(Frame) /\ c.op = "check"
      BY <1>5, <2>1, <3>1
    <3>3. KnownTodo(<<c>> \o R)
      BY <3>2, PushKnown
    <3>4. <<c>> \o R \in Seq(Frame)
      BY PushIs
    <3>. QED BY <3>2, <3>3, <3>4
  <2>2. CASE ~(t.lport = Http /\ server.running /\ server.host = h)
    <3>1. B = <<>> /\ B \in Seq(Frame) /\ <<>> \o R = R
      BY <1>5, <2>2, ConcatEmptySeq
    <3>. QED BY <3>1
  <2>. QED BY <2>1, <2>2
<1>7. KnownTodo(todo')
  <2>1. CASE got.reply = {}
    <3>1. A = <<>> /\ A \o B = B
      BY <1>5, <1>6, <2>1, ConcatEmptySeq
    <3>. QED BY <1>5, <1>6, <3>1
  <2>2. CASE got.reply # {}
    <3>1. PICK seg \in got.reply : seg = CHOOSE s \in got.reply : TRUE
      BY <2>2
    <3>2. PICK m \in Segment : m = Out(h, t, seg) /\ m \in Frame /\ m.tcp = seg /\ m.conn = t.conn
                               /\ m.to = t.peer /\ m.from = h /\ m.sport = t.lport /\ m.dport = t.rport
      <4>1. seg \in Tcp!Segment
        BY DEF Replies
      <4>. QED BY <4>1, OutIs
    <3>3. KnownSeg(m)
      <4>1. SegKey(m) = SlotKey(h, t) /\ Ends(m.dport, m.sport)
        BY <3>2, HttpIs DEF SegKey, SlotKey, Ends
      <4>. QED BY <4>1 DEF KnownSeg
    <3>4. A = <<m>> /\ A \in Seq(Frame)
      BY <1>5, <2>2, <3>1, <3>2
    <3>5. todo' = <<m>> \o Q
      <4>1. (A \o B) \o R = A \o (B \o R)
        BY <1>6, <3>4, ConcatAssociative
      <4>. QED BY <1>5, <1>6, <3>4, <4>1
    <3>6. KnownTodo(<<m>> \o Q)
      BY <1>6, <3>2, <3>3, PushKnown
    <3>. QED BY <3>5, <3>6
  <2>. QED BY <2>1, <2>2
<1>. QED BY <1>4, <1>7

\* A segment and the socket that it finds belong to the same attempt.
LEMMA MetIsSame ==
  ASSUME PortInv, tried <= MaxPort, NEW h \in Hosts, NEW t \in Slot, KnownSlot(h, t),
         NEW m \in Segment, KnownSeg(m), m.to = h, t.tcp.state # "LISTEN",
         Matches(t, m.sport, m.dport, m.from)
  PROVE  t.conn = m.conn
<1>1. t.in_use /\ t.lport = m.dport /\ t.rport = m.sport /\ t.peer = m.from
  BY DEF Matches
<1>2. Used(SlotKey(h, t)) /\ Used(SegKey(m)) /\ Ends(t.lport, t.rport) /\ t.peer \in Hosts
  BY <1>1 DEF KnownSlot, KnownSeg
<1>3. t.conn \in Conns /\ m.conn \in Conns
  BY DEF Slot, Segment
<1>4. \A cl \in Hosts, p \in SrcPorts, x, y \in Conns :
        Used(<<cl, p, x>>) /\ Used(<<cl, p, y>>) => x = y
  BY DEF PortInv, UsedOnce
<1>5. CASE t.lport = Http
  <2>1. SlotKey(h, t) = <<t.peer, t.rport, t.conn>> /\ SegKey(m) = <<t.peer, t.rport, m.conn>>
    BY <1>1, <1>5 DEF SlotKey, SegKey
  <2>. QED BY <1>2, <1>3, <1>4, <1>5, <2>1, HttpIs DEF Ends
<1>6. CASE t.lport # Http
  <2>1. SlotKey(h, t) = <<h, t.lport, t.conn>> /\ SegKey(m) = <<h, t.lport, m.conn>>
    BY <1>1, <1>6 DEF SlotKey, SegKey
  <2>. QED BY <1>2, <1>3, <1>4, <1>6, <2>1 DEF Ends
<1>. QED BY <1>5, <1>6

LEMMA DeliverKnown ==
  ASSUME PortInv, DescriptorInv', Deliver
  PROVE  PortInv'
<1>1. PICK m, R, h, k, t, new :
        /\ m = Head(todo) /\ R = Tail(todo) /\ h = m.to
        /\ k = Find(slots[h], m.sport, m.dport, m.from) /\ t = slots[h][k] /\ new = Alloc(slots[h])
  OBVIOUS
<1>2. /\ todo # <<>> /\ m.op = "segment"
      /\ tried' = tried /\ next_port' = next_port /\ flight' = flight
      /\ mixed' = (mixed \/ (k # 0 /\ t.tcp.state # "LISTEN" /\ t.conn # m.conn))
  BY <1>1 DEF Deliver
<1>3. m \in Segment /\ KnownSeg(m) /\ R \in Seq(Frame) /\ KnownTodo(R)
  BY <1>1, <1>2, PopKnownTodo
<1>4. h \in Hosts /\ m.from \in Hosts \ {h} /\ m.tcp \in Tcp!Segment
  <2>1. m.to # m.from
    BY <1>1, <1>2, PopTodo, PortTypes DEF HeadOK, FrameOK
  <2>. QED BY <1>1, <1>3, <2>1 DEF Segment
<1>5. k = 0 \/ (k \in Slots /\ Matches(t, m.sport, m.dport, m.from))
  BY <1>1, FindIs
<1>6. k # 0 => t \in Slot /\ KnownSlot(h, t)
  BY <1>1, <1>4, <1>5, PortTypes DEF Tables, KnownSlots
<1>7. tried <= MaxPort => mixed' = mixed
  <2>. SUFFICES ASSUME tried <= MaxPort, k # 0, t.tcp.state # "LISTEN" PROVE t.conn = m.conn
    BY <1>2, PortTypes
  <2>. QED BY <1>1, <1>3, <1>4, <1>5, <1>6, MetIsSame
<1>8. CASE todo' = Tail(todo) /\ UNCHANGED slots
  BY <1>2, <1>7, <1>8, PopFrameKnown
<1>9. CASE /\ k # 0 /\ new # 0
           /\ Takes(h, new, Child(k, m), Tcp!OnListen(Child(k, m).tcp, m.tcp, Isn), Tail(todo))
  <2>1. PICK c \in Slot : /\ c = Child(k, m) /\ c.in_use /\ c.peer = m.from /\ c.tcp = Tcp!FreeSocket
                          /\ c.lport = m.dport /\ c.rport = m.sport /\ c.conn = m.conn
    BY <1>3, <1>5, <1>9, ChildIs
  <2>2. PICK got : /\ got = Tcp!OnListen(Tcp!FreeSocket, m.tcp, Isn)
                   /\ got.sock \in Tcp!Socket /\ got.reply \in Replies /\ got.sock.state # "LISTEN"
    <3>1. LET got == Tcp!OnListen(Tcp!FreeSocket, m.tcp, Isn)
          IN /\ got.sock \in Tcp!Socket /\ got.reply \in Replies
             /\ got.sock.state \in {"CLOSED", "SYN_RECEIVED"}
      BY <1>4, OnListenIs
    <3>. QED BY <3>1
  <2>3. new \in Slots
    BY <1>1, <1>9, AllocIs
  <2>4. Takes(h, new, c, got, R)
    BY <1>1, <1>9, <2>1, <2>2
  <2>5. Ends(c.lport, c.rport) /\ Used(SlotKey(h, c))
    <3>1. SlotKey(h, c) = SegKey(m)
      BY <1>1, <2>1 DEF SlotKey, SegKey
    <3>. QED BY <1>3, <2>1, <3>1 DEF KnownSeg
  <2>6. KnownSlots(slots') /\ KnownTodo(todo')
    BY <1>3, <1>4, <2>1, <2>2, <2>3, <2>4, <2>5, TakesKnown
  <2>. QED BY <1>2, <1>7, <2>6, NothingNew, PortTypes
<1>10. CASE /\ k # 0 /\ t.tcp.state # "LISTEN"
            /\ Takes(h, k, t, Tcp!ReceiveSegment(t.tcp, m.tcp), Tail(todo))
  <2>1. k \in Slots /\ t \in Slot /\ t.in_use /\ t.tcp.state \notin {"CLOSED", "LISTEN"} /\ t.tcp \in Tcp!Socket
    <3>1. k \in Slots /\ t.in_use /\ t.tcp.state \notin {"CLOSED", "LISTEN"}
      BY <1>5, <1>10 DEF Matches
    <3>. QED BY <1>6, <1>10, <3>1 DEF Slot
  <2>2. Ends(t.lport, t.rport) /\ t.peer \in Hosts \ {h} /\ Used(SlotKey(h, t))
    BY <1>6, <1>10, <2>1 DEF KnownSlot
  <2>3. PICK got : got = Tcp!ReceiveSegment(t.tcp, m.tcp)
    OBVIOUS
  <2>4. Handled(t.tcp, m.tcp, got)
    BY <1>4, <2>1, <2>3, ReceiveIs
  <2>5. got.sock \in Tcp!Socket /\ got.reply \in Replies /\ got.sock.state # "LISTEN"
    BY <2>1, <2>4 DEF Handled, Moves
  <2>6. Takes(h, k, t, got, R)
    BY <1>1, <1>10, <2>3
  <2>7. KnownSlots(slots') /\ KnownTodo(todo')
    BY <1>3, <1>4, <2>1, <2>2, <2>5, <2>6, TakesKnown
  <2>. QED BY <1>2, <1>7, <2>7, NothingNew, PortTypes
<1>11. \/ todo' = Tail(todo) /\ UNCHANGED slots
       \/ /\ k # 0 /\ new # 0
          /\ Takes(h, new, Child(k, m), Tcp!OnListen(Child(k, m).tcp, m.tcp, Isn), Tail(todo))
       \/ /\ k # 0 /\ t.tcp.state # "LISTEN"
          /\ Takes(h, k, t, Tcp!ReceiveSegment(t.tcp, m.tcp), Tail(todo))
  BY <1>1 DEF Deliver
<1>. QED BY <1>8, <1>9, <1>10, <1>11

\* While ports are fresh the next one is free, and it is the one chosen.
LEMMA NextPortFree ==
  ASSUME PortInv, NEW h \in Hosts, NEW i \in Slots, NEW peer, tried < MaxPort
  PROVE  LET start == IF next_port[h] = 0 THEN 1 ELSE next_port[h]
         IN /\ SourcePort([slots[h] EXCEPT ![i] = FreeSlot], h, peer) = start
            /\ start \in SrcPorts /\ start <= tried + 1
            /\ \A n \in Conns : ~Used(<<h, start, n>>)
<1>. DEFINE start == IF next_port[h] = 0 THEN 1 ELSE next_port[h]
            table == [slots[h] EXCEPT ![i] = FreeSlot]
            used(p) == \E j \in Slots : /\ table[j].in_use /\ table[j].tcp.state # "CLOSED"
                                        /\ table[j].lport = p
                                        /\ table[j].rport = Http /\ table[j].peer = peer
            after(n) == ((start - 1 + n) % MaxPort) + 1
            S == {k \in 0 .. MaxPort - 1 : ~used(after(k))}
<1>1. /\ slots \in Tables /\ next_port[h] \in 0 .. MaxPort /\ tried \in Nat /\ KnownSlots(slots)
      /\ next_port[h] <= tried + 1
      /\ \A p \in SrcPorts, n \in Conns : Used(<<h, p, n>>) => p < next_port[h]
  BY PortTypes DEF PortInv, FreshPorts
<1>2. start \in SrcPorts /\ start <= tried + 1 /\ next_port[h] <= start /\ start # Http
  BY <1>1, Sizes, HttpIs DEF SrcPorts
<1>3. \A n \in Conns : ~Used(<<h, start, n>>)
  BY <1>1, <1>2, Sizes DEF SrcPorts
<1>4. after(0) = start
  <2>1. PICK k \in 0 .. MaxPort - 1 : k = start - 1
    BY <1>2, Sizes DEF SrcPorts
  <2>2. k % MaxPort = k
    BY Sizes
  <2>. HIDE DEF start
  <2>3. start - 1 + 0 = k /\ k + 1 = start
    BY <2>1, <1>2, Sizes DEF SrcPorts
  <2>. QED BY <2>2, <2>3
<1>5. ~used(start)
  <2>. SUFFICES ASSUME NEW j \in Slots, table[j].in_use, table[j].lport = start, table[j].rport = Http
                PROVE  FALSE
    OBVIOUS
  <2>1. PICK s \in Slot : s = slots[h][j]
    BY <1>1 DEF Tables
  <2>2. table[j] = s
    BY <1>1, <2>1, FreeTypes DEF Tables
  <2>3. s.in_use /\ s.lport = start /\ s.rport = Http /\ KnownSlot(h, s)
    BY <1>1, <2>1, <2>2 DEF KnownSlots
  <2>4. s.tcp.state # "LISTEN" /\ Used(SlotKey(h, s))
    BY <2>3, <1>2 DEF KnownSlot
  <2>5. SlotKey(h, s) = <<h, start, s.conn>> /\ s.conn \in Conns
    BY <2>3, <1>2 DEF SlotKey, Slot
  <2>. QED BY <2>4, <2>5, <1>3
<1>6. 0 \in S
  BY <1>4, <1>5, Sizes
<1>7. FirstOf(S) = 0
  <2>1. S \in SUBSET Nat
    BY Sizes
  <2>. HIDE DEF S
  <2>2. S # {}
    BY <1>6
  <2>3. PICK m : m = FirstOf(S)
    OBVIOUS
  <2>4. m \in S /\ \A n \in S : m <= n
    BY <2>1, <2>2, <2>3, FirstOfIs
  <2>5. m \in Nat /\ m <= 0
    BY <2>1, <2>4, <1>6
  <2>. QED BY <2>3, <2>5
<1>8. SourcePort(table, h, peer) = IF S = {} THEN 0 ELSE after(FirstOf(S))
  BY DEF SourcePort
<1>9. SourcePort(table, h, peer) = start
  <2>. HIDE DEF S, start
  <2>. QED BY <1>4, <1>6, <1>7, <1>8
<1>. QED BY <1>2, <1>3, <1>9

\* An attempt takes a port: its socket and its SYN belong to it, and nothing
\* else does.
LEMMA ConnectsKnown ==
  ASSUME PortInv, DescriptorInv', NEW h \in Hosts, NEW peer \in Hosts, peer # h, todo = <<>>,
         tried < MaxConns, NEW i, i = Alloc(slots[h]), i # 0,
         NEW p, p = SourcePort([slots[h] EXCEPT ![i] = FreeSlot], h, peer), p # 0,
         Connects(h, peer, i, p), flight' = flight, mixed' = mixed
  PROVE  PortInv'
<1>1. PICK conn : conn = tried + 1
  OBVIOUS
<1>2. i \in Slots /\ p \in SrcPorts
  <2>1. p \in 0 .. MaxPort
    BY SourcePortIs, PortTypes
  <2>. QED BY <2>1, AllocIs, Sizes DEF SrcPorts
<1>3. PICK t \in Slot, s \in Segment :
        /\ slots' = [slots EXCEPT ![h][i] = t]
        /\ t.in_use /\ t.tcp.state = "SYN_SENT" /\ t.lport = p /\ t.rport = Http
        /\ t.peer = peer /\ t.conn = conn
        /\ s = Out(h, t, Syn) /\ todo' = <<s>>
        /\ next_port' = [next_port EXCEPT ![h] = (p % MaxPort) + 1]
        /\ tried' = conn
  BY <1>1, <1>2, PortTypes, ConnectsIs
<1>4. /\ slots \in Tables /\ tried \in Nat /\ mixed \in BOOLEAN
      /\ next_port \in [Hosts -> 0 .. MaxPort]
      /\ KnownSlots(slots) /\ KnownFlight(flight)
  BY PortTypes
<1>5. /\ s.op = "segment" /\ s.dport = Http /\ s.sport = p /\ s.from = h
      /\ SegKey(s) = <<h, p, conn>> /\ SlotKey(h, t) = <<h, p, conn>>
  BY <1>2, <1>3, HttpIs DEF SegKey, SlotKey, Out
<1>6. DOMAIN todo' = {1} /\ todo'[1] = s
  BY <1>3
<1>7. \A g \in Hosts, j \in Slots : slots'[g][j] = IF g = h /\ j = i THEN t ELSE slots[g][j]
  BY <1>2, <1>3, <1>4, SetSlot
<1>8. Used(<<h, p, conn>>)'
  <2>1. 1 \in DOMAIN todo' /\ todo'[1].op = "segment" /\ <<h, p, conn>> = SegKey(todo'[1])
    BY <1>5, <1>6
  <2>. QED BY <2>1 DEF Used
<1>9. KnownSlots(slots)'
  <2>. SUFFICES ASSUME NEW g \in Hosts, NEW j \in Slots
                PROVE  KnownSlot(g, slots[g][j])'
    BY DEF KnownSlots
  <2>1. CASE g = h /\ j = i
    <3>1. slots'[g][j] = t
      BY <1>7, <2>1
    <3>. QED BY <2>1, <3>1, <1>2, <1>3, <1>5, <1>8 DEF KnownSlot, Ends
  <2>2. CASE ~(g = h /\ j = i)
    <3>1. slots'[g][j] = slots[g][j] /\ KnownSlot(g, slots[g][j])
      BY <1>4, <1>7, <2>2 DEF KnownSlots
    <3>2. Open(slots'[g][j]) => Used(SlotKey(g, slots[g][j]))'
      BY DEF Used
    <3>. QED BY <3>1, <3>2 DEF KnownSlot, Open
  <2>. QED BY <2>1, <2>2
<1>10. KnownTodo(todo)'
  <2>1. KnownSeg(s)'
    BY <1>2, <1>5, <1>8 DEF KnownSeg, Ends
  <2>. QED BY <1>6, <2>1 DEF KnownTodo
<1>11. KnownFlight(flight)'
  <2>. SUFFICES ASSUME NEW m \in BagToSet(flight') PROVE KnownSeg(m)'
    BY DEF KnownFlight
  <2>1. m \in BagToSet(flight)
    OBVIOUS
  <2>2. Ends(m.dport, m.sport)
    BY <1>4, <2>1 DEF KnownFlight, KnownSeg
  <2>3. Used(SegKey(m))'
    BY DEF Used
  <2>. QED BY <2>2, <2>3 DEF KnownSeg
<1>12. \A key : Used(key)' => Used(key) \/ key = <<h, p, conn>>
  <2>. SUFFICES ASSUME NEW key, Used(key)', key # <<h, p, conn>> PROVE Used(key)
    OBVIOUS
  <2>1. ASSUME NEW g \in Hosts, NEW j \in Slots, Open(slots'[g][j]), key = SlotKey(g, slots'[g][j])
        PROVE  Used(key)
    <3>1. ~(g = h /\ j = i)
      BY <2>1, <1>5, <1>7
    <3>. QED BY <3>1, <2>1, <1>7 DEF Used
  <2>2. ASSUME NEW n \in DOMAIN todo', key = SegKey(todo'[n]) PROVE FALSE
    BY <2>2, <1>5, <1>6
  <2>3. ASSUME NEW m \in BagToSet(flight'), key = SegKey(m) PROVE Used(key)
    BY <2>3 DEF Used
  <2>. QED BY <2>1, <2>2, <2>3 DEF Used
<1>13. CASE tried >= MaxPort
  <2>1. tried' > MaxPort
    BY <1>1, <1>3, <1>4, <1>13, Sizes
  <2>2. UsedOnce' /\ FreshPorts'
    BY <2>1, <1>1, <1>3, <1>4, Sizes DEF UsedOnce, FreshPorts
  <2>. QED BY <1>9, <1>10, <1>11, <2>2 DEF PortInv
<1>14. CASE tried < MaxPort
  <2>1. p <= tried + 1 /\ \A n \in Conns : ~Used(<<h, p, n>>)
    BY <1>2, <1>14, NextPortFree
  <2>2. \A g \in Hosts : /\ next_port[g] <= tried + 1
                         /\ \A r \in SrcPorts, n \in Conns : Used(<<g, r, n>>) => r < next_port[g]
    BY <1>14 DEF PortInv, FreshPorts
  <2>3. p = IF next_port[h] = 0 THEN 1 ELSE next_port[h]
    BY <1>2, <1>14, NextPortFree
  <2>4. UsedOnce'
    <3>1. tried <= MaxPort /\ ~mixed /\ \A c \in Hosts, r \in SrcPorts, m, n \in Conns :
            Used(<<c, r, m>>) /\ Used(<<c, r, n>>) => m = n
      BY <1>4, <1>14, Sizes DEF PortInv, UsedOnce
    <3>2. \A c \in Hosts, r \in SrcPorts, m, n \in Conns :
            Used(<<c, r, m>>)' /\ Used(<<c, r, n>>)' => m = n
      <4>. SUFFICES ASSUME NEW c \in Hosts, NEW r \in SrcPorts, NEW m \in Conns, NEW n \in Conns,
                           Used(<<c, r, m>>)', Used(<<c, r, n>>)'
                    PROVE  m = n
        OBVIOUS
      <4>1. Used(<<c, r, m>>) \/ (c = h /\ r = p /\ m = conn)
        BY <1>12
      <4>2. Used(<<c, r, n>>) \/ (c = h /\ r = p /\ n = conn)
        BY <1>12
      <4>. QED BY <2>1, <3>1, <4>1, <4>2
    <3>. QED BY <3>1, <3>2 DEF UsedOnce
  <2>5. FreshPorts'
    <3>. SUFFICES ASSUME tried' < MaxPort, NEW g \in Hosts
                  PROVE  /\ next_port'[g] <= tried' + 1
                         /\ \A r \in SrcPorts, n \in Conns : Used(<<g, r, n>>)' => r < next_port'[g]
      BY DEF FreshPorts
    <3>1. p < MaxPort /\ p \in Nat /\ tried' = tried + 1
      BY <1>1, <1>2, <1>3, <1>4, <2>1, Sizes, SMTT(30) DEF SrcPorts
    <3>2. p % MaxPort = p
      BY <3>1, Sizes
    <3>3. next_port'[g] = IF g = h THEN p + 1 ELSE next_port[g]
      BY <1>3, <1>4, <3>2
    <3>4. next_port[h] <= p
      BY <2>3, <1>4
    <3>5. next_port'[g] <= tried' + 1
      BY <1>4, <2>1, <2>2, <3>1, <3>3
    <3>6. ASSUME NEW r \in SrcPorts, NEW n \in Conns, Used(<<g, r, n>>)'
          PROVE  r < next_port'[g]
      <4>1. Used(<<g, r, n>>) \/ (g = h /\ r = p)
        BY <1>12, <3>6
      <4>2. r \in Nat /\ next_port[g] \in Nat
        BY <1>4, Sizes DEF SrcPorts
      <4>. QED BY <2>2, <3>1, <3>3, <3>4, <4>1, <4>2
    <3>. QED BY <3>5, <3>6
  <2>. QED BY <1>9, <1>10, <1>11, <2>4, <2>5 DEF PortInv
<1>. QED BY <1>4, <1>13, <1>14, Sizes

LEMMA ConnectKnown ==
  ASSUME PortInv, DescriptorInv', NEW h \in Hosts, NEW peer \in Hosts, NEW stage,
         StartConnect(h, peer, stage) \/ TcpConnect(h, peer)
  PROVE  PortInv'
<1>1. PICK i, p : i = Alloc(slots[h]) /\ p = SourcePort([slots[h] EXCEPT ![i] = FreeSlot], h, peer)
  OBVIOUS
<1>2. p = ConnectPort(h, peer)
  BY <1>1 DEF ConnectPort
<1>3. /\ todo = <<>> /\ tried < MaxConns /\ peer # h /\ i # 0 /\ p # 0
      /\ Connects(h, peer, i, p) /\ flight' = flight /\ mixed' = mixed
  BY <1>1, <1>2 DEF StartConnect, TcpConnect, Ready
<1>. QED BY <1>1, <1>3, ConnectsKnown

LEMMA PortStep == PortInv /\ [Next]_vars => PortInv'
<1>. SUFFICES ASSUME PortInv, [Next]_vars PROVE PortInv'
  OBVIOUS
<1>1. DescriptorInv'
  BY DescriptorStep DEF PortInv
<1>2. CASE UNCHANGED vars
  BY <1>1, <1>2, NothingNew, PortTypes DEF vars
<1>3. CASE Next
  <2>1. Clients \subseteq Hosts /\ Servers \subseteq Hosts
    BY MagiAssumption
  <2>2. CASE \E h \in Clients, peer \in Hosts : \/ StartConnect(h, peer, "sock_connect")
                                                \/ StartConnect(h, peer, "http_connect")
                                                \/ TcpConnect(h, peer)
    BY <1>1, <2>1, <2>2, ConnectKnown
  <2>3. CASE ConnectReturns
    BY <1>1, <2>3, ConnectReturnsKnown
  <2>4. CASE HttpGetReturns \/ HttpStop \/ (\E h \in Servers : HttpStartFails(h))
             \/ (\E h \in Hosts : SockClose(h))
    BY <1>1, <2>4, CloseActionsKnown DEF HttpStop, HttpStartFails
  <2>5. CASE \E h \in Hosts : SockSend(h) \/ TcpSend(h)
    BY <1>1, <2>5, SendActionsKnown
  <2>6. CASE \E h \in Hosts : SockRecv(h) \/ TcpRecv(h)
    BY <1>1, <2>6, RecvActionsKnown
  <2>7. CASE \E h \in Hosts : TcpClose(h)
    BY <1>1, <2>7, TcpCloseKnown
  <2>8. CASE \E h \in Servers : TcpListen(h) \/ HttpStart(h)
    BY <1>1, <2>1, <2>8, ListenKnown
  <2>9. CASE Deliver \/ Check \/ Answer
    BY <1>1, <2>9, DeliverKnown, CheckKnown, AnswerKnown
  <2>10. CASE Closed \/ Delay \/ Refuse \/ Arrive
    BY <1>1, <2>10, DelaysKnown
  <2>. QED BY <1>3, <2>2, <2>3, <2>4, <2>5, <2>6, <2>7, <2>8, <2>9, <2>10 DEF Next
<1>. QED BY <1>2, <1>3

\* Until a host has gone once through its source ports, no segment meets the
\* socket of another connection: tcp_socket_find and the recycling of slots
\* never need more than the ports to tell the connections apart.
THEOREM SegmentsMeetTheirSockets == Spec => []NoMixing
<1>1. PortInv => NoMixing
  BY DEF PortInv, UsedOnce, NoMixing
<1>. QED BY <1>1, PortInit, PortStep, PTL DEF Spec
=============================================================================
