------------------------- MODULE TcpConnectionProofs -------------------------
(***************************************************************************)
(* TcpConnection for every buffer size, segment size, stream length and    *)
(* pair of initial sequence numbers, in four parts:                         *)
(*                                                                         *)
(* - what the operators of TcpSocket do to the receiving side of a socket;  *)
(* - StreamInv, an inductive invariant from which StreamIntegrity and       *)
(*   EofComplete follow;                                                    *)
(* - AgreementInv, what the two ends know of each other.  It adds to        *)
(*   StreamInv the bounds of the receive buffers, the contents of the send  *)
(*   buffers, and the fact that everything rests on: no acknowledgement, in *)
(*   a socket or on the wire, is ahead of what its sender has taken.        *)
(*   ReceiveWindow, SendBufferUnacked, NoPhantomAck, HandshakeAgreement and *)
(*   CloseAgreement follow, and so does the refinement of ByteStream;       *)
(* - FifoInv, the phases of a connection over the ordered path of TcpFifo   *)
(*   and how each queue leads from one end to the other, from which         *)
(*   QuiescentAgreement follows.                                            *)
(***************************************************************************)
EXTENDS TcpFifo, SequenceTheorems, FiniteSetTheorems, WellFoundedInduction,
        TLAPS

\* Two sockets that differ in their receive side only.
SameSender(s, t) ==
  /\ t.state = s.state
  /\ t.send_seq = s.send_seq
  /\ t.send_ack = s.send_ack
  /\ t.send_data = s.send_data
  /\ t.start_seq = s.start_seq

\* The scan for the contiguous run of valid bytes in tcp_buffer_payload
\* stops inside the buffer, at the first slot that is not valid.
LEMMA ReadyProperties ==
  ASSUME NEW valid \in SUBSET Offsets
  PROVE  /\ Ready(valid) \in 0 .. BufferSize
         /\ Ready(valid) \notin valid
         /\ \A o \in 0 .. Ready(valid) - 1 : o \in valid
<1> DEFINE T == {r \in 0 .. BufferSize : r \notin valid}
<1>1. T \subseteq Nat /\ BufferSize \in T
  BY BufferAssumption DEF Offsets
<1>2. PICK m \in T : \A y \in T : ~(<<y, m>> \in OpToRel(<, Nat))
  BY <1>1, NatLessThanWellFounded, WFMin, Zenon
<1>3. \A y \in T : ~(y < m)
  BY <1>1, <1>2 DEF OpToRel
<1>4. \A o \in 0 .. m - 1 : o \in valid
  BY <1>1, <1>3, BufferAssumption
<1>5. \E r \in 0 .. BufferSize : r \notin valid /\ \A o \in 0 .. r - 1 : o \in valid
  BY <1>4
<1>. QED BY <1>5 DEF Ready

\* Appending the first r pending bytes to the data.
LEMMA AppendRun ==
  ASSUME NEW data \in Seq(Byte), NEW pending \in [Offsets -> Byte],
         NEW r \in 0 .. BufferSize
  PROVE  LET run == [i \in 1 .. r |-> pending[i - 1]]
         IN /\ data \o run \in Seq(Byte)
            /\ Len(data \o run) = Len(data) + r
            /\ \A i \in 1 .. Len(data) : (data \o run)[i] = data[i]
            /\ \A i \in 1 .. r : (data \o run)[Len(data) + i] = pending[i - 1]
<1> DEFINE run == [i \in 1 .. r |-> pending[i - 1]]
<1>1. r \in Nat
  BY BufferAssumption
<1>2. \A i \in 1 .. r : pending[i - 1] \in Byte
  <2>1. ASSUME NEW i \in 1 .. r PROVE i - 1 \in Offsets
    BY BufferAssumption DEF Offsets
  <2>. QED BY <2>1
<1>3. run \in Seq(Byte) /\ Len(run) = r
  BY <1>1, <1>2, IsASeq
<1>4. \A i \in 1 .. r : run[i] = pending[i - 1]
  OBVIOUS
<1> HIDE DEF run
<1>5. Len(data) \in Nat
  BY LenProperties
<1>6. /\ data \o run \in Seq(Byte)
      /\ Len(data \o run) = Len(data) + Len(run)
      /\ \A i \in 1 .. Len(data) + Len(run) :
           (data \o run)[i] = IF i <= Len(data) THEN data[i] ELSE run[i - Len(data)]
  BY <1>3, ConcatProperties
<1>7. \A i \in 1 .. Len(data) : (data \o run)[i] = data[i]
  BY <1>1, <1>3, <1>5, <1>6
<1>8. \A i \in 1 .. r : (data \o run)[Len(data) + i] = pending[i - 1]
  BY <1>1, <1>3, <1>4, <1>5, <1>6
<1>. QED BY <1>3, <1>6, <1>7, <1>8 DEF run

\* Moving the contiguous run to the user's data keeps the receive side a
\* part of the stream.
LEMMA DrainOK ==
  ASSUME NEW s \in Socket, NEW base \in Nat, NEW k \in Nat, NEW limit \in Nat,
         RecvOK(s, base, k, limit)
  PROVE  /\ Drain(s) \in Socket
         /\ RecvOK(Drain(s), base, k, limit)
         /\ SameSender(s, Drain(s))
<1> DEFINE r == Ready(s.valid)
           d == s.data
           n == Len(s.data)
           pending == s.pending
           valid == s.valid
           d2 == d \o [i \in 1 .. r |-> pending[i - 1]]
           pending2 == [o \in Offsets |->
                          IF o + r < BufferSize THEN pending[o + r] ELSE 0]
           valid2 == {o \in Offsets : o + r \in valid}
           t == Drain(s)
<1>1. /\ valid \in SUBSET Offsets /\ pending \in [Offsets -> Byte]
      /\ d \in Seq(Byte) /\ s.recv_seq \in Nat
  BY DEF Socket
<1>2. n \in Nat
  BY <1>1, LenProperties
<1>3. /\ s.recv_seq = base + k + n
      /\ k + n <= limit
      /\ \A i \in 1 .. n : d[i] = k + i
      /\ \A o \in valid : pending[o] = k + n + o + 1 /\ k + n + o + 1 <= limit
  BY DEF RecvOK, HoldsStream
<1>4. r \in 0 .. BufferSize /\ \A o \in 0 .. r - 1 : o \in valid
  BY <1>1, ReadyProperties
<1>5. r \in Nat
  BY <1>4, BufferAssumption
<1>6. t = [s EXCEPT !.data = d2, !.recv_seq = s.recv_seq + r,
                    !.pending = pending2, !.valid = valid2,
                    !.pending_count = s.pending_count - r]
  BY DEF Drain
<1> HIDE DEF r
<1>7. /\ d2 \in Seq(Byte) /\ Len(d2) = n + r
      /\ \A i \in 1 .. n : d2[i] = d[i]
      /\ \A i \in 1 .. r : d2[n + i] = pending[i - 1]
  BY <1>1, <1>4, AppendRun
<1>8. pending2 \in [Offsets -> Byte] /\ valid2 \in SUBSET Offsets
  BY <1>1, <1>5, BufferAssumption DEF Offsets, Byte
<1>9. ASSUME NEW o \in valid2
      PROVE  o \in Nat /\ o + r \in valid /\ pending2[o] = pending[o + r]
  BY <1>1, <1>5, BufferAssumption DEF Offsets
<1> HIDE DEF d, n, pending, valid, d2, pending2, valid2, t
<1>10. t \in Socket
  <2>1. d2 \in Seq(Byte) /\ s.recv_seq + r \in Nat /\ s.pending_count - r \in Int
    BY <1>1, <1>5, <1>7, SMTT(30) DEF Socket
  <2>. QED BY <1>6, <1>8, <2>1 DEF Socket
<1>11. /\ t.recv_seq = s.recv_seq + r /\ t.data = d2
       /\ t.valid = valid2 /\ t.pending = pending2
  BY <1>6 DEF Socket
<1>12. SameSender(s, t)
  BY <1>6 DEF Socket, SameSender
<1>13. RecvOK(t, base, k, limit)
  <2>1. s.recv_seq + r = base + k + (n + r)
    BY <1>2, <1>3, <1>5
  <2>2. k + (n + r) <= limit
    <3>1. CASE r = 0
      BY <1>2, <1>3, <3>1
    <3>2. CASE r # 0
      <4>1. r - 1 \in valid
        BY <1>4, <1>5, <3>2
      <4>2. k + n + (r - 1) + 1 <= limit
        BY <1>3, <4>1
      <4>. QED BY <1>2, <1>5, <4>2
    <3>. QED BY <3>1, <3>2
  <2>3. ASSUME NEW i \in 1 .. n + r PROVE d2[i] = k + i
    <3>1. CASE i <= n
      BY <1>2, <1>3, <1>5, <1>7, <3>1
    <3>2. CASE ~(i <= n)
      <4>1. i - n \in 1 .. r /\ (i - n) - 1 \in 0 .. r - 1 /\ n + (i - n) = i
        BY <1>2, <1>5, <3>2
      <4>2. d2[i] = pending[(i - n) - 1]
        BY <1>7, <4>1
      <4>3. pending[(i - n) - 1] = k + n + ((i - n) - 1) + 1
        BY <1>3, <1>4, <4>1
      <4>. QED BY <1>2, <1>5, <4>2, <4>3
    <3>. QED BY <3>1, <3>2
  <2>4. ASSUME NEW o \in valid2
        PROVE  pending2[o] = k + (n + r) + o + 1 /\ k + (n + r) + o + 1 <= limit
    <3>1. /\ pending[o + r] = k + n + (o + r) + 1
          /\ k + n + (o + r) + 1 <= limit
      BY <1>3, <1>9
    <3>. QED BY <1>2, <1>5, <1>9, <3>1
  <2>. QED BY <1>7, <1>11, <2>1, <2>2, <2>3, <2>4 DEF RecvOK, HoldsStream
<1>. QED BY <1>10, <1>12, <1>13 DEF t

\* Storing the bytes of a slice of the stream that the window accepts.
LEMMA StoreOK ==
  ASSUME NEW s \in Socket, NEW seq \in Nat, NEW payload \in Seq(Byte),
         NEW base \in Nat, NEW k \in Nat, NEW limit \in Nat,
         RecvOK(s, base, k, limit), Slice(seq, payload, base, limit),
         Len(payload) > Already(s, seq), Accepts(s, seq, payload)
  PROVE  /\ Store(s, seq, payload) \in Socket
         /\ RecvOK(Store(s, seq, payload), base, k, limit)
         /\ SameSender(s, Store(s, seq, payload))
<1> DEFINE n == Len(s.data)
           len == Len(payload)
           rs == s.recv_seq
           pending == s.pending
           new == Slots(s, seq, payload) \ s.valid
           pending2 == [o \in Offsets |-> IF o \in new THEN payload[rs + o - seq + 1]
                                         ELSE pending[o]]
           t == Store(s, seq, payload)
<1>1. /\ s.valid \in SUBSET Offsets /\ pending \in [Offsets -> Byte]
      /\ s.data \in Seq(Byte) /\ rs \in Nat /\ s.pending_count \in Int
  BY DEF Socket
<1>2. n \in Nat /\ len \in Nat /\ payload \in [1 .. len -> Byte]
  BY <1>1, LenProperties
<1>3. /\ rs = base + k + n
      /\ k + n <= limit
      /\ \A o \in s.valid : pending[o] = k + n + o + 1 /\ k + n + o + 1 <= limit
  BY DEF RecvOK, HoldsStream
<1>4. /\ base <= seq /\ seq - base + len <= limit
      /\ \A i \in 1 .. len : payload[i] = seq - base + i
  <2>1. payload # <<>>
    <3>1. Already(s, seq) >= 0
      BY <1>1 DEF Already
    <3>2. Already(s, seq) \in Int
      BY <1>1 DEF Already
    <3>. QED BY <1>2, <3>1, <3>2
  <2>. QED BY <2>1 DEF Slice
<1>5. ASSUME NEW o \in new
      PROVE  /\ o \in Offsets
             /\ rs + o - seq + 1 \in 1 .. len
  <2>1. o \in Offset(s, seq) .. seq + len - rs - 1
    BY DEF Slots
  <2>2. /\ Offset(s, seq) < BufferSize
        /\ len - Already(s, seq) <= BufferSize - Offset(s, seq)
    BY DEF Accepts
  <2>3. \/ seq < rs /\ Already(s, seq) = rs - seq /\ Offset(s, seq) = 0
        \/ seq >= rs /\ Already(s, seq) = 0 /\ Offset(s, seq) = seq - rs
    BY <1>1 DEF Already, Offset
  <2> HIDE DEF new, len, rs
  <2>4. o \in Int /\ 0 <= o /\ o < BufferSize
    BY <1>1, <1>2, <2>1, <2>2, <2>3, BufferAssumption
  <2>5. o \in Offsets
    BY <2>4, BufferAssumption DEF Offsets
  <2>6. 1 <= rs + o - seq + 1 /\ rs + o - seq + 1 <= len
    BY <1>1, <1>2, <2>1, <2>3, <2>4, SMTT(30)
  <2>. QED BY <1>1, <1>2, <2>4, <2>5, <2>6
<1>6. t = [s EXCEPT !.pending = pending2, !.valid = s.valid \cup new,
                    !.pending_count = s.pending_count + Cardinality(new)]
  BY DEF Store
<1>7. Cardinality(new) \in Nat
  <2>1. IsFiniteSet(Offsets)
    BY FS_Interval, BufferAssumption DEF Offsets
  <2>2. new \subseteq Offsets
    BY <1>5
  <2>. QED BY <2>1, <2>2, FS_Subset, FS_CardinalityType
<1>8. pending2 \in [Offsets -> Byte] /\ s.valid \cup new \in SUBSET Offsets
  BY <1>1, <1>2, <1>5
<1>9. ASSUME NEW o \in s.valid \cup new
      PROVE  pending2[o] = k + n + o + 1 /\ k + n + o + 1 <= limit
  <2>1. CASE o \in new
    <3>1. o \in Offsets /\ o \in Int
      BY <1>5, <2>1 DEF Offsets
    <3>2. pending2[o] = payload[rs + o - seq + 1]
      BY <2>1, <3>1
    <3>3. rs + o - seq + 1 \in 1 .. len
      BY <1>5, <2>1
    <3>4. pending2[o] = seq - base + (rs + o - seq + 1)
      BY <1>4, <3>2, <3>3
    <3> HIDE DEF n, len, rs, pending2, new
    <3>5. /\ rs = base + k + n /\ seq - base + len <= limit
          /\ n \in Nat /\ len \in Nat /\ rs \in Nat /\ o \in Int
      BY <1>1, <1>2, <1>3, <1>4, <3>1
    <3>6. seq - base + (rs + o - seq + 1) = k + n + o + 1
      BY <3>5
    <3>7. k + n + o + 1 <= limit
      BY <3>3, <3>5
    <3>. QED BY <3>4, <3>6, <3>7
  <2>2. CASE o \notin new
    <3>1. o \in s.valid /\ o \in Offsets
      BY <1>1, <2>2
    <3>2. pending2[o] = pending[o]
      BY <2>2, <3>1
    <3>. QED BY <1>3, <3>1, <3>2
  <2>. QED BY <2>1, <2>2
<1> HIDE DEF new, pending2, t
<1>10. t \in Socket
  <2>1. s.pending_count + Cardinality(new) \in Int
    BY <1>1, <1>7
  <2>. QED BY <1>6, <1>8, <2>1 DEF Socket
<1>11. /\ t.recv_seq = s.recv_seq /\ t.data = s.data
       /\ t.valid = s.valid \cup new /\ t.pending = pending2
  BY <1>6 DEF Socket
<1>12. SameSender(s, t)
  BY <1>6 DEF Socket, SameSender
<1>13. RecvOK(t, base, k, limit)
  BY <1>9, <1>11 DEF RecvOK, HoldsStream
<1>. QED BY <1>10, <1>12, <1>13 DEF t

\* tcp_buffer_payload: a slice of the stream, whether new, old, overlapping
\* or out of the window, leaves the receive side a part of the stream and
\* the rest of the socket alone.
LEMMA BufferPayloadOK ==
  ASSUME NEW s \in Socket, NEW seq \in Nat, NEW payload \in Seq(Byte),
         NEW base \in Nat, NEW k \in Nat, NEW limit \in Nat,
         RecvOK(s, base, k, limit), Slice(seq, payload, base, limit)
  PROVE  /\ BufferPayload(s, seq, payload) \in Socket
         /\ RecvOK(BufferPayload(s, seq, payload), base, k, limit)
         /\ SameSender(s, BufferPayload(s, seq, payload))
<1>1. CASE Len(payload) > Already(s, seq) /\ Accepts(s, seq, payload)
  <2> DEFINE u == Store(s, seq, payload)
  <2>1. u \in Socket /\ RecvOK(u, base, k, limit) /\ SameSender(s, u)
    BY <1>1, StoreOK
  <2> HIDE DEF u
  <2>2. Drain(u) \in Socket /\ RecvOK(Drain(u), base, k, limit) /\ SameSender(u, Drain(u))
    BY <2>1, DrainOK
  <2>3. SameSender(s, Drain(u))
    BY <2>1, <2>2 DEF SameSender
  <2>4. BufferPayload(s, seq, payload) = Drain(u)
    BY <1>1 DEF BufferPayload, u
  <2>. QED BY <2>2, <2>3, <2>4
<1>2. CASE ~(Len(payload) > Already(s, seq) /\ Accepts(s, seq, payload))
  BY <1>2 DEF BufferPayload, SameSender
<1>. QED BY <1>1, <1>2

-----------------------------------------------------------------------------
(***************************************************************************)
(* The bounds of the receive buffer: unread and pending bytes together fit  *)
(* in it, pending_count counts the valid slots, and the slot at recv_seq is *)
(* empty.                                                                   *)
(***************************************************************************)
Counted(s) == /\ Len(s.data) + s.pending_count <= BufferSize
              /\ s.pending_count = Cardinality(s.valid)
WindowOK(s) == Counted(s) /\ 0 \notin s.valid

LEMMA FiniteOffsets ==
  ASSUME NEW valid \in SUBSET Offsets
  PROVE  IsFiniteSet(valid) /\ Cardinality(valid) \in Nat
<1>1. IsFiniteSet(Offsets)
  BY FS_Interval, BufferAssumption DEF Offsets
<1>. QED BY <1>1, FS_Subset, FS_CardinalityType

\* Shifting the window by the length r of the run drops r valid slots.
LEMMA ShiftedSlots ==
  ASSUME NEW valid \in SUBSET Offsets, NEW r \in 0 .. BufferSize,
         \A o \in 0 .. r - 1 : o \in valid
  PROVE  Cardinality({o \in Offsets : o + r \in valid}) = Cardinality(valid) - r
<1> DEFINE run == 0 .. r - 1
           rest == {o \in valid : o >= r}
           shifted == {o \in Offsets : o + r \in valid}
           f == [o \in shifted |-> o + r]
<1>1. r \in Nat /\ r \in Int /\ r - 1 \in Int
  BY BufferAssumption
<1>2. valid \subseteq Nat /\ shifted \subseteq Nat
  BY BufferAssumption DEF Offsets
<1>3. /\ IsFiniteSet(rest) /\ Cardinality(rest) \in Nat
      /\ IsFiniteSet(shifted) /\ Cardinality(shifted) \in Nat
  BY FiniteOffsets
<1>4. IsFiniteSet(run) /\ Cardinality(run) = r
  BY <1>1, FS_Interval
<1>5. run \cup rest = valid /\ run \cap rest = {}
  <2>1. \A o \in run : o \in valid /\ o < r
    BY <1>1
  <2>2. \A o \in valid : o \in run \/ o \in rest
    BY <1>1, <1>2
  <2>3. \A o \in rest : o \in valid /\ ~(o < r)
    BY <1>1, <1>2
  <2> HIDE DEF run, rest
  <2>. QED BY <2>1, <2>2, <2>3
<1>6. Cardinality(valid) = r + Cardinality(rest)
  <2>1. Cardinality(run \cap rest) = 0
    BY <1>5, FS_EmptySet
  <2>2. Cardinality(run \cup rest)
          = Cardinality(run) + Cardinality(rest) - Cardinality(run \cap rest)
    BY <1>3, <1>4, FS_Union
  <2> HIDE DEF run, rest
  <2>3. Cardinality(valid) = r + Cardinality(rest) - 0
    BY <1>4, <1>5, <2>1, <2>2, Zenon
  <2>. QED BY <1>1, <1>3, <2>3
<1>7. f \in Bijection(shifted, rest)
  <2>1. f \in [shifted -> rest]
    BY <1>1, <1>2
  <2>2. \A a, b \in shifted : f[a] = f[b] => a = b
    BY <1>1, <1>2
  <2>3. ASSUME NEW o \in rest PROVE \E q \in shifted : f[q] = o
    <3>1. o - r \in shifted /\ (o - r) + r = o
      BY <1>1, <1>2, BufferAssumption DEF Offsets
    <3>. QED BY <3>1
  <2> HIDE DEF f, shifted, rest
  <2>4. f \in Injection(shifted, rest)
    BY <2>1, <2>2 DEF Injection, IsInjective
  <2>5. f \in Surjection(shifted, rest)
    BY <2>1, <2>3 DEF Surjection
  <2>. QED BY <2>4, <2>5 DEF Bijection
<1> HIDE DEF f, rest, shifted
<1>8. Cardinality(rest) = Cardinality(shifted)
  <2>1. ExistsBijection(shifted, rest)
    BY <1>7 DEF ExistsBijection
  <2>. QED BY <1>3, <2>1, FS_Bijection
<1>9. Cardinality(shifted) = Cardinality(valid) - r
  BY <1>1, <1>3, <1>6, <1>8
<1>. QED BY <1>9 DEF shifted

\* Draining moves bytes from the pending slots to the data: their sum stays,
\* and the slot at the new recv_seq is empty.
LEMMA DrainWindow ==
  ASSUME NEW s \in Socket, Counted(s)
  PROVE  WindowOK(Drain(s)) /\ Len(s.data) <= Len(Drain(s).data)
<1> DEFINE r == Ready(s.valid)
           n == Len(s.data)
           d2 == s.data \o [i \in 1 .. r |-> s.pending[i - 1]]
           valid2 == {o \in Offsets : o + r \in s.valid}
           count == s.pending_count
           t == Drain(s)
<1>1. /\ s.valid \in SUBSET Offsets /\ s.pending \in [Offsets -> Byte]
      /\ s.data \in Seq(Byte) /\ count \in Int
  BY DEF Socket
<1>2. n \in Nat
  BY <1>1, LenProperties
<1>3. /\ r \in 0 .. BufferSize /\ r \notin s.valid
      /\ \A o \in 0 .. r - 1 : o \in s.valid
  BY <1>1, ReadyProperties
<1>4. t.data = d2 /\ t.valid = valid2 /\ t.pending_count = count - r
  BY DEF Drain, Socket
<1> HIDE DEF r
<1>5. Len(d2) = n + r
  BY <1>1, <1>3, AppendRun
<1>6. Cardinality(valid2) = Cardinality(s.valid) - r
  BY <1>1, <1>3, ShiftedSlots
<1>7. 0 \notin valid2
  BY <1>3, BufferAssumption
<1>8. r \in Nat
  BY <1>3, BufferAssumption
<1>9. n + count <= BufferSize /\ count = Cardinality(s.valid)
  BY DEF Counted
<1> HIDE DEF n, count, t, d2, valid2
<1>10. (n + r) + (count - r) = n + count /\ n <= n + r
  BY <1>1, <1>2, <1>8
<1>. QED BY <1>4, <1>5, <1>6, <1>7, <1>9, <1>10 DEF WindowOK, Counted, t, n

\* A payload is stored only if its new bytes fit beside the unread ones.
LEMMA StoreWindow ==
  ASSUME NEW s \in Socket, NEW seq, NEW payload, WindowOK(s),
         Store(s, seq, payload) \in Socket, Accepts(s, seq, payload)
  PROVE  Counted(Store(s, seq, payload)) /\ Store(s, seq, payload).data = s.data
<1> DEFINE new == Slots(s, seq, payload) \ s.valid
           t == Store(s, seq, payload)
<1>1. /\ t.data = s.data /\ t.valid = s.valid \cup new
      /\ t.pending_count = s.pending_count + Cardinality(new)
  BY DEF Store, Socket
<1>2. s.valid \in SUBSET Offsets /\ t.valid \in SUBSET Offsets /\ new \in SUBSET Offsets
  <2>1. s.valid \in SUBSET Offsets /\ t.valid \in SUBSET Offsets
    BY DEF Socket
  <2>. QED BY <1>1, <2>1
<1>3. Len(s.data) + s.pending_count + Cardinality(new) <= BufferSize
  BY DEF Accepts
<1>4. s.pending_count = Cardinality(s.valid)
  BY DEF WindowOK, Counted
<1>5. Len(s.data) \in Nat
  BY LenProperties DEF Socket
<1> HIDE DEF new, t
<1>6. /\ IsFiniteSet(s.valid) /\ Cardinality(s.valid) \in Nat
      /\ IsFiniteSet(new) /\ Cardinality(new) \in Nat
  BY <1>2, FiniteOffsets
<1>7. Cardinality(s.valid \cup new) = Cardinality(s.valid) + Cardinality(new)
  <2>1. s.valid \cap new = {}
    BY DEF new
  <2>2. Cardinality(s.valid \cap new) = 0
    BY <2>1, FS_EmptySet
  <2>3. Cardinality(s.valid \cup new)
          = Cardinality(s.valid) + Cardinality(new) - Cardinality(s.valid \cap new)
    BY <1>6, FS_Union
  <2>. QED BY <1>6, <2>2, <2>3
<1>8. Len(s.data) + (s.pending_count + Cardinality(new)) <= BufferSize
  BY <1>3, <1>4, <1>5, <1>6, BufferAssumption
<1>. QED BY <1>1, <1>4, <1>7, <1>8 DEF Counted, t

\* tcp_buffer_payload keeps the bounds of the buffer and loses no byte.
LEMMA BufferPayloadWindow ==
  ASSUME NEW s \in Socket, NEW seq \in Nat, NEW payload \in Seq(Byte),
         NEW base \in Nat, NEW k \in Nat, NEW limit \in Nat,
         RecvOK(s, base, k, limit), Slice(seq, payload, base, limit), WindowOK(s)
  PROVE  LET t == BufferPayload(s, seq, payload)
         IN /\ WindowOK(t) /\ Len(s.data) <= Len(t.data)
            /\ payload = <<>> => t = s
<1>1. Len(s.data) \in Nat
  BY LenProperties DEF Socket
<1>2. CASE Len(payload) > Already(s, seq) /\ Accepts(s, seq, payload)
  <2> DEFINE u == Store(s, seq, payload)
  <2>1. u \in Socket
    BY <1>2, StoreOK
  <2>2. Counted(u) /\ u.data = s.data
    BY <1>2, <2>1, StoreWindow
  <2>3. BufferPayload(s, seq, payload) = Drain(u)
    BY <1>2 DEF BufferPayload
  <2>4. payload # <<>>
    <3>1. s.recv_seq \in Nat /\ Already(s, seq) \in Int /\ Already(s, seq) >= 0
      BY DEF Already, Socket
    <3>. QED BY <1>2, <3>1, EmptySeq
  <2> HIDE DEF u
  <2>5. WindowOK(Drain(u)) /\ Len(u.data) <= Len(Drain(u).data)
    BY <2>1, <2>2, DrainWindow
  <2>. QED BY <2>2, <2>3, <2>4, <2>5
<1>3. CASE ~(Len(payload) > Already(s, seq) /\ Accepts(s, seq, payload))
  BY <1>1, <1>3 DEF BufferPayload
<1>. QED BY <1>2, <1>3

-----------------------------------------------------------------------------
\* The outcome r of a handler of h keeps the invariant.
Good(h, r) == /\ r.sock \in Socket
              /\ SocketOK(h, r.sock)
              /\ \A m \in r.reply : m \in Segment /\ SegmentOK(Peer(h), m)

LEMMA PeerType == \A h \in Hosts : Peer(h) \in Hosts /\ Peer(h) # h /\ Peer(Peer(h)) = h
  BY DEF Hosts, Client, Server, Peer

LEMMA FreeSocketType == FreeSocket \in Socket
<1>1. [o \in Offsets |-> 0] \in [Offsets -> Byte]
  BY DEF Byte
<1>2. <<>> \in Seq(Byte)
  BY EmptySeq
<1>. QED BY <1>1, <1>2 DEF FreeSocket, Socket, States

\* A bare answer carries no byte and no FIN, so it says nothing of the
\* stream; a SYN-ACK is sent with the initial sequence number.
LEMMA AnswerOK ==
  ASSUME TypeOK, NEW h \in Hosts, NEW s \in Socket, NEW f \in {{"ACK"}, {"SYN", "ACK"}},
         "SYN" \in f => s.send_seq = ISN[h]
  PROVE  \A m \in Answer(s, f).reply : m \in Segment /\ SegmentOK(Peer(h), m)
<1>1. <<>> \in Seq(Byte)
  BY EmptySeq
<1>2. s.send_seq \in Nat /\ s.recv_seq \in Nat
  BY DEF Socket
<1>3. f \in SUBSET Flags
  BY DEF Flags
<1> DEFINE m == [flags |-> f, seq |-> s.send_seq, ack |-> s.recv_seq, payload |-> <<>>]
<1>4. m \in Segment
  BY <1>1, <1>2, <1>3 DEF Segment
<1>5. Peer(Peer(h)) = h
  BY PeerType
<1>6. SegmentOK(Peer(h), m)
  BY <1>5 DEF SegmentOK, Slice
<1>7. Answer(s, f).reply = {m}
  BY DEF Answer
<1>. QED BY <1>4, <1>6, <1>7

\* tcp_acknowledge_data touches the send buffer and send_ack only.
LEMMA AcknowledgeOK ==
  ASSUME NEW s \in Socket, NEW ack \in Nat
  PROVE  LET t == AcknowledgeData(s, ack)
         IN /\ t \in Socket
            /\ t.state = s.state /\ t.send_seq = s.send_seq
            /\ t.recv_seq = s.recv_seq /\ t.data = s.data
            /\ t.pending = s.pending /\ t.valid = s.valid
<1> DEFINE size == Len(s.send_data)
           acked == IF ack - s.send_ack > size THEN size ELSE ack - s.send_ack
           rest == SubSeq(s.send_data, acked + 1, size)
           start == IF acked > 0 THEN ack ELSE s.start_seq
           t == AcknowledgeData(s, ack)
<1>1. CASE ack <= s.send_ack \/ ack > s.send_seq
  BY <1>1 DEF AcknowledgeData
<1>2. CASE ~(ack <= s.send_ack \/ ack > s.send_seq)
  <2>1. s.send_data \in Seq(Byte) /\ s.send_ack \in Nat /\ s.start_seq \in Nat
    BY DEF Socket
  <2>2. size \in Nat
    BY <2>1, LenProperties
  <2>3. acked \in 0 .. size
    BY <1>2, <2>1, <2>2
  <2>4. rest \in Seq(Byte)
    BY <2>1, <2>2, <2>3, SubSeqProperties
  <2>5. start \in Nat
    BY <2>1
  <2>6. t = [s EXCEPT !.send_data = rest, !.start_seq = start, !.send_ack = ack]
    BY <1>2 DEF AcknowledgeData
  <2> HIDE DEF rest, start, t
  <2>. QED BY <2>4, <2>5, <2>6 DEF Socket, t
<1>. QED BY <1>1, <1>2

\* Two sockets with the same receive side hold the same part of a stream.
LEMMA SameReceiver ==
  ASSUME NEW s, NEW t, t.recv_seq = s.recv_seq, t.data = s.data,
         t.pending = s.pending, t.valid = s.valid
  PROVE  \A base, k, limit : /\ HoldsStream(s, k, limit) => HoldsStream(t, k, limit)
                             /\ RecvOK(s, base, k, limit) => RecvOK(t, base, k, limit)
BY ZenonT(30) DEF HoldsStream, RecvOK

LEMMA IgnoreGood ==
  ASSUME NEW h \in Hosts, NEW s \in Socket, SocketOK(h, s)
  PROVE  Good(h, Ignore(s))
BY DEF Good, Ignore

LEMMA AnswerGood ==
  ASSUME TypeOK, NEW h \in Hosts, NEW s \in Socket, SocketOK(h, s)
  PROVE  Good(h, Answer(s, {"ACK"}))
<1>1. \A m \in Answer(s, {"ACK"}).reply : m \in Segment /\ SegmentOK(Peer(h), m)
  BY AnswerOK
<1>2. Answer(s, {"ACK"}).sock = s
  BY DEF Answer
<1>. QED BY <1>1, <1>2 DEF Good

Connected == {"ESTABLISHED", "FIN_WAIT_1", "FIN_WAIT_2"}

\* The types that the arithmetic about h needs.
LEMMA HostTypes ==
  ASSUME TypeOK, NEW h \in Hosts
  PROVE  /\ ISN[h] \in Nat /\ sent[h] \in Nat /\ closed[h] \in BOOLEAN
         /\ read[h] \in Seq(Byte) /\ Len(read[h]) \in Nat
         /\ Peer(h) \in Hosts /\ ISN[Peer(h)] \in Nat /\ sent[Peer(h)] \in Nat
<1>1. Peer(h) \in Hosts
  BY PeerType
<1>. QED BY <1>1, ConnectionAssumption, LenProperties DEF TypeOK

\* Storing the payload of a segment of the connection.
LEMMA PayloadOK ==
  ASSUME TypeOK, NEW h \in Hosts, NEW s \in Socket, SocketOK(h, s),
         s.state \in Connected, NEW seg \in Segment, SegmentOK(h, seg)
  PROVE  LET t == BufferPayload(s, seg.seq, seg.payload)
         IN t \in Socket /\ SocketOK(h, t) /\ SameSender(s, t)
<1> DEFINE p == Peer(h)
           k == Len(read[h])
           t == BufferPayload(s, seg.seq, seg.payload)
<1>1. /\ ISN[p] + 1 \in Nat /\ k \in Nat /\ sent[p] \in Nat
  BY HostTypes
<1>2. RecvOK(s, ISN[p] + 1, k, sent[p])
  BY DEF SocketOK, Connected, Receiving
<1>3. Slice(seg.seq, seg.payload, ISN[p] + 1, sent[p])
  BY DEF SegmentOK
<1>4. seg.seq \in Nat /\ seg.payload \in Seq(Byte)
  BY DEF Segment
<1>5. t \in Socket /\ RecvOK(t, ISN[p] + 1, k, sent[p]) /\ SameSender(s, t)
  BY <1>1, <1>2, <1>3, <1>4, BufferPayloadOK
<1> HIDE DEF t
<1>6. t.state = s.state /\ t.send_seq = s.send_seq
  BY <1>5 DEF SameSender
<1>7. SocketOK(h, t)
  BY <1>5, <1>6 DEF SocketOK, Connected, Opening, Sending, FinSent, Receiving, FinTaken
<1>. QED BY <1>5, <1>7 DEF t

\* Taking the FIN when nothing is missing before it.
LEMMA TakeFinGood ==
  ASSUME TypeOK, NEW h \in Hosts, NEW s \in Socket, SocketOK(h, s),
         s.state \in Connected, NEW seg \in Segment, SegmentOK(h, seg),
         "FIN" \in seg.flags, NEW next \in {"CLOSE_WAIT", "CLOSING", "TIME_WAIT"},
         s.state = "ESTABLISHED" <=> next = "CLOSE_WAIT"
  PROVE  Good(h, TakeFin(s, seg, next))
<1> DEFINE p == Peer(h)
           k == Len(read[h])
           t == [s EXCEPT !.recv_seq = @ + 1, !.state = next]
<1>3. ISN[p] \in Nat /\ k \in Nat /\ sent[p] \in Nat
  BY HostTypes
<1>1. CASE FinSeq(seg) # s.recv_seq
  <2>1. TakeFin(s, seg, next) = Answer(s, {"ACK"})
    BY <1>1 DEF TakeFin
  <2>. QED BY <2>1, AnswerGood
<1>2. CASE FinSeq(seg) = s.recv_seq
  <2>1. /\ t \in Socket /\ t.state = next /\ t.recv_seq = s.recv_seq + 1
        /\ t.send_seq = s.send_seq /\ t.data = s.data
        /\ t.valid = s.valid /\ t.pending = s.pending
    <3>1. next \in States
      BY DEF States
    <3>2. s.recv_seq + 1 \in Nat
      BY DEF Socket
    <3>. QED BY <3>1, <3>2 DEF Socket
  <2>2. RecvOK(s, ISN[p] + 1, k, sent[p])
    BY DEF SocketOK, Connected, Receiving
  <2>3. closed[p] /\ seg.payload = <<>> /\ seg.seq = ISN[p] + 1 + sent[p]
    BY DEF SegmentOK
  <2>4. s.recv_seq = ISN[p] + 1 + sent[p]
    BY <1>2, <1>3, <2>3, EmptySeq DEF FinSeq
  <2>5. Len(s.data) \in Nat
    BY LenProperties DEF Socket
  <2> HIDE DEF t, k, p
  <2>6. k + Len(t.data) = sent[p] /\ t.recv_seq = ISN[p] + 2 + sent[p]
    <3> DEFINE n == Len(s.data)
    <3>1. s.recv_seq = ISN[p] + 1 + k + n /\ n \in Nat
      BY <2>2, <2>5 DEF RecvOK
    <3>2. Len(t.data) = n
      BY <2>1
    <3> HIDE DEF n
    <3>3. k + n = sent[p]
      BY <1>3, <2>4, <3>1
    <3>4. s.recv_seq + 1 = ISN[p] + 2 + sent[p]
      BY <1>3, <2>4
    <3>. QED BY <2>1, <3>2, <3>3, <3>4
  <2>7. HoldsStream(t, k, sent[p])
    BY <2>1, <2>2 DEF RecvOK, HoldsStream
  <2>8. /\ next = "CLOSE_WAIT" => ~closed[h] /\ t.send_seq = ISN[h] + 1 + sent[h]
        /\ next # "CLOSE_WAIT" => closed[h] /\ t.send_seq = ISN[h] + 2 + sent[h]
    BY <2>1 DEF SocketOK, Connected, Sending, FinSent
  <2>9. SocketOK(h, t)
    BY <2>1, <2>3, <2>6, <2>7, <2>8
    DEF k, p, SocketOK, Opening, Sending, FinSent, Receiving, FinTaken
  <2>10. TakeFin(s, seg, next) = Answer(t, {"ACK"})
    BY <1>2 DEF TakeFin, t
  <2>. QED BY <2>1, <2>9, <2>10, AnswerGood
<1>. QED BY <1>1, <1>2

LEMMA OnEstablishedGood ==
  ASSUME TypeOK, NEW h \in Hosts, NEW s \in Socket, SocketOK(h, s),
         s.state = "ESTABLISHED", NEW seg \in Segment, SegmentOK(h, seg)
  PROVE  Good(h, OnEstablished(s, seg))
<1> DEFINE acked == IF "ACK" \in seg.flags THEN AcknowledgeData(s, seg.ack) ELSE s
           got == BufferPayload(acked, seg.seq, seg.payload)
<1>1. /\ acked \in Socket
      /\ acked.state = s.state /\ acked.send_seq = s.send_seq
      /\ acked.recv_seq = s.recv_seq /\ acked.data = s.data
      /\ acked.pending = s.pending /\ acked.valid = s.valid
  <2>1. seg.ack \in Nat
    BY DEF Segment
  <2>. QED BY <2>1, AcknowledgeOK
<1> HIDE DEF acked
<1>2. SocketOK(h, acked)
  BY <1>1, SameReceiver DEF SocketOK, Opening, Sending, FinSent, Receiving, FinTaken
<1>3. got \in Socket /\ SocketOK(h, got) /\ got.state = "ESTABLISHED"
  BY <1>1, <1>2, PayloadOK DEF Connected, SameSender
<1> HIDE DEF got
<1>4. CASE "FIN" \in seg.flags
  <2>1. OnEstablished(s, seg) = TakeFin(got, seg, "CLOSE_WAIT")
    BY <1>4 DEF OnEstablished, got, acked
  <2>. QED BY <1>3, <1>4, <2>1, TakeFinGood DEF Connected
<1>5. CASE "FIN" \notin seg.flags /\ seg.payload # <<>>
  <2>1. OnEstablished(s, seg) = Answer(got, {"ACK"})
    BY <1>5 DEF OnEstablished, got, acked
  <2>. QED BY <1>3, <2>1, AnswerGood
<1>6. CASE "FIN" \notin seg.flags /\ seg.payload = <<>>
  <2>1. OnEstablished(s, seg) = Ignore(got)
    BY <1>6 DEF OnEstablished, got, acked
  <2>. QED BY <1>3, <2>1, IgnoreGood
<1>. QED BY <1>4, <1>5, <1>6

LEMMA OnFinWait1Good ==
  ASSUME TypeOK, NEW h \in Hosts, NEW s \in Socket, SocketOK(h, s),
         s.state = "FIN_WAIT_1", NEW seg \in Segment, SegmentOK(h, seg)
  PROVE  Good(h, OnFinWait1(s, seg))
<1> DEFINE got == BufferPayload(s, seg.seq, seg.payload)
           done == [got EXCEPT !.send_ack = seg.ack, !.state = "FIN_WAIT_2"]
           next == IF AcksAll(s, seg) THEN done ELSE got
           last == IF AcksAll(s, seg) THEN "TIME_WAIT" ELSE "CLOSING"
<1>1. got \in Socket /\ SocketOK(h, got) /\ got.state = "FIN_WAIT_1"
  BY PayloadOK DEF Connected, SameSender
<1> HIDE DEF got
<1>2. next \in Socket /\ SocketOK(h, next)
  <2>1. seg.ack \in Nat
    BY DEF Segment
  <2>2. /\ done \in Socket /\ done.state = "FIN_WAIT_2"
        /\ done.send_seq = got.send_seq /\ done.recv_seq = got.recv_seq
        /\ done.data = got.data /\ done.pending = got.pending /\ done.valid = got.valid
    BY <1>1, <2>1 DEF Socket, States
  <2> HIDE DEF done
  <2>3. SocketOK(h, done)
    BY <1>1, <2>2, SameReceiver
    DEF SocketOK, Opening, Sending, FinSent, Receiving, FinTaken
  <2>. QED BY <1>1, <2>2, <2>3
<1>3. CASE "FIN" \in seg.flags
  <2>1. OnFinWait1(s, seg) = TakeFin(got, seg, last)
    BY <1>3 DEF OnFinWait1, got
  <2>2. last \in {"CLOSE_WAIT", "CLOSING", "TIME_WAIT"} /\ last # "CLOSE_WAIT"
    OBVIOUS
  <2> HIDE DEF last
  <2>. QED BY <1>1, <1>3, <2>1, <2>2, TakeFinGood DEF Connected
<1>4. CASE "FIN" \notin seg.flags /\ seg.payload # <<>>
  <2>1. OnFinWait1(s, seg) = Answer(next, {"ACK"})
    BY <1>4 DEF OnFinWait1, got
  <2> HIDE DEF next
  <2>. QED BY <1>2, <2>1, AnswerGood
<1>5. CASE "FIN" \notin seg.flags /\ seg.payload = <<>>
  <2>1. OnFinWait1(s, seg) = Ignore(next)
    BY <1>5 DEF OnFinWait1, got
  <2> HIDE DEF next
  <2>. QED BY <1>2, <2>1, IgnoreGood
<1>. QED BY <1>3, <1>4, <1>5

LEMMA OnFinWait2Good ==
  ASSUME TypeOK, NEW h \in Hosts, NEW s \in Socket, SocketOK(h, s),
         s.state = "FIN_WAIT_2", NEW seg \in Segment, SegmentOK(h, seg)
  PROVE  Good(h, OnFinWait2(s, seg))
<1> DEFINE got == BufferPayload(s, seg.seq, seg.payload)
<1>1. got \in Socket /\ SocketOK(h, got) /\ got.state = "FIN_WAIT_2"
  BY PayloadOK DEF Connected, SameSender
<1> HIDE DEF got
<1>2. CASE "FIN" \in seg.flags
  <2>1. OnFinWait2(s, seg) = TakeFin(got, seg, "TIME_WAIT")
    BY <1>2 DEF OnFinWait2, got
  <2>. QED BY <1>1, <1>2, <2>1, TakeFinGood DEF Connected
<1>3. CASE "FIN" \notin seg.flags /\ seg.payload # <<>>
  <2>1. OnFinWait2(s, seg) = Answer(got, {"ACK"})
    BY <1>3 DEF OnFinWait2, got
  <2>. QED BY <1>1, <2>1, AnswerGood
<1>4. CASE "FIN" \notin seg.flags /\ seg.payload = <<>>
  <2>1. OnFinWait2(s, seg) = Ignore(got)
    BY <1>4 DEF OnFinWait2, got
  <2>. QED BY <1>1, <2>1, IgnoreGood
<1>. QED BY <1>2, <1>3, <1>4

\* A receive side on which nothing has arrived yet.
LEMMA EmptyReceiver ==
  ASSUME TypeOK, NEW h \in Hosts, NEW t, read[h] = <<>>, t.data = <<>>, t.valid = {},
         t.recv_seq = ISN[Peer(h)] + 1
  PROVE  RecvOK(t, ISN[Peer(h)] + 1, Len(read[h]), sent[Peer(h)])
<1>1. Len(read[h]) = 0 /\ Len(t.data) = 0
  BY EmptySeq
<1>2. ISN[Peer(h)] \in Nat /\ sent[Peer(h)] \in Nat
  BY HostTypes
<1>. QED BY <1>1, <1>2 DEF RecvOK, HoldsStream

LEMMA OnSynSentGood ==
  ASSUME TypeOK, NEW h \in Hosts, NEW s \in Socket, SocketOK(h, s),
         s.state = "SYN_SENT", NEW seg \in Segment, SegmentOK(h, seg)
  PROVE  Good(h, OnSynSent(s, seg))
<1> DEFINE t == [s EXCEPT !.state = "ESTABLISHED", !.recv_seq = seg.seq + 1,
                          !.send_ack = seg.ack, !.send_seq = seg.ack]
           takes == /\ {"SYN", "ACK"} \subseteq seg.flags /\ "FIN" \notin seg.flags
                    /\ seg.ack = s.send_seq + 1
<1>1. CASE ~takes
  <2>1. OnSynSent(s, seg) = Ignore(s)
    BY <1>1 DEF OnSynSent
  <2>. QED BY <2>1, IgnoreGood
<1>2. CASE takes
  <2>1. seg.seq \in Nat /\ seg.ack \in Nat /\ seg.seq + 1 \in Nat
    BY DEF Segment
  <2>2. /\ t \in Socket /\ t.state = "ESTABLISHED" /\ t.recv_seq = seg.seq + 1
        /\ t.send_seq = seg.ack /\ t.data = s.data /\ t.valid = s.valid
    BY <2>1 DEF Socket, States
  <2>3. /\ ~closed[h] /\ sent[h] = 0 /\ read[h] = <<>>
        /\ s.send_seq = ISN[h] /\ s.data = <<>> /\ s.valid = {}
    BY DEF SocketOK, Opening
  <2>4. seg.seq = ISN[Peer(h)]
    BY <1>2 DEF SegmentOK
  <2> HIDE DEF t
  <2>5. RecvOK(t, ISN[Peer(h)] + 1, Len(read[h]), sent[Peer(h)])
    BY <2>2, <2>3, <2>4, EmptyReceiver
  <2>6. t.send_seq = ISN[h] + 1 + sent[h]
    BY <1>2, <2>2, <2>3, HostTypes
  <2>7. SocketOK(h, t)
    BY <2>2, <2>3, <2>5, <2>6
    DEF SocketOK, Opening, Sending, FinSent, Receiving, FinTaken
  <2>8. OnSynSent(s, seg) = Answer(t, {"ACK"})
    BY <1>2 DEF OnSynSent, t
  <2>. QED BY <2>2, <2>7, <2>8, AnswerGood
<1>. QED BY <1>1, <1>2

LEMMA OnSynReceivedGood ==
  ASSUME TypeOK, NEW h \in Hosts, NEW s \in Socket, SocketOK(h, s),
         s.state = "SYN_RECEIVED", NEW seg \in Segment, SegmentOK(h, seg)
  PROVE  Good(h, OnSynReceived(s, seg))
<1> DEFINE t == [s EXCEPT !.state = "ESTABLISHED",
                          !.send_ack = seg.ack, !.send_seq = seg.ack]
           got == BufferPayload(t, seg.seq, seg.payload)
           takes == /\ "ACK" \in seg.flags /\ seg.flags \cap {"SYN", "FIN"} = {}
                    /\ seg.ack = s.send_seq + 1 /\ seg.seq = s.recv_seq
<1>1. CASE ~takes
  <2>1. OnSynReceived(s, seg) = Ignore(s)
    BY <1>1 DEF OnSynReceived
  <2>. QED BY <2>1, IgnoreGood
<1>2. CASE takes
  <2>1. seg.ack \in Nat
    BY DEF Segment
  <2>2. /\ t \in Socket /\ t.state = "ESTABLISHED" /\ t.recv_seq = s.recv_seq
        /\ t.send_seq = seg.ack /\ t.data = s.data /\ t.valid = s.valid
        /\ t.pending = s.pending
    BY <2>1 DEF Socket, States
  <2>3. ~closed[h] /\ sent[h] = 0 /\ s.send_seq = ISN[h]
    BY DEF SocketOK, Opening
  <2>4. RecvOK(s, ISN[Peer(h)] + 1, Len(read[h]), sent[Peer(h)])
    BY DEF SocketOK, Receiving
  <2>5. OnSynReceived(s, seg) = IF seg.payload # <<>> THEN Answer(got, {"ACK"})
                                                     ELSE Ignore(got)
    BY <1>2 DEF OnSynReceived
  <2> HIDE DEF t
  <2>6. RecvOK(t, ISN[Peer(h)] + 1, Len(read[h]), sent[Peer(h)])
    BY <2>2, <2>4, SameReceiver
  <2>7. t.send_seq = ISN[h] + 1 + sent[h]
    BY <1>2, <2>2, <2>3, HostTypes
  <2>8. SocketOK(h, t)
    BY <2>2, <2>3, <2>6, <2>7
    DEF SocketOK, Opening, Sending, FinSent, Receiving, FinTaken
  <2>9. got \in Socket /\ SocketOK(h, got)
    BY <2>2, <2>8, PayloadOK DEF Connected
  <2> HIDE DEF got
  <2>. QED BY <2>5, <2>9, AnswerGood, IgnoreGood
<1>. QED BY <1>1, <1>2

LEMMA OnClosingGood ==
  ASSUME TypeOK, NEW h \in Hosts, NEW s \in Socket, SocketOK(h, s),
         s.state = "CLOSING", NEW seg \in Segment
  PROVE  Good(h, OnClosing(s, seg))
<1> DEFINE t == [s EXCEPT !.send_ack = seg.ack, !.state = "TIME_WAIT"]
<1>1. seg.ack \in Nat
  BY DEF Segment
<1>2. /\ t \in Socket /\ t.state = "TIME_WAIT" /\ t.send_seq = s.send_seq
      /\ t.recv_seq = s.recv_seq /\ t.data = s.data
      /\ t.pending = s.pending /\ t.valid = s.valid
  BY <1>1 DEF Socket, States
<1>3. OnClosing(s, seg) = Ignore(s) \/ OnClosing(s, seg) = Ignore(t)
  BY DEF OnClosing
<1> HIDE DEF t
<1>4. SocketOK(h, t)
  BY <1>2, SameReceiver DEF SocketOK, Opening, Sending, FinSent, Receiving, FinTaken
<1>. QED BY <1>2, <1>3, <1>4, IgnoreGood

LEMMA OnLastAckGood ==
  ASSUME TypeOK, NEW h \in Hosts, NEW s \in Socket, SocketOK(h, s),
         s.state = "LAST_ACK", NEW seg \in Segment
  PROVE  Good(h, OnLastAck(s, seg))
<1>1. closed[h] /\ closed[Peer(h)]
  BY DEF SocketOK, FinSent, FinTaken
<1>2. SocketOK(h, FreeSocket)
  <2>1. FreeSocket.state = "CLOSED"
    BY DEF FreeSocket
  <2>. QED BY <1>1, <2>1 DEF SocketOK, Opening, Sending, FinSent, Receiving, FinTaken
<1>3. OnLastAck(s, seg) = Ignore(s) \/ OnLastAck(s, seg) = Ignore(FreeSocket)
  BY DEF OnLastAck
<1>. QED BY <1>2, <1>3, IgnoreGood, FreeSocketType

\* tcp_socket_receive_segment, whatever the state of the socket.
LEMMA ReceiveSegmentGood ==
  ASSUME TypeOK, NEW h \in Hosts, NEW s \in Socket, SocketOK(h, s),
         NEW seg \in Segment, SegmentOK(h, seg)
  PROVE  Good(h, ReceiveSegment(s, seg))
<1>1. CASE s.state = "SYN_SENT"
  BY <1>1, OnSynSentGood DEF ReceiveSegment
<1>2. CASE s.state = "SYN_RECEIVED"
  BY <1>2, OnSynReceivedGood DEF ReceiveSegment
<1>3. CASE s.state = "ESTABLISHED"
  BY <1>3, OnEstablishedGood DEF ReceiveSegment
<1>4. CASE s.state = "FIN_WAIT_1"
  BY <1>4, OnFinWait1Good DEF ReceiveSegment
<1>5. CASE s.state = "FIN_WAIT_2"
  BY <1>5, OnFinWait2Good DEF ReceiveSegment
<1>6. CASE s.state = "CLOSING"
  BY <1>6, OnClosingGood DEF ReceiveSegment
<1>7. CASE s.state = "LAST_ACK"
  BY <1>7, OnLastAckGood DEF ReceiveSegment
<1>8. CASE s.state \notin {"SYN_SENT", "SYN_RECEIVED", "ESTABLISHED", "FIN_WAIT_1",
                           "FIN_WAIT_2", "CLOSING", "LAST_ACK"}
  BY <1>8, IgnoreGood DEF ReceiveSegment
<1>. QED BY <1>1, <1>2, <1>3, <1>4, <1>5, <1>6, <1>7, <1>8

\* The child that the listener's host allocates for a SYN.
LEMMA OnListenGood ==
  ASSUME TypeOK, NEW h \in Hosts, SocketOK(h, FreeSocket),
         NEW seg \in Segment, SegmentOK(h, seg), seg.flags = {"SYN"} => ~closed[h]
  PROVE  Good(h, OnListen(FreeSocket, seg, ISN[h]))
<1> DEFINE t == [FreeSocket EXCEPT !.state = "SYN_RECEIVED",
                                   !.recv_seq = seg.seq + 1, !.send_seq = ISN[h]]
           takes == "SYN" \in seg.flags /\ seg.flags \cap {"ACK", "FIN"} = {}
<1>1. CASE ~takes
  <2>1. OnListen(FreeSocket, seg, ISN[h]) = Ignore(FreeSocket)
    BY <1>1 DEF OnListen
  <2>. QED BY <2>1, IgnoreGood, FreeSocketType
<1>2. CASE takes
  <2>1. seg.seq + 1 \in Nat /\ ISN[h] \in Nat
    BY HostTypes DEF Segment
  <2>2. t \in Socket /\ t.state = "SYN_RECEIVED"
        /\ t.recv_seq = seg.seq + 1 /\ t.send_seq = ISN[h]
    BY <2>1, FreeSocketType DEF Socket, States
  <2>3. t.data = <<>> /\ t.valid = {}
    BY DEF FreeSocket
  <2>4. seg.flags = {"SYN"}
    BY <1>2 DEF SegmentOK
  <2>5. ~closed[h] /\ sent[h] = 0 /\ read[h] = <<>>
    BY <2>4 DEF SocketOK, FreeSocket
  <2>6. seg.seq = ISN[Peer(h)]
    BY <2>4 DEF SegmentOK
  <2>7. OnListen(FreeSocket, seg, ISN[h]) = Answer(t, {"SYN", "ACK"})
    BY <1>2 DEF OnListen
  <2> HIDE DEF t
  <2>8. RecvOK(t, ISN[Peer(h)] + 1, Len(read[h]), sent[Peer(h)])
    BY <2>2, <2>3, <2>5, <2>6, EmptyReceiver
  <2>9. SocketOK(h, t)
    BY <2>2, <2>3, <2>5, <2>8
    DEF SocketOK, Opening, Sending, FinSent, Receiving, FinTaken
  <2>10. \A m \in Answer(t, {"SYN", "ACK"}).reply :
           m \in Segment /\ SegmentOK(Peer(h), m)
    BY <2>2, AnswerOK
  <2>11. Answer(t, {"SYN", "ACK"}).sock = t
    BY DEF Answer
  <2>. QED BY <2>2, <2>7, <2>9, <2>10, <2>11 DEF Good
<1>. QED BY <1>1, <1>2

-----------------------------------------------------------------------------
\* Steps that leave the histories alone and change the socket of one host.
LEMMA SocketStep ==
  ASSUME StreamInv, NEW h \in Hosts, NEW r, Good(h, r),
         sock' = [sock EXCEPT ![h] = r.sock],
         net' = [net EXCEPT ![Peer(h)] = @ \cup r.reply],
         UNCHANGED <<sent, read, closed>>, listening' \in BOOLEAN
  PROVE  StreamInv'
<1>1. sock \in [Hosts -> Socket] /\ net \in [Hosts -> SUBSET Segment]
  BY DEF StreamInv, TypeOK
<1>2. r.sock \in Socket /\ r.reply \subseteq Segment
  BY DEF Good
<1>3. TypeOK'
  BY <1>1, <1>2, PeerType DEF StreamInv, TypeOK
<1>4. ASSUME NEW g \in Hosts PROVE SocketOK(g, sock[g])'
  <2>1. CASE g = h
    <3>1. sock'[g] = r.sock /\ SocketOK(g, r.sock)
      BY <1>1, <2>1 DEF Good
    <3>. QED BY <3>1 DEF SocketOK
  <2>2. CASE g # h
    <3>1. sock'[g] = sock[g] /\ SocketOK(g, sock[g])
      BY <1>1, <2>2 DEF StreamInv
    <3>. QED BY <3>1 DEF SocketOK
  <2>. QED BY <2>1, <2>2
<1>5. ASSUME NEW g \in Hosts PROVE ReadOK(g)'
  BY DEF StreamInv, ReadOK
<1>6. ASSUME NEW g \in Hosts, NEW m \in net'[g] PROVE SegmentOK(g, m)'
  <2>1. SegmentOK(g, m)
    BY <1>1, PeerType DEF StreamInv, Good
  <2>. QED BY <2>1 DEF SegmentOK
<1>. QED BY <1>3, <1>4, <1>5, <1>6 DEF StreamInv

\* Whatever the socket of h does with a segment, it leaves a sound socket and
\* sound replies.
LEMMA DeliverGood ==
  ASSUME StreamInv, NEW h \in Hosts, NEW seg \in net[h], Deliver(h, seg)
  PROVE  Good(h, HostReceive(h, seg))
<1>1. TypeOK /\ sock[h] \in Socket /\ seg \in Segment
      /\ SocketOK(h, sock[h]) /\ SegmentOK(h, seg)
  BY DEF StreamInv, TypeOK
<1>2. CASE sock[h].state # "CLOSED"
  BY <1>1, <1>2, ReceiveSegmentGood DEF HostReceive
<1>3. CASE sock[h].state = "CLOSED"
  <2>1. sock[h] = FreeSocket /\ SocketOK(h, FreeSocket)
    BY <1>1, <1>3 DEF SocketOK
  <2>2. CASE h = Server /\ listening
    <3>1. seg.flags = {"SYN"} => ~closed[h]
      BY <2>2 DEF Deliver
    <3>2. Good(h, OnListen(FreeSocket, seg, ISN[h]))
      BY <1>1, <2>1, <3>1, OnListenGood
    <3>. QED BY <1>3, <2>2, <3>2 DEF HostReceive
  <2>3. CASE ~(h = Server /\ listening)
    BY <1>3, <2>1, <2>3, FreeSocketType, IgnoreGood DEF HostReceive
  <2>. QED BY <2>2, <2>3
<1>. QED BY <1>2, <1>3

LEMMA DeliverStep ==
  ASSUME StreamInv, NEW h \in Hosts, NEW seg \in net[h], Deliver(h, seg)
  PROVE  StreamInv'
<1> DEFINE r == HostReceive(h, seg)
<1>1. TypeOK /\ sock[h] \in Socket
  BY DEF StreamInv, TypeOK
<1>2. Good(h, r)
  BY DeliverGood
<1>3. /\ sock' = [sock EXCEPT ![h] = r.sock]
      /\ net' = [net EXCEPT ![Peer(h)] = @ \cup r.reply]
      /\ UNCHANGED <<sent, read, closed>> /\ listening' \in BOOLEAN
  BY <1>1 DEF Deliver, TypeOK
<1> HIDE DEF r
<1>. QED BY <1>2, <1>3, SocketStep

LEMMA ConnectStep ==
  ASSUME StreamInv, TcpConnect
  PROVE  StreamInv'
<1> DEFINE seg == [flags |-> {"SYN"}, seq |-> ISN[Client], ack |-> 0, payload |-> <<>>]
           t == Connect(ISN[Client])
           r == [sock |-> t, reply |-> {seg}]
<1>1. TypeOK /\ Client \in Hosts /\ SocketOK(Client, sock[Client])
  BY DEF StreamInv, Hosts
<1>2. ISN[Client] \in Nat
  BY <1>1, HostTypes
<1>3. ~closed[Client] /\ sent[Client] = 0 /\ read[Client] = <<>>
  BY <1>1 DEF SocketOK, TcpConnect
<1>4. /\ t \in Socket /\ t.state = "SYN_SENT" /\ t.send_seq = ISN[Client]
  BY <1>2, FreeSocketType DEF Connect, Socket, States
<1>5. t.data = <<>> /\ t.valid = {}
  BY DEF Connect, FreeSocket
<1>6. SocketOK(Client, t)
  BY <1>3, <1>4, <1>5 DEF SocketOK, Opening, Sending, FinSent, Receiving, FinTaken
<1>7. seg \in Segment
  BY <1>2, EmptySeq DEF Segment, Flags
<1>8. SegmentOK(Peer(Client), seg)
  <2>1. Peer(Peer(Client)) = Client
    BY <1>1, PeerType
  <2>. QED BY <2>1 DEF SegmentOK, Slice
<1>9. Good(Client, r)
  BY <1>4, <1>6, <1>7, <1>8 DEF Good
<1>10. /\ sock' = [sock EXCEPT ![Client] = r.sock]
       /\ net' = [net EXCEPT ![Peer(Client)] = @ \cup r.reply]
       /\ UNCHANGED <<sent, read, closed>> /\ listening' \in BOOLEAN
  BY <1>1 DEF TcpConnect, Transmit, TypeOK
<1> HIDE DEF r
<1>. QED BY <1>1, <1>9, <1>10, SocketStep

\* More bytes sent do not disturb what the other side holds.
LEMMA HoldsMore ==
  ASSUME NEW s \in Socket, NEW k \in Nat, NEW l1 \in Nat, NEW l2 \in Nat, l1 <= l2,
         HoldsStream(s, k, l1)
  PROVE  HoldsStream(s, k, l2)
<1> DEFINE n == Len(s.data)
<1>1. n \in Nat /\ s.valid \subseteq Nat
  BY LenProperties, BufferAssumption DEF Socket, Offsets
<1>2. /\ k + n <= l1
      /\ \A i \in 1 .. n : s.data[i] = k + i
      /\ \A o \in s.valid : s.pending[o] = k + n + o + 1 /\ k + n + o + 1 <= l1
  BY DEF HoldsStream
<1> HIDE DEF n
<1>3. k + n <= l2
  BY <1>1, <1>2
<1>4. \A o \in s.valid : k + n + o + 1 <= l2
  BY <1>1, <1>2
<1>. QED BY <1>2, <1>3, <1>4 DEF HoldsStream, n

LEMMA SliceMore ==
  ASSUME NEW seq \in Nat, NEW payload \in Seq(Byte), NEW base \in Nat,
         NEW l1 \in Nat, NEW l2 \in Nat, l1 <= l2, Slice(seq, payload, base, l1)
  PROVE  Slice(seq, payload, base, l2)
<1>1. Len(payload) \in Nat
  BY LenProperties
<1>. QED BY <1>1 DEF Slice

\* What TcpSend puts on the wire is the next slice of the sender's stream.
LEMMA NewSlice ==
  ASSUME NEW base \in Nat, NEW k \in Nat, NEW len \in Nat, NEW payload,
         Len(payload) = len, \A i \in 1 .. len : payload[i] = k + i
  PROVE  Slice(base + k, payload, base, k + len)
<1>1. base <= base + k /\ base + k - base + len <= k + len /\ base + k - base = k
  OBVIOUS
<1>. QED BY <1>1 DEF Slice

LEMMA SendStep ==
  ASSUME StreamInv, NEW h \in Hosts, NEW len \in 1 .. MaxSegment, TcpSend(h, len)
  PROVE  StreamInv'
<1> DEFINE p == Peer(h)
           s == sock[h]
           payload == [i \in 1 .. len |-> sent[h] + i]
           t == Send(s, payload)
           seg == DataSegment(s, payload)
<1>1. /\ TypeOK /\ s \in Socket /\ SocketOK(h, s)
      /\ sock \in [Hosts -> Socket] /\ net \in [Hosts -> SUBSET Segment]
      /\ sent \in [Hosts -> Nat]
  BY DEF StreamInv, TypeOK
<1>2. /\ p \in Hosts /\ p # h /\ Peer(p) = h
      /\ ISN[h] \in Nat /\ sent[h] \in Nat /\ len \in Nat
      /\ ISN[p] \in Nat /\ sent[p] \in Nat /\ Len(read[p]) \in Nat
  BY <1>1, HostTypes, PeerType, ConnectionAssumption
<1>3. /\ s.state = "ESTABLISHED"
      /\ sock' = [sock EXCEPT ![h] = t]
      /\ net' = [net EXCEPT ![p] = @ \cup {seg}]
      /\ sent' = [sent EXCEPT ![h] = @ + len]
      /\ UNCHANGED <<listening, read, closed>>
  BY DEF TcpSend, CanSend, Transmit
<1>4. payload \in Seq(Byte) /\ Len(payload) = len
  <2>1. \A i \in 1 .. len : sent[h] + i \in Byte
    BY <1>2 DEF Byte
  <2>. QED BY <1>2, <2>1, IsASeq
<1>5. ~closed[h] /\ s.send_seq = ISN[h] + 1 + sent[h]
      /\ RecvOK(s, ISN[p] + 1, Len(read[h]), sent[p])
  BY <1>1, <1>3 DEF SocketOK, Sending, Receiving
<1>6. \A i \in 1 .. len : payload[i] = sent[h] + i
  OBVIOUS
<1> HIDE DEF payload
<1>7. /\ t \in Socket /\ t.state = "ESTABLISHED" /\ t.send_seq = s.send_seq + len
      /\ t.recv_seq = s.recv_seq /\ t.data = s.data
      /\ t.pending = s.pending /\ t.valid = s.valid
  <2> DEFINE start == IF s.send_data = <<>> THEN s.send_seq ELSE s.start_seq
             all == s.send_data \o payload
  <2>1. start \in Nat /\ s.send_seq + len \in Nat
    <3>1. s.send_seq \in Nat /\ s.start_seq \in Nat
      BY <1>1 DEF Socket
    <3>2. s.send_seq + len \in Nat
      BY <1>2, <3>1
    <3>. QED BY <3>1, <3>2
  <2>2. all \in Seq(Byte)
    <3>1. s.send_data \in Seq(Byte)
      BY <1>1 DEF Socket
    <3>. QED BY <1>4, <3>1, ConcatProperties
  <2>3. t = [s EXCEPT !.start_seq = start, !.send_data = all, !.send_seq = s.send_seq + len]
    BY <1>4 DEF Send
  <2> HIDE DEF start, all, t, s
  <2>. QED BY <1>1, <1>3, <2>1, <2>2, <2>3 DEF Socket
<1>8. seg \in Segment /\ seg.flags = {"ACK", "PSH"}
      /\ seg.seq = s.send_seq /\ seg.payload = payload
  BY <1>1, <1>4 DEF DataSegment, Segment, Socket, Flags
<1> HIDE DEF t, seg
<1>9. /\ sock'[h] = t /\ sock'[p] = sock[p] /\ sent'[h] = sent[h] + len
      /\ sent'[p] = sent[p] /\ net'[h] = net[h] /\ net'[p] = net[p] \cup {seg}
  BY <1>1, <1>2, <1>3
<1>10. TypeOK'
  BY <1>1, <1>2, <1>3, <1>7, <1>8 DEF TypeOK
<1>11. SocketOK(h, sock[h])'
  <2>1. RecvOK(t, ISN[p] + 1, Len(read[h]), sent[p])
    BY <1>5, <1>7, SameReceiver
  <2>2. t.send_seq = ISN[h] + 1 + (sent[h] + len)
    BY <1>2, <1>5, <1>7
  <2>. QED BY <1>3, <1>5, <1>7, <1>9, <2>1, <2>2
       DEF SocketOK, Opening, Sending, FinSent, Receiving, FinTaken
<1>12. SocketOK(p, sock[p])'
  <2>1. SocketOK(p, sock[p]) /\ sock[p] \in Socket
    BY <1>1, <1>2 DEF StreamInv
  <2>2. sock[p].state \notin FinTaken
    BY <1>2, <1>5, <2>1 DEF SocketOK
  <2>3. sock[p].state \in Receiving
        => RecvOK(sock[p], ISN[h] + 1, Len(read[p]), sent[h] + len)
    <3>1. ASSUME sock[p].state \in Receiving
          PROVE  RecvOK(sock[p], ISN[h] + 1, Len(read[p]), sent[h] + len)
      <4>1. RecvOK(sock[p], ISN[h] + 1, Len(read[p]), sent[h])
        BY <1>2, <2>1, <3>1 DEF SocketOK
      <4>2. HoldsStream(sock[p], Len(read[p]), sent[h] + len)
        BY <1>2, <2>1, <4>1, HoldsMore DEF RecvOK
      <4>. QED BY <4>1, <4>2 DEF RecvOK
    <3>. QED BY <3>1
  <2>. QED BY <1>2, <1>3, <1>5, <1>9, <2>1, <2>2, <2>3 DEF SocketOK
<1>13. ASSUME NEW g \in Hosts PROVE ReadOK(g)'
  BY <1>1, <1>2, <1>3, HostTypes, PeerType DEF StreamInv, ReadOK
<1>14. ASSUME NEW m \in net'[h] PROVE SegmentOK(h, m)'
  <2>1. SegmentOK(h, m)
    BY <1>9 DEF StreamInv
  <2>. QED BY <1>3, <1>9, <2>1 DEF SegmentOK
<1>15. ASSUME NEW m \in net'[p] PROVE SegmentOK(p, m)'
  <2>1. CASE m = seg
    <3>1. Slice(seg.seq, seg.payload, ISN[h] + 1, sent[h] + len)
      <4> DEFINE base == ISN[h] + 1
                 k == sent[h]
      <4>1. base \in Nat /\ k \in Nat /\ \A i \in 1 .. len : payload[i] = k + i
        BY <1>2, <1>6
      <4>2. seg.seq = base + k /\ seg.payload = payload
        BY <1>5, <1>8
      <4> HIDE DEF base, k
      <4>3. Slice(base + k, payload, base, k + len)
        BY <1>2, <1>4, <4>1, NewSlice
      <4>4. Slice(seg.seq, seg.payload, base, k + len)
        BY <4>2, <4>3
      <4>. QED BY <4>4 DEF base, k
    <3>. QED BY <1>2, <1>8, <1>9, <2>1, <3>1 DEF SegmentOK
  <2>2. CASE m \in net[p]
    <3>1. SegmentOK(p, m) /\ m \in Segment
      BY <1>1, <1>2, <2>2 DEF StreamInv
    <3>2. "FIN" \notin m.flags
      BY <1>2, <1>5, <3>1 DEF SegmentOK
    <3>3. Slice(m.seq, m.payload, ISN[h] + 1, sent[h] + len)
      BY <1>2, <3>1, SliceMore DEF SegmentOK, Segment
    <3>. QED BY <1>2, <1>3, <1>9, <3>1, <3>2, <3>3 DEF SegmentOK
  <2>. QED BY <1>9, <2>1, <2>2
<1>16. \A g \in Hosts : g = h \/ g = p
  BY DEF Hosts, Peer, Client, Server
<1>. QED BY <1>10, <1>11, <1>12, <1>13, <1>14, <1>15, <1>16 DEF StreamInv

LEMMA RecvStep ==
  ASSUME StreamInv, NEW h \in Hosts, NEW max \in 1 .. MaxSegment, TcpRecv(h, max)
  PROVE  StreamInv'
<1> DEFINE p == Peer(h)
           s == sock[h]
           d == s.data
           n == Len(d)
           c == RecvLen(s, max)
           front == SubSeq(d, 1, c)
           back == SubSeq(d, c + 1, n)
           k == Len(read[h])
           read2 == read[h] \o front
           t == Recv(s, max)
<1>1. /\ TypeOK /\ s \in Socket /\ SocketOK(h, s) /\ ReadOK(h)
      /\ sock \in [Hosts -> Socket] /\ read \in [Hosts -> Seq(Byte)]
  BY DEF StreamInv, TypeOK
<1>2. /\ p \in Hosts /\ ISN[p] \in Nat /\ sent[p] \in Nat
      /\ read[h] \in Seq(Byte) /\ k \in Nat /\ max \in Nat
  BY <1>1, HostTypes, ConnectionAssumption
<1>3. d \in Seq(Byte) /\ n \in Nat /\ d # <<>>
  BY <1>1, LenProperties DEF Socket, TcpRecv
<1>4. c \in 0 .. n
  BY <1>2, <1>3 DEF RecvLen
<1>5. /\ sock' = [sock EXCEPT ![h] = t]
      /\ read' = [read EXCEPT ![h] = read2]
      /\ UNCHANGED <<listening, net, sent, closed>>
  BY DEF TcpRecv
<1>6. t = [s EXCEPT !.data = back]
  BY DEF Recv
<1>7. s.state \in Receiving \cup FinTaken
  <2>1. FreeSocket.data = <<>>
    BY DEF FreeSocket
  <2>2. s.state \in States
    BY <1>1 DEF Socket
  <2>. QED BY <1>1, <1>3, <2>1, <2>2
       DEF SocketOK, Opening, States, Receiving, FinTaken
<1>8. s.state # "SYN_RECEIVED"
  BY <1>1, <1>3 DEF SocketOK, Opening
<1>9. HoldsStream(s, k, sent[p])
  BY <1>1, <1>7 DEF SocketOK, RecvOK
<1> HIDE DEF c
<1>10. /\ front \in Seq(Byte) /\ Len(front) = c
       /\ \A i \in 1 .. c : front[i] = d[i]
  BY <1>3, <1>4, SubSeqProperties
<1>11. /\ back \in Seq(Byte) /\ Len(back) = n - c
       /\ \A i \in 1 .. n - c : back[i] = d[c + i]
  <2>1. c + 1 \in 1 .. n + 1 /\ n \in c .. n
    BY <1>3, <1>4
  <2>2. /\ back \in Seq(Byte)
        /\ Len(back) = IF c + 1 <= n THEN n - (c + 1) + 1 ELSE 0
        /\ \A i \in 1 .. n - (c + 1) + 1 : back[i] = d[(c + 1) + i - 1]
    BY <1>3, <1>4, <2>1, SubSeqProperties
  <2> HIDE DEF back, n, d
  <2>. QED BY <1>3, <1>4, <2>2
<1> HIDE DEF front, back
<1>12. /\ read2 \in Seq(Byte) /\ Len(read2) = k + c
       /\ \A i \in 1 .. k + c :
            read2[i] = IF i <= k THEN read[h][i] ELSE front[i - k]
  BY <1>2, <1>10, ConcatProperties, ZenonT(30)
<1>13. /\ t \in Socket /\ t.state = s.state /\ t.send_seq = s.send_seq
       /\ t.recv_seq = s.recv_seq /\ t.data = back
       /\ t.pending = s.pending /\ t.valid = s.valid
  <2> HIDE DEF s, t
  <2>. QED BY <1>1, <1>6, <1>11 DEF Socket
<1> HIDE DEF t, read2
<1>14. /\ sock'[h] = t /\ read'[h] = read2
       /\ \A g \in Hosts : g # h => sock'[g] = sock[g] /\ read'[g] = read[g]
  BY <1>1, <1>5
<1>15. TypeOK'
  BY <1>1, <1>5, <1>12, <1>13 DEF TypeOK
<1>16. (k + c) + (n - c) = k + n
  <2>1. k \in Int /\ n \in Int /\ c \in Int
    BY <1>2, <1>3, <1>4
  <2> HIDE DEF k, n, d
  <2>. QED BY <2>1
<1>17. HoldsStream(t, Len(read2), sent[p])
  <2>1. /\ k + n <= sent[p]
        /\ \A i \in 1 .. n : d[i] = k + i
        /\ \A o \in s.valid : s.pending[o] = k + n + o + 1 /\ k + n + o + 1 <= sent[p]
    BY <1>9 DEF HoldsStream
  <2>2. ASSUME NEW i \in 1 .. n - c PROVE back[i] = (k + c) + i
    <3>1. c + i \in 1 .. n /\ i \in Int /\ c \in Int
      BY <1>3, <1>4
    <3>2. back[i] = k + (c + i)
      BY <1>11, <2>1, <3>1
    <3> HIDE DEF k, n, d
    <3>. QED BY <1>2, <3>1, <3>2
  <2>3. Len(read2) + Len(t.data) = k + n
    BY <1>11, <1>12, <1>13, <1>16
  <2>4. \A i \in 1 .. Len(t.data) : t.data[i] = Len(read2) + i
    BY <1>11, <1>12, <1>13, <2>2
  <2> HIDE DEF k, n, d, s
  <2>. QED BY <1>13, <2>1, <2>3, <2>4 DEF HoldsStream
<1>18. Len(read2) + Len(t.data) = k + n
  BY <1>11, <1>12, <1>13, <1>16
<1>19. SocketOK(h, sock[h])'
  <2>1. s.state \in Receiving => RecvOK(t, ISN[p] + 1, Len(read2), sent[p])
    <3>1. ASSUME s.state \in Receiving
          PROVE  t.recv_seq = (ISN[p] + 1) + Len(read2) + Len(t.data)
      <4>1. s.recv_seq = (ISN[p] + 1) + k + n
        BY <1>1, <3>1 DEF SocketOK, RecvOK
      <4> DEFINE x == Len(read2)
                 y == Len(t.data)
                 b == ISN[p] + 1
      <4>2. x \in Int /\ y \in Int /\ b \in Int /\ k \in Int /\ n \in Int
        BY <1>2, <1>3, <1>11, <1>12, <1>13, LenProperties
      <4>3. x + y = k + n /\ t.recv_seq = b + k + n
        BY <1>13, <1>18, <4>1
      <4> HIDE DEF k, n, d, s, x, y, b
      <4>4. t.recv_seq = b + x + y
        BY <4>2, <4>3
      <4>. QED BY <4>4 DEF x, y, b
    <3>. QED BY <1>17, <3>1 DEF RecvOK
  <2>2. s.state \notin {"CLOSED", "SYN_SENT", "SYN_RECEIVED", "LISTEN"}
    BY <1>7, <1>8 DEF Receiving, FinTaken
  <2>3. /\ s.state \in Sending => ~closed[h] /\ t.send_seq = ISN[h] + 1 + sent[h]
        /\ s.state \in FinSent => closed[h] /\ t.send_seq = ISN[h] + 2 + sent[h]
    BY <1>1, <1>13 DEF SocketOK
  <2>4. s.state \in FinTaken =>
          /\ closed[p] /\ Len(read2) + Len(t.data) = sent[p]
          /\ t.recv_seq = ISN[p] + 2 + sent[p]
    BY <1>1, <1>13, <1>18 DEF SocketOK
  <2> HIDE DEF s
  <2>. QED BY <1>5, <1>13, <1>14, <1>17, <2>1, <2>2, <2>3, <2>4 DEF SocketOK, Opening
<1>20. ReadOK(h)'
  <2>1. k + n <= sent[p] /\ \A i \in 1 .. n : d[i] = k + i
    BY <1>9 DEF HoldsStream
  <2>2. \A i \in 1 .. k : read[h][i] = i
    BY <1>1 DEF ReadOK
  <2>3. ASSUME NEW i \in 1 .. k + c PROVE read2[i] = i
    <3>1. CASE i <= k
      BY <1>2, <1>4, <1>12, <2>2, <3>1
    <3>2. CASE ~(i <= k)
      <4>1. i - k \in 1 .. c /\ i - k \in 1 .. n
        BY <1>2, <1>3, <1>4, <3>2
      <4>2. read2[i] = k + (i - k)
        BY <1>10, <1>12, <2>1, <3>2, <4>1
      <4> HIDE DEF k, n, d
      <4>. QED BY <1>2, <1>3, <1>4, <4>2
    <3>. QED BY <3>1, <3>2
  <2>4. k + c <= sent[p]
    <3> DEFINE q == sent[p]
    <3>1. k + n <= q
      BY <2>1
    <3>2. k \in Int /\ n \in Int /\ q \in Int
      BY <1>2, <1>3
    <3> HIDE DEF k, n, d, q
    <3>3. c \in Int /\ c <= n
      BY <1>4, <3>2
    <3>4. k + c <= q
      BY <3>1, <3>2, <3>3
    <3>. QED BY <3>4 DEF q
  <2>. QED BY <1>5, <1>12, <1>14, <2>3, <2>4 DEF ReadOK
<1>21. ASSUME NEW g \in Hosts, g # h PROVE SocketOK(g, sock[g])' /\ ReadOK(g)'
  <2>1. SocketOK(g, sock[g]) /\ ReadOK(g)
    BY DEF StreamInv
  <2>2. SocketOK(g, sock[g])'
    BY <1>5, <1>14, <1>21, <2>1 DEF SocketOK
  <2>3. ReadOK(g)'
    BY <1>5, <1>14, <1>21, <2>1 DEF ReadOK
  <2>. QED BY <2>2, <2>3
<1>22. ASSUME NEW g \in Hosts, NEW m \in net'[g] PROVE SegmentOK(g, m)'
  <2>1. SegmentOK(g, m)
    BY <1>5 DEF StreamInv
  <2>. QED BY <1>5, <2>1 DEF SegmentOK
<1>. QED BY <1>15, <1>19, <1>20, <1>21, <1>22 DEF StreamInv

LEMMA CloseStep ==
  ASSUME StreamInv, NEW h \in Hosts, TcpClose(h)
  PROVE  StreamInv'
<1> DEFINE p == Peer(h)
           s == sock[h]
           t == Close(s)
           seg == FinSegment(s)
<1>1. /\ TypeOK /\ s \in Socket /\ SocketOK(h, s)
      /\ sock \in [Hosts -> Socket] /\ net \in [Hosts -> SUBSET Segment]
      /\ closed \in [Hosts -> BOOLEAN]
  BY DEF StreamInv, TypeOK
<1>2. /\ p \in Hosts /\ p # h /\ Peer(p) = h
      /\ ISN[h] \in Nat /\ sent[h] \in Nat
  BY <1>1, HostTypes, PeerType
<1>3. /\ s.state \in Sending
      /\ sock' = [sock EXCEPT ![h] = t]
      /\ net' = [net EXCEPT ![p] = @ \cup {seg}]
      /\ closed' = [closed EXCEPT ![h] = TRUE]
      /\ UNCHANGED <<listening, sent, read>>
  BY DEF TcpClose, CanClose, Transmit, Sending
<1>4. s.send_seq = ISN[h] + 1 + sent[h] /\ s.send_seq \in Nat /\ s.recv_seq \in Nat
  BY <1>1, <1>3 DEF SocketOK, Socket
<1>5. /\ t \in Socket /\ t.send_seq = s.send_seq + 1
      /\ t.state = IF s.state = "ESTABLISHED" THEN "FIN_WAIT_1" ELSE "LAST_ACK"
      /\ t.recv_seq = s.recv_seq /\ t.data = s.data
      /\ t.pending = s.pending /\ t.valid = s.valid
  <2> DEFINE next == IF s.state = "ESTABLISHED" THEN "FIN_WAIT_1" ELSE "LAST_ACK"
  <2>1. next \in States /\ s.send_seq + 1 \in Nat
    BY <1>4 DEF States
  <2>2. t = [s EXCEPT !.state = next, !.send_seq = s.send_seq + 1]
    BY DEF Close
  <2> HIDE DEF next, s, t
  <2>3. /\ t \in Socket /\ t.send_seq = s.send_seq + 1 /\ t.state = next
        /\ t.recv_seq = s.recv_seq /\ t.data = s.data
        /\ t.pending = s.pending /\ t.valid = s.valid
    BY <1>1, <2>1, <2>2 DEF Socket
  <2>. QED BY <2>3 DEF next
<1>6. /\ seg \in Segment /\ seg.flags = {"FIN", "ACK"} /\ seg.payload = <<>>
      /\ seg.seq = s.send_seq
  BY <1>4, EmptySeq DEF FinSegment, Segment, Flags
<1> HIDE DEF t, seg
<1>7. /\ sock'[h] = t /\ sock'[p] = sock[p] /\ closed'[h] /\ closed'[p] = closed[p]
      /\ net'[h] = net[h] /\ net'[p] = net[p] \cup {seg}
  BY <1>1, <1>2, <1>3
<1>8. TypeOK'
  BY <1>1, <1>2, <1>3, <1>5, <1>6 DEF TypeOK
<1>9. SocketOK(h, sock[h])'
  <2>1. /\ s.state = "ESTABLISHED" => RecvOK(t, ISN[p] + 1, Len(read[h]), sent[p])
        /\ s.state = "CLOSE_WAIT" =>
             /\ closed[p] /\ Len(read[h]) + Len(t.data) = sent[p]
             /\ t.recv_seq = ISN[p] + 2 + sent[p]
             /\ HoldsStream(t, Len(read[h]), sent[p])
    <3>1. ASSUME s.state = "ESTABLISHED"
          PROVE  RecvOK(t, ISN[p] + 1, Len(read[h]), sent[p])
      <4>1. RecvOK(s, ISN[p] + 1, Len(read[h]), sent[p])
        BY <1>1, <3>1 DEF SocketOK, Receiving
      <4> HIDE DEF s
      <4>. QED BY <1>5, <4>1 DEF RecvOK, HoldsStream
    <3>2. ASSUME s.state = "CLOSE_WAIT"
          PROVE  /\ closed[p] /\ Len(read[h]) + Len(t.data) = sent[p]
                 /\ t.recv_seq = ISN[p] + 2 + sent[p]
                 /\ HoldsStream(t, Len(read[h]), sent[p])
      <4>1. /\ closed[p] /\ Len(read[h]) + Len(s.data) = sent[p]
            /\ s.recv_seq = ISN[p] + 2 + sent[p]
            /\ HoldsStream(s, Len(read[h]), sent[p])
        BY <1>1, <3>2 DEF SocketOK, FinTaken
      <4> HIDE DEF s
      <4>. QED BY <1>5, <4>1 DEF HoldsStream
    <3>. QED BY <3>1, <3>2
  <2>2. t.send_seq = ISN[h] + 2 + sent[h]
    BY <1>2, <1>4, <1>5
  <2> HIDE DEF s
  <2>. QED BY <1>3, <1>5, <1>7, <2>1, <2>2
       DEF SocketOK, Opening, Sending, FinSent, Receiving, FinTaken
<1>10. SocketOK(p, sock[p])'
  <2>1. SocketOK(p, sock[p])
    BY <1>2 DEF StreamInv
  <2>. QED BY <1>2, <1>3, <1>7, <2>1 DEF SocketOK
<1>11. ASSUME NEW g \in Hosts PROVE ReadOK(g)'
  BY <1>3 DEF StreamInv, ReadOK
<1>12. ASSUME NEW m \in net'[h] PROVE SegmentOK(h, m)'
  <2>1. SegmentOK(h, m)
    BY <1>7 DEF StreamInv
  <2>. QED BY <1>3, <1>7, <2>1 DEF SegmentOK
<1>13. ASSUME NEW m \in net'[p] PROVE SegmentOK(p, m)'
  <2>1. CASE m = seg
    BY <1>2, <1>3, <1>4, <1>6, <1>7, <2>1 DEF SegmentOK, Slice
  <2>2. CASE m \in net[p]
    <3>1. SegmentOK(p, m)
      BY <1>2, <2>2 DEF StreamInv
    <3>. QED BY <1>2, <1>3, <1>7, <3>1 DEF SegmentOK
  <2>. QED BY <1>7, <2>1, <2>2
<1>14. \A g \in Hosts : g = h \/ g = p
  BY DEF Hosts, Peer, Client, Server
<1>. QED BY <1>8, <1>9, <1>10, <1>11, <1>12, <1>13, <1>14 DEF StreamInv

-----------------------------------------------------------------------------
LEMMA InitStep == Init => StreamInv
<1> SUFFICES ASSUME Init PROVE StreamInv
  OBVIOUS
<1>1. TypeOK
  BY FreeSocketType, EmptySeq DEF Init, TypeOK
<1>2. ASSUME NEW h \in Hosts PROVE SocketOK(h, sock[h])
  <2>1. sock[h] = FreeSocket /\ FreeSocket.state = "CLOSED"
    BY DEF Init, FreeSocket
  <2>. QED BY <2>1 DEF Init, SocketOK, Opening, Sending, FinSent, Receiving, FinTaken
<1>3. ASSUME NEW h \in Hosts PROVE ReadOK(h)
  BY PeerType, EmptySeq DEF Init, ReadOK
<1>. QED BY <1>1, <1>2, <1>3 DEF StreamInv, Init

\* StreamInv does not depend on listening.
LEMMA IdleStep ==
  ASSUME StreamInv, UNCHANGED <<sock, net, sent, read, closed>>, listening' \in BOOLEAN
  PROVE  StreamInv'
<1>1. TypeOK'
  BY DEF StreamInv, TypeOK
<1>2. ASSUME NEW h \in Hosts PROVE SocketOK(h, sock[h])' /\ ReadOK(h)'
  <2>1. SocketOK(h, sock[h]) /\ ReadOK(h)
    BY DEF StreamInv
  <2>2. SocketOK(h, sock[h])'
    BY <2>1 DEF SocketOK
  <2>3. ReadOK(h)'
    BY <2>1 DEF ReadOK
  <2>. QED BY <2>2, <2>3
<1>3. ASSUME NEW h \in Hosts, NEW m \in net'[h] PROVE SegmentOK(h, m)'
  <2>1. SegmentOK(h, m)
    BY DEF StreamInv
  <2>. QED BY <2>1 DEF SegmentOK
<1>. QED BY <1>1, <1>2, <1>3 DEF StreamInv

LEMMA NextStep == StreamInv /\ [Next]_vars => StreamInv'
<1> SUFFICES ASSUME StreamInv, [Next]_vars PROVE StreamInv'
  OBVIOUS
<1>1. CASE TcpListen
  BY <1>1, IdleStep DEF TcpListen
<1>2. CASE TcpConnect
  BY <1>2, ConnectStep
<1>3. ASSUME NEW h \in Hosts, NEW len \in 1 .. MaxSegment, TcpSend(h, len)
      PROVE  StreamInv'
  BY <1>3, SendStep
<1>4. ASSUME NEW h \in Hosts, NEW max \in 1 .. MaxSegment, TcpRecv(h, max)
      PROVE  StreamInv'
  BY <1>4, RecvStep
<1>5. ASSUME NEW h \in Hosts, TcpClose(h) PROVE StreamInv'
  BY <1>5, CloseStep
<1>6. ASSUME NEW h \in Hosts, NEW seg \in net[h], Deliver(h, seg) PROVE StreamInv'
  BY <1>6, DeliverStep
<1>7. CASE UNCHANGED vars
  <2>1. listening \in BOOLEAN
    BY DEF StreamInv, TypeOK
  <2>. QED BY <1>7, <2>1, IdleStep DEF vars
<1>. QED BY <1>1, <1>2, <1>3, <1>4, <1>5, <1>6, <1>7 DEF Next

(***************************************************************************)
(* StreamInv holds in every reachable state.                                *)
(***************************************************************************)
THEOREM StreamInvariant == Spec => []StreamInv
<1>. QED BY InitStep, NextStep, PTL DEF Spec

\* The sockets, segments and histories always have their types.
THEOREM TypeCorrect == Spec => []TypeOK
<1>1. StreamInv => TypeOK
  BY DEF StreamInv
<1>. QED BY <1>1, StreamInvariant, PTL

\* What a host has received is always exactly a prefix of what its peer
\* sent, whatever the network loses, reorders or duplicates.
THEOREM StreamIntegrityHolds == Spec => []StreamIntegrity
<1>1. StreamInv => StreamIntegrity
  <2> SUFFICES ASSUME StreamInv, NEW h \in Hosts
               PROVE  /\ \A i \in 1 .. Len(read[h]) : read[h][i] = i
                      /\ \A i \in 1 .. Len(sock[h].data) :
                           sock[h].data[i] = Len(read[h]) + i
                      /\ Arrived(h) <= sent[Peer(h)]
    BY DEF StreamIntegrity
  <2>1. TypeOK /\ sock[h] \in Socket /\ SocketOK(h, sock[h]) /\ ReadOK(h)
    BY DEF StreamInv, TypeOK
  <2>2. Len(read[h]) \in Nat /\ sent[Peer(h)] \in Nat
    BY <2>1, HostTypes
  <2>3. CASE sock[h].data = <<>>
    BY <2>1, <2>2, <2>3, EmptySeq DEF ReadOK, Arrived
  <2>4. CASE sock[h].data # <<>>
    <3>1. FreeSocket.data = <<>>
      BY DEF FreeSocket
    <3>2. sock[h].state \in Receiving \cup FinTaken
      BY <2>1, <2>4, <3>1 DEF SocketOK, Socket, States, Opening, Receiving, FinTaken
    <3>3. HoldsStream(sock[h], Len(read[h]), sent[Peer(h)])
      BY <2>1, <3>2 DEF SocketOK, RecvOK
    <3>. QED BY <2>1, <3>3 DEF ReadOK, HoldsStream, Arrived
  <2>. QED BY <2>3, <2>4
<1>. QED BY <1>1, StreamInvariant, PTL

\* A host takes its peer's FIN only when the peer has closed and every byte
\* of the stream has arrived.
THEOREM EofCompleteHolds == Spec => []EofComplete
<1>1. StreamInv => EofComplete
  <2> SUFFICES ASSUME StreamInv, NEW h \in Hosts, Eof(h)
               PROVE  closed[Peer(h)] /\ (Freed(h) \/ Arrived(h) = sent[Peer(h)])
    BY DEF EofComplete
  <2>1. SocketOK(h, sock[h])
    BY DEF StreamInv
  <2>2. CASE Freed(h)
    BY <2>1, <2>2 DEF Freed, SocketOK
  <2>3. CASE ~Freed(h)
    BY <2>1, <2>3 DEF Eof, SocketOK, FinTaken, Arrived
  <2>. QED BY <2>2, <2>3
<1>. QED BY <1>1, StreamInvariant, PTL

-----------------------------------------------------------------------------
\* The two ends.
\* The next sequence number h would acknowledge with socket s: once its
\* socket is freed, what lies behind its peer's FIN.
Took(h, s) == IF s.state = "CLOSED" /\ closed[h]
              THEN ISN[Peer(h)] + 2 + sent[Peer(h)] ELSE s.recv_seq

Unacked == {"ESTABLISHED", "CLOSE_WAIT", "FIN_WAIT_1", "CLOSING", "LAST_ACK"}

\* Of the n bytes sent after isn, the send buffer of s holds those that
\* send_ack does not cover.
Keeps(s, isn, n) ==
  LET acked == s.send_ack - isn - 1
  IN /\ acked <= n /\ Len(s.send_data) = n - acked
     /\ \A i \in 1 .. Len(s.send_data) : s.send_data[i] = acked + i
     /\ s.send_data # <<>> => s.start_seq = s.send_ack

\* The send side of s.
SenderOK(h, s) ==
  /\ s.state = "SYN_SENT" => h = Client /\ s.recv_seq = 0
  /\ s.state = "SYN_RECEIVED" => h = Server
  /\ s.state \in Opening => s.send_data = <<>> /\ s.send_ack = 0
  /\ s.state \in Synchronized => ISN[h] + 1 <= s.send_ack
  /\ s.state \in Unacked => Keeps(s, ISN[h], sent[h])

\* h regards its own FIN as acknowledged.
Done(h, s) == \/ s.state \in {"FIN_WAIT_2", "TIME_WAIT"}
              \/ s.state = "CLOSED" /\ closed[h]

\* What h believes its peer has taken is below bound.
AckOK(h, s, bound) == /\ s.send_ack <= bound
                      /\ Done(h, s) => ISN[h] + 2 + sent[h] <= bound

Sound(h, s, bound) == WindowOK(s) /\ SenderOK(h, s) /\ AckOK(h, s, bound)

AgreementInv ==
  /\ StreamInv
  /\ \A h \in Hosts :
       LET bound == Took(Peer(h), sock[Peer(h)])
       IN /\ Sound(h, sock[h], bound)
          /\ \A seg \in net[h] : seg.ack <= bound

\* h has been told the end of its peer's stream.
Told(h, s) == s.state \in FinTaken \/ (s.state = "CLOSED" /\ closed[h])

\* What one segment may do to the received stream: append to it, end it, or
\* drop it when both directions are over.
Progress(h, s, t) ==
  \/ Len(s.data) <= Len(t.data) /\ (Told(h, s) <=> Told(h, t))
  \/ t.data = s.data /\ ~Told(h, s) /\ t.state \in FinTaken
  \/ closed[h] /\ Told(h, s) /\ Told(h, t) /\ t.data = <<>>

\* From s the socket of h may become t on a segment with an acknowledgement
\* up to bound.
Fit(h, s, t, bound) == /\ Sound(h, t, bound)
                       /\ Took(h, s) <= Took(h, t)
                       /\ Progress(h, s, t)

\* The outcome r of a handler keeps the agreement.
Fine(h, s, r, bound) == /\ Fit(h, s, r.sock, bound)
                        /\ \A m \in r.reply : m.ack <= Took(h, r.sock)

-----------------------------------------------------------------------------
LEMMA SocketTypes ==
  ASSUME NEW s \in Socket
  PROVE  /\ s.send_seq \in Nat /\ s.recv_seq \in Nat /\ s.send_ack \in Nat
         /\ s.start_seq \in Nat /\ s.send_data \in Seq(Byte) /\ s.data \in Seq(Byte)
         /\ Len(s.send_data) \in Nat /\ Len(s.data) \in Nat /\ s.state \in States
BY LenProperties DEF Socket

LEMMA TookType ==
  ASSUME TypeOK, NEW h \in Hosts, NEW s \in Socket
  PROVE  Took(h, s) \in Nat
<1>1. ISN[Peer(h)] + 2 + sent[Peer(h)] \in Nat
  BY HostTypes
<1>. QED BY <1>1, SocketTypes DEF Took

\* Nothing happened.
LEMMA FitSelf ==
  ASSUME TypeOK, NEW h \in Hosts, NEW s \in Socket, NEW bound, Sound(h, s, bound)
  PROVE  Fit(h, s, s, bound)
<1>1. Took(h, s) <= Took(h, s)
  BY TookType
<1>2. Len(s.data) <= Len(s.data)
  BY SocketTypes
<1>. QED BY <1>1, <1>2 DEF Fit, Progress

LEMMA IgnoreFine ==
  ASSUME NEW h, NEW s, NEW t, NEW bound, Fit(h, s, t, bound)
  PROVE  Fine(h, s, Ignore(t), bound)
BY DEF Fine, Ignore

\* An answer acknowledges what its sender has taken.
LEMMA AnswerFine ==
  ASSUME TypeOK, NEW h \in Hosts, NEW s, NEW t \in Socket, NEW f, NEW bound,
         Fit(h, s, t, bound), t.state # "CLOSED"
  PROVE  Fine(h, s, Answer(t, f), bound)
<1>1. Took(h, t) = t.recv_seq /\ t.recv_seq \in Nat
  BY SocketTypes DEF Took
<1>2. \A m \in Answer(t, f).reply : m.ack = t.recv_seq
  BY DEF Answer
<1>3. Answer(t, f).sock = t
  BY DEF Answer
<1>. QED BY <1>1, <1>2, <1>3 DEF Fine

\* tcp_buffer_payload on a socket that receives.
LEMMA PayloadSound ==
  ASSUME TypeOK, NEW h \in Hosts, NEW s \in Socket, SocketOK(h, s),
         s.state \in Connected, NEW seg \in Segment, SegmentOK(h, seg),
         NEW bound, Sound(h, s, bound)
  PROVE  LET t == BufferPayload(s, seg.seq, seg.payload)
         IN /\ t \in Socket /\ SocketOK(h, t) /\ t.state = s.state
            /\ t.send_seq = s.send_seq /\ t.send_ack = s.send_ack
            /\ Sound(h, t, bound) /\ Fit(h, s, t, bound)
            /\ s.recv_seq <= t.recv_seq
            /\ seg.payload = <<>> => t = s
<1> DEFINE p == Peer(h)
           k == Len(read[h])
           t == BufferPayload(s, seg.seq, seg.payload)
<1>1. ISN[p] + 1 \in Nat /\ k \in Nat /\ sent[p] \in Nat
  BY HostTypes
<1>2. RecvOK(s, ISN[p] + 1, k, sent[p])
  BY DEF SocketOK, Connected, Receiving
<1>3. Slice(seg.seq, seg.payload, ISN[p] + 1, sent[p])
  BY DEF SegmentOK
<1>4. seg.seq \in Nat /\ seg.payload \in Seq(Byte)
  BY DEF Segment
<1>5. t \in Socket /\ RecvOK(t, ISN[p] + 1, k, sent[p]) /\ SameSender(s, t)
  BY <1>1, <1>2, <1>3, <1>4, BufferPayloadOK
<1>6. SocketOK(h, t)
  BY PayloadOK
<1>7. WindowOK(t) /\ Len(s.data) <= Len(t.data) /\ (seg.payload = <<>> => t = s)
  BY <1>1, <1>2, <1>3, <1>4, BufferPayloadWindow DEF Sound
<1> HIDE DEF t, p, k
<1>8. s.recv_seq <= t.recv_seq
  <2>1. s.recv_seq = ISN[p] + 1 + k + Len(s.data) /\ t.recv_seq = ISN[p] + 1 + k + Len(t.data)
    BY <1>2, <1>5 DEF RecvOK
  <2> DEFINE b == ISN[p] + 1
             x == Len(s.data)
             y == Len(t.data)
  <2>2. b \in Nat /\ x \in Nat /\ y \in Nat /\ x <= y
    BY <1>1, <1>5, <1>7, SocketTypes
  <2>3. s.recv_seq = b + k + x /\ t.recv_seq = b + k + y
    BY <2>1
  <2> HIDE DEF b, x, y
  <2>. QED BY <1>1, <2>2, <2>3
<1>9. Sound(h, t, bound)
  <2>1. SenderOK(h, t)
    BY <1>5 DEF Sound, SenderOK, Keeps, SameSender, Connected, Opening, Synchronized, Unacked
  <2>2. AckOK(h, t, bound)
    BY <1>5 DEF Sound, AckOK, SameSender, Done
  <2>. QED BY <1>7, <2>1, <2>2 DEF Sound
<1>10. Fit(h, s, t, bound)
  <2>1. t.state = s.state /\ s.state # "CLOSED"
    BY <1>5 DEF SameSender, Connected
  <2>2. Took(h, s) <= Took(h, t)
    BY <1>8, <2>1 DEF Took
  <2>3. Progress(h, s, t)
    BY <1>7, <2>1 DEF Progress, Told
  <2>. QED BY <1>9, <2>2, <2>3 DEF Fit
<1>. QED BY <1>5, <1>6, <1>7, <1>8, <1>9, <1>10 DEF SameSender, t

\* tcp_acknowledge_data: dropping the acknowledged bytes leaves exactly the
\* unacknowledged ones.
LEMMA AcknowledgeSound ==
  ASSUME TypeOK, NEW h \in Hosts, NEW s \in Socket, SocketOK(h, s),
         s.state = "ESTABLISHED", NEW ack \in Nat, NEW bound \in Nat, ack <= bound,
         Sound(h, s, bound)
  PROVE  LET t == AcknowledgeData(s, ack)
         IN Sound(h, t, bound)
<1> DEFINE size == Len(s.send_data)
           acked == IF ack - s.send_ack > size THEN size ELSE ack - s.send_ack
           rest == SubSeq(s.send_data, acked + 1, size)
           start == IF acked > 0 THEN ack ELSE s.start_seq
           t == AcknowledgeData(s, ack)
           before == s.send_ack - ISN[h] - 1
           after == ack - ISN[h] - 1
<1>1. CASE ack <= s.send_ack \/ ack > s.send_seq
  BY <1>1 DEF AcknowledgeData
<1>2. CASE ~(ack <= s.send_ack \/ ack > s.send_seq)
  <2>1. /\ s.send_data \in Seq(Byte) /\ s.send_ack \in Nat /\ s.start_seq \in Nat
        /\ size \in Nat /\ ISN[h] \in Nat /\ sent[h] \in Nat /\ s.send_seq \in Nat
    BY SocketTypes, HostTypes
  <2>2. /\ ISN[h] + 1 <= s.send_ack /\ before <= sent[h] /\ size = sent[h] - before
        /\ \A i \in 1 .. size : s.send_data[i] = before + i
    BY DEF Sound, SenderOK, Keeps, Synchronized, Unacked
  <2>3. s.send_seq = ISN[h] + 1 + sent[h]
    BY DEF SocketOK, Sending
  <2>4. t = [s EXCEPT !.send_data = rest, !.start_seq = start, !.send_ack = ack]
    BY <1>2 DEF AcknowledgeData
  <2> HIDE DEF size
  <2>5. acked = ack - s.send_ack /\ acked \in 1 .. size
    BY <1>2, <2>1, <2>2, <2>3, SMTT(30)
  <2>6. start = ack
    BY <2>1, <2>5
  <2>7. /\ Len(rest) = size - acked
        /\ \A i \in 1 .. size - acked : rest[i] = s.send_data[acked + i]
    <3> HIDE DEF acked
    <3>1. acked + 1 \in 1 .. size + 1 /\ size \in acked .. size
      BY <2>1, <2>5, SMTT(30)
    <3>2. /\ Len(rest) = IF acked + 1 <= size THEN size - (acked + 1) + 1 ELSE 0
          /\ \A i \in 1 .. size - (acked + 1) + 1 : rest[i] = s.send_data[(acked + 1) + i - 1]
      BY <2>1, <3>1, SubSeqProperties, SMTT(30) DEF size
    <3> HIDE DEF rest
    <3>3. acked \in Int /\ acked >= 1 /\ acked <= size
      BY <2>1, <2>5
    <3>4. Len(rest) = size - acked /\ size - (acked + 1) + 1 = size - acked
      BY <2>1, <3>2, <3>3
    <3>5. ASSUME NEW i \in 1 .. size - acked PROVE rest[i] = s.send_data[acked + i]
      <4>1. (acked + 1) + i - 1 = acked + i /\ i \in 1 .. size - (acked + 1) + 1
        BY <2>1, <3>3, <3>4
      <4>. QED BY <3>2, <4>1
    <3>. QED BY <3>4, <3>5
  <2> HIDE DEF rest, start, acked, t
  <2>8. /\ t.state = s.state /\ t.data = s.data /\ t.valid = s.valid
        /\ t.pending_count = s.pending_count /\ t.recv_seq = s.recv_seq
        /\ t.send_data = rest /\ t.start_seq = start /\ t.send_ack = ack
    BY <2>4 DEF Socket
  <2>9. /\ acked \in Nat /\ acked <= size /\ before \in Int /\ after \in Int
        /\ after = before + acked /\ after <= sent[h] /\ size - acked = sent[h] - after
        /\ ISN[h] + 1 <= ack
    <3> DEFINE a == s.send_ack
               n == sent[h]
               isn == ISN[h]
               last == s.send_seq
    <3>1. /\ a \in Nat /\ n \in Nat /\ isn \in Nat /\ last = isn + 1 + n
          /\ ~(ack <= a) /\ ~(ack > last) /\ isn + 1 <= a /\ size = n - (a - isn - 1)
          /\ acked = ack - a /\ size \in Nat
      BY <1>2, <2>1, <2>2, <2>3, <2>5
    <3> HIDE DEF a, n, isn, last
    <3>2. /\ acked \in Nat /\ acked <= size /\ a - isn - 1 \in Int /\ ack - isn - 1 \in Int
          /\ ack - isn - 1 = a - isn - 1 + acked /\ ack - isn - 1 <= n
          /\ size - acked = n - (ack - isn - 1) /\ isn + 1 <= ack
      BY <3>1
    <3>. QED BY <3>2 DEF a, n, isn
  <2>10. ASSUME NEW i \in 1 .. size - acked PROVE rest[i] = after + i
    <3>1. acked + i \in 1 .. size
      <4>1. acked \in Nat /\ size \in Nat /\ i \in Int /\ 1 <= i /\ i <= size - acked
        BY <2>1, <2>9
      <4> HIDE DEF before, after
      <4>. QED BY <4>1
    <3>2. rest[i] = before + (acked + i)
      BY <2>2, <2>7, <3>1
    <3> HIDE DEF before, after
    <3>. QED BY <2>9, <3>2
  <2>11. /\ Len(t.send_data) = size - acked
         /\ \A i \in 1 .. Len(t.send_data) : t.send_data[i] = t.send_ack - ISN[h] - 1 + i
    BY <2>7, <2>8, <2>10
  <2>12. SenderOK(h, t)
    BY <2>6, <2>8, <2>9, <2>11 DEF SenderOK, Keeps, Opening, Synchronized, Unacked
  <2>13. WindowOK(t)
    BY <2>8 DEF Sound, WindowOK, Counted
  <2>14. AckOK(h, t, bound)
    BY <2>8 DEF AckOK, Done
  <2>. QED BY <2>12, <2>13, <2>14 DEF Sound, t
<1>. QED BY <1>1, <1>2

\* Taking the FIN: the state of s before the segment, u after its payload.
LEMMA TakeFinFine ==
  ASSUME TypeOK, NEW h \in Hosts, NEW s \in Socket, NEW u \in Socket,
         u.state \in Connected, s.state = u.state, s.data = u.data,
         s.recv_seq = u.recv_seq, NEW seg, NEW bound \in Nat, Sound(h, u, bound),
         NEW next \in {"CLOSE_WAIT", "CLOSING", "TIME_WAIT"},
         next = "CLOSE_WAIT" => u.state = "ESTABLISHED",
         next = "CLOSING" => u.state = "FIN_WAIT_1",
         next = "TIME_WAIT" => ISN[h] + 2 + sent[h] <= bound
  PROVE  Fine(h, s, TakeFin(u, seg, next), bound)
<1> DEFINE t == [u EXCEPT !.recv_seq = @ + 1, !.state = next]
<1>1. CASE FinSeq(seg) # u.recv_seq
  <2>1. TakeFin(u, seg, next) = Answer(u, {"ACK"})
    BY <1>1 DEF TakeFin
  <2>2. Fit(h, u, u, bound)
    BY FitSelf
  <2>3. Fit(h, s, u, bound) /\ u.state # "CLOSED"
    BY <2>2 DEF Fit, Took, Progress, Told, Connected
  <2>. QED BY <2>1, <2>3, AnswerFine
<1>2. CASE FinSeq(seg) = u.recv_seq
  <2>1. u.recv_seq \in Nat /\ u.recv_seq + 1 \in Nat /\ next \in States
    BY SocketTypes DEF States
  <2>2. /\ t \in Socket /\ t.state = next /\ t.recv_seq = u.recv_seq + 1
        /\ t.data = u.data /\ t.valid = u.valid /\ t.pending_count = u.pending_count
        /\ t.send_data = u.send_data /\ t.start_seq = u.start_seq
        /\ t.send_ack = u.send_ack
    BY <2>1 DEF Socket
  <2>3. TakeFin(u, seg, next) = Answer(t, {"ACK"})
    BY <1>2 DEF TakeFin
  <2> HIDE DEF t
  <2>4. WindowOK(t)
    BY <2>2 DEF Sound, WindowOK, Counted
  <2>5. SenderOK(h, t)
    BY <2>2 DEF Sound, SenderOK, Keeps, Opening, Synchronized, Unacked, Connected
  <2>6. AckOK(h, t, bound)
    BY <2>2 DEF Sound, AckOK, Done
  <2>7. Took(h, s) <= Took(h, t)
    BY <2>1, <2>2 DEF Took, Connected
  <2>8. Progress(h, s, t)
    BY <2>2 DEF Progress, Told, Connected, FinTaken
  <2>9. Fit(h, s, t, bound) /\ t.state # "CLOSED"
    BY <2>2, <2>4, <2>5, <2>6, <2>7, <2>8 DEF Fit, Sound
  <2>. QED BY <2>2, <2>3, <2>9, AnswerFine
<1>. QED BY <1>1, <1>2

LEMMA OnEstablishedFine ==
  ASSUME TypeOK, NEW h \in Hosts, NEW s \in Socket, SocketOK(h, s),
         s.state = "ESTABLISHED", NEW seg \in Segment, SegmentOK(h, seg),
         NEW bound \in Nat, seg.ack <= bound, Sound(h, s, bound)
  PROVE  Fine(h, s, OnEstablished(s, seg), bound)
<1> DEFINE acked == IF "ACK" \in seg.flags THEN AcknowledgeData(s, seg.ack) ELSE s
           got == BufferPayload(acked, seg.seq, seg.payload)
<1>1. /\ acked \in Socket
      /\ acked.state = s.state /\ acked.send_seq = s.send_seq
      /\ acked.recv_seq = s.recv_seq /\ acked.data = s.data
      /\ acked.pending = s.pending /\ acked.valid = s.valid
      /\ Sound(h, acked, bound)
  <2>1. seg.ack \in Nat
    BY DEF Segment
  <2>. QED BY <2>1, AcknowledgeOK, AcknowledgeSound
<1> HIDE DEF acked
<1>2. SocketOK(h, acked)
  BY <1>1, SameReceiver DEF SocketOK, Opening, Sending, FinSent, Receiving, FinTaken
<1>3. /\ got \in Socket /\ got.state = acked.state /\ Sound(h, got, bound)
      /\ Fit(h, acked, got, bound) /\ (seg.payload = <<>> => got = acked)
  BY <1>1, <1>2, PayloadSound DEF Connected
<1>4. Fit(h, s, got, bound) /\ got.state # "CLOSED"
  BY <1>1, <1>3 DEF Fit, Took, Progress, Told
<1> HIDE DEF got
<1>5. CASE "FIN" \in seg.flags
  <2>1. OnEstablished(s, seg) = TakeFin(got, seg, "CLOSE_WAIT")
    BY <1>5 DEF OnEstablished, got, acked
  <2>2. got = acked
    BY <1>3, <1>5 DEF SegmentOK
  <2>. QED BY <1>1, <1>3, <2>1, <2>2, TakeFinFine DEF Connected
<1>6. CASE "FIN" \notin seg.flags /\ seg.payload # <<>>
  <2>1. OnEstablished(s, seg) = Answer(got, {"ACK"})
    BY <1>6 DEF OnEstablished, got, acked
  <2>. QED BY <1>3, <1>4, <2>1, AnswerFine
<1>7. CASE "FIN" \notin seg.flags /\ seg.payload = <<>>
  <2>1. OnEstablished(s, seg) = Ignore(got)
    BY <1>7 DEF OnEstablished, got, acked
  <2>. QED BY <1>4, <2>1, IgnoreFine
<1>. QED BY <1>5, <1>6, <1>7

LEMMA OnFinWait1Fine ==
  ASSUME TypeOK, NEW h \in Hosts, NEW s \in Socket, SocketOK(h, s),
         s.state = "FIN_WAIT_1", NEW seg \in Segment, SegmentOK(h, seg),
         NEW bound \in Nat, seg.ack <= bound, Sound(h, s, bound)
  PROVE  Fine(h, s, OnFinWait1(s, seg), bound)
<1> DEFINE got == BufferPayload(s, seg.seq, seg.payload)
           done == [got EXCEPT !.send_ack = seg.ack, !.state = "FIN_WAIT_2"]
           next == IF AcksAll(s, seg) THEN done ELSE got
           last == IF AcksAll(s, seg) THEN "TIME_WAIT" ELSE "CLOSING"
<1>1. /\ got \in Socket /\ got.state = "FIN_WAIT_1" /\ Sound(h, got, bound)
      /\ Fit(h, s, got, bound) /\ (seg.payload = <<>> => got = s)
  BY PayloadSound DEF Connected
<1>2. s.send_seq = ISN[h] + 2 + sent[h] /\ ISN[h] \in Nat /\ sent[h] \in Nat
  BY HostTypes DEF SocketOK, FinSent
<1> HIDE DEF got
<1>3. AcksAll(s, seg) => seg.ack = ISN[h] + 2 + sent[h] /\ ISN[h] + 2 + sent[h] <= bound
  BY <1>2 DEF AcksAll
<1>4. next \in Socket /\ Fit(h, s, next, bound) /\ next.state # "CLOSED"
  <2>1. CASE ~AcksAll(s, seg)
    BY <1>1, <2>1
  <2>2. CASE AcksAll(s, seg)
    <3>1. seg.ack \in Nat
      BY DEF Segment
    <3>2. /\ done \in Socket /\ done.state = "FIN_WAIT_2" /\ done.send_ack = seg.ack
          /\ done.recv_seq = got.recv_seq /\ done.data = got.data
          /\ done.pending_count = got.pending_count /\ done.valid = got.valid
      BY <1>1, <3>1 DEF Socket, States
    <3> HIDE DEF done
    <3>3. ISN[h] + 1 <= seg.ack
      BY <1>2, <1>3, <2>2
    <3>4. SenderOK(h, done)
      BY <3>2, <3>3 DEF SenderOK, Opening, Synchronized, Unacked
    <3>5. WindowOK(done)
      BY <1>1, <3>2 DEF Sound, WindowOK, Counted
    <3>6. AckOK(h, done, bound)
      BY <1>3, <2>2, <3>2 DEF AckOK
    <3>7. Took(h, s) <= Took(h, done) /\ Progress(h, s, done)
      BY <1>1, <3>2 DEF Fit, Took, Progress, Told, FinTaken
    <3>. QED BY <2>2, <3>2, <3>4, <3>5, <3>6, <3>7 DEF Fit, Sound
  <2>. QED BY <2>1, <2>2
<1> HIDE DEF next
<1>5. CASE "FIN" \in seg.flags
  <2>1. OnFinWait1(s, seg) = TakeFin(got, seg, last)
    BY <1>5 DEF OnFinWait1, got
  <2>2. /\ last \in {"CLOSE_WAIT", "CLOSING", "TIME_WAIT"} /\ last # "CLOSE_WAIT"
        /\ last = "TIME_WAIT" => ISN[h] + 2 + sent[h] <= bound
    BY <1>3
  <2>3. got = s
    BY <1>1, <1>5 DEF SegmentOK
  <2> HIDE DEF last
  <2>. QED BY <1>1, <2>1, <2>2, <2>3, TakeFinFine DEF Connected
<1>6. CASE "FIN" \notin seg.flags /\ seg.payload # <<>>
  <2>1. OnFinWait1(s, seg) = Answer(next, {"ACK"})
    BY <1>6 DEF OnFinWait1, got, next
  <2>. QED BY <1>4, <2>1, AnswerFine
<1>7. CASE "FIN" \notin seg.flags /\ seg.payload = <<>>
  <2>1. OnFinWait1(s, seg) = Ignore(next)
    BY <1>7 DEF OnFinWait1, got, next
  <2>. QED BY <1>4, <2>1, IgnoreFine
<1>. QED BY <1>5, <1>6, <1>7

LEMMA OnFinWait2Fine ==
  ASSUME TypeOK, NEW h \in Hosts, NEW s \in Socket, SocketOK(h, s),
         s.state = "FIN_WAIT_2", NEW seg \in Segment, SegmentOK(h, seg),
         NEW bound \in Nat, Sound(h, s, bound)
  PROVE  Fine(h, s, OnFinWait2(s, seg), bound)
<1> DEFINE got == BufferPayload(s, seg.seq, seg.payload)
<1>1. /\ got \in Socket /\ got.state = "FIN_WAIT_2" /\ Sound(h, got, bound)
      /\ Fit(h, s, got, bound) /\ (seg.payload = <<>> => got = s)
  BY PayloadSound DEF Connected
<1> HIDE DEF got
<1>2. CASE "FIN" \in seg.flags
  <2>1. OnFinWait2(s, seg) = TakeFin(got, seg, "TIME_WAIT")
    BY <1>2 DEF OnFinWait2, got
  <2>2. got = s
    BY <1>1, <1>2 DEF SegmentOK
  <2>3. ISN[h] + 2 + sent[h] <= bound
    BY DEF Sound, AckOK, Done
  <2>. QED BY <1>1, <2>1, <2>2, <2>3, TakeFinFine DEF Connected
<1>3. CASE "FIN" \notin seg.flags /\ seg.payload # <<>>
  <2>1. OnFinWait2(s, seg) = Answer(got, {"ACK"})
    BY <1>3 DEF OnFinWait2, got
  <2>. QED BY <1>1, <2>1, AnswerFine
<1>4. CASE "FIN" \notin seg.flags /\ seg.payload = <<>>
  <2>1. OnFinWait2(s, seg) = Ignore(got)
    BY <1>4 DEF OnFinWait2, got
  <2>. QED BY <1>1, <2>1, IgnoreFine
<1>. QED BY <1>2, <1>3, <1>4

LEMMA OnSynSentFine ==
  ASSUME TypeOK, NEW h \in Hosts, NEW s \in Socket, SocketOK(h, s),
         s.state = "SYN_SENT", NEW seg \in Segment,
         NEW bound \in Nat, seg.ack <= bound, Sound(h, s, bound)
  PROVE  Fine(h, s, OnSynSent(s, seg), bound)
<1> DEFINE t == [s EXCEPT !.state = "ESTABLISHED", !.recv_seq = seg.seq + 1,
                          !.send_ack = seg.ack, !.send_seq = seg.ack]
           takes == /\ {"SYN", "ACK"} \subseteq seg.flags /\ "FIN" \notin seg.flags
                    /\ seg.ack = s.send_seq + 1
<1>1. CASE ~takes
  <2>1. OnSynSent(s, seg) = Ignore(s)
    BY <1>1 DEF OnSynSent
  <2>. QED BY <2>1, FitSelf, IgnoreFine
<1>2. CASE takes
  <2>1. seg.seq \in Nat /\ seg.ack \in Nat /\ seg.seq + 1 \in Nat
    BY DEF Segment
  <2>2. /\ t \in Socket /\ t.state = "ESTABLISHED" /\ t.recv_seq = seg.seq + 1
        /\ t.send_ack = seg.ack /\ t.send_data = s.send_data
        /\ t.data = s.data /\ t.valid = s.valid /\ t.pending_count = s.pending_count
    BY <2>1 DEF Socket, States
  <2>3. sent[h] = 0 /\ s.send_seq = ISN[h] /\ ISN[h] \in Nat
    BY HostTypes DEF SocketOK, Opening
  <2>4. s.send_data = <<>> /\ s.recv_seq = 0 /\ Len(s.send_data) = 0
    BY EmptySeq DEF Sound, SenderOK, Opening
  <2>5. OnSynSent(s, seg) = Answer(t, {"ACK"})
    BY <1>2 DEF OnSynSent
  <2> HIDE DEF t
  <2>6. t.send_ack - ISN[h] - 1 = 0 /\ ISN[h] + 1 <= t.send_ack
    BY <1>2, <2>2, <2>3
  <2>7. SenderOK(h, t)
    BY <2>2, <2>3, <2>4, <2>6 DEF SenderOK, Keeps, Opening, Synchronized, Unacked
  <2>8. WindowOK(t) /\ AckOK(h, t, bound)
    BY <2>2 DEF Sound, WindowOK, Counted, AckOK, Done
  <2>9. Took(h, s) <= Took(h, t)
    BY <2>1, <2>2, <2>4 DEF Took
  <2>10. Progress(h, s, t)
    BY <2>2, SocketTypes DEF Progress, Told, FinTaken
  <2>11. Fit(h, s, t, bound)
    BY <2>7, <2>8, <2>9, <2>10 DEF Fit, Sound
  <2>. QED BY <2>2, <2>5, <2>11, AnswerFine
<1>. QED BY <1>1, <1>2

LEMMA OnSynReceivedFine ==
  ASSUME TypeOK, NEW h \in Hosts, NEW s \in Socket, SocketOK(h, s),
         s.state = "SYN_RECEIVED", NEW seg \in Segment, SegmentOK(h, seg),
         NEW bound \in Nat, seg.ack <= bound, Sound(h, s, bound)
  PROVE  Fine(h, s, OnSynReceived(s, seg), bound)
<1> DEFINE t == [s EXCEPT !.state = "ESTABLISHED",
                          !.send_ack = seg.ack, !.send_seq = seg.ack]
           got == BufferPayload(t, seg.seq, seg.payload)
           takes == /\ "ACK" \in seg.flags /\ seg.flags \cap {"SYN", "FIN"} = {}
                    /\ seg.ack = s.send_seq + 1 /\ seg.seq = s.recv_seq
<1>1. CASE ~takes
  <2>1. OnSynReceived(s, seg) = Ignore(s)
    BY <1>1 DEF OnSynReceived
  <2>. QED BY <2>1, FitSelf, IgnoreFine
<1>2. CASE takes
  <2>1. seg.ack \in Nat
    BY DEF Segment
  <2>2. /\ t \in Socket /\ t.state = "ESTABLISHED" /\ t.recv_seq = s.recv_seq
        /\ t.send_seq = seg.ack /\ t.send_ack = seg.ack /\ t.send_data = s.send_data
        /\ t.data = s.data /\ t.valid = s.valid /\ t.pending = s.pending
        /\ t.pending_count = s.pending_count
    BY <2>1 DEF Socket, States
  <2>3. ~closed[h] /\ sent[h] = 0 /\ s.send_seq = ISN[h] /\ ISN[h] \in Nat
    BY HostTypes DEF SocketOK, Opening
  <2>4. RecvOK(s, ISN[Peer(h)] + 1, Len(read[h]), sent[Peer(h)])
    BY DEF SocketOK, Receiving
  <2>5. OnSynReceived(s, seg) = IF seg.payload # <<>> THEN Answer(got, {"ACK"})
                                                     ELSE Ignore(got)
    BY <1>2 DEF OnSynReceived
  <2>6. s.send_data = <<>> /\ Len(s.send_data) = 0
    BY EmptySeq DEF Sound, SenderOK, Opening
  <2> HIDE DEF t
  <2>7. RecvOK(t, ISN[Peer(h)] + 1, Len(read[h]), sent[Peer(h)])
    BY <2>2, <2>4, SameReceiver
  <2>8. t.send_seq = ISN[h] + 1 + sent[h]
    BY <1>2, <2>2, <2>3
  <2>9. SocketOK(h, t)
    BY <2>2, <2>3, <2>7, <2>8
    DEF SocketOK, Opening, Sending, FinSent, Receiving, FinTaken
  <2>10. t.send_ack - ISN[h] - 1 = 0 /\ ISN[h] + 1 <= t.send_ack
    BY <1>2, <2>2, <2>3
  <2>11. SenderOK(h, t)
    BY <2>2, <2>3, <2>6, <2>10 DEF SenderOK, Keeps, Opening, Synchronized, Unacked
  <2>12. WindowOK(t) /\ AckOK(h, t, bound)
    BY <2>2 DEF Sound, WindowOK, Counted, AckOK, Done
  <2>13. /\ got \in Socket /\ got.state = "ESTABLISHED" /\ Fit(h, t, got, bound)
    BY <2>2, <2>9, <2>11, <2>12, PayloadSound DEF Connected, Sound
  <2> HIDE DEF got
  <2>14. Fit(h, s, got, bound)
    BY <2>2, <2>13 DEF Fit, Took, Progress, Told, FinTaken
  <2>. QED BY <2>5, <2>13, <2>14, AnswerFine, IgnoreFine
<1>. QED BY <1>1, <1>2

LEMMA OnClosingFine ==
  ASSUME TypeOK, NEW h \in Hosts, NEW s \in Socket, SocketOK(h, s),
         s.state = "CLOSING", NEW seg \in Segment,
         NEW bound \in Nat, seg.ack <= bound, Sound(h, s, bound)
  PROVE  Fine(h, s, OnClosing(s, seg), bound)
<1> DEFINE t == [s EXCEPT !.send_ack = seg.ack, !.state = "TIME_WAIT"]
<1>1. CASE ~AcksAll(s, seg)
  <2>1. OnClosing(s, seg) = Ignore(s)
    BY <1>1 DEF OnClosing
  <2>. QED BY <2>1, FitSelf, IgnoreFine
<1>2. CASE AcksAll(s, seg)
  <2>1. OnClosing(s, seg) = Ignore(t)
    BY <1>2 DEF OnClosing
  <2>2. /\ t.state = "TIME_WAIT" /\ t.send_ack = seg.ack
        /\ t.recv_seq = s.recv_seq /\ t.data = s.data
        /\ t.pending_count = s.pending_count /\ t.valid = s.valid
    BY DEF Socket
  <2>3. /\ seg.ack = ISN[h] + 2 + sent[h] /\ ISN[h] \in Nat /\ sent[h] \in Nat
        /\ closed[h]
    BY <1>2, HostTypes DEF SocketOK, FinSent, AcksAll
  <2> HIDE DEF t
  <2>4. ISN[h] + 1 <= seg.ack
    BY <2>3
  <2>5. SenderOK(h, t)
    BY <2>2, <2>4 DEF SenderOK, Opening, Synchronized, Unacked
  <2>6. WindowOK(t) /\ AckOK(h, t, bound)
    BY <2>2, <2>3 DEF Sound, WindowOK, Counted, AckOK
  <2>7. Took(h, s) <= Took(h, t)
    BY <2>2, SocketTypes DEF Took
  <2>8. Progress(h, s, t)
    BY <2>2, SocketTypes DEF Progress, Told, FinTaken
  <2>9. Fit(h, s, t, bound)
    BY <2>5, <2>6, <2>7, <2>8 DEF Fit, Sound
  <2>. QED BY <2>1, <2>9, IgnoreFine
<1>. QED BY <1>1, <1>2

LEMMA FreeWindow == WindowOK(FreeSocket)
  BY FS_EmptySet, EmptySeq, BufferAssumption DEF FreeSocket, WindowOK, Counted

\* The acknowledgement of the last FIN frees the socket; what its host has
\* taken is then known from the peer's closed stream.
LEMMA OnLastAckFine ==
  ASSUME TypeOK, NEW h \in Hosts, NEW s \in Socket, SocketOK(h, s),
         s.state = "LAST_ACK", NEW seg \in Segment,
         NEW bound \in Nat, seg.ack <= bound, Sound(h, s, bound)
  PROVE  Fine(h, s, OnLastAck(s, seg), bound)
<1>1. CASE ~AcksAll(s, seg)
  <2>1. OnLastAck(s, seg) = Ignore(s)
    BY <1>1 DEF OnLastAck
  <2>. QED BY <2>1, FitSelf, IgnoreFine
<1>2. CASE AcksAll(s, seg)
  <2>1. OnLastAck(s, seg) = Ignore(FreeSocket)
    BY <1>2 DEF OnLastAck
  <2>2. /\ FreeSocket.state = "CLOSED" /\ FreeSocket.data = <<>>
        /\ FreeSocket.send_ack = 0
    BY DEF FreeSocket
  <2>3. seg.ack = ISN[h] + 2 + sent[h] /\ closed[h]
    BY <1>2 DEF SocketOK, FinSent, AcksAll
  <2>4. s.recv_seq = ISN[Peer(h)] + 2 + sent[Peer(h)] /\ s.recv_seq \in Nat
    BY SocketTypes DEF SocketOK, FinTaken
  <2>5. SenderOK(h, FreeSocket)
    BY <2>2 DEF SenderOK, Opening, Synchronized, Unacked
  <2>6. AckOK(h, FreeSocket, bound)
    BY <2>2, <2>3 DEF AckOK
  <2>7. Took(h, s) <= Took(h, FreeSocket)
    BY <2>2, <2>3, <2>4 DEF Took
  <2>8. Progress(h, s, FreeSocket)
    BY <2>2, <2>3 DEF Progress, Told, FinTaken
  <2>9. Fit(h, s, FreeSocket, bound)
    BY <2>5, <2>6, <2>7, <2>8, FreeWindow DEF Fit, Sound
  <2>. QED BY <2>1, <2>9, IgnoreFine
<1>. QED BY <1>1, <1>2

LEMMA ReceiveSegmentFine ==
  ASSUME TypeOK, NEW h \in Hosts, NEW s \in Socket, SocketOK(h, s),
         NEW seg \in Segment, SegmentOK(h, seg),
         NEW bound \in Nat, seg.ack <= bound, Sound(h, s, bound)
  PROVE  Fine(h, s, ReceiveSegment(s, seg), bound)
<1>1. CASE s.state = "SYN_SENT"
  BY <1>1, OnSynSentFine DEF ReceiveSegment
<1>2. CASE s.state = "SYN_RECEIVED"
  BY <1>2, OnSynReceivedFine DEF ReceiveSegment
<1>3. CASE s.state = "ESTABLISHED"
  BY <1>3, OnEstablishedFine DEF ReceiveSegment
<1>4. CASE s.state = "FIN_WAIT_1"
  BY <1>4, OnFinWait1Fine DEF ReceiveSegment
<1>5. CASE s.state = "FIN_WAIT_2"
  BY <1>5, OnFinWait2Fine DEF ReceiveSegment
<1>6. CASE s.state = "CLOSING"
  BY <1>6, OnClosingFine DEF ReceiveSegment
<1>7. CASE s.state = "LAST_ACK"
  BY <1>7, OnLastAckFine DEF ReceiveSegment
<1>8. CASE s.state \notin {"SYN_SENT", "SYN_RECEIVED", "ESTABLISHED", "FIN_WAIT_1",
                           "FIN_WAIT_2", "CLOSING", "LAST_ACK"}
  BY <1>8, FitSelf, IgnoreFine DEF ReceiveSegment
<1>. QED BY <1>1, <1>2, <1>3, <1>4, <1>5, <1>6, <1>7, <1>8

LEMMA OnListenFine ==
  ASSUME TypeOK, SocketOK(Server, FreeSocket), NEW seg \in Segment,
         SegmentOK(Server, seg), seg.flags = {"SYN"} => ~closed[Server],
         NEW bound \in Nat, Sound(Server, FreeSocket, bound)
  PROVE  Fine(Server, FreeSocket, OnListen(FreeSocket, seg, ISN[Server]), bound)
<1> DEFINE t == [FreeSocket EXCEPT !.state = "SYN_RECEIVED",
                                   !.recv_seq = seg.seq + 1, !.send_seq = ISN[Server]]
           takes == "SYN" \in seg.flags /\ seg.flags \cap {"ACK", "FIN"} = {}
<1>1. Server \in Hosts
  BY DEF Hosts
<1>2. CASE ~takes
  <2>1. OnListen(FreeSocket, seg, ISN[Server]) = Ignore(FreeSocket)
    BY <1>2 DEF OnListen
  <2>. QED BY <1>1, <2>1, FreeSocketType, FitSelf, IgnoreFine
<1>3. CASE takes
  <2>1. seg.seq \in Nat /\ seg.seq + 1 \in Nat /\ ISN[Server] \in Nat
    BY <1>1, HostTypes DEF Segment
  <2>2. t \in Socket /\ t.state = "SYN_RECEIVED" /\ t.recv_seq = seg.seq + 1
    BY <2>1, FreeSocketType DEF Socket, States
  <2>3. /\ t.data = FreeSocket.data /\ t.valid = FreeSocket.valid
        /\ t.pending_count = FreeSocket.pending_count
        /\ t.send_data = <<>> /\ t.send_ack = 0
        /\ FreeSocket.recv_seq = 0 /\ FreeSocket.state = "CLOSED"
    BY DEF FreeSocket
  <2>4. ~closed[Server]
    BY <1>3 DEF SegmentOK
  <2>5. OnListen(FreeSocket, seg, ISN[Server]) = Answer(t, {"SYN", "ACK"})
    BY <1>3 DEF OnListen
  <2> HIDE DEF t
  <2>6. SenderOK(Server, t)
    BY <2>2, <2>3 DEF SenderOK, Opening, Synchronized, Unacked
  <2>7. WindowOK(t)
    BY <2>3, FreeWindow DEF WindowOK, Counted
  <2>8. AckOK(Server, t, bound)
    BY <2>2, <2>3 DEF AckOK, Done
  <2>9. Took(Server, FreeSocket) <= Took(Server, t)
    BY <2>1, <2>2, <2>3, <2>4 DEF Took
  <2>10. Progress(Server, FreeSocket, t)
    BY <2>2, <2>3, <2>4, FreeSocketType, SocketTypes DEF Progress, Told, FinTaken
  <2>11. Fit(Server, FreeSocket, t, bound)
    BY <2>6, <2>7, <2>8, <2>9, <2>10 DEF Fit, Sound
  <2>. QED BY <1>1, <2>2, <2>5, <2>11, AnswerFine
<1>. QED BY <1>2, <1>3

-----------------------------------------------------------------------------
LEMMA TwoHosts ==
  ASSUME NEW h \in Hosts
  PROVE  \A g \in Hosts : g = h \/ g = Peer(h)
BY DEF Hosts, Peer, Client, Server

\* A higher bound on the acknowledgements is a bound too.
LEMMA SoundMore ==
  ASSUME TypeOK, NEW h \in Hosts, NEW s \in Socket, NEW b1 \in Nat, NEW b2 \in Nat,
         b1 <= b2, Sound(h, s, b1)
  PROVE  Sound(h, s, b2)
<1>1. s.send_ack \in Nat /\ ISN[h] \in Nat /\ sent[h] \in Nat
  BY SocketTypes, HostTypes
<1>2. AckOK(h, s, b2)
  BY <1>1 DEF Sound, AckOK
<1>. QED BY <1>2 DEF Sound

\* A step of h that changes its own socket and sends the segments R; its
\* peer has taken bound, and h itself more than before.
LEMMA AgreementStep ==
  ASSUME AgreementInv, StreamInv', NEW h \in Hosts, NEW t, NEW R, NEW bound, NEW more,
         sock' = [sock EXCEPT ![h] = t], net' = [net EXCEPT ![Peer(h)] = @ \cup R],
         sent'[Peer(h)] = sent[Peer(h)], closed'[Peer(h)] = closed[Peer(h)],
         bound = Took(Peer(h), sock[Peer(h)]), bound = Took(Peer(h), sock[Peer(h)])',
         more = Took(h, sock[h])', Took(h, sock[h]) <= more,
         Sound(h, sock[h], bound)', \A m \in R : m.ack <= more
  PROVE  AgreementInv'
<1> DEFINE p == Peer(h)
           b == Took(h, sock[h])
<1>1. /\ TypeOK /\ sock \in [Hosts -> Socket] /\ net \in [Hosts -> SUBSET Segment]
  BY DEF AgreementInv, StreamInv, TypeOK
<1>2. TypeOK' /\ sock' \in [Hosts -> Socket]
  BY DEF StreamInv, TypeOK
<1>3. p \in Hosts /\ p # h /\ Peer(p) = h
  BY PeerType
<1>4. /\ sock'[p] = sock[p] /\ net'[h] = net[h] /\ net'[p] = net[p] \cup R
  BY <1>1, <1>3
<1>5. b \in Nat /\ more \in Nat
  <2>1. b \in Nat
    BY <1>1, TookType
  <2>2. sock'[h] \in Socket
    BY <1>2
  <2>3. (ISN[Peer(h)] + 2 + sent[Peer(h)])' \in Nat
    <3>1. sent'[p] \in Nat /\ ISN[p] \in Nat
      BY <1>2, <1>3, ConnectionAssumption DEF TypeOK
    <3>. QED BY <3>1
  <2>4. more \in Nat
    BY <2>2, <2>3, SocketTypes DEF Took
  <2>. QED BY <2>1, <2>4
<1>6. Sound(p, sock[p], more)
  <2>1. Sound(p, sock[p], b) /\ sock[p] \in Socket
    BY <1>1, <1>3 DEF AgreementInv
  <2> HIDE DEF b, p
  <2>. QED BY <1>1, <1>3, <1>5, <2>1, SoundMore DEF b
<1>7. Sound(p, sock[p], more)'
  <2>1. WindowOK(sock[p])'
    BY <1>4, <1>6 DEF Sound, WindowOK, Counted
  <2>2. SenderOK(p, sock[p])'
    BY <1>4, <1>6 DEF Sound, SenderOK, Keeps
  <2>3. AckOK(p, sock[p], more)'
    BY <1>4, <1>6 DEF Sound, AckOK, Done
  <2>. QED BY <2>1, <2>2, <2>3 DEF Sound
<1>8. \A m \in net'[h] : m.ack <= bound
  BY <1>4 DEF AgreementInv
<1>9. ASSUME NEW m \in net'[p] PROVE m.ack <= more
  <2>1. CASE m \in net[p]
    <3>1. m.ack <= b /\ m.ack \in Nat
      BY <1>1, <1>3, <2>1 DEF AgreementInv, Segment
    <3> HIDE DEF b
    <3>. QED BY <1>5, <3>1 DEF b
  <2>2. CASE m \in R
    BY <2>2
  <2>. QED BY <1>4, <2>1, <2>2
<1>10. ASSUME NEW g \in Hosts
       PROVE  (LET top == Took(Peer(g), sock[Peer(g)])
               IN Sound(g, sock[g], top) /\ \A seg \in net[g] : seg.ack <= top)'
  <2>1. CASE g = h
    BY <1>8, <2>1
  <2>2. CASE g = p
    BY <1>3, <1>7, <1>9, <2>2
  <2>. QED BY <2>1, <2>2, TwoHosts
<1>. QED BY <1>10 DEF AgreementInv

\* What the arithmetic of a step of h needs.
LEMMA AgreementFacts ==
  ASSUME AgreementInv, NEW h \in Hosts
  PROVE  /\ StreamInv /\ TypeOK /\ sock[h] \in Socket /\ SocketOK(h, sock[h])
         /\ Sound(h, sock[h], Took(Peer(h), sock[Peer(h)]))
         /\ Took(Peer(h), sock[Peer(h)]) \in Nat /\ Took(h, sock[h]) \in Nat
         /\ \A seg \in net[h] : seg.ack <= Took(Peer(h), sock[Peer(h)])
<1>1. StreamInv /\ TypeOK /\ sock[h] \in Socket /\ SocketOK(h, sock[h])
  BY DEF AgreementInv, StreamInv, TypeOK
<1>2. sock[Peer(h)] \in Socket /\ Peer(h) \in Hosts
  BY PeerType DEF AgreementInv, StreamInv, TypeOK
<1>. QED BY <1>1, <1>2, TookType DEF AgreementInv

\* The outcome of host_receive.
LEMMA HostReceiveFine ==
  ASSUME AgreementInv, NEW h \in Hosts, NEW seg \in net[h],
         ~(h = Server /\ closed[h] /\ seg.flags = {"SYN"})
  PROVE  Fine(h, sock[h], HostReceive(h, seg), Took(Peer(h), sock[Peer(h)]))
<1> DEFINE bound == Took(Peer(h), sock[Peer(h)])
           s == sock[h]
<1>1. /\ TypeOK /\ s \in Socket /\ SocketOK(h, s) /\ Sound(h, s, bound)
      /\ bound \in Nat /\ seg.ack <= bound
  BY AgreementFacts
<1>2. seg \in Segment /\ SegmentOK(h, seg)
  BY DEF AgreementInv, StreamInv, TypeOK
<1> HIDE DEF bound
<1>3. CASE s.state # "CLOSED"
  BY <1>1, <1>2, <1>3, ReceiveSegmentFine DEF HostReceive, bound
<1>4. CASE s.state = "CLOSED"
  <2>1. s = FreeSocket
    BY <1>1, <1>4 DEF SocketOK
  <2>2. CASE h = Server /\ listening
    <3>1. HostReceive(h, seg) = OnListen(FreeSocket, seg, ISN[h])
      BY <1>4, <2>2 DEF HostReceive
    <3>2. SocketOK(h, FreeSocket) /\ Sound(h, FreeSocket, bound)
      BY <1>1, <2>1
    <3> HIDE DEF s
    <3>. QED BY <1>1, <1>2, <2>1, <2>2, <3>1, <3>2, OnListenFine DEF s, bound
  <2>3. CASE ~(h = Server /\ listening)
    <3>1. HostReceive(h, seg) = Ignore(s)
      BY <1>4, <2>1, <2>3 DEF HostReceive
    <3>. QED BY <1>1, <3>1, FitSelf, IgnoreFine DEF bound
  <2>. QED BY <2>2, <2>3
<1>. QED BY <1>3, <1>4

LEMMA DeliverAgreement ==
  ASSUME AgreementInv, NEW h \in Hosts, NEW seg \in net[h], Deliver(h, seg)
  PROVE  AgreementInv'
<1>1. PICK r : r = HostReceive(h, seg)
  OBVIOUS
<1>2. PICK bound : bound = Took(Peer(h), sock[Peer(h)])
  OBVIOUS
<1>3. PICK more : more = Took(h, r.sock)
  OBVIOUS
<1>4. /\ sock' = [sock EXCEPT ![h] = r.sock]
      /\ net' = [net EXCEPT ![Peer(h)] = @ \cup r.reply]
      /\ UNCHANGED <<sent, read, closed>>
  BY <1>1 DEF Deliver
<1>5. StreamInv'
  BY AgreementFacts, DeliverStep
<1>6. Fine(h, sock[h], r, bound)
  BY <1>1, <1>2, HostReceiveFine DEF Deliver
<1>7. sock'[h] = r.sock /\ sock'[Peer(h)] = sock[Peer(h)]
  BY <1>4, PeerType DEF AgreementInv, StreamInv, TypeOK
<1>8. Sound(h, sock[h], bound)'
  <2>1. Sound(h, r.sock, bound)
    BY <1>6 DEF Fine, Fit
  <2>2. WindowOK(sock[h])'
    BY <1>7, <2>1 DEF Sound, WindowOK, Counted
  <2>3. SenderOK(h, sock[h])'
    BY <1>4, <1>7, <2>1 DEF Sound, SenderOK, Keeps
  <2>4. AckOK(h, sock[h], bound)'
    BY <1>4, <1>7, <2>1 DEF Sound, AckOK, Done
  <2>. QED BY <2>2, <2>3, <2>4 DEF Sound
<1>9. bound = Took(Peer(h), sock[Peer(h)])'
  BY <1>2, <1>4, <1>7 DEF Took
<1>10. more = Took(h, sock[h])'
  BY <1>3, <1>4, <1>7 DEF Took
<1>11. Took(h, sock[h]) <= more /\ \A m \in r.reply : m.ack <= more
  BY <1>3, <1>6 DEF Fine, Fit
<1>. QED BY <1>2, <1>4, <1>5, <1>8, <1>9, <1>10, <1>11, AgreementStep

LEMMA ConnectAgreement ==
  ASSUME AgreementInv, TcpConnect
  PROVE  AgreementInv'
<1>1. PICK h \in Hosts : h = Client
  BY DEF Hosts
<1>2. PICK t : t = Connect(ISN[h])
  OBVIOUS
<1>3. PICK seg : seg = [flags |-> {"SYN"}, seq |-> ISN[h], ack |-> 0, payload |-> <<>>]
  OBVIOUS
<1>4. PICK bound : bound = Took(Peer(h), sock[Peer(h)])
  OBVIOUS
<1>5. /\ sock[h].state = "CLOSED" /\ ~closed[h]
      /\ sock' = [sock EXCEPT ![h] = t]
      /\ net' = [net EXCEPT ![Peer(h)] = @ \cup {seg}]
      /\ UNCHANGED <<sent, read, closed>>
  BY <1>1, <1>2, <1>3 DEF TcpConnect, Transmit
<1>6. StreamInv' /\ sock[h] = FreeSocket /\ bound \in Nat
  BY <1>4, <1>5, AgreementFacts, ConnectStep DEF SocketOK
<1>7. sock'[h] = t /\ sock'[Peer(h)] = sock[Peer(h)]
  BY <1>5, PeerType DEF AgreementInv, StreamInv, TypeOK
<1>8. /\ t.state = "SYN_SENT" /\ t.recv_seq = 0 /\ t.send_ack = 0 /\ t.send_data = <<>>
      /\ t.data = FreeSocket.data /\ t.valid = FreeSocket.valid
      /\ t.pending_count = FreeSocket.pending_count /\ FreeSocket.recv_seq = 0
  BY <1>2 DEF Connect, FreeSocket
<1>9. Sound(h, sock[h], bound)'
  <2>1. WindowOK(sock[h])'
    BY <1>7, <1>8, FreeWindow DEF WindowOK, Counted
  <2>2. SenderOK(h, sock[h])'
    BY <1>1, <1>7, <1>8 DEF SenderOK, Opening, Synchronized, Unacked
  <2>3. AckOK(h, sock[h], bound)'
    BY <1>6, <1>7, <1>8 DEF AckOK, Done
  <2>. QED BY <2>1, <2>2, <2>3 DEF Sound
<1>10. bound = Took(Peer(h), sock[Peer(h)])'
  BY <1>4, <1>5, <1>7 DEF Took
<1>11. PICK more, R : more = 0 /\ R = {seg}
  OBVIOUS
<1>12. more = Took(h, sock[h])'
  BY <1>7, <1>8, <1>11 DEF Took
<1>13. Took(h, sock[h]) <= more /\ \A m \in R : m.ack <= more
  BY <1>3, <1>5, <1>6, <1>8, <1>11 DEF Took
<1>14. /\ net' = [net EXCEPT ![Peer(h)] = @ \cup R]
       /\ sent'[Peer(h)] = sent[Peer(h)] /\ closed'[Peer(h)] = closed[Peer(h)]
  BY <1>5, <1>11
<1>. QED BY <1>4, <1>5, <1>6, <1>9, <1>10, <1>12, <1>13, <1>14, AgreementStep

\* The bytes appended to the send buffer follow the ones it holds.
LEMMA SendSound ==
  ASSUME NEW s \in Socket, NEW payload \in Seq(Byte), NEW n \in Nat, NEW isn \in Nat,
         s.send_seq = isn + 1 + n, isn + 1 <= s.send_ack, Keeps(s, isn, n),
         \A i \in 1 .. Len(payload) : payload[i] = n + i
  PROVE  Keeps(Send(s, payload), isn, n + Len(payload))
<1> DEFINE t == Send(s, payload)
           len == Len(payload)
           data == s.send_data
           size == Len(data)
           a == s.send_ack
           acked == a - isn - 1
           both == data \o payload
<1>1. /\ a \in Nat /\ data \in Seq(Byte) /\ size \in Nat /\ len \in Nat
      /\ s.send_seq \in Nat
  BY SocketTypes, LenProperties
<1>2. /\ t.send_ack = a /\ t.send_data = both
      /\ t.start_seq = IF data = <<>> THEN s.send_seq ELSE s.start_seq
  BY DEF Send, Socket
<1>3. /\ Len(both) = size + len
      /\ \A i \in 1 .. size + len :
           both[i] = IF i <= size THEN data[i] ELSE payload[i - size]
  BY <1>1, ConcatProperties
<1>4. \A i \in 1 .. size : data[i] = acked + i
  BY DEF Keeps
<1>5. data = <<>> => size = 0
  BY EmptySeq
<1>6. /\ acked <= n /\ size = n - acked /\ s.send_seq = isn + 1 + n
      /\ data # <<>> => s.start_seq = a
  BY DEF Keeps
<1> HIDE DEF t, len, data, size, a, both
<1>7. t.start_seq = t.send_ack
  <2>1. CASE data = <<>>
    BY <1>1, <1>2, <1>5, <1>6, <2>1
  <2>2. CASE data # <<>>
    BY <1>2, <1>6, <2>2
  <2>. QED BY <2>1, <2>2
<1>8. acked <= n + len /\ size + len = n + len - acked
  BY <1>1, <1>6
<1>9. ASSUME NEW i \in 1 .. size + len PROVE both[i] = acked + i
  <2>1. CASE i <= size
    BY <1>1, <1>3, <1>4, <2>1, SMTT(30)
  <2>2. CASE ~(i <= size)
    <3>1. i - size \in 1 .. len
      BY <1>1, <2>2
    <3>2. both[i] = n + (i - size)
      BY <1>3, <2>2, <3>1 DEF len
    <3>. QED BY <1>1, <1>6, <3>2
  <2>. QED BY <2>1, <2>2
<1>10. t.send_ack - isn - 1 = acked
  BY <1>2
<1>11. Keeps(t, isn, n + len)
  <2>1. Len(t.send_data) = size + len
    BY <1>2, <1>3
  <2>2. Len(t.send_data) = (n + len) - acked
    BY <1>1, <1>8, <2>1
  <2>3. \A i \in 1 .. Len(t.send_data) : t.send_data[i] = acked + i
    BY <1>2, <1>9, <2>1
  <2>. QED BY <1>7, <1>8, <1>10, <2>2, <2>3 DEF Keeps
<1>. QED BY <1>11 DEF t, len

LEMMA SendAgreement ==
  ASSUME AgreementInv, NEW h \in Hosts, NEW len \in 1 .. MaxSegment, TcpSend(h, len)
  PROVE  AgreementInv'
<1>1. PICK s : s = sock[h]
  OBVIOUS
<1>2. PICK payload : payload = [i \in 1 .. len |-> sent[h] + i]
  OBVIOUS
<1>3. PICK t : t = Send(s, payload)
  OBVIOUS
<1>4. PICK seg : seg = DataSegment(s, payload)
  OBVIOUS
<1>5. PICK bound : bound = Took(Peer(h), sock[Peer(h)])
  OBVIOUS
<1>6. PICK n : n = sent[h]
  OBVIOUS
<1>7. /\ s.state = "ESTABLISHED"
      /\ sock' = [sock EXCEPT ![h] = t]
      /\ net' = [net EXCEPT ![Peer(h)] = @ \cup {seg}]
      /\ sent' = [sent EXCEPT ![h] = n + len]
      /\ UNCHANGED <<read, closed>>
  BY <1>1, <1>2, <1>3, <1>4, <1>6 DEF TcpSend, CanSend, Transmit
<1>8. /\ TypeOK /\ s \in Socket /\ SocketOK(h, s) /\ Sound(h, s, bound) /\ StreamInv
      /\ bound \in Nat
  BY <1>1, <1>5, AgreementFacts
<1>9. StreamInv'
  BY <1>8, SendStep
<1>10. /\ n \in Nat /\ len \in Nat /\ ISN[h] \in Nat /\ sent \in [Hosts -> Nat]
       /\ sock \in [Hosts -> Socket]
  <2>1. len \in Nat
    BY ConnectionAssumption, SMT
  <2>2. n \in Nat /\ ISN[h] \in Nat
    BY <1>6, <1>8, HostTypes
  <2>3. sent \in [Hosts -> Nat] /\ sock \in [Hosts -> Socket]
    BY <1>8 DEF TypeOK
  <2>. QED BY <2>1, <2>2, <2>3
<1>11. Peer(h) \in Hosts /\ Peer(h) # h /\ Peer(Peer(h)) = h
  BY PeerType
<1>12. payload \in Seq(Byte) /\ Len(payload) = len /\ \A i \in 1 .. len : payload[i] = n + i
  <2>1. \A i \in 1 .. len : sent[h] + i \in Byte
    BY <1>6, <1>10 DEF Byte
  <2>2. payload \in Seq(Byte) /\ Len(payload) = len
    BY <1>2, <1>10, <2>1, IsASeq
  <2>. QED BY <1>2, <1>6, <2>2
<1>13. ~closed[h] /\ s.send_seq = ISN[h] + 1 + n
  BY <1>6, <1>7, <1>8 DEF SocketOK, Sending
<1>14. /\ t.state = s.state /\ t.data = s.data /\ t.valid = s.valid
       /\ t.pending_count = s.pending_count /\ t.recv_seq = s.recv_seq
       /\ t.send_ack = s.send_ack
  BY <1>3, <1>8 DEF Send, Socket
<1>15. /\ sock'[h] = t /\ sock'[Peer(h)] = sock[Peer(h)]
       /\ sent'[h] = n + len /\ sent'[Peer(h)] = sent[Peer(h)]
  BY <1>7, <1>10, <1>11
<1>16. Sound(h, sock[h], bound)'
  <2>1. WindowOK(sock[h])'
    BY <1>8, <1>14, <1>15 DEF Sound, WindowOK, Counted
  <2>2. SenderOK(h, sock[h])'
    <3>1. ISN[h] + 1 <= s.send_ack /\ Keeps(s, ISN[h], n)
      BY <1>6, <1>7, <1>8 DEF Sound, SenderOK, Synchronized, Unacked
    <3>2. Keeps(t, ISN[h], n + len)
      BY <1>3, <1>8, <1>10, <1>12, <1>13, <3>1, SendSound
    <3>3. t.state = "ESTABLISHED" /\ ISN[h] + 1 <= t.send_ack
      BY <1>7, <1>14, <3>1
    <3>4. Keeps(sock[h], ISN[h], sent[h])'
      BY <1>15, <3>2 DEF Keeps
    <3>. QED BY <1>15, <3>3, <3>4 DEF SenderOK, Opening, Synchronized, Unacked
  <2>3. AckOK(h, sock[h], bound)'
    BY <1>7, <1>8, <1>14, <1>15 DEF Sound, AckOK, Done
  <2>. QED BY <2>1, <2>2, <2>3 DEF Sound
<1>17. bound = Took(Peer(h), sock[Peer(h)])'
  <2>1. ~(sock[Peer(h)].state = "CLOSED" /\ closed[Peer(h)])
    <3>1. SocketOK(Peer(h), sock[Peer(h)])
      BY <1>8, <1>11 DEF StreamInv
    <3>. QED BY <1>11, <1>13, <3>1 DEF SocketOK
  <2>. QED BY <1>5, <1>7, <1>15, <2>1 DEF Took
<1>18. PICK more, R : more = s.recv_seq /\ R = {seg}
  OBVIOUS
<1>19. more = Took(h, sock[h])'
  BY <1>7, <1>14, <1>15, <1>18 DEF Took
<1>20. Took(h, sock[h]) <= more /\ \A m \in R : m.ack <= more
  <2>1. Took(h, sock[h]) = more /\ seg.ack = more /\ more \in Nat
    BY <1>1, <1>4, <1>7, <1>8, <1>18, SocketTypes DEF Took, DataSegment
  <2>. QED BY <1>18, <2>1
<1>21. /\ net' = [net EXCEPT ![Peer(h)] = @ \cup R]
       /\ closed'[Peer(h)] = closed[Peer(h)]
  BY <1>7, <1>18
<1>. QED BY <1>5, <1>7, <1>9, <1>15, <1>16, <1>17, <1>19, <1>20, <1>21, AgreementStep

LEMMA RecvAgreement ==
  ASSUME AgreementInv, NEW h \in Hosts, NEW max \in 1 .. MaxSegment, TcpRecv(h, max)
  PROVE  AgreementInv'
<1>1. PICK s : s = sock[h]
  OBVIOUS
<1>2. PICK t : t = Recv(s, max)
  OBVIOUS
<1>3. PICK bound : bound = Took(Peer(h), sock[Peer(h)])
  OBVIOUS
<1>4. PICK more : more = Took(h, sock[h])
  OBVIOUS
<1>5. /\ s.data # <<>> /\ sock' = [sock EXCEPT ![h] = t]
      /\ UNCHANGED <<listening, net, sent, closed>>
  BY <1>1, <1>2 DEF TcpRecv
<1>6. /\ TypeOK /\ s \in Socket /\ Sound(h, s, bound) /\ StreamInv
      /\ more \in Nat /\ sock \in [Hosts -> Socket] /\ net \in [Hosts -> SUBSET Segment]
  BY <1>1, <1>3, <1>4, AgreementFacts DEF TypeOK
<1>7. StreamInv'
  BY <1>6, RecvStep
<1>8. /\ t.state = s.state /\ t.valid = s.valid /\ t.pending_count = s.pending_count
      /\ t.recv_seq = s.recv_seq /\ t.send_ack = s.send_ack /\ t.send_data = s.send_data
      /\ t.start_seq = s.start_seq
      /\ t.data = SubSeq(s.data, RecvLen(s, max) + 1, Len(s.data))
  BY <1>2, <1>6 DEF Recv, Socket
<1>9. Len(t.data) <= Len(s.data) /\ Len(t.data) \in Nat
  <2> DEFINE c == RecvLen(s, max)
             n == Len(s.data)
  <2>1. s.data \in Seq(Byte) /\ n \in Nat /\ max \in Nat
    BY <1>6, SocketTypes, ConnectionAssumption
  <2>2. c \in 0 .. n
    BY <2>1 DEF RecvLen
  <2> HIDE DEF c
  <2>3. c + 1 \in 1 .. n + 1 /\ n \in c .. n
    BY <2>1, <2>2
  <2>4. Len(t.data) = IF c + 1 <= n THEN n - (c + 1) + 1 ELSE 0
    BY <1>8, <2>1, <2>3, SubSeqProperties DEF c
  <2> HIDE DEF n
  <2>5. Len(t.data) <= n /\ Len(t.data) \in Nat
    BY <2>1, <2>2, <2>4
  <2>. QED BY <2>5 DEF n
<1>10. sock'[h] = t /\ sock'[Peer(h)] = sock[Peer(h)]
  BY <1>5, <1>6, PeerType
<1>11. Sound(h, sock[h], bound)'
  <2>1. WindowOK(t)
    <3>1. Len(s.data) \in Nat /\ s.pending_count \in Int
      BY <1>6, SocketTypes DEF Socket
    <3>2. Len(s.data) + s.pending_count <= BufferSize
      BY <1>6 DEF Sound, WindowOK, Counted
    <3>3. Len(t.data) + t.pending_count <= BufferSize
      <4> DEFINE x == Len(t.data)
                 y == Len(s.data)
                 c == s.pending_count
      <4>1. x \in Nat /\ y \in Nat /\ c \in Int /\ x <= y /\ y + c <= BufferSize
        BY <1>9, <3>1, <3>2
      <4> HIDE DEF x, y, c
      <4>2. x + c <= BufferSize
        BY <4>1, BufferAssumption
      <4>. QED BY <1>8, <4>2 DEF x, c
    <3>. QED BY <1>6, <1>8, <3>3 DEF Sound, WindowOK, Counted
  <2>2. WindowOK(sock[h])'
    BY <1>10, <2>1 DEF WindowOK, Counted
  <2>3. SenderOK(h, sock[h])'
    BY <1>5, <1>6, <1>8, <1>10 DEF Sound, SenderOK, Keeps
  <2>4. AckOK(h, sock[h], bound)'
    BY <1>5, <1>6, <1>8, <1>10 DEF Sound, AckOK, Done
  <2>. QED BY <2>2, <2>3, <2>4 DEF Sound
<1>12. bound = Took(Peer(h), sock[Peer(h)])'
  BY <1>3, <1>5, <1>10 DEF Took
<1>13. more = Took(h, sock[h])' /\ Took(h, sock[h]) <= more
  BY <1>1, <1>4, <1>5, <1>6, <1>8, <1>10 DEF Took
<1>14. PICK R : R = {}
  OBVIOUS
<1>15. /\ net' = [net EXCEPT ![Peer(h)] = @ \cup R]
       /\ sent'[Peer(h)] = sent[Peer(h)] /\ closed'[Peer(h)] = closed[Peer(h)]
       /\ \A m \in R : m.ack <= more
  BY <1>5, <1>6, <1>14, PeerType
<1>. QED BY <1>3, <1>5, <1>7, <1>11, <1>12, <1>13, <1>15, AgreementStep

LEMMA CloseAgreementStep ==
  ASSUME AgreementInv, NEW h \in Hosts, TcpClose(h)
  PROVE  AgreementInv'
<1>1. PICK s : s = sock[h]
  OBVIOUS
<1>2. PICK t : t = Close(s)
  OBVIOUS
<1>3. PICK seg : seg = FinSegment(s)
  OBVIOUS
<1>4. PICK bound : bound = Took(Peer(h), sock[Peer(h)])
  OBVIOUS
<1>5. /\ s.state \in Sending
      /\ sock' = [sock EXCEPT ![h] = t]
      /\ net' = [net EXCEPT ![Peer(h)] = @ \cup {seg}]
      /\ closed' = [closed EXCEPT ![h] = TRUE]
      /\ UNCHANGED <<sent, read>>
  BY <1>1, <1>2, <1>3 DEF TcpClose, CanClose, Transmit, Sending
<1>6. /\ TypeOK /\ s \in Socket /\ Sound(h, s, bound) /\ StreamInv
      /\ sock \in [Hosts -> Socket] /\ closed \in [Hosts -> BOOLEAN]
  BY <1>1, <1>4, AgreementFacts DEF TypeOK
<1>7. StreamInv'
  BY <1>6, CloseStep
<1>8. /\ t.state = IF s.state = "ESTABLISHED" THEN "FIN_WAIT_1" ELSE "LAST_ACK"
      /\ t.data = s.data /\ t.valid = s.valid /\ t.pending_count = s.pending_count
      /\ t.recv_seq = s.recv_seq /\ t.send_ack = s.send_ack
      /\ t.send_data = s.send_data /\ t.start_seq = s.start_seq
  BY <1>2, <1>6 DEF Close, Socket
<1>9. /\ sock'[h] = t /\ sock'[Peer(h)] = sock[Peer(h)]
      /\ closed'[Peer(h)] = closed[Peer(h)]
  BY <1>5, <1>6, PeerType
<1>10. Sound(h, sock[h], bound)'
  <2>1. WindowOK(sock[h])'
    BY <1>6, <1>8, <1>9 DEF Sound, WindowOK, Counted
  <2>2. SenderOK(h, sock[h])'
    BY <1>5, <1>6, <1>8, <1>9
    DEF Sound, SenderOK, Keeps, Opening, Synchronized, Unacked, Sending
  <2>3. AckOK(h, sock[h], bound)'
    BY <1>6, <1>8, <1>9 DEF Sound, AckOK, Done
  <2>. QED BY <2>1, <2>2, <2>3 DEF Sound
<1>11. bound = Took(Peer(h), sock[Peer(h)])'
  BY <1>4, <1>5, <1>9 DEF Took
<1>12. PICK more, R : more = s.recv_seq /\ R = {seg}
  OBVIOUS
<1>13. more = Took(h, sock[h])'
  BY <1>8, <1>9, <1>12 DEF Took
<1>14. Took(h, sock[h]) <= more /\ \A m \in R : m.ack <= more
  <2>1. Took(h, sock[h]) = more /\ seg.ack = more /\ more \in Nat
    BY <1>1, <1>3, <1>5, <1>6, <1>12, SocketTypes DEF Took, FinSegment, Sending
  <2>. QED BY <1>12, <2>1
<1>15. net' = [net EXCEPT ![Peer(h)] = @ \cup R] /\ sent'[Peer(h)] = sent[Peer(h)]
  BY <1>5, <1>12
<1>. QED BY <1>4, <1>5, <1>7, <1>9, <1>10, <1>11, <1>13, <1>14, <1>15, AgreementStep

\* AgreementInv does not depend on listening.
LEMMA AgreementIdle ==
  ASSUME AgreementInv, UNCHANGED <<sock, net, sent, read, closed>>, listening' \in BOOLEAN
  PROVE  AgreementInv'
<1>1. StreamInv'
  BY IdleStep DEF AgreementInv
<1>2. ASSUME NEW h \in Hosts
      PROVE  (LET bound == Took(Peer(h), sock[Peer(h)])
              IN Sound(h, sock[h], bound) /\ \A seg \in net[h] : seg.ack <= bound)'
  <2>1. PICK bound : bound = Took(Peer(h), sock[Peer(h)])
    OBVIOUS
  <2>2. Sound(h, sock[h], bound) /\ \A seg \in net[h] : seg.ack <= bound
    BY <2>1 DEF AgreementInv
  <2>3. bound = Took(Peer(h), sock[Peer(h)])'
    BY <2>1 DEF Took
  <2>4. Sound(h, sock[h], bound)'
    BY <2>2 DEF Sound, WindowOK, Counted, SenderOK, Keeps, AckOK, Done
  <2>. QED BY <2>2, <2>3, <2>4
<1>. QED BY <1>1, <1>2 DEF AgreementInv

LEMMA AgreementInit == Init => AgreementInv
<1> SUFFICES ASSUME Init PROVE AgreementInv
  OBVIOUS
<1>1. StreamInv
  BY InitStep
<1>2. ASSUME NEW h \in Hosts
      PROVE  /\ Sound(h, sock[h], Took(Peer(h), sock[Peer(h)]))
             /\ \A seg \in net[h] : seg.ack <= Took(Peer(h), sock[Peer(h)])
  <2>1. Peer(h) \in Hosts
    BY PeerType
  <2>2. /\ sock[h] = FreeSocket /\ sock[Peer(h)] = FreeSocket /\ net[h] = {}
        /\ ~closed[h] /\ ~closed[Peer(h)]
    BY <2>1 DEF Init
  <2>3. /\ FreeSocket.state = "CLOSED" /\ FreeSocket.recv_seq = 0
        /\ FreeSocket.send_ack = 0
    BY DEF FreeSocket
  <2>4. Took(Peer(h), sock[Peer(h)]) = 0
    BY <2>2, <2>3 DEF Took
  <2>5. SenderOK(h, sock[h])
    BY <2>2, <2>3 DEF SenderOK, Opening, Synchronized, Unacked
  <2>6. AckOK(h, sock[h], 0)
    BY <2>2, <2>3 DEF AckOK, Done
  <2>. QED BY <2>2, <2>4, <2>5, <2>6, FreeWindow DEF Sound
<1>. QED BY <1>1, <1>2 DEF AgreementInv

LEMMA AgreementNext == AgreementInv /\ [Next]_vars => AgreementInv'
<1> SUFFICES ASSUME AgreementInv, [Next]_vars PROVE AgreementInv'
  OBVIOUS
<1>1. listening \in BOOLEAN
  BY DEF AgreementInv, StreamInv, TypeOK
<1>2. CASE TcpListen
  BY <1>2, AgreementIdle DEF TcpListen
<1>3. CASE TcpConnect
  BY <1>3, ConnectAgreement
<1>4. ASSUME NEW h \in Hosts, NEW len \in 1 .. MaxSegment, TcpSend(h, len)
      PROVE  AgreementInv'
  BY <1>4, SendAgreement
<1>5. ASSUME NEW h \in Hosts, NEW max \in 1 .. MaxSegment, TcpRecv(h, max)
      PROVE  AgreementInv'
  BY <1>5, RecvAgreement
<1>6. ASSUME NEW h \in Hosts, TcpClose(h) PROVE AgreementInv'
  BY <1>6, CloseAgreementStep
<1>7. ASSUME NEW h \in Hosts, NEW seg \in net[h], Deliver(h, seg) PROVE AgreementInv'
  BY <1>7, DeliverAgreement
<1>8. CASE UNCHANGED vars
  BY <1>1, <1>8, AgreementIdle DEF vars
<1>. QED BY <1>2, <1>3, <1>4, <1>5, <1>6, <1>7, <1>8 DEF Next

(***************************************************************************)
(* AgreementInv holds in every reachable state.                             *)
(***************************************************************************)
THEOREM AgreementInvariant == Spec => []AgreementInv
<1>. QED BY AgreementInit, AgreementNext, PTL DEF Spec

\* Unread and out-of-order bytes together always fit in the receive buffer,
\* and the window of tcp_buffer_payload is never left with a run to drain.
THEOREM WindowBounded == Spec => []ReceiveWindow
<1>1. AgreementInv => ReceiveWindow
  BY DEF AgreementInv, Sound, WindowOK, Counted, ReceiveWindow
<1>. QED BY <1>1, AgreementInvariant, PTL

\* The send buffer (tcp_socket_send, tcp_acknowledge_data) holds exactly the
\* bytes that are sent and not acknowledged.
THEOREM SendBufferExact == Spec => []SendBufferUnacked
<1>1. AgreementInv => SendBufferUnacked
  <2> SUFFICES ASSUME AgreementInv, NEW h \in Hosts, sock[h].state \in Unacked
               PROVE  LET s     == sock[h]
                          acked == s.send_ack - ISN[h] - 1
                      IN /\ s.send_data = [i \in 1 .. sent[h] - acked |-> acked + i]
                         /\ s.send_data # <<>> => s.start_seq = s.send_ack
    BY DEF SendBufferUnacked, Unacked
  <2>1. PICK s : s = sock[h]
    OBVIOUS
  <2>2. s \in Socket /\ Keeps(s, ISN[h], sent[h])
    BY <2>1, AgreementFacts DEF Sound, SenderOK
  <2>3. PICK acked : acked = s.send_ack - ISN[h] - 1
    OBVIOUS
  <2>4. /\ Len(s.send_data) = sent[h] - acked
        /\ \A i \in 1 .. Len(s.send_data) : s.send_data[i] = acked + i
        /\ s.send_data # <<>> => s.start_seq = s.send_ack
    BY <2>2, <2>3 DEF Keeps
  <2>5. s.send_data \in Seq(Byte)
    BY <2>2, SocketTypes
  <2>6. s.send_data = [i \in 1 .. Len(s.send_data) |-> s.send_data[i]]
    BY <2>5
  <2>7. s.send_data = [i \in 1 .. sent[h] - acked |-> acked + i]
    BY <2>4, <2>6
  <2>. QED BY <2>1, <2>3, <2>4, <2>7
<1>. QED BY <1>1, AgreementInvariant, PTL

\* No byte counts as acknowledged before the peer has received it.
THEOREM AcksAreReal == Spec => []NoPhantomAck
<1>1. AgreementInv => NoPhantomAck
  <2> SUFFICES ASSUME AgreementInv, NEW h \in Hosts, sock[Peer(h)].state # "CLOSED"
               PROVE  sock[h].send_ack <= sock[Peer(h)].recv_seq
    BY DEF NoPhantomAck
  <2>. QED BY AgreementFacts DEF Sound, AckOK, Took
<1>. QED BY <1>1, AgreementInvariant, PTL

\* The server's user sees an established connection only if the client's
\* handshake completed too.
THEOREM HandshakeAgrees == Spec => []HandshakeAgreement
<1>1. AgreementInv => HandshakeAgreement
  <2> SUFFICES ASSUME AgreementInv, sock[Server].state \in Synchronized
               PROVE  sock[Client].state \in Synchronized \/ Freed(Client)
    BY DEF HandshakeAgreement
  <2>1. Server \in Hosts /\ Client \in Hosts /\ Peer(Server) = Client /\ Client # Server
    BY DEF Hosts, Peer, Server, Client
  <2>2. /\ ISN[Server] + 1 <= sock[Server].send_ack
        /\ sock[Server].send_ack <= Took(Client, sock[Client])
    BY <2>1, AgreementFacts DEF Sound, SenderOK, AckOK
  <2>3. /\ ISN[Server] \in Nat /\ sock[Server].send_ack \in Nat
        /\ Took(Client, sock[Client]) \in Nat
    BY <2>1, AgreementFacts, HostTypes, SocketTypes
  <2>4. Took(Client, sock[Client]) # 0
    BY <2>2, <2>3
  <2>5. /\ SocketOK(Client, sock[Client]) /\ SenderOK(Client, sock[Client])
        /\ sock[Client].state \in States
    BY <2>1, AgreementFacts, SocketTypes DEF Sound
  <2>6. FreeSocket.recv_seq = 0
    BY DEF FreeSocket
  <2>7. sock[Client].state # "CLOSED" \/ Freed(Client)
    BY <2>4, <2>5, <2>6 DEF Took, Freed, SocketOK
  <2>8. sock[Client].state \notin {"SYN_SENT", "SYN_RECEIVED", "LISTEN"}
    BY <2>1, <2>4, <2>5 DEF Took, SocketOK, SenderOK
  <2>. QED BY <2>5, <2>7, <2>8 DEF States, Synchronized
<1>. QED BY <1>1, AgreementInvariant, PTL

\* A host regards its own close as done only if the peer has taken its FIN.
THEOREM CloseAgrees == Spec => []CloseAgreement
<1>1. AgreementInv => CloseAgreement
  <2> SUFFICES ASSUME AgreementInv, NEW h \in Hosts, Done(h, sock[h])
               PROVE  Eof(Peer(h))
    BY DEF CloseAgreement, Done, Freed
  <2>1. Peer(h) \in Hosts /\ Peer(Peer(h)) = h
    BY PeerType
  <2>2. PICK p, s : p = Peer(h) /\ s = sock[p]
    OBVIOUS
  <2>3. /\ ISN[h] + 2 + sent[h] <= Took(p, s) /\ ISN[h] \in Nat /\ sent[h] \in Nat
    BY <2>2, AgreementFacts, HostTypes DEF Sound, AckOK
  <2>4. /\ s \in Socket /\ SocketOK(p, s) /\ s.state \in States /\ TypeOK
        /\ SenderOK(p, s) /\ Took(p, s) \in Nat
    BY <2>1, <2>2, AgreementFacts, SocketTypes DEF Sound
  <2>5. CASE s.state \in Receiving
    <3>1. RecvOK(s, ISN[h] + 1, Len(read[p]), sent[h])
      BY <2>1, <2>2, <2>4, <2>5 DEF SocketOK
    <3>2. Len(read[p]) \in Nat /\ Len(s.data) \in Nat /\ Took(p, s) = s.recv_seq
      BY <2>1, <2>2, <2>4, <2>5, HostTypes, SocketTypes DEF Took, Receiving
    <3> DEFINE k == Len(read[p])
               n == Len(s.data)
    <3>3. s.recv_seq = ISN[h] + 1 + k + n /\ k + n <= sent[h]
      BY <3>1 DEF RecvOK, HoldsStream
    <3>4. k \in Nat /\ n \in Nat
      BY <3>2
    <3> HIDE DEF k, n
    <3>. QED BY <2>3, <3>2, <3>3, <3>4
  <2>6. CASE s.state = "CLOSED" /\ ~closed[p]
    <3>1. s.recv_seq = 0
      BY <2>4, <2>6 DEF SocketOK, FreeSocket
    <3>. QED BY <2>3, <2>6, <3>1 DEF Took
  <2>7. CASE s.state = "SYN_SENT"
    BY <2>3, <2>4, <2>7 DEF Took, SenderOK
  <2>8. CASE s.state \in FinTaken \/ (s.state = "CLOSED" /\ closed[p])
    BY <2>2, <2>8 DEF Eof, Freed, FinTaken
  <2>9. s.state # "LISTEN"
    BY <2>4 DEF SocketOK
  <2>. QED BY <2>4, <2>5, <2>6, <2>7, <2>8, <2>9 DEF States, Receiving, FinTaken
<1>. QED BY <1>1, AgreementInvariant, PTL

-----------------------------------------------------------------------------
(***************************************************************************)
(* The refinement of ByteStream: every step of the connection is a step of  *)
(* the two streams or leaves them alone.                                    *)
(***************************************************************************)
arrivedBar == [h \in Hosts |-> Arrived(h)]
eofBar == [h \in Hosts |-> Eof(h)]

StreamStep == [Stream!Next]_(Stream!vars)

LEMMA ArrivedType ==
  ASSUME TypeOK, NEW h \in Hosts
  PROVE  /\ Arrived(h) \in Nat /\ Arrived(h) = Len(read[h]) + Len(sock[h].data)
         /\ Len(read[h]) \in Nat /\ Len(sock[h].data) \in Nat
<1>1. sock[h] \in Socket
  BY DEF TypeOK
<1>2. Len(read[h]) \in Nat /\ Len(sock[h].data) \in Nat
  BY <1>1, HostTypes, SocketTypes
<1> DEFINE k == Len(read[h])
           n == Len(sock[h].data)
<1>3. Arrived(h) = k + n
  BY DEF Arrived
<1>4. k \in Nat /\ n \in Nat
  BY <1>2
<1> HIDE DEF k, n
<1>5. k + n \in Nat
  BY <1>4
<1>6. Arrived(h) \in Nat
  BY <1>3, <1>5
<1>. QED BY <1>2, <1>3, <1>6 DEF k, n

\* A step of h leaves what its peer has received alone.
LEMMA OtherSide ==
  ASSUME TypeOK, NEW h \in Hosts, NEW t, sock' = [sock EXCEPT ![h] = t],
         read'[Peer(h)] = read[Peer(h)], closed'[Peer(h)] = closed[Peer(h)],
         NEW a, NEW e, a = Arrived(h)', e = Eof(h)'
  PROVE  /\ arrivedBar' = [arrivedBar EXCEPT ![h] = a]
         /\ eofBar' = [eofBar EXCEPT ![h] = e]
<1>1. Peer(h) \in Hosts /\ Peer(h) # h
  BY PeerType
<1>2. sock'[Peer(h)] = sock[Peer(h)]
  BY <1>1 DEF TypeOK
<1>3. Arrived(Peer(h))' = Arrived(Peer(h)) /\ Eof(Peer(h))' = Eof(Peer(h))
  BY <1>2 DEF Arrived, Eof, Freed
<1>4. \A g \in Hosts : g = h \/ g = Peer(h)
  BY TwoHosts
<1>5. \A g \in Hosts : arrivedBar'[g] = [arrivedBar EXCEPT ![h] = a][g]
  BY <1>1, <1>3, <1>4 DEF arrivedBar
<1>6. \A g \in Hosts : eofBar'[g] = [eofBar EXCEPT ![h] = e][g]
  BY <1>1, <1>3, <1>4 DEF eofBar
<1>. QED BY <1>5, <1>6 DEF arrivedBar, eofBar

\* A step of h that changes neither what has arrived nor the end of stream.
LEMMA SameSide ==
  ASSUME TypeOK, NEW h \in Hosts, NEW t, sock' = [sock EXCEPT ![h] = t],
         read'[Peer(h)] = read[Peer(h)], closed'[Peer(h)] = closed[Peer(h)],
         Arrived(h)' = Arrived(h), Eof(h)' = Eof(h)
  PROVE  arrivedBar' = arrivedBar /\ eofBar' = eofBar
<1>1. PICK a, e : a = Arrived(h)' /\ e = Eof(h)'
  OBVIOUS
<1>2. /\ arrivedBar' = [arrivedBar EXCEPT ![h] = a]
      /\ eofBar' = [eofBar EXCEPT ![h] = e]
  BY <1>1, OtherSide
<1>. QED BY <1>1, <1>2 DEF arrivedBar, eofBar

LEMMA ConnectStream ==
  ASSUME AgreementInv, TcpConnect
  PROVE  StreamStep
<1>1. PICK h \in Hosts : h = Client
  BY DEF Hosts
<1>2. PICK t : t = Connect(ISN[h])
  OBVIOUS
<1>3. /\ sock[h].state = "CLOSED" /\ ~closed[h] /\ sock' = [sock EXCEPT ![h] = t]
      /\ UNCHANGED <<sent, read, closed>>
  BY <1>1, <1>2 DEF TcpConnect
<1>4. TypeOK /\ sock[h] = FreeSocket
  BY <1>3, AgreementFacts DEF SocketOK
<1>5. sock'[h] = t
  BY <1>3, <1>4 DEF TypeOK
<1>6. t.data = FreeSocket.data /\ t.state = "SYN_SENT"
  BY <1>2 DEF Connect, FreeSocket
<1>7. Arrived(h)' = Arrived(h)
  BY <1>3, <1>4, <1>5, <1>6 DEF Arrived
<1>8. ~Eof(h) /\ ~Eof(h)'
  BY <1>3, <1>5, <1>6 DEF Eof, Freed
<1>9. Eof(h)' = Eof(h)
  BY <1>8 DEF Eof, Freed
<1>10. arrivedBar' = arrivedBar /\ eofBar' = eofBar
  BY <1>3, <1>4, <1>7, <1>9, SameSide
<1>. QED BY <1>3, <1>10 DEF StreamStep, Stream!vars, arrivedBar, eofBar

LEMMA SendStream ==
  ASSUME AgreementInv, NEW h \in Hosts, NEW len \in 1 .. MaxSegment, TcpSend(h, len)
  PROVE  StreamStep
<1>1. PICK t : t = Send(sock[h], [i \in 1 .. len |-> sent[h] + i])
  OBVIOUS
<1>2. /\ sock[h].state = "ESTABLISHED" /\ sock' = [sock EXCEPT ![h] = t]
      /\ sent' = [sent EXCEPT ![h] = @ + len] /\ UNCHANGED <<read, closed>>
  BY <1>1 DEF TcpSend, CanSend
<1>3. TypeOK /\ SocketOK(h, sock[h]) /\ sock[h] \in Socket
  BY AgreementFacts
<1>4. ~closed[h]
  BY <1>2, <1>3 DEF SocketOK, Sending
<1>5. sock'[h] = t /\ t.data = sock[h].data /\ t.state = sock[h].state
  BY <1>1, <1>2, <1>3 DEF TypeOK, Send, Socket
<1>6. Arrived(h)' = Arrived(h)
  BY <1>2, <1>5 DEF Arrived
<1>7. Eof(h)' = Eof(h)
  BY <1>2, <1>5 DEF Eof, Freed
<1>8. arrivedBar' = arrivedBar /\ eofBar' = eofBar
  BY <1>2, <1>3, <1>6, <1>7, SameSide
<1>9. Stream!Write(h)
  BY <1>2, <1>4, <1>8 DEF Stream!Write, arrivedBar, eofBar
<1>. QED BY <1>9 DEF StreamStep, Stream!Next

LEMMA CloseStream ==
  ASSUME AgreementInv, NEW h \in Hosts, TcpClose(h)
  PROVE  StreamStep
<1>1. PICK t : t = Close(sock[h])
  OBVIOUS
<1>2. /\ sock[h].state \in Sending /\ sock' = [sock EXCEPT ![h] = t]
      /\ closed' = [closed EXCEPT ![h] = TRUE] /\ UNCHANGED <<sent, read>>
  BY <1>1 DEF TcpClose, CanClose, Sending
<1>3. /\ TypeOK /\ SocketOK(h, sock[h]) /\ sock[h] \in Socket
      /\ closed \in [Hosts -> BOOLEAN]
  BY AgreementFacts DEF TypeOK
<1>4. ~closed[h] /\ closed'[Peer(h)] = closed[Peer(h)]
  BY <1>2, <1>3, PeerType DEF SocketOK
<1>5. /\ sock'[h] = t /\ t.data = sock[h].data
      /\ t.state = IF sock[h].state = "ESTABLISHED" THEN "FIN_WAIT_1" ELSE "LAST_ACK"
  BY <1>1, <1>2, <1>3 DEF TypeOK, Close, Socket
<1>6. Arrived(h)' = Arrived(h)
  BY <1>2, <1>5 DEF Arrived
<1>7. Eof(h)' = Eof(h)
  BY <1>2, <1>5 DEF Eof, Freed, Sending
<1>8. arrivedBar' = arrivedBar /\ eofBar' = eofBar
  BY <1>2, <1>3, <1>4, <1>6, <1>7, SameSide
<1>9. Stream!Shut(h)
  BY <1>2, <1>4, <1>8 DEF Stream!Shut, arrivedBar, eofBar
<1>. QED BY <1>9 DEF StreamStep, Stream!Next

\* tcp_socket_recv hands out the next bytes of the stream.
LEMMA NextBytes ==
  ASSUME NEW data \in Seq(Byte), NEW k \in Nat, NEW c \in 1 .. Len(data),
         \A i \in 1 .. Len(data) : data[i] = k + i
  PROVE  SubSeq(data, 1, c) = [i \in 1 .. (k + c) - k |-> k + i]
<1> DEFINE front == SubSeq(data, 1, c)
<1>1. Len(data) \in Nat /\ c \in Nat /\ (k + c) - k = c
  BY LenProperties
<1>2. front \in Seq(Byte) /\ Len(front) = c /\ \A i \in 1 .. c : front[i] = data[i]
  BY <1>1, SubSeqProperties
<1> HIDE DEF front
<1>3. \A i \in 1 .. c : front[i] = k + i
  BY <1>1, <1>2
<1>4. front = [i \in 1 .. c |-> front[i]]
  BY <1>2
<1>5. front = [i \in 1 .. c |-> k + i]
  BY <1>3, <1>4
<1>. QED BY <1>1, <1>5 DEF front

LEMMA RecvStream ==
  ASSUME AgreementInv, NEW h \in Hosts, NEW max \in 1 .. MaxSegment, TcpRecv(h, max)
  PROVE  StreamStep
<1>1. PICK s : s = sock[h]
  OBVIOUS
<1>2. PICK t, c, k : t = Recv(s, max) /\ c = RecvLen(s, max) /\ k = Len(read[h])
  OBVIOUS
<1>3. PICK front : front = SubSeq(s.data, 1, c)
  OBVIOUS
<1>4. /\ s.data # <<>> /\ sock' = [sock EXCEPT ![h] = t]
      /\ read' = [read EXCEPT ![h] = @ \o front]
      /\ UNCHANGED <<listening, net, sent, closed>>
  BY <1>1, <1>2, <1>3 DEF TcpRecv
<1>5. /\ TypeOK /\ StreamInv /\ s \in Socket /\ sock \in [Hosts -> Socket]
      /\ read \in [Hosts -> Seq(Byte)]
  BY <1>1, AgreementFacts DEF TypeOK
<1>6. PICK n : n = Len(s.data)
  OBVIOUS
<1>7. s.data \in Seq(Byte) /\ n \in Nat /\ k \in Nat /\ read[h] \in Seq(Byte) /\ n # 0
  BY <1>2, <1>4, <1>5, <1>6, SocketTypes, HostTypes, EmptySeq
<1>8. max \in Nat /\ max # 0
  BY ConnectionAssumption, SMT
<1>9. c \in 1 .. n
  BY <1>2, <1>6, <1>7, <1>8 DEF RecvLen
<1>10. /\ Arrived(h) = k + n
       /\ \A i \in 1 .. n : s.data[i] = k + i
  <2>1. \A i \in 1 .. n : s.data[i] = k + i
    <3>1. /\ SocketOK(h, s) /\ s.state \in States
      BY <1>1, <1>5, SocketTypes DEF StreamInv
    <3>2. FreeSocket.data = <<>>
      BY DEF FreeSocket
    <3>3. s.state \in Receiving \cup FinTaken
      BY <1>4, <3>1, <3>2 DEF SocketOK, States, Opening, Receiving, FinTaken
    <3>4. HoldsStream(s, k, sent[Peer(h)])
      BY <1>2, <3>1, <3>3 DEF SocketOK, RecvOK
    <3>. QED BY <1>6, <3>4 DEF HoldsStream
  <2>. QED BY <1>1, <1>2, <1>6, <2>1 DEF Arrived
<1>11. sock'[h] = t /\ read'[h] = read[h] \o front /\ read'[Peer(h)] = read[Peer(h)]
  BY <1>4, <1>5, PeerType
<1>12. t.state = s.state /\ t.data = SubSeq(s.data, c + 1, n)
  BY <1>2, <1>5, <1>6 DEF Recv, Socket
<1>13. Arrived(h)' = k + n
  <2>1. Len(front) = c /\ front \in Seq(Byte)
    BY <1>3, <1>6, <1>7, <1>9, SubSeqProperties
  <2>2. Len(read[h] \o front) = k + c
    <3>1. PICK r : r = read[h]
      OBVIOUS
    <3>2. r \in Seq(Byte) /\ k = Len(r)
      BY <1>2, <1>7, <3>1
    <3>3. Len(r \o front) = Len(r) + Len(front)
      BY <2>1, <3>2, ConcatProperties
    <3>. QED BY <2>1, <3>1, <3>2, <3>3
  <2>3. Len(t.data) = n - c
    <3>1. c + 1 \in 1 .. n + 1 /\ n \in c .. n
      BY <1>7, <1>9
    <3>2. Len(t.data) = IF c + 1 <= n THEN n - (c + 1) + 1 ELSE 0
      BY <1>6, <1>7, <1>12, <3>1, SubSeqProperties
    <3>. QED BY <1>7, <1>9, <3>2
  <2>4. Arrived(h)' = (k + c) + (n - c)
    BY <1>11, <2>2, <2>3 DEF Arrived
  <2>. QED BY <1>7, <1>9, <2>4
<1>14. Arrived(h)' = Arrived(h)
  BY <1>10, <1>13
<1>15. Eof(h)' = Eof(h)
  BY <1>1, <1>4, <1>11, <1>12 DEF Eof, Freed
<1>16. arrivedBar' = arrivedBar /\ eofBar' = eofBar
  BY <1>4, <1>5, <1>11, <1>14, <1>15, SameSide
<1>17. Stream!Read(h)
  <2>1. front = [i \in 1 .. (k + c) - k |-> k + i]
    BY <1>3, <1>6, <1>7, <1>9, <1>10, NextBytes
  <2>2. k + c \in k + 1 .. k + n
    BY <1>7, <1>9
  <2>3. k + c \in Len(read[h]) + 1 .. arrivedBar[h]
    BY <1>2, <1>10, <2>2 DEF arrivedBar
  <2>4. read' = [read EXCEPT ![h] =
                   @ \o [i \in 1 .. (k + c) - Len(@) |-> Len(@) + i]]
    BY <1>2, <1>4, <1>5, <2>1
  <2>. QED BY <1>4, <1>16, <2>3, <2>4 DEF Stream!Read, arrivedBar, eofBar
<1>. QED BY <1>17 DEF StreamStep, Stream!Next

LEMMA DeliverStream ==
  ASSUME AgreementInv, NEW h \in Hosts, NEW seg \in net[h], Deliver(h, seg)
  PROVE  StreamStep
<1>1. PICK s, t : s = sock[h] /\ t = HostReceive(h, seg).sock
  OBVIOUS
<1>2. sock' = [sock EXCEPT ![h] = t] /\ UNCHANGED <<sent, read, closed>>
  BY <1>1 DEF Deliver
<1>3. /\ TypeOK /\ s \in Socket /\ SocketOK(h, s)
      /\ s.state \in States /\ Len(s.data) \in Nat
  BY <1>1, AgreementFacts, SocketTypes
<1>4. sock'[h] = t
  BY <1>2, <1>3 DEF TypeOK
<1>5. t \in Socket /\ SocketOK(h, t) /\ Len(t.data) \in Nat
  <2>1. StreamInv
    BY DEF AgreementInv
  <2>2. Good(h, HostReceive(h, seg))
    BY <2>1, DeliverGood
  <2>3. t \in Socket /\ SocketOK(h, t)
    BY <1>1, <2>2 DEF Good
  <2>. QED BY <2>3, SocketTypes
<1>6. Progress(h, s, t)
  BY <1>1, HostReceiveFine DEF Deliver, Fine, Fit
<1>7. PICK k, x, y : k = Len(read[h]) /\ x = Len(s.data) /\ y = Len(t.data)
  OBVIOUS
<1>8. /\ k \in Nat /\ x \in Nat /\ y \in Nat
      /\ Arrived(h) = k + x /\ Arrived(h)' = k + y
  BY <1>1, <1>2, <1>3, <1>4, <1>5, <1>7, HostTypes DEF Arrived
<1>9. (Eof(h) <=> Told(h, s)) /\ (Eof(h)' <=> Told(h, t))
  BY <1>1, <1>2, <1>4 DEF Eof, Freed, Told, FinTaken
<1>10. PICK a, e : a = Arrived(h)' /\ e = Eof(h)'
  OBVIOUS
<1>11. /\ arrivedBar' = [arrivedBar EXCEPT ![h] = a]
       /\ eofBar' = [eofBar EXCEPT ![h] = e]
  BY <1>2, <1>3, <1>10, OtherSide
<1>12. e \in BOOLEAN /\ Eof(h) \in BOOLEAN
  BY <1>10 DEF Eof
<1>13. CASE x <= y /\ (Told(h, s) <=> Told(h, t))
  <2>1. eofBar' = eofBar
    BY <1>9, <1>10, <1>11, <1>12, <1>13 DEF eofBar
  <2>2. CASE x = y
    <3>1. arrivedBar' = arrivedBar
      BY <1>8, <1>10, <1>11, <2>2 DEF arrivedBar
    <3>. QED BY <1>2, <2>1, <3>1 DEF StreamStep, Stream!vars, arrivedBar, eofBar
  <2>3. CASE x # y
    <3>1. k + y <= sent[Peer(h)]
      <4>1. CASE t.state \in Receiving \cup FinTaken
        BY <1>5, <1>7, <4>1 DEF SocketOK, RecvOK, HoldsStream
      <4>2. CASE t.state \notin Receiving \cup FinTaken
        <5>1. t.data = <<>>
          BY <1>5, <4>2, SocketTypes
          DEF SocketOK, FreeSocket, States, Opening, Receiving, FinTaken
        <5>. QED BY <1>7, <1>8, <1>13, <2>3, <5>1, EmptySeq
      <4>. QED BY <4>1, <4>2
    <3>2. a \in (k + x) + 1 .. sent[Peer(h)]
      <4>1. sent[Peer(h)] \in Nat
        BY <1>3, HostTypes
      <4>. QED BY <1>8, <1>10, <1>13, <2>3, <3>1, <4>1
    <3>3. a \in arrivedBar[h] + 1 .. sent[Peer(h)]
      BY <1>8, <3>2 DEF arrivedBar
    <3>4. Stream!Arrive(h)
      BY <1>2, <1>11, <2>1, <3>3 DEF Stream!Arrive, arrivedBar, eofBar
    <3>. QED BY <3>4 DEF StreamStep, Stream!Next
  <2>. QED BY <2>2, <2>3
<1>14. CASE t.data = s.data /\ ~Told(h, s) /\ t.state \in FinTaken
  <2>1. Told(h, t)
    BY <1>14 DEF Told
  <2>2. closed[Peer(h)] /\ k + y = sent[Peer(h)]
    BY <1>5, <1>7, <1>14 DEF SocketOK
  <2>3. arrivedBar' = arrivedBar /\ arrivedBar[h] = sent[Peer(h)]
    BY <1>7, <1>8, <1>10, <1>11, <1>14, <2>2 DEF arrivedBar
  <2>4. eofBar' = [eofBar EXCEPT ![h] = TRUE] /\ ~eofBar[h]
    BY <1>9, <1>10, <1>11, <1>12, <1>14, <2>1 DEF eofBar
  <2>5. Stream!End(h)
    BY <1>2, <2>2, <2>3, <2>4 DEF Stream!End, arrivedBar, eofBar
  <2>. QED BY <2>5 DEF StreamStep, Stream!Next
<1>15. CASE closed[h] /\ Told(h, s) /\ Told(h, t) /\ t.data = <<>>
  <2>1. eofBar' = eofBar /\ eofBar[h]
    BY <1>9, <1>10, <1>11, <1>12, <1>15 DEF eofBar
  <2>2. a = Len(read[h])
    BY <1>7, <1>8, <1>10, <1>15, EmptySeq
  <2>3. Stream!Discard(h)
    BY <1>2, <1>11, <1>15, <2>1, <2>2 DEF Stream!Discard, arrivedBar, eofBar
  <2>. QED BY <2>3 DEF StreamStep, Stream!Next
<1>. QED BY <1>6, <1>7, <1>13, <1>14, <1>15 DEF Progress

LEMMA StreamInit == Init => Stream!Init
<1> SUFFICES ASSUME Init PROVE Stream!Init
  OBVIOUS
<1>1. ASSUME NEW h \in Hosts PROVE Arrived(h) = 0 /\ Eof(h) = FALSE
  <2>1. sock[h] = FreeSocket /\ read[h] = <<>> /\ ~closed[h]
    BY DEF Init
  <2>2. FreeSocket.data = <<>> /\ FreeSocket.state = "CLOSED"
    BY DEF FreeSocket
  <2>. QED BY <2>1, <2>2, EmptySeq DEF Arrived, Eof, Freed
<1>. QED BY <1>1 DEF Init, Stream!Init

LEMMA StreamNext == AgreementInv /\ [Next]_vars => StreamStep
<1> SUFFICES ASSUME AgreementInv, [Next]_vars PROVE StreamStep
  OBVIOUS
<1>1. ASSUME UNCHANGED <<sock, net, sent, read, closed>> PROVE StreamStep
  <2>1. Arrived(Client)' = Arrived(Client) /\ Arrived(Server)' = Arrived(Server)
    BY <1>1 DEF Arrived
  <2>2. Eof(Client)' = Eof(Client) /\ Eof(Server)' = Eof(Server)
    BY <1>1 DEF Eof, Freed
  <2>3. arrivedBar' = arrivedBar /\ eofBar' = eofBar
    BY <2>1, <2>2 DEF arrivedBar, eofBar, Hosts
  <2>. QED BY <1>1, <2>3 DEF StreamStep, Stream!vars, arrivedBar, eofBar
<1>2. CASE TcpListen
  BY <1>1, <1>2 DEF TcpListen
<1>3. CASE TcpConnect
  BY <1>3, ConnectStream
<1>4. ASSUME NEW h \in Hosts, NEW len \in 1 .. MaxSegment, TcpSend(h, len)
      PROVE  StreamStep
  BY <1>4, SendStream
<1>5. ASSUME NEW h \in Hosts, NEW max \in 1 .. MaxSegment, TcpRecv(h, max)
      PROVE  StreamStep
  BY <1>5, RecvStream
<1>6. ASSUME NEW h \in Hosts, TcpClose(h) PROVE StreamStep
  BY <1>6, CloseStream
<1>7. ASSUME NEW h \in Hosts, NEW seg \in net[h], Deliver(h, seg) PROVE StreamStep
  BY <1>7, DeliverStream
<1>8. CASE UNCHANGED vars
  BY <1>1, <1>8 DEF vars
<1>. QED BY <1>2, <1>3, <1>4, <1>5, <1>6, <1>7, <1>8 DEF Next

\* The connection implements ByteStream: in each direction the user reads
\* what the other one wrote, in order, and sees its end only after all of it.
THEOREM ConnectionIsByteStream == Spec => ImplementsByteStream
<1>1. AgreementInv /\ [Next]_vars => [Stream!Next]_(Stream!vars)
  BY StreamNext DEF StreamStep
<1>. QED BY <1>1, StreamInit, AgreementInvariant, PTL
     DEF Spec, ImplementsByteStream, Stream!Spec

-----------------------------------------------------------------------------
(***************************************************************************)
(* The ordered path: every segment is delivered in its turn, and what it    *)
(* does then can be said exactly.                                           *)
(***************************************************************************)
\* tcp_buffer_payload takes the whole of a payload that comes in its turn
\* and fits beside the unread bytes.
LEMMA PayloadInTurn ==
  ASSUME NEW s \in Socket, NEW payload \in Seq(Byte), WindowOK(s), s.valid = {},
         Len(s.data) + Len(payload) <= BufferSize
  PROVE  LET t == BufferPayload(s, s.recv_seq, payload)
         IN /\ SameSender(s, t) /\ t.valid = {}
            /\ t.recv_seq = s.recv_seq + Len(payload)
<1> DEFINE seq == s.recv_seq
           n == Len(payload)
           u == Store(s, seq, payload)
           t == BufferPayload(s, seq, payload)
<1>1. /\ seq \in Nat /\ n \in Nat /\ Len(s.data) \in Nat /\ BufferSize \in Nat \ {0}
      /\ s.recv_seq \in Nat
  BY LenProperties, SocketTypes, BufferAssumption
<1>2. Already(s, seq) = 0 /\ Offset(s, seq) = 0
  BY <1>1 DEF Already, Offset
<1>3. CASE n = 0
  <2>1. t = s
    BY <1>2, <1>3 DEF BufferPayload
  <2>. QED BY <1>1, <1>3, <2>1 DEF SameSender
<1>4. CASE n # 0
  <2>1. Slots(s, seq, payload) = 0 .. n - 1
    <3>1. seq + n - s.recv_seq - 1 = n - 1
      BY <1>1
    <3>. QED BY <1>2, <3>1 DEF Slots
  <2>2. Slots(s, seq, payload) \ s.valid = 0 .. n - 1
    BY <2>1
  <2>3. IsFiniteSet(0 .. n - 1) /\ Cardinality(0 .. n - 1) = n
    <3>1. 0 \in Int /\ n - 1 \in Int /\ ~(0 > n - 1) /\ (n - 1) - 0 + 1 = n
      BY <1>1, <1>4
    <3> HIDE DEF n
    <3>. QED BY <3>1, FS_Interval
  <2>4. s.pending_count = 0
    BY FS_EmptySet DEF WindowOK, Counted
  <2>5. Accepts(s, seq, payload)
    <3>1. Len(s.data) + s.pending_count
            + Cardinality(Slots(s, seq, payload) \ s.valid) <= BufferSize
      BY <1>1, <2>2, <2>3, <2>4
    <3>2. n - Already(s, seq) <= BufferSize - Offset(s, seq)
      BY <1>1, <1>2
    <3>3. Offset(s, seq) < BufferSize
      BY <1>1, <1>2
    <3>. QED BY <3>1, <3>2, <3>3 DEF Accepts
  <2>6. t = Drain(u)
    BY <1>1, <1>2, <1>4, <2>5 DEF BufferPayload
  <2>7. /\ u.valid = 0 .. n - 1 /\ u.recv_seq = seq /\ SameSender(s, u)
        /\ DOMAIN u = DOMAIN s
    BY <2>2 DEF Store, Socket, SameSender
  <2>8. 0 .. n - 1 \in SUBSET Offsets
    BY <1>1 DEF Offsets
  <2> HIDE DEF u
  <2>9. Ready(u.valid) = n
    <3>1. PICK r : r = Ready(u.valid)
      OBVIOUS
    <3>2. r \in 0 .. BufferSize /\ r \notin 0 .. n - 1 /\ \A o \in 0 .. r - 1 : o \in 0 .. n - 1
      BY <2>7, <2>8, <3>1, ReadyProperties
    <3>3. ~(n < r)
      BY <1>1, <3>2
    <3>4. r = n
      BY <1>1, <3>2, <3>3
    <3>. QED BY <3>1, <3>4
  <2>10. /\ Drain(u).recv_seq = u.recv_seq + Ready(u.valid)
         /\ Drain(u).valid = {o \in Offsets : o + Ready(u.valid) \in u.valid}
         /\ SameSender(u, Drain(u))
    BY <2>7 DEF Drain, Socket, SameSender
  <2>11. {o \in Offsets : o + n \in 0 .. n - 1} = {}
    BY <1>1 DEF Offsets
  <2>12. SameSender(s, Drain(u))
    BY <2>7, <2>10 DEF SameSender
  <2>. QED BY <2>6, <2>7, <2>9, <2>10, <2>11, <2>12
<1>. QED BY <1>1, <1>3, <1>4

-----------------------------------------------------------------------------
\* The sequence number after a segment: its bytes and its FIN count.
End(seg) == seg.seq + Len(seg.payload) + (IF "FIN" \in seg.flags THEN 1 ELSE 0)

\* The segments of q follow one another from from on, up to to.
Run(q, from, to) ==
  \A i \in 0 .. Len(q) : (IF i = 0 THEN from ELSE End(q[i]))
                         = (IF i = Len(q) THEN to ELSE q[i + 1].seq)

LEMMA EmptyRun == \A from, to : Run(<<>>, from, to) <=> from = to
BY DEF Run

LEMMA RunTail ==
  ASSUME NEW S, NEW q \in Seq(S), q # <<>>, NEW from, NEW to, Run(q, from, to)
  PROVE  /\ Head(q).seq = from
         /\ Run(Tail(q), End(Head(q)), to)
<1>1. Len(q) \in Nat \ {0} /\ Head(q) = q[1]
  BY LenProperties, EmptySeq, HeadTailProperties
<1>2. /\ Len(Tail(q)) = Len(q) - 1
      /\ \A i \in 1 .. Len(Tail(q)) : Tail(q)[i] = q[i + 1]
  BY HeadTailProperties
<1>3. q[1].seq = from
  BY <1>1 DEF Run
<1>4. ASSUME NEW i \in 0 .. Len(Tail(q))
      PROVE  (IF i = 0 THEN End(Head(q)) ELSE End(Tail(q)[i]))
             = (IF i = Len(Tail(q)) THEN to ELSE Tail(q)[i + 1].seq)
  <2>1. i + 1 \in 0 .. Len(q) /\ i + 1 # 0 /\ i \in Nat
    BY <1>1, <1>2
  <2>2. End(q[i + 1]) = (IF i + 1 = Len(q) THEN to ELSE q[i + 1 + 1].seq)
    BY <2>1 DEF Run
  <2>3. (IF i = 0 THEN End(Head(q)) ELSE End(Tail(q)[i])) = End(q[i + 1])
    <3>1. CASE i = 0
      BY <1>1, <3>1
    <3>2. CASE i # 0
      <4>1. i \in 1 .. Len(Tail(q))
        BY <3>2
      <4>. QED BY <1>2, <3>2, <4>1
    <3>. QED BY <3>1, <3>2
  <2>4. (IF i = Len(Tail(q)) THEN to ELSE Tail(q)[i + 1].seq)
        = (IF i + 1 = Len(q) THEN to ELSE q[i + 1 + 1].seq)
    <3>1. i = Len(Tail(q)) <=> i + 1 = Len(q)
      BY <1>1, <1>2, <2>1
    <3>2. i # Len(Tail(q)) => i + 1 \in 1 .. Len(Tail(q))
      <4>1. PICK m : m = Len(Tail(q))
        OBVIOUS
      <4>2. m \in Nat /\ i \in 0 .. m
        BY <1>1, <1>2, <4>1
      <4>. QED BY <4>1, <4>2
    <3>. QED BY <1>2, <3>1, <3>2
  <2>. QED BY <2>2, <2>3, <2>4
<1>. QED BY <1>1, <1>3, <1>4 DEF Run

LEMMA RunAppend ==
  ASSUME NEW S, NEW q \in Seq(S), NEW a \in S, NEW from, Run(q, from, a.seq)
  PROVE  Run(q \o <<a>>, from, End(a))
<1> DEFINE r == q \o <<a>>
<1>1. /\ Len(q) \in Nat /\ Len(r) = Len(q) + 1
      /\ \A i \in 1 .. Len(q) : r[i] = q[i]
      /\ r[Len(q) + 1] = a
  <2>1. <<a>> \in Seq(S) /\ Len(<<a>>) = 1 /\ <<a>>[1] = a
    OBVIOUS
  <2>. QED BY <2>1, LenProperties, ConcatProperties
<1> HIDE DEF r
<1>2. ASSUME NEW i \in 0 .. Len(r)
      PROVE  (IF i = 0 THEN from ELSE End(r[i]))
             = (IF i = Len(r) THEN End(a) ELSE r[i + 1].seq)
  <2>1. CASE i = Len(r)
    BY <1>1, <2>1
  <2>2. CASE i # Len(r)
    <3>1. i \in 0 .. Len(q)
      BY <1>1, <2>2
    <3>2. (IF i = 0 THEN from ELSE End(q[i])) = (IF i = Len(q) THEN a.seq ELSE q[i + 1].seq)
      BY <3>1 DEF Run
    <3>3. (IF i = Len(q) THEN a.seq ELSE q[i + 1].seq) = r[i + 1].seq
      BY <1>1, <3>1
    <3>4. i # 0 => r[i] = q[i]
      BY <1>1, <3>1
    <3>. QED BY <2>2, <3>2, <3>3, <3>4
  <2>. QED BY <2>1, <2>2
<1>. QED BY <1>2 DEF Run, r

\* A set of at most one segment joins a queue.
LEMMA SetToSeqOne ==
  /\ SetToSeq({}) = <<>>
  /\ \A x : SetToSeq({x}) = <<x>>
<1>1. SetToSeq({}) = <<>>
  <2>1. Cardinality({}) = 0
    BY FS_EmptySet
  <2>2. [1 .. Cardinality({}) -> {}] = {<<>>}
    <3>1. <<>> \in [1 .. 0 -> {}]
      BY EmptySeq, LenProperties
    <3>2. ASSUME NEW f \in [1 .. 0 -> {}] PROVE f = <<>>
      <4>1. f \in Seq({})
        BY SeqDef
      <4>. QED BY <4>1, EmptySeq, LenProperties
    <3>. QED BY <2>1, <3>1, <3>2
  <2>3. IsInjective(<<>>)
    BY DEF IsInjective
  <2>. QED BY <2>2, <2>3 DEF SetToSeq
<1>2. ASSUME NEW x PROVE SetToSeq({x}) = <<x>>
  <2>1. Cardinality({x}) = 1
    BY FS_Singleton
  <2>2. 1 .. Cardinality({x}) = {1}
    BY <2>1
  <2>3. [1 .. Cardinality({x}) -> {x}] = {[i \in {1} |-> x]}
    BY <2>2
  <2>4. [i \in {1} |-> x] = <<x>>
    OBVIOUS
  <2>5. IsInjective(<<x>>)
    BY DEF IsInjective
  <2>. QED BY <2>3, <2>4, <2>5 DEF SetToSeq
<1>. QED BY <1>1, <1>2

-----------------------------------------------------------------------------
\* The next sequence number h would send with socket s.
Gave(h, s) == IF s.state = "CLOSED" /\ closed[h]
              THEN ISN[h] + 2 + sent[h] ELSE s.send_seq

Opened(h, s) == s.state \in Synchronized \/ (s.state = "CLOSED" /\ closed[h])

\* seg is the segment that h expects next, and there is room for it.
Turn(h, s, seg) ==
  /\ s \in Socket /\ SocketOK(h, s) /\ WindowOK(s) /\ s.valid = {}
  /\ seg \in Segment /\ SegmentOK(h, seg) /\ seg.seq = Took(h, s)
  /\ sent[Peer(h)] <= BufferSize

\* h has taken seg.
Taken(h, s, seg, t) ==
  /\ Opened(h, t) /\ t.valid = {}
  /\ Took(h, t) = End(seg) /\ Gave(h, t) = Gave(h, s)
  /\ t.state = "ESTABLISHED" => s.state = "ESTABLISHED"
  /\ t.state = "ESTABLISHED" /\ s.send_ack <= seg.ack /\ seg.ack <= s.send_seq
       => t.send_ack = seg.ack

\* A segment that carries nothing but what its sender has given and taken.
Bare(a, seq, ack) == a.seq = seq /\ a.ack = ack /\ End(a) = seq

\* The outcome r of taking seg: what counts is acknowledged.
InTurn(h, s, seg, r) ==
  /\ Taken(h, s, seg, r.sock)
  /\ \/ r.reply = {} /\ End(seg) = Took(h, s)
     \/ \E a : r.reply = {a} /\ Bare(a, Gave(h, s), End(seg))

LEMMA BareType ==
  ASSUME NEW a \in Segment, a.payload = <<>>, "FIN" \notin a.flags
  PROVE  End(a) = a.seq
<1>1. a.seq \in Nat /\ Len(a.payload) = 0
  BY EmptySeq DEF Segment
<1>. QED BY <1>1 DEF End

LEMMA OpenSocket ==
  ASSUME NEW h, NEW s, s.state # "CLOSED"
  PROVE  Took(h, s) = s.recv_seq /\ Gave(h, s) = s.send_seq
BY DEF Took, Gave

LEMMA AnswerInTurn ==
  ASSUME NEW h \in Hosts, NEW s \in Socket, NEW t \in Socket, NEW seg,
         t.state # "CLOSED", Taken(h, s, seg, t)
  PROVE  InTurn(h, s, seg, Answer(t, {"ACK"}))
<1> DEFINE a == [flags |-> {"ACK"}, seq |-> t.send_seq, ack |-> t.recv_seq,
                 payload |-> <<>>]
<1>1. Answer(t, {"ACK"}).sock = t /\ Answer(t, {"ACK"}).reply = {a}
  BY DEF Answer
<1>2. t.recv_seq = End(seg) /\ t.send_seq = Gave(h, s)
  BY OpenSocket DEF Taken
<1>3. a.seq = t.send_seq /\ a.ack = t.recv_seq /\ End(a) = a.seq
  <2>1. t.send_seq \in Nat /\ Len(<<>>) = 0
    BY SocketTypes, EmptySeq
  <2>. QED BY <2>1 DEF End
<1> HIDE DEF a
<1>4. Bare(a, Gave(h, s), End(seg))
  BY <1>2, <1>3 DEF Bare
<1>. QED BY <1>1, <1>4 DEF InTurn

LEMMA IgnoreInTurn ==
  ASSUME NEW h, NEW s, NEW t, NEW seg, Taken(h, s, seg, t), End(seg) = Took(h, s)
  PROVE  InTurn(h, s, seg, Ignore(t))
BY DEF InTurn, Ignore

\* Between two open ends no SYN is left, and after a FIN nothing that counts.
LEMMA TurnKinds ==
  ASSUME TypeOK, NEW h \in Hosts, NEW s, NEW seg, Turn(h, s, seg), Opened(h, s)
  PROVE  /\ "SYN" \notin seg.flags /\ "ACK" \in seg.flags
         /\ seg.seq \in Nat /\ seg.ack \in Nat /\ seg.payload \in Seq(Byte)
         /\ Len(seg.payload) \in Nat
         /\ s.state \notin Connected => seg.payload = <<>> /\ "FIN" \notin seg.flags
<1> DEFINE p == Peer(h)
           isn == ISN[p]
           n == sent[p]
           k == Len(read[h])
           d == Len(s.data)
           len == Len(seg.payload)
<1>1. /\ seg.seq \in Nat /\ seg.ack \in Nat /\ seg.payload \in Seq(Byte)
      /\ len \in Nat
  BY LenProperties DEF Turn, Segment
<1>2. isn \in Nat /\ n \in Nat /\ k \in Nat /\ d \in Nat
  BY HostTypes, SocketTypes DEF Turn
<1>3. SegmentOK(h, seg) /\ SocketOK(h, s) /\ seg.seq = Took(h, s)
  BY DEF Turn
<1>4. seg.seq >= isn + 1 /\ (s.state \notin Connected => seg.seq = isn + 2 + n)
  <2>1. CASE s.state \in Connected
    <3>1. RecvOK(s, isn + 1, Len(read[h]), n) /\ s.state # "CLOSED"
      BY <1>3, <2>1 DEF SocketOK, Receiving, Connected
    <3>2. seg.seq = isn + 1 + k + d
      BY <1>3, <3>1, OpenSocket DEF RecvOK
    <3> HIDE DEF isn, n, k, d
    <3>. QED BY <1>2, <2>1, <3>2
  <2>2. CASE s.state \in FinTaken
    <3>1. s.recv_seq = isn + 2 + n /\ s.state # "CLOSED"
      BY <1>3, <2>2 DEF SocketOK, FinTaken
    <3>2. seg.seq = isn + 2 + n
      BY <1>3, <3>1, OpenSocket
    <3> HIDE DEF isn, n
    <3>. QED BY <1>2, <3>2
  <2>3. CASE s.state = "CLOSED" /\ closed[h]
    <3>1. seg.seq = isn + 2 + n
      BY <1>3, <2>3 DEF Took
    <3> HIDE DEF isn, n
    <3>. QED BY <1>2, <3>1
  <2>. QED BY <2>1, <2>2, <2>3 DEF Opened, Synchronized, Connected, FinTaken
<1>5. "SYN" \notin seg.flags
  <2>1. seg.seq # isn
    BY <1>1, <1>2, <1>4
  <2>. QED BY <1>3, <2>1 DEF SegmentOK
<1>6. "ACK" \in seg.flags
  BY <1>3, <1>5 DEF SegmentOK
<1>7. ASSUME s.state \notin Connected
      PROVE  seg.payload = <<>> /\ "FIN" \notin seg.flags
  <2>1. seg.seq = isn + 2 + n
    BY <1>4, <1>7
  <2>2. "FIN" \notin seg.flags
    <3>1. seg.seq # isn + 1 + n
      BY <1>2, <2>1
    <3>. QED BY <1>3, <3>1 DEF SegmentOK
  <2>3. seg.payload = <<>>
    <3>1. Slice(seg.seq, seg.payload, isn + 1, n)
      BY <1>3 DEF SegmentOK
    <3>2. ~(seg.seq - (isn + 1) + len <= n)
      <4> HIDE DEF isn, n, len
      <4>. QED BY <1>1, <1>2, <2>1
    <3>. QED BY <3>1, <3>2 DEF Slice
  <2>. QED BY <2>2, <2>3
<1>. QED BY <1>1, <1>5, <1>6, <1>7

\* The payload of the segment whose turn it is.
LEMMA GotInTurn ==
  ASSUME TypeOK, NEW h \in Hosts, NEW s, NEW seg, Turn(h, s, seg),
         s.state \in Connected
  PROVE  LET t == BufferPayload(s, seg.seq, seg.payload)
         IN /\ t \in Socket /\ SameSender(s, t) /\ t.valid = {}
            /\ t.recv_seq = seg.seq + Len(seg.payload)
            /\ seg.payload = <<>> => t.recv_seq = seg.seq
<1> DEFINE p == Peer(h)
           isn == ISN[p]
           n == sent[p]
           k == Len(read[h])
           d == Len(s.data)
           len == Len(seg.payload)
           t == BufferPayload(s, seg.seq, seg.payload)
<1>1. /\ seg.seq \in Nat /\ seg.payload \in Seq(Byte) /\ len \in Nat
      /\ seg \in Segment /\ s \in Socket
  BY LenProperties DEF Turn, Segment
<1>2. /\ isn \in Nat /\ n \in Nat /\ k \in Nat
      /\ d \in Nat
  BY HostTypes, SocketTypes, <1>1
<1>3. RecvOK(s, isn + 1, k, n) /\ s.state # "CLOSED"
  BY DEF Turn, SocketOK, Receiving, Connected
<1>4. seg.seq = s.recv_seq
  BY <1>3, OpenSocket DEF Turn
<1>5. d + len <= BufferSize
  <2>1. n <= BufferSize /\ BufferSize \in Nat
    BY BufferAssumption DEF Turn
  <2>2. s.recv_seq = isn + 1 + k + d
    BY <1>3 DEF RecvOK
  <2>3. k + d <= n
    BY <1>3 DEF RecvOK, HoldsStream
  <2>4. CASE seg.payload = <<>>
    <3>1. len = 0
      BY <2>4, EmptySeq
    <3> HIDE DEF isn, n, k, d, len
    <3>. QED BY <1>1, <1>2, <2>1, <2>3, <3>1
  <2>5. CASE seg.payload # <<>>
    <3>1. seg.seq - (isn + 1) + len <= n
      BY <2>5 DEF Turn, SegmentOK, Slice
    <3> HIDE DEF isn, n, k, d, len
    <3>. QED BY <1>1, <1>2, <1>4, <2>1, <2>2, <3>1
  <2>. QED BY <2>4, <2>5
<1>6. /\ SameSender(s, t) /\ t.valid = {} /\ t.recv_seq = s.recv_seq + Len(seg.payload)
  BY <1>1, <1>4, <1>5, PayloadInTurn DEF Turn
<1>7. t \in Socket
  BY <1>1, PayloadOK DEF Turn
<1>8. seg.payload = <<>> => Len(seg.payload) = 0
  BY EmptySeq
<1> HIDE DEF t
<1>. QED BY <1>1, <1>4, <1>6, <1>7, <1>8 DEF t

\* The FIN whose turn it is.
LEMMA FinInTurn ==
  ASSUME TypeOK, NEW h \in Hosts, NEW s, NEW seg, Turn(h, s, seg), s.state \in Connected,
         NEW t \in Socket, t.valid = {}, t.recv_seq = seg.seq, t.send_seq = s.send_seq,
         "FIN" \in seg.flags, NEW next \in {"CLOSE_WAIT", "CLOSING", "TIME_WAIT"}
  PROVE  InTurn(h, s, seg, TakeFin(t, seg, next))
<1> DEFINE u == [t EXCEPT !.recv_seq = @ + 1, !.state = next]
<1>1. seg.payload = <<>> /\ Len(seg.payload) = 0 /\ seg.seq \in Nat
  BY EmptySeq DEF Turn, SegmentOK, Segment
<1>2. FinSeq(seg) = t.recv_seq /\ End(seg) = t.recv_seq + 1
  BY <1>1 DEF FinSeq, End
<1>3. TakeFin(t, seg, next) = Answer(u, {"ACK"})
  BY <1>2 DEF TakeFin
<1>4. /\ u \in Socket /\ u.state = next /\ u.recv_seq = t.recv_seq + 1
      /\ u.send_seq = t.send_seq /\ u.valid = t.valid
  <2>1. t.recv_seq + 1 \in Nat /\ next \in States
    BY SocketTypes DEF States
  <2>. QED BY <2>1 DEF Socket
<1> HIDE DEF u
<1>5. Took(h, u) = u.recv_seq /\ Gave(h, u) = u.send_seq /\ Gave(h, s) = s.send_seq
  BY <1>4, OpenSocket DEF Connected
<1>6. Taken(h, s, seg, u)
  BY <1>2, <1>4, <1>5 DEF Taken, Opened, Synchronized
<1>. QED BY <1>3, <1>4, <1>6, AnswerInTurn DEF Turn

LEMMA OnEstablishedInTurn ==
  ASSUME TypeOK, NEW h \in Hosts, NEW s, NEW seg, Turn(h, s, seg),
         s.state = "ESTABLISHED"
  PROVE  InTurn(h, s, seg, OnEstablished(s, seg))
<1> DEFINE acked == AcknowledgeData(s, seg.ack)
           got == BufferPayload(acked, seg.seq, seg.payload)
<1>1. /\ "ACK" \in seg.flags /\ seg.seq \in Nat /\ seg.ack \in Nat
      /\ Len(seg.payload) \in Nat
  BY TurnKinds DEF Opened, Synchronized
<1>2. s \in Socket /\ seg \in Segment
  BY DEF Turn
<1>3. /\ acked \in Socket
      /\ acked.state = s.state /\ acked.send_seq = s.send_seq
      /\ acked.recv_seq = s.recv_seq /\ acked.data = s.data
      /\ acked.pending = s.pending /\ acked.valid = s.valid
  BY <1>1, <1>2, AcknowledgeOK
<1>4. /\ acked.pending_count = s.pending_count
      /\ s.send_ack <= seg.ack /\ seg.ack <= s.send_seq => acked.send_ack = seg.ack
  <2>1. s.send_ack \in Nat /\ s.send_seq \in Nat
    BY <1>2, SocketTypes
  <2>2. CASE seg.ack <= s.send_ack \/ seg.ack > s.send_seq
    BY <1>1, <2>1, <2>2 DEF AcknowledgeData
  <2>3. CASE ~(seg.ack <= s.send_ack \/ seg.ack > s.send_seq)
    BY <1>2, <2>3 DEF AcknowledgeData, Socket
  <2>. QED BY <2>2, <2>3
<1> HIDE DEF acked
<1>5. Turn(h, acked, seg)
  <2>1. SocketOK(h, acked)
    <3>1. SocketOK(h, s)
      BY DEF Turn
    <3>. QED BY <1>3, <3>1, SameReceiver
         DEF SocketOK, Opening, Sending, FinSent, Receiving, FinTaken
  <2>2. WindowOK(acked)
    BY <1>3, <1>4 DEF Turn, WindowOK, Counted
  <2>3. Took(h, acked) = Took(h, s)
    BY <1>3, OpenSocket
  <2>. QED BY <1>3, <2>1, <2>2, <2>3 DEF Turn
<1>6. /\ got \in Socket /\ SameSender(acked, got) /\ got.valid = {}
      /\ got.recv_seq = seg.seq + Len(seg.payload)
      /\ seg.payload = <<>> => got.recv_seq = seg.seq
  <2>1. acked.state \in Connected
    BY <1>3 DEF Connected
  <2>. QED BY <1>5, <2>1, GotInTurn
<1>7. OnEstablished(s, seg) = IF "FIN" \in seg.flags THEN TakeFin(got, seg, "CLOSE_WAIT")
                              ELSE IF seg.payload # <<>> THEN Answer(got, {"ACK"})
                              ELSE Ignore(got)
  BY <1>1 DEF OnEstablished, acked
<1> HIDE DEF got
<1>8. /\ got.state = "ESTABLISHED" /\ got.send_seq = s.send_seq
      /\ got.send_ack = acked.send_ack
  BY <1>3, <1>6 DEF SameSender
<1>9. CASE "FIN" \in seg.flags
  <2>1. seg.payload = <<>>
    BY <1>9 DEF Turn, SegmentOK
  <2>. QED BY <1>6, <1>7, <1>8, <1>9, <2>1, FinInTurn DEF Connected
<1>10. ASSUME "FIN" \notin seg.flags PROVE Taken(h, s, seg, got)
  <2>1. End(seg) = seg.seq + Len(seg.payload)
    BY <1>1, <1>10 DEF End
  <2>2. Took(h, got) = got.recv_seq /\ Gave(h, got) = got.send_seq /\ Gave(h, s) = s.send_seq
    BY <1>8, OpenSocket
  <2>. QED BY <1>4, <1>6, <1>8, <2>1, <2>2 DEF Taken, Opened, Synchronized
<1>11. CASE "FIN" \notin seg.flags /\ seg.payload # <<>>
  BY <1>2, <1>6, <1>7, <1>8, <1>10, <1>11, AnswerInTurn
<1>12. CASE "FIN" \notin seg.flags /\ seg.payload = <<>>
  <2>1. End(seg) = Took(h, s)
    BY <1>2, <1>12, BareType DEF Turn
  <2>. QED BY <1>7, <1>10, <1>12, <2>1, IgnoreInTurn
<1>. QED BY <1>9, <1>11, <1>12

LEMMA OnFinWait1InTurn ==
  ASSUME TypeOK, NEW h \in Hosts, NEW s, NEW seg, Turn(h, s, seg),
         s.state = "FIN_WAIT_1"
  PROVE  InTurn(h, s, seg, OnFinWait1(s, seg))
<1> DEFINE got == BufferPayload(s, seg.seq, seg.payload)
           done == [got EXCEPT !.send_ack = seg.ack, !.state = "FIN_WAIT_2"]
           next == IF AcksAll(s, seg) THEN done ELSE got
           last == IF AcksAll(s, seg) THEN "TIME_WAIT" ELSE "CLOSING"
<1>1. seg.seq \in Nat /\ seg.ack \in Nat /\ Len(seg.payload) \in Nat
  BY TurnKinds DEF Opened, Synchronized
<1>2. s \in Socket /\ seg \in Segment
  BY DEF Turn
<1>3. /\ got \in Socket /\ SameSender(s, got) /\ got.valid = {}
      /\ got.recv_seq = seg.seq + Len(seg.payload)
      /\ seg.payload = <<>> => got.recv_seq = seg.seq
  BY GotInTurn DEF Connected
<1>4. OnFinWait1(s, seg) = IF "FIN" \in seg.flags THEN TakeFin(got, seg, last)
                           ELSE IF seg.payload # <<>> THEN Answer(next, {"ACK"})
                           ELSE Ignore(next)
  BY DEF OnFinWait1
<1> HIDE DEF got
<1>5. got.state = "FIN_WAIT_1" /\ got.send_seq = s.send_seq
  BY <1>3 DEF SameSender
<1>6. /\ next \in Socket /\ next.state \in {"FIN_WAIT_1", "FIN_WAIT_2"}
      /\ next.send_seq = s.send_seq /\ next.valid = {} /\ next.recv_seq = got.recv_seq
  BY <1>1, <1>3, <1>5 DEF Socket, States
<1> HIDE DEF next
<1>7. CASE "FIN" \in seg.flags
  <2>1. seg.payload = <<>>
    BY <1>7 DEF Turn, SegmentOK
  <2>2. last \in {"CLOSE_WAIT", "CLOSING", "TIME_WAIT"}
    OBVIOUS
  <2> HIDE DEF last
  <2>. QED BY <1>3, <1>4, <1>5, <1>7, <2>1, <2>2, FinInTurn DEF Connected
<1>8. ASSUME "FIN" \notin seg.flags PROVE Taken(h, s, seg, next)
  <2>1. End(seg) = seg.seq + Len(seg.payload)
    BY <1>1, <1>8 DEF End
  <2>2. Took(h, next) = next.recv_seq /\ Gave(h, next) = next.send_seq /\ Gave(h, s) = s.send_seq
    BY <1>6, OpenSocket
  <2>. QED BY <1>3, <1>6, <2>1, <2>2 DEF Taken, Opened, Synchronized
<1>9. CASE "FIN" \notin seg.flags /\ seg.payload # <<>>
  BY <1>2, <1>4, <1>6, <1>8, <1>9, AnswerInTurn
<1>10. CASE "FIN" \notin seg.flags /\ seg.payload = <<>>
  <2>1. End(seg) = Took(h, s)
    BY <1>2, <1>10, BareType DEF Turn
  <2>. QED BY <1>4, <1>8, <1>10, <2>1, IgnoreInTurn
<1>. QED BY <1>7, <1>9, <1>10

LEMMA OnFinWait2InTurn ==
  ASSUME TypeOK, NEW h \in Hosts, NEW s, NEW seg, Turn(h, s, seg),
         s.state = "FIN_WAIT_2"
  PROVE  InTurn(h, s, seg, OnFinWait2(s, seg))
<1> DEFINE got == BufferPayload(s, seg.seq, seg.payload)
<1>1. seg.seq \in Nat /\ seg.ack \in Nat /\ Len(seg.payload) \in Nat
  BY TurnKinds DEF Opened, Synchronized
<1>2. s \in Socket /\ seg \in Segment
  BY DEF Turn
<1>3. /\ got \in Socket /\ SameSender(s, got) /\ got.valid = {}
      /\ got.recv_seq = seg.seq + Len(seg.payload)
      /\ seg.payload = <<>> => got.recv_seq = seg.seq
  BY GotInTurn DEF Connected
<1>4. OnFinWait2(s, seg) = IF "FIN" \in seg.flags THEN TakeFin(got, seg, "TIME_WAIT")
                           ELSE IF seg.payload # <<>> THEN Answer(got, {"ACK"})
                           ELSE Ignore(got)
  BY DEF OnFinWait2
<1> HIDE DEF got
<1>5. got.state = "FIN_WAIT_2" /\ got.send_seq = s.send_seq
  BY <1>3 DEF SameSender
<1>6. CASE "FIN" \in seg.flags
  <2>1. seg.payload = <<>>
    BY <1>6 DEF Turn, SegmentOK
  <2>. QED BY <1>3, <1>4, <1>5, <1>6, <2>1, FinInTurn DEF Connected
<1>7. ASSUME "FIN" \notin seg.flags PROVE Taken(h, s, seg, got)
  <2>1. End(seg) = seg.seq + Len(seg.payload)
    BY <1>1, <1>7 DEF End
  <2>2. Took(h, got) = got.recv_seq /\ Gave(h, got) = got.send_seq /\ Gave(h, s) = s.send_seq
    BY <1>5, OpenSocket
  <2>. QED BY <1>3, <1>5, <2>1, <2>2 DEF Taken, Opened, Synchronized
<1>8. CASE "FIN" \notin seg.flags /\ seg.payload # <<>>
  BY <1>2, <1>3, <1>4, <1>5, <1>7, <1>8, AnswerInTurn
<1>9. CASE "FIN" \notin seg.flags /\ seg.payload = <<>>
  <2>1. End(seg) = Took(h, s)
    BY <1>2, <1>9, BareType DEF Turn
  <2>. QED BY <1>4, <1>7, <1>9, <2>1, IgnoreInTurn
<1>. QED BY <1>6, <1>8, <1>9

\* An end that has taken the FIN, or is gone, expects only acknowledgements.
LEMMA AfterFinInTurn ==
  ASSUME TypeOK, NEW h \in Hosts, NEW s, NEW seg, Turn(h, s, seg), Opened(h, s),
         s.state \notin Connected
  PROVE  End(seg) = Took(h, s) /\ InTurn(h, s, seg, Ignore(s))
<1>1. End(seg) = Took(h, s)
  BY TurnKinds, BareType DEF Turn
<1>2. Taken(h, s, seg, s)
  BY <1>1 DEF Taken, Turn, Connected
<1>. QED BY <1>1, <1>2, IgnoreInTurn

LEMMA OnClosingInTurn ==
  ASSUME TypeOK, NEW h \in Hosts, NEW s, NEW seg, Turn(h, s, seg),
         s.state = "CLOSING"
  PROVE  InTurn(h, s, seg, OnClosing(s, seg))
<1> DEFINE t == [s EXCEPT !.send_ack = seg.ack, !.state = "TIME_WAIT"]
<1>1. s \in Socket /\ s.valid = {}
  BY DEF Turn
<1>2. End(seg) = Took(h, s) /\ InTurn(h, s, seg, Ignore(s))
  BY AfterFinInTurn DEF Connected, Opened, Synchronized
<1>3. /\ t.state = "TIME_WAIT" /\ t.valid = s.valid
      /\ t.recv_seq = s.recv_seq /\ t.send_seq = s.send_seq
  BY <1>1 DEF Socket
<1>4. OnClosing(s, seg) = Ignore(IF AcksAll(s, seg) THEN t ELSE s)
  BY DEF OnClosing
<1> HIDE DEF t
<1>5. Taken(h, s, seg, t)
  <2>1. /\ Took(h, t) = t.recv_seq /\ Gave(h, t) = t.send_seq
        /\ Took(h, s) = s.recv_seq /\ Gave(h, s) = s.send_seq
    BY <1>3, OpenSocket
  <2>. QED BY <1>1, <1>2, <1>3, <2>1 DEF Taken, Opened, Synchronized
<1>6. InTurn(h, s, seg, Ignore(t))
  BY <1>2, <1>5, IgnoreInTurn
<1>. QED BY <1>2, <1>4, <1>6

\* The last acknowledgement frees the socket: nothing more comes or goes.
LEMMA OnLastAckInTurn ==
  ASSUME TypeOK, NEW h \in Hosts, NEW s, NEW seg, Turn(h, s, seg),
         s.state = "LAST_ACK"
  PROVE  InTurn(h, s, seg, OnLastAck(s, seg))
<1>1. s \in Socket /\ SocketOK(h, s)
  BY DEF Turn
<1>2. End(seg) = Took(h, s) /\ InTurn(h, s, seg, Ignore(s))
  BY AfterFinInTurn DEF Connected, Opened, Synchronized
<1>3. /\ closed[h] /\ s.send_seq = ISN[h] + 2 + sent[h]
      /\ s.recv_seq = ISN[Peer(h)] + 2 + sent[Peer(h)]
  BY <1>1 DEF SocketOK, FinSent, FinTaken
<1>4. FreeSocket.state = "CLOSED" /\ FreeSocket.valid = {}
  BY DEF FreeSocket
<1>5. Taken(h, s, seg, FreeSocket)
  <2>1. Took(h, s) = s.recv_seq /\ Gave(h, s) = s.send_seq
    BY OpenSocket
  <2>2. Took(h, FreeSocket) = s.recv_seq /\ Gave(h, FreeSocket) = s.send_seq
    BY <1>3, <1>4 DEF Took, Gave
  <2>. QED BY <1>2, <1>3, <1>4, <2>1, <2>2 DEF Taken, Opened
<1>6. InTurn(h, s, seg, Ignore(FreeSocket))
  BY <1>2, <1>5, IgnoreInTurn
<1>7. OnLastAck(s, seg) = Ignore(IF AcksAll(s, seg) THEN FreeSocket ELSE s)
  BY DEF OnLastAck
<1>. QED BY <1>2, <1>6, <1>7

\* host_receive at an end that is open, for the segment whose turn it is.
LEMMA ReceiveInTurn ==
  ASSUME TypeOK, NEW h \in Hosts, NEW seg, Turn(h, sock[h], seg), Opened(h, sock[h])
  PROVE  InTurn(h, sock[h], seg, HostReceive(h, seg))
<1>1. PICK s : s = sock[h]
  OBVIOUS
<1>2. Turn(h, s, seg) /\ Opened(h, s) /\ SocketOK(h, s)
  BY <1>1 DEF Turn
<1>3. CASE s.state = "CLOSED"
  <2>1. s = FreeSocket
    BY <1>2, <1>3 DEF SocketOK
  <2>2. "SYN" \notin seg.flags
    BY <1>2, TurnKinds
  <2>3. HostReceive(h, seg) = Ignore(s)
    BY <1>1, <1>3, <2>1, <2>2 DEF HostReceive, OnListen
  <2>. QED BY <1>1, <1>2, <1>3, <2>3, AfterFinInTurn DEF Connected
<1>4. CASE s.state # "CLOSED"
  <2>1. HostReceive(h, seg) = ReceiveSegment(s, seg)
    BY <1>1, <1>4 DEF HostReceive
  <2>2. CASE s.state = "ESTABLISHED"
    BY <1>1, <1>2, <2>1, <2>2, OnEstablishedInTurn DEF ReceiveSegment
  <2>3. CASE s.state = "FIN_WAIT_1"
    BY <1>1, <1>2, <2>1, <2>3, OnFinWait1InTurn DEF ReceiveSegment
  <2>4. CASE s.state = "FIN_WAIT_2"
    BY <1>1, <1>2, <2>1, <2>4, OnFinWait2InTurn DEF ReceiveSegment
  <2>5. CASE s.state = "CLOSING"
    BY <1>1, <1>2, <2>1, <2>5, OnClosingInTurn DEF ReceiveSegment
  <2>6. CASE s.state = "LAST_ACK"
    BY <1>1, <1>2, <2>1, <2>6, OnLastAckInTurn DEF ReceiveSegment
  <2>7. CASE s.state \in {"CLOSE_WAIT", "TIME_WAIT"}
    BY <1>1, <1>2, <2>1, <2>7, AfterFinInTurn DEF ReceiveSegment, Connected
  <2>. QED BY <1>2, <1>4, <2>2, <2>3, <2>4, <2>5, <2>6, <2>7 DEF Opened, Synchronized
<1>. QED BY <1>3, <1>4

-----------------------------------------------------------------------------
(***************************************************************************)
(* The queues.                                                              *)
(***************************************************************************)
\* What is on its way to a host was sent to it.
QueueInv == /\ queue \in [Hosts -> Seq(Segment)]
            /\ \A h \in Hosts : queue[h] \in Seq(net[h])

\* The last segment of q acknowledges ack, or s has been told already.
Heard(s, q, ack) == IF q = <<>> THEN s.state = "ESTABLISHED" => s.send_ack = ack
                    ELSE q[Len(q)].ack = ack

\* What is on its way to h leads from what h has taken to what its peer has
\* given, and tells h what its peer has taken.
InOrder(h) ==
  LET p == Peer(h)
  IN /\ Run(queue[h], Took(h, sock[h]), Gave(p, sock[p]))
     /\ Heard(sock[h], queue[h], Took(p, sock[p]))

\* p, the peer of h, has sent nothing.
LEMMA SilentInOrder ==
  ASSUME NEW h \in Hosts, NEW p \in Hosts, p = Peer(h), InOrder(h), queue'[h] = queue[h],
         sock'[h].state = "ESTABLISHED" => /\ sock[h].state = "ESTABLISHED"
                                           /\ sock'[h].send_ack = sock[h].send_ack,
         Took(h, sock[h])' = Took(h, sock[h]), Gave(p, sock[p])' = Gave(p, sock[p]),
         Took(p, sock[p])' = Took(p, sock[p])
  PROVE  InOrder(h)'
<1>1. /\ Run(queue[h], Took(h, sock[h]), Gave(p, sock[p]))
      /\ Heard(sock[h], queue[h], Took(p, sock[p]))
  BY DEF InOrder
<1>2. Run(queue[h], Took(h, sock[h]), Gave(p, sock[p]))'
  <2>1. Run(queue'[h], Took(h, sock[h])', Gave(p, sock[p])')
    BY <1>1
  <2>. QED BY <2>1 DEF Run, End
<1>3. Heard(sock[h], queue[h], Took(p, sock[p]))'
  <2>1. PICK q, ack : q = queue[h] /\ ack = Took(p, sock[p])
    OBVIOUS
  <2>2. Heard(sock[h], q, ack)
    BY <1>1, <2>1
  <2>3. Heard(sock'[h], q, ack)
    BY <2>2 DEF Heard
  <2>4. queue'[h] = q /\ Took(p, sock[p])' = ack
    BY <2>1
  <2>. QED BY <2>3, <2>4 DEF Heard
<1>. QED BY <1>2, <1>3 DEF InOrder

\* p has sent one segment that follows what it has given and acknowledges
\* what it has taken.
LEMMA SentInOrder ==
  ASSUME NEW h \in Hosts, NEW p \in Hosts, p = Peer(h), InOrder(h),
         queue[h] \in Seq(Segment), NEW a \in Segment, queue'[h] = queue[h] \o <<a>>,
         Took(h, sock[h])' = Took(h, sock[h]),
         a.seq = Gave(p, sock[p]), End(a) = Gave(p, sock[p])',
         a.ack = Took(p, sock[p])'
  PROVE  InOrder(h)'
<1>1. PICK q, from : q = queue[h] /\ from = Took(h, sock[h])
  OBVIOUS
<1>2. Run(q, from, a.seq)
  BY <1>1 DEF InOrder
<1>3. Run(q \o <<a>>, from, End(a))
  BY <1>1, <1>2, RunAppend
<1>4. queue'[h] = q \o <<a>> /\ Took(h, sock[h])' = from
  BY <1>1
<1>5. Run(queue[h], Took(h, sock[h]), Gave(p, sock[p]))'
  <2>1. Run(queue'[h], Took(h, sock[h])', Gave(p, sock[p])')
    BY <1>3, <1>4
  <2>. QED BY <2>1 DEF Run, End
<1>6. /\ Len(q \o <<a>>) = Len(q) + 1 /\ (q \o <<a>>)[Len(q) + 1] = a
      /\ q \o <<a>> # <<>>
  <2>1. <<a>> \in Seq(Segment) /\ Len(<<a>>) = 1 /\ <<a>>[1] = a
    OBVIOUS
  <2>2. Len(q) \in Nat
    BY <1>1, LenProperties
  <2>3. Len(q \o <<a>>) = Len(q) + 1 /\ (q \o <<a>>)[Len(q) + 1] = a
    BY <1>1, <2>1, <2>2, ConcatProperties
  <2>4. Len(<<>>) = 0
    BY EmptySeq
  <2>. QED BY <2>2, <2>3, <2>4
<1>7. Heard(sock[h], queue[h], Took(p, sock[p]))'
  BY <1>4, <1>6 DEF Heard
<1>. QED BY <1>5, <1>7 DEF InOrder

\* h has taken the first segment of its queue.
LEMMA TakenInOrder ==
  ASSUME NEW h \in Hosts, NEW p \in Hosts, p = Peer(h), InOrder(h),
         queue[h] \in Seq(Segment), queue[h] # <<>>, queue'[h] = Tail(queue[h]),
         Took(h, sock[h])' = End(Head(queue[h])), Gave(p, sock[p])' = Gave(p, sock[p]),
         Took(p, sock[p])' = Took(p, sock[p]),
         /\ Head(queue[h]).ack = Took(p, sock[p])
         /\ sock'[h].state = "ESTABLISHED"
         => sock'[h].send_ack = Head(queue[h]).ack
  PROVE  InOrder(h)'
<1>1. PICK q, from, to : q = queue[h] /\ from = Took(h, sock[h]) /\ to = Gave(p, sock[p])
  OBVIOUS
<1>2. Run(q, from, to) /\ q \in Seq(Segment) /\ q # <<>>
  BY <1>1 DEF InOrder
<1>3. Run(Tail(q), End(Head(q)), to)
  BY <1>2, RunTail
<1>4. Run(queue[h], Took(h, sock[h]), Gave(p, sock[p]))'
  <2>1. Run(queue'[h], Took(h, sock[h])', Gave(p, sock[p])')
    BY <1>1, <1>3
  <2>. QED BY <2>1 DEF Run, End
<1>5. PICK ack : ack = Took(p, sock[p])
  OBVIOUS
<1>6. q[Len(q)].ack = ack
  BY <1>1, <1>2, <1>5 DEF InOrder, Heard
<1>7. /\ Len(q) \in Nat \ {0} /\ Head(q) = q[1] /\ Len(Tail(q)) = Len(q) - 1
      /\ Tail(q) \in Seq(Segment)
      /\ \A i \in 1 .. Len(Tail(q)) : Tail(q)[i] = q[i + 1]
  BY <1>2, EmptySeq, HeadTailProperties
<1>8. Heard(sock'[h], Tail(q), ack)
  <2>1. CASE Tail(q) = <<>>
    <3>1. Len(Tail(q)) = 0
      BY <2>1, EmptySeq
    <3>2. Len(q) = 1
      <4>1. PICK m : m = Len(q)
        OBVIOUS
      <4>2. m \in Nat /\ m - 1 = 0
        BY <1>7, <3>1, <4>1
      <4>3. m = 1
        BY <4>2
      <4>. QED BY <4>1, <4>3
    <3>3. Head(q).ack = ack
      BY <1>6, <1>7, <3>2
    <3>. QED BY <1>1, <1>5, <2>1, <3>3 DEF Heard
  <2>2. CASE Tail(q) # <<>>
    <3>1. Len(Tail(q)) \in Nat \ {0}
      BY <1>7, <2>2, EmptySeq
    <3>2. Len(Tail(q)) + 1 = Len(q)
      BY <1>7
    <3>3. Tail(q)[Len(Tail(q))] = q[Len(q)]
      BY <1>7, <3>1, <3>2
    <3>. QED BY <1>6, <2>2, <3>3 DEF Heard
  <2>. QED BY <2>1, <2>2
<1>9. Heard(sock[h], queue[h], Took(p, sock[p]))'
  <2>1. queue'[h] = Tail(q) /\ Took(p, sock[p])' = ack
    BY <1>1, <1>5
  <2>. QED BY <1>8, <2>1 DEF Heard
<1>. QED BY <1>4, <1>9 DEF InOrder

-----------------------------------------------------------------------------
(***************************************************************************)
(* The ordered path is one of the networks of TcpConnection.                *)
(***************************************************************************)
One(r) == r.reply = {} \/ \E a : r.reply = {a}

LEMMA OneAnswer ==
  ASSUME NEW s, NEW seg, NEW f
  PROVE  One(Answer(s, f)) /\ One(Ignore(s)) /\ One(TakeFin(s, seg, f))
BY DEF One, Answer, Ignore, TakeFin

\* A handler of tcp_socket_receive_segment answers with one segment or none.
LEMMA OneReply ==
  ASSUME NEW h, NEW seg
  PROVE  One(HostReceive(h, seg))
<1>1. ASSUME NEW s PROVE One(ReceiveSegment(s, seg))
  <2>1. One(OnSynSent(s, seg)) /\ One(OnSynReceived(s, seg))
    BY OneAnswer DEF OnSynSent, OnSynReceived
  <2>2. One(OnEstablished(s, seg))
    BY OneAnswer DEF OnEstablished
  <2>3. One(OnFinWait1(s, seg)) /\ One(OnFinWait2(s, seg))
    BY OneAnswer DEF OnFinWait1, OnFinWait2
  <2>4. One(OnClosing(s, seg)) /\ One(OnLastAck(s, seg)) /\ One(Ignore(s))
    BY OneAnswer DEF OnClosing, OnLastAck
  <2>. QED BY <2>1, <2>2, <2>3, <2>4 DEF ReceiveSegment
<1>2. One(OnListen(FreeSocket, seg, ISN[h])) /\ One(Ignore(FreeSocket))
  BY OneAnswer DEF OnListen
<1>. QED BY <1>1, <1>2 DEF HostReceive

\* What a set of at most one segment adds to a queue.
LEMMA QueuePlus ==
  ASSUME NEW S, NEW q \in Seq(S), NEW R \in SUBSET S, R = {} \/ \E a : R = {a}
  PROVE  q \o SetToSeq(R) \in Seq(S)
<1>1. SetToSeq(R) \in Seq(S)
  <2>1. CASE R = {}
    BY <2>1, SetToSeqOne, EmptySeq
  <2>2. ASSUME NEW a, R = {a} PROVE SetToSeq(R) \in Seq(S)
    <3>1. a \in S /\ SetToSeq(R) = <<a>>
      BY <2>2, SetToSeqOne
    <3>. QED BY <3>1
  <2>. QED BY <2>1, <2>2
<1>. QED BY <1>1, ConcatProperties

\* A segment that h has sent is in the queue of its peer.
LEMMA SentQueue ==
  ASSUME TypeOK', QueueInv, NEW h \in Hosts, NEW R, R = {} \/ \E a : R = {a},
         net' = [net EXCEPT ![Peer(h)] = @ \cup R], net \in [Hosts -> SUBSET Segment],
         NEW q, q = queue[h] \/ (queue[h] # <<>> /\ q = Tail(queue[h])),
         queue' = [queue EXCEPT ![h] = q, ![Peer(h)] = @ \o SetToSeq(R)]
  PROVE  QueueInv'
<1>1. PICK p : p = Peer(h)
  OBVIOUS
<1>2. p \in Hosts /\ p # h
  BY <1>1, PeerType
<1>3. net' \in [Hosts -> SUBSET Segment]
  BY DEF TypeOK
<1>4. /\ net'[h] = net[h] /\ net'[p] = net[p] \cup R
      /\ queue'[h] = q /\ queue'[p] = queue[p] \o SetToSeq(R)
      /\ DOMAIN queue' = Hosts /\ queue' = [g \in Hosts |-> queue'[g]]
  BY <1>1, <1>2 DEF QueueInv
<1>5. queue'[h] \in Seq(net'[h])
  <2>1. queue[h] \in Seq(net[h])
    BY DEF QueueInv
  <2>2. queue[h] # <<>> => Tail(queue[h]) \in Seq(net[h])
    BY <2>1, HeadTailProperties
  <2>. QED BY <1>4, <2>1, <2>2
<1>6. queue'[p] \in Seq(net'[p])
  <2>1. queue[p] \in Seq(net[p])
    BY <1>2 DEF QueueInv
  <2>2. queue[p] \in Seq(net'[p])
    BY <1>4, <2>1, SeqMonotonic
  <2>3. R \in SUBSET net'[p]
    BY <1>4
  <2>4. queue[p] \o SetToSeq(R) \in Seq(net'[p])
    <3>1. PICK S, r : S = net'[p] /\ r = queue[p]
      OBVIOUS
    <3>2. r \in Seq(S) /\ R \in SUBSET S
      BY <2>2, <2>3, <3>1
    <3>3. r \o SetToSeq(R) \in Seq(S)
      BY <3>2, QueuePlus
    <3>. QED BY <3>1, <3>3
  <2>. QED BY <1>4, <2>4
<1>7. \A g \in Hosts : queue'[g] \in Seq(net'[g])
  BY <1>1, <1>5, <1>6, TwoHosts
<1>8. ASSUME NEW g \in Hosts PROVE queue'[g] \in Seq(Segment)
  <2>1. net'[g] \subseteq Segment
    BY <1>3
  <2>. QED BY <1>7, <2>1, SeqMonotonic
<1>9. queue' \in [Hosts -> Seq(Segment)]
  BY <1>4, <1>8
<1>. QED BY <1>7, <1>9 DEF QueueInv

\* The segments that the user's commands put in the queue of the peer.
LEMMA CommandQueue ==
  ASSUME TypeOK', QueueInv, NEW h \in Hosts, NEW a, net \in [Hosts -> SUBSET Segment],
         Transmit(h, a), Enqueue(h, {a})
  PROVE  QueueInv'
<1>1. Peer(h) \in Hosts /\ Peer(h) # h /\ queue = [g \in Hosts |-> queue[g]]
  BY PeerType DEF QueueInv
<1>2. queue' = [queue EXCEPT ![Peer(h)] = @ \o SetToSeq({a})]
  BY DEF Enqueue
<1>3. queue' = [queue EXCEPT ![h] = queue[h], ![Peer(h)] = @ \o SetToSeq({a})]
  BY <1>1, <1>2
<1>4. net' = [net EXCEPT ![Peer(h)] = @ \cup {a}]
  BY DEF Transmit
<1>. QED BY <1>3, <1>4, SentQueue

LEMMA QueueNext ==
  ASSUME TypeOK, TypeOK', QueueInv, FifoNext
  PROVE  QueueInv'
<1>1. net \in [Hosts -> SUBSET Segment]
  BY DEF TypeOK
<1>2. CASE UNCHANGED <<net, queue>>
  BY <1>2 DEF QueueInv
<1>3. CASE FifoConnect
  <2>1. Client \in Hosts
    BY DEF Hosts
  <2>. QED BY <1>1, <1>3, <2>1, CommandQueue DEF FifoConnect, TcpConnect
<1>4. ASSUME NEW h \in Hosts, NEW len \in 1 .. MaxSegment, FifoSend(h, len)
      PROVE  QueueInv'
  BY <1>1, <1>4, CommandQueue DEF FifoSend, TcpSend
<1>5. ASSUME NEW h \in Hosts, FifoClose(h) PROVE QueueInv'
  BY <1>1, <1>5, CommandQueue DEF FifoClose, TcpClose
<1>6. ASSUME NEW h \in Hosts, FifoDeliver(h) PROVE QueueInv'
  <2>1. PICK r : r = HostReceive(h, Head(queue[h]))
    OBVIOUS
  <2>2. /\ net' = [net EXCEPT ![Peer(h)] = @ \cup r.reply]
        /\ queue[h] # <<>>
        /\ queue' = [queue EXCEPT ![h] = Tail(@), ![Peer(h)] = @ \o SetToSeq(r.reply)]
    BY <1>6, <2>1 DEF FifoDeliver, Deliver
  <2>3. r.reply = {} \/ \E a : r.reply = {a}
    BY <2>1, OneReply DEF One
  <2>4. queue' = [queue EXCEPT ![h] = Tail(queue[h]), ![Peer(h)] = @ \o SetToSeq(r.reply)]
    BY <2>2
  <2>. QED BY <1>1, <2>2, <2>3, <2>4, SentQueue
<1>. QED BY <1>2, <1>3, <1>4, <1>5, <1>6 DEF FifoNext, TcpListen, TcpRecv

\* A step on the ordered path is one of TcpConnection.
LEMMA FifoIsNext ==
  ASSUME QueueInv, [FifoNext]_fifoVars
  PROVE  [Next]_vars
<1>1. Client \in Hosts
  BY DEF Hosts
<1>2. ASSUME NEW h \in Hosts, FifoDeliver(h) PROVE Next
  <2>1. Head(queue[h]) \in net[h] /\ Deliver(h, Head(queue[h]))
    BY <1>2, HeadTailProperties DEF FifoDeliver, QueueInv
  <2>. QED BY <2>1 DEF Next
<1>. QED BY <1>1, <1>2 DEF FifoNext, FifoConnect, FifoSend, FifoClose, Next, fifoVars

LEMMA FifoAgreementInit == FifoInit => AgreementInv /\ QueueInv
<1> SUFFICES ASSUME FifoInit PROVE AgreementInv /\ QueueInv
  OBVIOUS
<1>1. AgreementInv
  BY AgreementInit DEF FifoInit
<1>2. QueueInv
  BY EmptySeq DEF FifoInit, QueueInv
<1>. QED BY <1>1, <1>2

LEMMA FifoAgreementNext ==
  AgreementInv /\ QueueInv /\ [FifoNext]_fifoVars => (AgreementInv /\ QueueInv)'
<1> SUFFICES ASSUME AgreementInv, QueueInv, [FifoNext]_fifoVars
             PROVE  AgreementInv' /\ QueueInv'
  OBVIOUS
<1>1. AgreementInv'
  BY FifoIsNext, AgreementNext
<1>2. TypeOK /\ TypeOK'
  BY <1>1 DEF AgreementInv, StreamInv
<1>3. CASE FifoNext
  BY <1>1, <1>2, <1>3, QueueNext
<1>4. CASE UNCHANGED fifoVars
  BY <1>1, <1>4 DEF fifoVars, vars, QueueInv
<1>. QED BY <1>1, <1>3, <1>4

\* Every behaviour over the ordered path is a behaviour of the connection over
\* the unreliable network: what holds there holds in the synchronous mode.
THEOREM OrderedPathIsNetwork == FifoSpec => Spec
<1>1. FifoInit => Init
  BY DEF FifoInit
<1>2. AgreementInv /\ QueueInv /\ [FifoNext]_fifoVars => [Next]_vars
  BY FifoIsNext
<1>. QED BY <1>1, <1>2, FifoAgreementInit, FifoAgreementNext, PTL DEF FifoSpec, Spec

-----------------------------------------------------------------------------
(***************************************************************************)
(* The phases of a connection on the ordered path.                          *)
(***************************************************************************)
Plain(flags, seq, ack) ==
  [flags |-> flags, seq |-> seq, ack |-> ack, payload |-> <<>>]

Fresh(h) == sock[h].state = "CLOSED" /\ ~closed[h]

Unopened == Fresh(Client) /\ Fresh(Server) /\ \A h \in Hosts : queue[h] = <<>>

\* The SYN is on its way, or found no listener.
Asked == /\ sock[Client].state = "SYN_SENT" /\ Fresh(Server)
         /\ queue[Client] = <<>>
         /\ queue[Server] \in {<<>>, <<Plain({"SYN"}, ISN[Client], 0)>>}

Answered == /\ sock[Client].state = "SYN_SENT" /\ sock[Server].state = "SYN_RECEIVED"
            /\ queue[Server] = <<>>
            /\ queue[Client] = <<Plain({"SYN", "ACK"}, ISN[Server], ISN[Client] + 1)>>

\* The last segment of the handshake is on its way, ahead of all others.
HalfOpen == /\ sock[Client].state \in Synchronized
            /\ sock[Server].state = "SYN_RECEIVED"
            /\ sock[Client].recv_seq = ISN[Server] + 1
            /\ Heard(sock[Client], <<>>, sock[Server].recv_seq)
            /\ queue[Client] = <<>> /\ queue[Server] # <<>>
            /\ queue[Server][1] = Plain({"ACK"}, ISN[Client] + 1, ISN[Server] + 1)
            /\ InOrder(Server)

BothOpen == \A h \in Hosts : Opened(h, sock[h]) /\ InOrder(h)

Phase == Unopened \/ Asked \/ Answered \/ HalfOpen \/ BothOpen

\* The reassembly window is never used, and the streams are bounded.
Clean == \A h \in Hosts : sock[h].valid = {} /\ sent[h] <= MaxStream[h]

FifoInv == AgreementInv /\ QueueInv /\ Clean /\ Phase

\* The streams fit in the receive buffers.
Fits == \A h \in Hosts : MaxStream[h] <= BufferSize

LEMMA OpenPhase ==
  ASSUME Phase, NEW h \in Hosts, sock[h].state \in Synchronized
  PROVE  (HalfOpen /\ h = Client) \/ BothOpen
<1>1. h = Client \/ h = Server
  BY DEF Hosts
<1>. QED BY <1>1 DEF Phase, Unopened, Asked, Answered, HalfOpen, Fresh, Synchronized

\* Nobody has taken more than an established end has sent.
LEMMA TookBound ==
  ASSUME AgreementInv, NEW h \in Hosts, sock[h].state = "ESTABLISHED"
  PROVE  Took(Peer(h), sock[Peer(h)]) <= sock[h].send_seq
<1> DEFINE p == Peer(h)
           s == sock[p]
           isn == ISN[h]
           n == sent[h]
           k == Len(read[p])
           d == Len(s.data)
<1>1. p \in Hosts /\ Peer(p) = h
  BY PeerType
<1>2. /\ TypeOK /\ s \in Socket /\ SocketOK(p, s) /\ SocketOK(h, sock[h])
      /\ Sound(p, s, Took(h, sock[h]))
  BY <1>1, AgreementFacts
<1>3. isn \in Nat /\ n \in Nat /\ k \in Nat /\ d \in Nat
  BY <1>1, <1>2, HostTypes, SocketTypes
<1>4. ~closed[h] /\ sock[h].send_seq = isn + 1 + n
  BY <1>2 DEF SocketOK, Sending
<1>5. CASE s.state \in Receiving
  <2>1. RecvOK(s, isn + 1, k, n) /\ s.state # "CLOSED"
    BY <1>1, <1>2, <1>5 DEF SocketOK, Receiving
  <2>2. s.recv_seq = isn + 1 + k + d /\ k + d <= n
    BY <2>1 DEF RecvOK, HoldsStream
  <2>3. Took(p, s) = s.recv_seq
    BY <2>1, OpenSocket
  <2> HIDE DEF isn, n, k, d
  <2>. QED BY <1>3, <1>4, <2>2, <2>3
<1>6. CASE s.state \in FinTaken
  BY <1>1, <1>2, <1>4, <1>6 DEF SocketOK, FinTaken
<1>7. CASE s.state = "SYN_SENT"
  <2>1. s.recv_seq = 0 /\ Took(p, s) = s.recv_seq
    BY <1>2, <1>7, OpenSocket DEF Sound, SenderOK
  <2> HIDE DEF isn, n
  <2>. QED BY <1>3, <1>4, <2>1
<1>8. CASE s.state = "CLOSED"
  <2>1. s = FreeSocket /\ ~closed[p]
    BY <1>1, <1>2, <1>4, <1>8 DEF SocketOK
  <2>2. Took(p, s) = 0
    BY <2>1 DEF Took, FreeSocket
  <2> HIDE DEF isn, n
  <2>. QED BY <1>3, <1>4, <2>2
<1>9. s.state \in States /\ s.state # "LISTEN"
  BY <1>2, SocketTypes DEF SocketOK
<1>. QED BY <1>5, <1>6, <1>7, <1>8, <1>9 DEF States, Receiving, FinTaken

\* h sends a or closes with a.
LEMMA CommandPhase ==
  ASSUME AgreementInv, QueueInv, Phase, NEW h \in Hosts, NEW p \in Hosts, p = Peer(h),
         NEW a \in Segment, NEW t,
         sock' = [sock EXCEPT ![h] = t], queue' = [queue EXCEPT ![p] = @ \o <<a>>],
         sent'[p] = sent[p], closed'[p] = closed[p],
         sock[h].state \in Sending, t.state \in Synchronized,
         t.state = "ESTABLISHED" => /\ sock[h].state = "ESTABLISHED"
                                    /\ t.send_ack = sock[h].send_ack,
         t.recv_seq = sock[h].recv_seq, a.ack = t.recv_seq,
         a.seq = sock[h].send_seq, End(a) = t.send_seq
  PROVE  Phase'
<1>1. /\ sock'[h] = t /\ sock'[p] = sock[p] /\ p # h /\ Peer(p) = h
      /\ queue'[h] = queue[h] /\ queue'[p] = queue[p] \o <<a>>
      /\ queue[p] \in Seq(Segment)
  BY PeerType DEF AgreementInv, StreamInv, TypeOK, QueueInv
<1>2. /\ Took(h, sock[h]) = sock[h].recv_seq /\ Gave(h, sock[h]) = sock[h].send_seq
      /\ Took(h, sock[h])' = t.recv_seq /\ Gave(h, sock[h])' = t.send_seq
  <2>1. sock[h].state # "CLOSED" /\ t.state # "CLOSED"
    BY DEF Sending, Synchronized
  <2>2. /\ Took(h, sock[h]) = sock[h].recv_seq /\ Gave(h, sock[h]) = sock[h].send_seq
    BY <2>1, OpenSocket
  <2>3. Took(h, sock[h])' = t.recv_seq /\ Gave(h, sock[h])' = t.send_seq
    BY <1>1, <2>1 DEF Took, Gave
  <2>. QED BY <2>2, <2>3
<1>3. sock[p].state # "CLOSED" \/ ~closed[p]
  <2>1. SocketOK(h, sock[h]) /\ SocketOK(p, sock[p])
    BY AgreementFacts
  <2>2. ~closed[h]
    BY <2>1 DEF SocketOK
  <2>. QED BY <1>1, <2>1, <2>2 DEF SocketOK
<1>4. Took(p, sock[p])' = Took(p, sock[p]) /\ Gave(p, sock[p])' = Gave(p, sock[p])
  BY <1>1, <1>3 DEF Took, Gave
<1>5. InOrder(p) => InOrder(p)'
  <2> HAVE InOrder(p)
  <2>. QED BY <1>1, <1>2, <1>4, SentInOrder
<1>6. InOrder(h) => InOrder(h)'
  <2> HAVE InOrder(h)
  <2>1. /\ Took(h, sock[h])' = Took(h, sock[h])
        /\ sock'[h].state = "ESTABLISHED" => /\ sock[h].state = "ESTABLISHED"
                                             /\ sock'[h].send_ack = sock[h].send_ack
    BY <1>1, <1>2
  <2>. QED BY <1>1, <1>4, <2>1, SilentInOrder
<1>7. (HalfOpen /\ h = Client) \/ BothOpen
  <2>1. sock[h].state \in Synchronized
    BY DEF Sending, Synchronized
  <2>. QED BY <2>1, OpenPhase
<1>8. CASE HalfOpen /\ h = Client
  <2>1. p = Server
    BY <1>8 DEF Peer
  <2>2. queue'[p] # <<>> /\ queue'[p][1] = queue[p][1]
    <3>1. PICK q : q = queue[p]
      OBVIOUS
    <3>2. q # <<>> /\ q \in Seq(Segment)
      BY <1>1, <1>8, <2>1, <3>1 DEF HalfOpen
    <3>3. Len(q) \in Nat \ {0}
      BY <3>2, EmptySeq
    <3>4. <<a>> \in Seq(Segment) /\ Len(<<a>>) = 1
      OBVIOUS
    <3>5. /\ Len(q \o <<a>>) = Len(q) + 1
          /\ (q \o <<a>>)[1] = q[1]
      BY <3>2, <3>3, <3>4, ConcatProperties
    <3>6. q \o <<a>> # <<>>
      BY <3>3, <3>5, EmptySeq
    <3>. QED BY <1>1, <3>1, <3>5, <3>6
  <2>3. Heard(sock'[h], <<>>, sock'[p].recv_seq)
    BY <1>1, <1>8, <2>1 DEF HalfOpen, Heard
  <2>4. HalfOpen'
    <3>1. InOrder(p)'
      BY <1>5, <1>8, <2>1 DEF HalfOpen
    <3>. QED BY <1>1, <1>8, <2>1, <2>2, <2>3, <3>1 DEF HalfOpen, Heard
  <2>. QED BY <2>4 DEF Phase
<1>9. CASE BothOpen
  <2>1. InOrder(h)' /\ InOrder(p)'
    BY <1>5, <1>6, <1>9 DEF BothOpen
  <2>2. Opened(h, sock[h])' /\ Opened(p, sock[p])'
    BY <1>1, <1>9 DEF BothOpen, Opened
  <2>3. BothOpen'
    BY <1>1, <2>1, <2>2, TwoHosts DEF BothOpen
  <2>. QED BY <2>3 DEF Phase
<1>. QED BY <1>7, <1>8, <1>9

\* A step that leaves the sequence numbers and the queues alone.
LEMMA QuietPhase ==
  ASSUME Phase, queue' = queue, sent' = sent, closed' = closed,
         \A h \in Hosts : /\ sock'[h].state = sock[h].state
                          /\ sock'[h].send_seq = sock[h].send_seq
                          /\ sock'[h].recv_seq = sock[h].recv_seq
                          /\ sock'[h].send_ack = sock[h].send_ack
  PROVE  Phase'
<1>1. Client \in Hosts /\ Server \in Hosts
  BY DEF Hosts
<1>2. \A h \in Hosts : /\ Took(h, sock[h])' = Took(h, sock[h])
                       /\ Gave(h, sock[h])' = Gave(h, sock[h])
                       /\ Opened(h, sock[h])' <=> Opened(h, sock[h])
  BY DEF Took, Gave, Opened
<1>3. ASSUME NEW h \in Hosts, InOrder(h) PROVE InOrder(h)'
  <2>1. PICK p : p = Peer(h)
    OBVIOUS
  <2>2. p \in Hosts
    BY <2>1, PeerType
  <2>3. queue'[h] = queue[h]
    OBVIOUS
  <2>4. /\ Took(h, sock[h])' = Took(h, sock[h]) /\ Gave(p, sock[p])' = Gave(p, sock[p])
        /\ Took(p, sock[p])' = Took(p, sock[p])
    BY <1>2, <2>2
  <2>. QED BY <1>3, <2>1, <2>2, <2>3, <2>4, SilentInOrder
<1>4. Unopened => Unopened'
  BY <1>1 DEF Unopened, Fresh
<1>5. Asked => Asked'
  BY <1>1 DEF Asked, Fresh
<1>6. Answered => Answered'
  BY <1>1 DEF Answered
<1>7. HalfOpen => HalfOpen'
  BY <1>1, <1>3 DEF HalfOpen, Heard
<1>8. BothOpen => BothOpen'
  BY <1>2, <1>3 DEF BothOpen
<1>. QED BY <1>4, <1>5, <1>6, <1>7, <1>8 DEF Phase

LEMMA ListenPhase ==
  ASSUME Phase, Clean, TcpListen, UNCHANGED queue
  PROVE  Phase' /\ Clean'
<1>1. sock' = sock /\ sent' = sent /\ closed' = closed
  BY DEF TcpListen
<1>2. Phase'
  BY <1>1, QuietPhase
<1>. QED BY <1>1, <1>2 DEF Clean

LEMMA RecvPhase ==
  ASSUME TypeOK, Phase, Clean, NEW h \in Hosts, NEW max \in 1 .. MaxSegment,
         TcpRecv(h, max), UNCHANGED queue
  PROVE  Phase' /\ Clean'
<1>1. sent' = sent /\ closed' = closed /\ sock' = [sock EXCEPT ![h] = Recv(@, max)]
  BY DEF TcpRecv
<1>2. sock \in [Hosts -> Socket]
  BY DEF TypeOK
<1>3. ASSUME NEW g \in Hosts
      PROVE  /\ sock'[g].state = sock[g].state /\ sock'[g].send_seq = sock[g].send_seq
             /\ sock'[g].recv_seq = sock[g].recv_seq
             /\ sock'[g].send_ack = sock[g].send_ack
             /\ sock'[g].valid = sock[g].valid
  <2>1. CASE g = h
    <3>1. sock'[g] = Recv(sock[g], max) /\ sock[g] \in Socket
      BY <1>1, <1>2, <2>1
    <3>. QED BY <3>1 DEF Recv, Socket
  <2>2. CASE g # h
    BY <1>1, <1>2, <2>2
  <2>. QED BY <2>1, <2>2
<1>4. Phase'
  BY <1>1, <1>3, QuietPhase
<1>. QED BY <1>1, <1>3, <1>4 DEF Clean

\* The client opens: nobody has done anything before.
LEMMA ConnectPhase ==
  ASSUME AgreementInv, QueueInv, Phase, Clean, FifoConnect
  PROVE  Phase' /\ Clean'
<1>1. Client \in Hosts /\ Server \in Hosts /\ Server # Client /\ Peer(Client) = Server
  BY DEF Hosts, Client, Server, Peer
<1>2. PICK t, a : t = Connect(ISN[Client]) /\ a = Plain({"SYN"}, ISN[Client], 0)
  OBVIOUS
<1>3. /\ sock[Client].state = "CLOSED" /\ ~closed[Client]
      /\ sock' = [sock EXCEPT ![Client] = t] /\ sent' = sent /\ closed' = closed
      /\ queue' = [queue EXCEPT ![Server] = @ \o SetToSeq({a})]
  BY <1>1, <1>2 DEF FifoConnect, TcpConnect, Enqueue, Plain
<1>4. t.state = "SYN_SENT" /\ t.valid = {}
  BY <1>2 DEF Connect, FreeSocket
<1>5. Unopened
  BY <1>1, <1>3 DEF Phase, Asked, Answered, HalfOpen, BothOpen, Opened, Synchronized
<1>6. sock'[Client] = t /\ sock'[Server] = sock[Server]
  BY <1>1, <1>3 DEF AgreementInv, StreamInv, TypeOK
<1>7. queue'[Client] = <<>> /\ queue'[Server] = <<a>>
  <2>1. queue[Server] = <<>> /\ queue[Client] = <<>>
    BY <1>1, <1>5 DEF Unopened
  <2>2. <<>> \o <<a>> = <<a>>
    <3>1. <<a>> \in Seq({a})
      OBVIOUS
    <3>. QED BY <3>1, EmptySeq
  <2>3. queue'[Client] = queue[Client] /\ queue'[Server] = queue[Server] \o SetToSeq({a})
    BY <1>1, <1>3 DEF QueueInv
  <2>. QED BY <2>1, <2>2, <2>3, SetToSeqOne
<1>8. Asked'
  BY <1>2, <1>3, <1>4, <1>5, <1>6, <1>7 DEF Asked, Unopened, Fresh, Plain
<1>9. Clean'
  BY <1>1, <1>3, <1>4, <1>6, TwoHosts DEF Clean
<1>. QED BY <1>8, <1>9 DEF Phase

LEMMA SendPhase ==
  ASSUME AgreementInv, QueueInv, Phase, Clean, TypeOK', NEW h \in Hosts,
         NEW len \in 1 .. MaxSegment, FifoSend(h, len)
  PROVE  Phase' /\ Clean'
<1>1. PICK p, s, payload : p = Peer(h) /\ s = sock[h]
                           /\ payload = [i \in 1 .. len |-> sent[h] + i]
  OBVIOUS
<1>2. PICK t, a : t = Send(s, payload) /\ a = DataSegment(s, payload)
  OBVIOUS
<1>3. p \in Hosts /\ p # h
  BY <1>1, PeerType
<1>4. /\ sent[h] + len <= MaxStream[h] /\ CanSend(s, payload)
      /\ sock' = [sock EXCEPT ![h] = t] /\ net' = [net EXCEPT ![p] = @ \cup {a}]
      /\ sent' = [sent EXCEPT ![h] = @ + len] /\ closed' = closed
      /\ queue' = [queue EXCEPT ![p] = @ \o SetToSeq({a})]
  BY <1>1, <1>2 DEF FifoSend, TcpSend, Transmit, Enqueue
<1>5. /\ s \in Socket /\ s.state = "ESTABLISHED" /\ s.send_seq \in Nat
      /\ sock \in [Hosts -> Socket] /\ sent \in [Hosts -> Nat]
      /\ net \in [Hosts -> SUBSET Segment]
  BY <1>1, <1>4, AgreementFacts, SocketTypes DEF CanSend, TypeOK
<1>6. a \in Segment
  <2>1. a \in net'[p] /\ net'[p] \subseteq Segment
    BY <1>3, <1>4, <1>5 DEF TypeOK
  <2>. QED BY <2>1
<1>7. /\ t.state = s.state /\ t.send_ack = s.send_ack /\ t.recv_seq = s.recv_seq
      /\ t.valid = s.valid /\ t.send_seq = s.send_seq + Len(payload)
  BY <1>2, <1>5 DEF Send, Socket
<1>8. Len(payload) = len
  <2>1. len \in Nat
    BY ConnectionAssumption
  <2>. QED BY <1>1, <2>1
<1>9. a.ack = t.recv_seq /\ a.seq = s.send_seq /\ End(a) = t.send_seq
  <2>1. a.flags = {"ACK", "PSH"} /\ a.payload = payload /\ a.seq = s.send_seq
        /\ a.ack = s.recv_seq
    BY <1>2 DEF DataSegment
  <2>2. len \in Nat
    BY ConnectionAssumption
  <2>3. End(a) = s.send_seq + len
    BY <1>5, <1>8, <2>1, <2>2 DEF End
  <2>. QED BY <1>7, <1>8, <2>1, <2>3
<1>10. Phase'
  <2>1. queue' = [queue EXCEPT ![p] = @ \o <<a>>]
    BY <1>4, SetToSeqOne
  <2>2. sent'[p] = sent[p] /\ closed'[p] = closed[p]
    BY <1>3, <1>4, <1>5
  <2>3. sock[h].state \in Sending /\ t.state \in Synchronized
    BY <1>1, <1>5, <1>7 DEF Sending, Synchronized
  <2>. QED BY <1>1, <1>3, <1>4, <1>5, <1>6, <1>7, <1>9, <2>1, <2>2, <2>3, CommandPhase
<1>11. Clean'
  <2>1. sock'[h] = t /\ sock'[p] = sock[p] /\ sent'[h] = sent[h] + len /\ sent'[p] = sent[p]
    BY <1>3, <1>4, <1>5
  <2>. QED BY <1>1, <1>3, <1>4, <1>7, <2>1, TwoHosts DEF Clean
<1>. QED BY <1>10, <1>11

LEMMA ClosePhase ==
  ASSUME AgreementInv, QueueInv, Phase, Clean, TypeOK', NEW h \in Hosts, FifoClose(h)
  PROVE  Phase' /\ Clean'
<1>1. PICK p, s : p = Peer(h) /\ s = sock[h]
  OBVIOUS
<1>2. PICK t, a : t = Close(s) /\ a = FinSegment(s)
  OBVIOUS
<1>3. p \in Hosts /\ p # h
  BY <1>1, PeerType
<1>4. /\ CanClose(s)
      /\ sock' = [sock EXCEPT ![h] = t] /\ net' = [net EXCEPT ![p] = @ \cup {a}]
      /\ closed' = [closed EXCEPT ![h] = TRUE] /\ sent' = sent
      /\ queue' = [queue EXCEPT ![p] = @ \o SetToSeq({a})]
  BY <1>1, <1>2 DEF FifoClose, TcpClose, Transmit, Enqueue
<1>5. /\ s \in Socket /\ s.state \in Sending /\ s.send_seq \in Nat
      /\ sock \in [Hosts -> Socket] /\ closed \in [Hosts -> BOOLEAN]
      /\ net \in [Hosts -> SUBSET Segment]
  BY <1>1, <1>4, AgreementFacts, SocketTypes DEF CanClose, TypeOK, Sending
<1>6. a \in Segment
  <2>1. a \in net'[p] /\ net'[p] \subseteq Segment
    BY <1>3, <1>4, <1>5 DEF TypeOK
  <2>. QED BY <2>1
<1>7. /\ t.state \in {"FIN_WAIT_1", "LAST_ACK"} /\ t.recv_seq = s.recv_seq
      /\ t.valid = s.valid /\ t.send_seq = s.send_seq + 1
  BY <1>2, <1>5 DEF Close, Socket
<1>8. a.ack = t.recv_seq /\ a.seq = s.send_seq /\ End(a) = t.send_seq
  <2>1. a.flags = {"FIN", "ACK"} /\ a.payload = <<>> /\ a.seq = s.send_seq
        /\ a.ack = s.recv_seq
    BY <1>2 DEF FinSegment
  <2>2. End(a) = s.send_seq + 1
    BY <1>5, <2>1, EmptySeq DEF End
  <2>. QED BY <1>7, <2>1, <2>2
<1>9. Phase'
  <2>1. queue' = [queue EXCEPT ![p] = @ \o <<a>>]
    BY <1>4, SetToSeqOne
  <2>2. sent'[p] = sent[p] /\ closed'[p] = closed[p]
    BY <1>3, <1>4, <1>5
  <2>3. t.state \in Synchronized /\ t.state # "ESTABLISHED"
    BY <1>7 DEF Synchronized
  <2>. QED BY <1>1, <1>3, <1>4, <1>5, <1>6, <1>7, <1>8, <2>1, <2>2, <2>3, CommandPhase
<1>10. Clean'
  <2>1. sock'[h] = t /\ sock'[p] = sock[p]
    BY <1>3, <1>4, <1>5
  <2>. QED BY <1>1, <1>3, <1>4, <1>7, <2>1, TwoHosts DEF Clean
<1>. QED BY <1>9, <1>10

\* What the delivery of seg to h with the outcome r does to the two queues and
\* the two sockets.
Delivery(h, p, seg, r) ==
  /\ Peer(p) = h /\ p # h
  /\ queue[h] # <<>> /\ seg \in Segment /\ SegmentOK(h, seg)
  /\ queue[h] \in Seq(Segment) /\ queue[p] \in Seq(Segment)
  /\ sock'[h] = r.sock /\ sock'[p] = sock[p]
  /\ net'[p] = net[p] \cup r.reply
  /\ sent' = sent /\ closed' = closed /\ read' = read
  /\ queue'[h] = Tail(queue[h]) /\ queue'[p] = queue[p] \o SetToSeq(r.reply)

LEMMA DeliverFacts ==
  ASSUME AgreementInv, QueueInv, NEW h \in Hosts, FifoDeliver(h)
  PROVE  Delivery(h, Peer(h), Head(queue[h]), HostReceive(h, Head(queue[h])))
<1> SUFFICES ASSUME NEW p \in Hosts, p = Peer(h), NEW seg, seg = Head(queue[h]),
                    NEW r, r = HostReceive(h, seg)
             PROVE  Delivery(h, p, seg, r)
  BY PeerType
<1>1. Peer(p) = h /\ p # h
  BY PeerType
<1>2. /\ sock \in [Hosts -> Socket] /\ net \in [Hosts -> SUBSET Segment]
      /\ queue \in [Hosts -> Seq(Segment)]
  BY DEF AgreementInv, StreamInv, TypeOK, QueueInv
<1>3. /\ queue[h] # <<>> /\ sock' = [sock EXCEPT ![h] = r.sock]
      /\ net' = [net EXCEPT ![p] = @ \cup r.reply]
      /\ sent' = sent /\ closed' = closed /\ read' = read
      /\ queue' = [queue EXCEPT ![h] = Tail(@), ![p] = @ \o SetToSeq(r.reply)]
  BY DEF FifoDeliver, Deliver
<1>4. seg \in net[h]
  <2>1. queue[h] \in Seq(net[h])
    BY DEF QueueInv
  <2>. QED BY <1>3, <2>1, HeadTailProperties
<1>5. seg \in Segment /\ SegmentOK(h, seg)
  BY <1>2, <1>4 DEF AgreementInv, StreamInv
<1>6. /\ queue'[h] = Tail(queue[h]) /\ queue'[p] = queue[p] \o SetToSeq(r.reply)
      /\ sock'[h] = r.sock /\ sock'[p] = sock[p] /\ net'[p] = net[p] \cup r.reply
  BY <1>1, <1>2, <1>3
<1>7. queue[h] \in Seq(Segment) /\ queue[p] \in Seq(Segment)
  BY <1>2
<1>. QED BY <1>1, <1>3, <1>5, <1>6, <1>7 DEF Delivery

\* A reply of nothing leaves a queue as it was.
LEMMA NoReply ==
  ASSUME NEW S, NEW q \in Seq(S)
  PROVE  q \o SetToSeq({}) = q
BY SetToSeqOne, EmptySeq

\* Between two open ends every delivery is that of the segment whose turn it is.
LEMMA DeliverBoth ==
  ASSUME AgreementInv, QueueInv, Clean, TypeOK', Fits, BothOpen, NEW h \in Hosts,
         FifoDeliver(h)
  PROVE  BothOpen' /\ Clean'
<1>1. PICK p \in Hosts : p = Peer(h)
  BY PeerType
<1>2. PICK s, seg : s = sock[h] /\ seg = Head(queue[h])
  OBVIOUS
<1>3. PICK r : r = HostReceive(h, seg)
  OBVIOUS
<1>4. /\ Peer(p) = h /\ p # h
      /\ queue[h] # <<>> /\ seg \in Segment /\ SegmentOK(h, seg)
      /\ queue[h] \in Seq(Segment) /\ queue[p] \in Seq(Segment)
      /\ sock'[h] = r.sock /\ sock'[p] = sock[p]
      /\ net'[p] = net[p] \cup r.reply
      /\ sent' = sent /\ closed' = closed /\ read' = read
      /\ queue'[h] = Tail(queue[h]) /\ queue'[p] = queue[p] \o SetToSeq(r.reply)
  <2>1. Delivery(h, p, seg, r)
    BY <1>1, <1>2, <1>3, DeliverFacts
  <2>. QED BY <2>1 DEF Delivery
<1>5. /\ TypeOK /\ s \in Socket /\ SocketOK(h, s) /\ Sound(h, s, Took(p, sock[p]))
      /\ InOrder(h) /\ InOrder(p) /\ Opened(h, s) /\ Opened(p, sock[p])
  BY <1>1, <1>2, AgreementFacts DEF BothOpen
<1>6. Turn(h, s, seg)
  <2>1. seg.seq = Took(h, s)
    <3>1. Run(queue[h], Took(h, s), Gave(p, sock[p]))
      BY <1>1, <1>2, <1>5 DEF InOrder
    <3>. QED BY <1>2, <1>4, <3>1, RunTail
  <2>2. sent[p] <= BufferSize
    <3>1. /\ sent[p] \in Nat /\ MaxStream[p] \in Nat /\ BufferSize \in Nat
          /\ sent[p] <= MaxStream[p] /\ MaxStream[p] <= BufferSize
      BY <1>5, ConnectionAssumption, BufferAssumption DEF TypeOK, Clean, Fits
    <3>. QED BY <3>1
  <2>3. s.valid = {} /\ WindowOK(s)
    BY <1>2, <1>5 DEF Clean, Sound
  <2>. QED BY <1>1, <1>4, <1>5, <2>1, <2>2, <2>3 DEF Turn
<1>7. InTurn(h, s, seg, r)
  BY <1>2, <1>3, <1>5, <1>6, ReceiveInTurn
<1>8. Taken(h, s, seg, r.sock)
  BY <1>7 DEF InTurn
<1>9. /\ Took(p, sock[p])' = Took(p, sock[p]) /\ Gave(p, sock[p])' = Gave(p, sock[p])
      /\ Took(h, sock[h])' = End(seg) /\ Gave(h, sock[h])' = Gave(h, s)
  <2>1. /\ Took(p, sock[p])' = Took(p, sock[p]) /\ Gave(p, sock[p])' = Gave(p, sock[p])
    BY <1>4 DEF Took, Gave
  <2>2. Took(h, sock[h])' = Took(h, r.sock) /\ Gave(h, sock[h])' = Gave(h, r.sock)
    BY <1>4 DEF Took, Gave
  <2>. QED BY <1>8, <2>1, <2>2 DEF Taken
<1>10. InOrder(h)'
  <2>1. /\ seg.ack = Took(p, sock[p])
        /\ sock'[h].state = "ESTABLISHED"
        => sock'[h].send_ack = seg.ack
    <3>1. HAVE seg.ack = Took(p, sock[p]) /\ sock'[h].state = "ESTABLISHED"
    <3>2. s.state = "ESTABLISHED"
      BY <1>4, <1>8, <3>1 DEF Taken
    <3>3. s.send_ack <= seg.ack
      BY <1>5, <3>1 DEF Sound, AckOK
    <3>4. seg.ack <= s.send_seq
      BY <1>1, <1>2, <3>1, <3>2, TookBound
    <3>. QED BY <1>4, <1>8, <3>1, <3>3, <3>4 DEF Taken
  <2>. QED BY <1>1, <1>2, <1>4, <1>5, <1>9, <2>1, TakenInOrder
<1>11. InOrder(p)'
  <2>1. CASE r.reply = {} /\ End(seg) = Took(h, s)
    <3>1. queue'[p] = queue[p] /\ sock'[p] = sock[p]
      BY <1>4, <2>1, NoReply
    <3>2. Took(h, sock[h])' = Took(h, sock[h]) /\ Gave(h, sock[h])' = Gave(h, sock[h])
      BY <1>2, <1>9, <2>1
    <3>. QED BY <1>4, <1>5, <1>9, <3>1, <3>2, SilentInOrder
  <2>2. ASSUME NEW a, r.reply = {a}, Bare(a, Gave(h, s), End(seg))
        PROVE  InOrder(p)'
    <3>1. a \in Segment
      <4>1. a \in net'[p]
        BY <1>4, <2>2
      <4>. QED BY <4>1 DEF TypeOK
    <3>2. queue'[p] = queue[p] \o <<a>>
      BY <1>4, <2>2, SetToSeqOne
    <3>3. /\ a.seq = Gave(h, sock[h]) /\ End(a) = Gave(h, sock[h])'
          /\ a.ack = Took(h, sock[h])'
      BY <1>2, <1>9, <2>2 DEF Bare
    <3>. QED BY <1>4, <1>5, <1>9, <3>1, <3>2, <3>3, SentInOrder
  <2>. QED BY <1>7, <2>1, <2>2 DEF InTurn
<1>12. BothOpen'
  <2>1. Opened(h, sock[h])' /\ Opened(p, sock[p])'
    BY <1>4, <1>5, <1>8 DEF Opened, Taken
  <2>. QED BY <1>1, <1>10, <1>11, <2>1, TwoHosts DEF BothOpen
<1>13. Clean'
  <2>1. sock'[h].valid = {}
    BY <1>4, <1>8 DEF Taken
  <2>. QED BY <1>1, <1>4, <2>1, TwoHosts DEF Clean
<1>. QED BY <1>12, <1>13

LEMMA OneInQueue ==
  ASSUME NEW a, NEW q, q = <<>> \o <<a>>
  PROVE  q = <<a>> /\ q # <<>> /\ q[1] = a /\ Len(q) = 1 /\ Head(q) = a /\ Tail(q) = <<>>
<1>1. <<a>> \in Seq({a}) /\ Len(<<a>>) = 1 /\ <<a>>[1] = a
  OBVIOUS
<1>2. q = <<a>>
  BY <1>1, EmptySeq
<1>3. <<a>> # <<>>
  BY <1>1, EmptySeq
<1>4. Head(<<a>>) = a
  BY <1>1, <1>3, HeadTailProperties
<1>5. Tail(<<a>>) \in Seq({a}) /\ Len(Tail(<<a>>)) = 0
  BY <1>1, <1>3, HeadTailProperties
<1>6. Tail(<<a>>) = <<>>
  BY <1>5, EmptySeq
<1>. QED BY <1>1, <1>2, <1>3, <1>4, <1>6

\* The SYN arrives: the listener answers it, or nobody does.
LEMMA DeliverAsked ==
  ASSUME AgreementInv, QueueInv, Clean, Asked, NEW h \in Hosts, FifoDeliver(h)
  PROVE  Phase' /\ Clean'
<1>1. /\ Client \in Hosts /\ Server \in Hosts /\ Server # Client
      /\ Peer(Server) = Client /\ h \in {Client, Server}
  BY DEF Hosts, Client, Server, Peer
<1>2. PICK syn, r : syn = Plain({"SYN"}, ISN[Client], 0) /\ r = HostReceive(Server, syn)
  OBVIOUS
<1>3. h = Server
  BY <1>1 DEF FifoDeliver, Asked
<1>4. queue[Server] = <<syn>> /\ Head(queue[Server]) = syn /\ Tail(queue[Server]) = <<>>
  <2>1. queue[Server] = <<syn>>
    BY <1>2, <1>3 DEF FifoDeliver, Asked
  <2>2. <<syn>> = <<>> \o <<syn>>
    <3>1. <<syn>> \in Seq({syn})
      OBVIOUS
    <3>. QED BY <3>1, EmptySeq
  <2>. QED BY <2>1, <2>2, OneInQueue
<1>5. /\ sock'[Server] = r.sock /\ sock'[Client] = sock[Client]
      /\ sent' = sent /\ closed' = closed
      /\ queue'[Server] = <<>>
      /\ queue'[Client] = queue[Client] \o SetToSeq(r.reply)
  <2>1. FifoDeliver(Server) /\ syn = Head(queue[Server])
    BY <1>3, <1>4
  <2>2. Delivery(Server, Client, syn, r)
    BY <1>1, <1>2, <2>1, DeliverFacts
  <2>. QED BY <1>4, <2>2 DEF Delivery
<1>6. /\ sock[Client].state = "SYN_SENT" /\ queue[Client] = <<>>
      /\ sock[Server].state = "CLOSED" /\ ~closed[Server]
  BY DEF Asked, Fresh
<1>7. CASE ~listening
  <2>1. r = Ignore(FreeSocket)
    BY <1>2, <1>6, <1>7 DEF HostReceive
  <2>2. /\ r.sock = FreeSocket /\ r.reply = {}
        /\ FreeSocket.state = "CLOSED" /\ FreeSocket.valid = {}
    BY <2>1 DEF Ignore, FreeSocket
  <2>3. queue'[Client] = <<>>
    BY <1>5, <1>6, <2>2, NoReply, EmptySeq
  <2>4. Asked'
    BY <1>5, <1>6, <2>2, <2>3 DEF Asked, Fresh
  <2>5. Clean'
    BY <1>1, <1>5, <2>2, TwoHosts DEF Clean
  <2>. QED BY <2>4, <2>5 DEF Phase
<1>8. CASE listening
  <2>1. PICK t, a : /\ t = [FreeSocket EXCEPT !.state = "SYN_RECEIVED", !.recv_seq = syn.seq + 1,
                                              !.send_seq = ISN[Server]]
                    /\ a = Plain({"SYN", "ACK"}, t.send_seq, t.recv_seq)
    OBVIOUS
  <2>2. syn.flags = {"SYN"} /\ syn.seq = ISN[Client]
    BY <1>2 DEF Plain
  <2>3. r = Answer(t, {"SYN", "ACK"})
    <3>1. r = OnListen(FreeSocket, syn, ISN[Server])
      BY <1>2, <1>6, <1>8 DEF HostReceive
    <3>2. "SYN" \in syn.flags /\ syn.flags \cap {"ACK", "FIN"} = {}
      BY <2>2
    <3>. QED BY <2>1, <3>1, <3>2 DEF OnListen
  <2>4. r.sock = t /\ r.reply = {a}
    BY <2>1, <2>3 DEF Answer, Plain
  <2>5. /\ t.state = "SYN_RECEIVED" /\ t.recv_seq = ISN[Client] + 1
        /\ t.send_seq = ISN[Server] /\ t.valid = {}
    BY <2>1, <2>2 DEF FreeSocket
  <2>6. queue'[Client] = <<a>>
    <3>1. queue'[Client] = <<>> \o <<a>>
      BY <1>5, <1>6, <2>4, SetToSeqOne
    <3>. QED BY <3>1, OneInQueue
  <2>7. Answered'
    BY <1>5, <1>6, <2>1, <2>4, <2>5, <2>6 DEF Answered, Plain
  <2>8. Clean'
    BY <1>1, <1>5, <2>4, <2>5, TwoHosts DEF Clean
  <2>. QED BY <2>7, <2>8 DEF Phase
<1>. QED BY <1>7, <1>8

\* An opening end has nothing to read and nothing sent.
LEMMA OpeningNumbers ==
  ASSUME AgreementInv, NEW h \in Hosts, sock[h].state \in Opening
  PROVE  /\ sock[h].send_seq = ISN[h]
         /\ sock[h].state = "SYN_RECEIVED" => sock[h].recv_seq = ISN[Peer(h)] + 1
<1>1. PICK s, base : s = sock[h] /\ base = ISN[Peer(h)] + 1
  OBVIOUS
<1>2. s.send_seq = ISN[h] /\ read[h] = <<>> /\ s.data = <<>>
  BY <1>1, AgreementFacts DEF SocketOK
<1>3. ASSUME s.state = "SYN_RECEIVED" PROVE s.recv_seq = base
  <2>1. RecvOK(s, base, Len(read[h]), sent[Peer(h)])
    BY <1>1, <1>3, AgreementFacts DEF SocketOK, Receiving
  <2>2. s.recv_seq = base + Len(read[h]) + Len(s.data)
    BY <2>1 DEF RecvOK
  <2>3. Len(read[h]) = 0 /\ Len(s.data) = 0 /\ base \in Nat
    <3>1. TypeOK /\ Peer(h) \in Hosts
      BY AgreementFacts, PeerType
    <3>. QED BY <1>1, <1>2, <3>1, EmptySeq, ConnectionAssumption
  <2>. QED BY <2>2, <2>3
<1>. QED BY <1>1, <1>2, <1>3

\* The SYN-ACK arrives: the client is open and its ACK is on its way.
LEMMA DeliverAnswered ==
  ASSUME AgreementInv, QueueInv, Clean, Answered, NEW h \in Hosts, FifoDeliver(h)
  PROVE  Phase' /\ Clean'
<1>1. /\ Client \in Hosts /\ Server \in Hosts /\ Server # Client
      /\ Peer(Client) = Server /\ Peer(Server) = Client /\ h \in {Client, Server}
  BY DEF Hosts, Client, Server, Peer
<1>2. PICK seg, r, s : /\ seg = Plain({"SYN", "ACK"}, ISN[Server], ISN[Client] + 1)
                       /\ r = HostReceive(Client, seg) /\ s = sock[Client]
  OBVIOUS
<1>3. h = Client
  BY <1>1 DEF FifoDeliver, Answered
<1>4. Head(queue[Client]) = seg /\ Tail(queue[Client]) = <<>>
  <2>1. queue[Client] = <<seg>>
    BY <1>2 DEF Answered
  <2>2. <<seg>> = <<>> \o <<seg>>
    <3>1. <<seg>> \in Seq({seg})
      OBVIOUS
    <3>. QED BY <3>1, EmptySeq
  <2>. QED BY <2>1, <2>2, OneInQueue
<1>5. /\ sock'[Client] = r.sock /\ sock'[Server] = sock[Server]
      /\ sent' = sent /\ closed' = closed
      /\ queue'[Client] = <<>>
      /\ queue'[Server] = queue[Server] \o SetToSeq(r.reply)
  <2>1. FifoDeliver(Client) /\ seg = Head(queue[Client])
    BY <1>3, <1>4
  <2>2. Delivery(Client, Server, seg, r)
    BY <1>1, <1>2, <2>1, DeliverFacts
  <2>. QED BY <1>4, <2>2 DEF Delivery
<1>6. /\ s.state = "SYN_SENT" /\ s \in Socket /\ s.send_seq = ISN[Client] /\ s.valid = {}
      /\ sock[Server].state = "SYN_RECEIVED" /\ queue[Server] = <<>>
      /\ sock[Server].recv_seq = ISN[Client] + 1
  BY <1>1, <1>2, OpeningNumbers, AgreementFacts DEF Answered, Opening, Clean
<1>7. seg.flags = {"SYN", "ACK"} /\ seg.seq = ISN[Server] /\ seg.ack = ISN[Client] + 1
  BY <1>2 DEF Plain
<1>8. PICK t : t = [s EXCEPT !.state = "ESTABLISHED", !.recv_seq = seg.seq + 1,
                             !.send_ack = seg.ack, !.send_seq = seg.ack]
  OBVIOUS
<1>9. PICK a : a = Plain({"ACK"}, t.send_seq, t.recv_seq)
  OBVIOUS
<1>10. r.sock = t /\ r.reply = {a}
  <2>1. r = OnSynSent(s, seg)
    BY <1>2, <1>6 DEF HostReceive, ReceiveSegment
  <2>2. {"SYN", "ACK"} \subseteq seg.flags /\ "FIN" \notin seg.flags /\ seg.ack = s.send_seq + 1
    BY <1>6, <1>7
  <2>3. r = Answer(t, {"ACK"})
    BY <1>8, <2>1, <2>2 DEF OnSynSent
  <2>. QED BY <1>9, <2>3 DEF Answer, Plain
<1>11. /\ t.state = "ESTABLISHED" /\ t.recv_seq = ISN[Server] + 1
       /\ t.send_ack = ISN[Client] + 1 /\ t.send_seq = ISN[Client] + 1 /\ t.valid = {}
  BY <1>6, <1>7, <1>8 DEF Socket
<1>12. /\ a.seq = ISN[Client] + 1 /\ a.ack = ISN[Server] + 1 /\ a.flags = {"ACK"}
       /\ a.payload = <<>> /\ a = Plain({"ACK"}, ISN[Client] + 1, ISN[Server] + 1)
       /\ End(a) = a.seq
  <2>1. /\ a.seq = ISN[Client] + 1 /\ a.ack = ISN[Server] + 1 /\ a.flags = {"ACK"}
        /\ a.payload = <<>> /\ a = Plain({"ACK"}, ISN[Client] + 1, ISN[Server] + 1)
    BY <1>9, <1>11 DEF Plain
  <2>2. a.seq \in Nat /\ Len(a.payload) = 0 /\ "FIN" \notin a.flags
    BY <1>1, <2>1, EmptySeq, ConnectionAssumption
  <2>3. End(a) = a.seq
    BY <2>2 DEF End
  <2>. QED BY <2>1, <2>3
<1>13. queue'[Server] = <<a>> /\ queue'[Server] # <<>> /\ queue'[Server][1] = a
       /\ Len(queue'[Server]) = 1
  <2>1. queue'[Server] = <<>> \o <<a>>
    BY <1>5, <1>6, <1>10, SetToSeqOne
  <2>. QED BY <2>1, OneInQueue
<1>14. /\ Took(Server, sock[Server])' = a.seq /\ Gave(Client, sock[Client])' = a.seq
       /\ Took(Client, sock[Client])' = a.ack
  BY <1>5, <1>6, <1>10, <1>11, <1>12 DEF Took, Gave
<1>15. InOrder(Server)'
  <2>1. Run(queue'[Server], a.seq, a.seq)
    BY <1>12, <1>13 DEF Run
  <2>2. Run(queue[Server], Took(Server, sock[Server]), Gave(Client, sock[Client]))'
    <3>1. Run(queue'[Server], Took(Server, sock[Server])', Gave(Client, sock[Client])')
      BY <1>14, <2>1
    <3>. QED BY <3>1 DEF Run, End
  <2>3. Heard(sock[Server], queue[Server], Took(Client, sock[Client]))'
    BY <1>13, <1>14 DEF Heard
  <2>. QED BY <1>1, <2>2, <2>3 DEF InOrder
<1>16. HalfOpen'
  BY <1>5, <1>6, <1>10, <1>11, <1>12, <1>13, <1>15 DEF HalfOpen, Heard, Synchronized, Plain
<1>17. Clean'
  BY <1>1, <1>5, <1>10, <1>11, TwoHosts DEF Clean
<1>. QED BY <1>16, <1>17 DEF Phase

\* The ACK of the handshake arrives, ahead of what the client has sent since.
LEMMA DeliverHalf ==
  ASSUME AgreementInv, QueueInv, Clean, HalfOpen, NEW h \in Hosts, FifoDeliver(h)
  PROVE  Phase' /\ Clean'
<1>1. /\ Client \in Hosts /\ Server \in Hosts /\ Server # Client
      /\ Peer(Client) = Server /\ Peer(Server) = Client /\ h \in {Client, Server}
  BY DEF Hosts, Client, Server, Peer
<1>2. h = Server
  BY <1>1 DEF FifoDeliver, HalfOpen
<1>3. PICK seg, r, s : /\ seg = Plain({"ACK"}, ISN[Client] + 1, ISN[Server] + 1)
                       /\ r = HostReceive(Server, seg) /\ s = sock[Server]
  OBVIOUS
<1>4. Head(queue[Server]) = seg
  <2>1. queue[Server] # <<>> /\ queue[Server] \in Seq(Segment) /\ queue[Server][1] = seg
    BY <1>1, <1>3 DEF HalfOpen, QueueInv
  <2>. QED BY <2>1, HeadTailProperties
<1>5. /\ sock'[Server] = r.sock /\ sock'[Client] = sock[Client]
      /\ sent' = sent /\ closed' = closed
      /\ queue'[Server] = Tail(queue[Server]) /\ queue[Server] # <<>>
      /\ queue[Server] \in Seq(Segment)
      /\ queue'[Client] = queue[Client] \o SetToSeq(r.reply)
  <2>1. FifoDeliver(Server) /\ seg = Head(queue[Server])
    BY <1>2, <1>4
  <2>2. Delivery(Server, Client, seg, r)
    BY <1>1, <1>3, <2>1, DeliverFacts
  <2>. QED BY <2>2 DEF Delivery
<1>6. /\ s.state = "SYN_RECEIVED" /\ s \in Socket /\ s.send_seq = ISN[Server] /\ s.valid = {}
      /\ s.recv_seq = ISN[Client] + 1
      /\ sock[Client].state \in Synchronized /\ sock[Client].recv_seq = ISN[Server] + 1
      /\ Heard(sock[Client], <<>>, s.recv_seq) /\ queue[Client] = <<>> /\ InOrder(Server)
  BY <1>1, <1>3, OpeningNumbers, AgreementFacts DEF HalfOpen, Opening, Clean
<1>7. /\ seg.flags = {"ACK"} /\ seg.seq = ISN[Client] + 1 /\ seg.ack = ISN[Server] + 1
      /\ seg.payload = <<>> /\ seg.seq \in Nat /\ seg.ack \in Nat /\ Len(seg.payload) = 0
      /\ End(seg) = seg.seq
  <2>1. /\ seg.flags = {"ACK"} /\ seg.seq = ISN[Client] + 1 /\ seg.ack = ISN[Server] + 1
        /\ seg.payload = <<>>
    BY <1>3 DEF Plain
  <2>2. /\ seg.seq \in Nat /\ seg.ack \in Nat /\ Len(seg.payload) = 0
        /\ "FIN" \notin seg.flags
    BY <1>1, <2>1, EmptySeq, ConnectionAssumption
  <2>3. End(seg) = seg.seq
    BY <2>2 DEF End
  <2>. QED BY <2>1, <2>2, <2>3
<1>8. PICK t : t = [s EXCEPT !.state = "ESTABLISHED", !.send_ack = seg.ack,
                             !.send_seq = seg.ack]
  OBVIOUS
<1>9. /\ t.state = "ESTABLISHED" /\ t.recv_seq = ISN[Client] + 1
      /\ t.send_ack = seg.ack /\ t.send_seq = ISN[Server] + 1 /\ t.valid = {}
  BY <1>6, <1>7, <1>8 DEF Socket
<1>10. r.sock = t /\ r.reply = {}
  <2>1. r = OnSynReceived(s, seg)
    BY <1>3, <1>6 DEF HostReceive, ReceiveSegment
  <2>2. /\ "ACK" \in seg.flags /\ seg.flags \cap {"SYN", "FIN"} = {}
        /\ seg.ack = s.send_seq + 1 /\ seg.seq = s.recv_seq
    BY <1>6, <1>7
  <2>3. BufferPayload(t, seg.seq, seg.payload) = t
    <3>1. Already(t, seg.seq) = 0
      BY <1>7, <1>9 DEF Already
    <3>. QED BY <1>7, <3>1 DEF BufferPayload
  <2>4. r = Ignore(t)
    BY <1>7, <1>8, <2>1, <2>2, <2>3 DEF OnSynReceived
  <2>. QED BY <2>4 DEF Ignore
<1>11. /\ Took(Server, sock[Server])' = End(seg) /\ Gave(Server, sock[Server])' = ISN[Server] + 1
       /\ Took(Client, sock[Client])' = Took(Client, sock[Client])
       /\ Gave(Client, sock[Client])' = Gave(Client, sock[Client])
       /\ Took(Client, sock[Client])' = ISN[Server] + 1
  <2>1. sock[Client].state # "CLOSED"
    BY <1>6 DEF Synchronized
  <2>. QED BY <1>5, <1>6, <1>7, <1>9, <1>10, <2>1 DEF Took, Gave
<1>12. InOrder(Server)'
  <2>1. sock'[Server].send_ack = Head(queue[Server]).ack
    BY <1>4, <1>5, <1>9, <1>10
  <2>. QED BY <1>1, <1>4, <1>5, <1>6, <1>11, <2>1, TakenInOrder
<1>13. InOrder(Client)'
  <2>1. queue'[Client] = <<>>
    BY <1>5, <1>6, <1>10, NoReply, EmptySeq
  <2>2. Run(queue[Client], Took(Client, sock[Client]), Gave(Server, sock[Server]))'
    <3>1. Run(queue'[Client], Took(Client, sock[Client])', Gave(Server, sock[Server])')
      BY <1>11, <2>1, EmptyRun
    <3>. QED BY <3>1 DEF Run, End
  <2>3. Heard(sock[Client], queue[Client], Took(Server, sock[Server]))'
    <3>1. Took(Server, sock[Server])' = s.recv_seq
      BY <1>6, <1>7, <1>11
    <3>. QED BY <1>5, <1>6, <2>1, <3>1 DEF Heard
  <2>. QED BY <1>1, <2>2, <2>3 DEF InOrder
<1>14. BothOpen'
  <2>1. Opened(Client, sock[Client])' /\ Opened(Server, sock[Server])'
    BY <1>5, <1>6, <1>9, <1>10 DEF Opened, Synchronized
  <2>. QED BY <1>1, <1>12, <1>13, <2>1, TwoHosts DEF BothOpen
<1>15. Clean'
  BY <1>1, <1>5, <1>9, <1>10, TwoHosts DEF Clean
<1>. QED BY <1>14, <1>15 DEF Phase

LEMMA FifoInvInit == FifoInit => FifoInv
<1> SUFFICES ASSUME FifoInit PROVE FifoInv
  OBVIOUS
<1>1. \A h \in Hosts : /\ sock[h] = FreeSocket /\ ~closed[h] /\ queue[h] = <<>>
                       /\ sent[h] = 0 /\ MaxStream[h] \in Nat
  BY ConnectionAssumption DEF FifoInit, Init
<1>2. FreeSocket.state = "CLOSED" /\ FreeSocket.valid = {}
  BY DEF FreeSocket
<1>3. Client \in Hosts /\ Server \in Hosts
  BY DEF Hosts
<1>4. Unopened
  BY <1>1, <1>2, <1>3 DEF Unopened, Fresh
<1>5. Clean
  BY <1>1, <1>2 DEF Clean
<1>. QED BY <1>4, <1>5, FifoAgreementInit DEF FifoInv, Phase

LEMMA FifoInvNext ==
  ASSUME Fits, FifoInv, [FifoNext]_fifoVars
  PROVE  FifoInv'
<1>1. AgreementInv /\ QueueInv /\ Clean /\ Phase
  BY DEF FifoInv
<1>2. AgreementInv' /\ QueueInv'
  BY <1>1, FifoAgreementNext
<1>3. TypeOK /\ TypeOK'
  BY <1>1, <1>2 DEF AgreementInv, StreamInv
<1>4. CASE TcpListen /\ UNCHANGED queue
  BY <1>1, <1>2, <1>4, ListenPhase DEF FifoInv
<1>5. CASE FifoConnect
  BY <1>1, <1>2, <1>5, ConnectPhase DEF FifoInv
<1>6. ASSUME NEW h \in Hosts, NEW len \in 1 .. MaxSegment, FifoSend(h, len)
      PROVE  FifoInv'
  BY <1>1, <1>2, <1>3, <1>6, SendPhase DEF FifoInv
<1>7. ASSUME NEW h \in Hosts, NEW max \in 1 .. MaxSegment, TcpRecv(h, max),
             UNCHANGED queue
      PROVE  FifoInv'
  BY <1>1, <1>2, <1>3, <1>7, RecvPhase DEF FifoInv
<1>8. ASSUME NEW h \in Hosts, FifoClose(h) PROVE FifoInv'
  BY <1>1, <1>2, <1>3, <1>8, ClosePhase DEF FifoInv
<1>9. ASSUME NEW h \in Hosts, FifoDeliver(h) PROVE FifoInv'
  <2>1. CASE Unopened
    BY <1>9, <2>1 DEF Unopened, FifoDeliver
  <2>2. CASE Asked
    BY <1>1, <1>2, <1>9, <2>2, DeliverAsked DEF FifoInv
  <2>3. CASE Answered
    BY <1>1, <1>2, <1>9, <2>3, DeliverAnswered DEF FifoInv
  <2>4. CASE HalfOpen
    BY <1>1, <1>2, <1>9, <2>4, DeliverHalf DEF FifoInv
  <2>5. CASE BothOpen
    BY <1>1, <1>2, <1>3, <1>9, <2>5, DeliverBoth DEF FifoInv, Phase
  <2>. QED BY <1>1, <2>1, <2>2, <2>3, <2>4, <2>5 DEF Phase
<1>10. CASE UNCHANGED fifoVars
  <2>1. queue' = queue /\ sock' = sock /\ sent' = sent /\ closed' = closed
    BY <1>10 DEF fifoVars, vars
  <2>2. Phase'
    BY <1>1, <2>1, QuietPhase
  <2>3. Clean'
    BY <1>1, <2>1 DEF Clean
  <2>. QED BY <1>2, <2>2, <2>3 DEF FifoInv
<1>. QED BY <1>4, <1>5, <1>6, <1>7, <1>8, <1>9, <1>10 DEF FifoNext

\* On the ordered path the connection goes through the five phases, the
\* reassembly window stays empty, and what is on its way to a host leads from
\* what it has taken to what its peer has given.
THEOREM OrderedPathInvariant ==
  ASSUME Fits
  PROVE  FifoSpec => []FifoInv
<1>1. FifoInv /\ [FifoNext]_fifoVars => FifoInv'
  BY FifoInvNext
<1>. QED BY <1>1, FifoInvInit, PTL DEF FifoSpec

\* With nothing on its way, an end that has closed has been heard.
LEMMA ClosedIsHeard ==
  ASSUME AgreementInv, BothOpen, NEW h \in Hosts, NEW p \in Hosts, p = Peer(h),
         sock[h].state \in Synchronized, closed[h],
         Took(p, sock[p]) = Gave(h, sock[h])
  PROVE  Eof(p)
<1> DEFINE isn == ISN[h]
           n == sent[h]
           k == Len(read[p])
           d == Len(sock[p].data)
<1>1. /\ Peer(p) = h /\ TypeOK /\ sock[p] \in Socket
      /\ SocketOK(h, sock[h]) /\ SocketOK(p, sock[p])
  BY PeerType, AgreementFacts
<1>2. isn \in Nat /\ n \in Nat /\ k \in Nat /\ d \in Nat
  BY <1>1, HostTypes, SocketTypes
<1>3. Gave(h, sock[h]) = isn + 2 + n
  <2>1. sock[h].state \in FinSent
    BY <1>1 DEF SocketOK, Synchronized, Sending, FinSent
  <2>. QED BY <1>1, <2>1 DEF SocketOK, Gave, FinSent
<1>4. CASE sock[p].state \in Receiving
  <2>1. RecvOK(sock[p], isn + 1, k, n) /\ sock[p].state # "CLOSED"
    BY <1>1, <1>4 DEF SocketOK, Receiving
  <2>2. sock[p].recv_seq = isn + 1 + k + d /\ k + d <= n
    BY <2>1 DEF RecvOK, HoldsStream
  <2>3. sock[p].recv_seq = isn + 2 + n
    BY <1>3, <2>1, OpenSocket
  <2> HIDE DEF isn, n, k, d
  <2>. QED BY <1>2, <2>2, <2>3
<1>5. CASE sock[p].state \notin Receiving
  BY <1>5 DEF BothOpen, Opened, Synchronized, Receiving, Eof, Freed
<1>. QED BY <1>4, <1>5

\* When nothing is on its way both ends agree (QuiescentAgreement): what was
\* sent has been acknowledged and received, and a FIN has been taken.
THEOREM EndsAgreeInOrder ==
  ASSUME Fits
  PROVE  FifoSpec => []QuiescentAgreement
<1>1. FifoInv => QuiescentAgreement
  <2> SUFFICES ASSUME FifoInv, NEW h \in Hosts, queue = [g \in Hosts |-> <<>>],
                      sock[h].state \in Synchronized
               PROVE  /\ sock[Peer(h)].state \in Synchronized =>
                           /\ sock[h].send_seq = sock[Peer(h)].recv_seq
                           /\ sock[h].state = "ESTABLISHED" => sock[h].send_ack = sock[h].send_seq
                      /\ closed[h] => Eof(Peer(h))
    BY DEF QuiescentAgreement
  <2>1. PICK p \in Hosts : p = Peer(h)
    BY PeerType
  <2>2. Peer(p) = h /\ queue[h] = <<>> /\ queue[p] = <<>> /\ AgreementInv
    BY <2>1, PeerType DEF FifoInv
  <2>3. BothOpen
    <3>1. Client \in Hosts /\ Server \in Hosts
      BY DEF Hosts
    <3>. QED BY <3>1, OpenPhase DEF FifoInv, HalfOpen
  <2>4. Run(<<>>, Took(p, sock[p]), Gave(h, sock[h]))
    BY <2>2, <2>3 DEF BothOpen, InOrder
  <2>5. Took(p, sock[p]) = Gave(h, sock[h])
    BY <2>4, EmptyRun
  <2>6. Heard(sock[h], <<>>, Took(p, sock[p]))
    BY <2>1, <2>2, <2>3 DEF BothOpen, InOrder
  <2>7. Gave(h, sock[h]) = sock[h].send_seq
    BY OpenSocket DEF Synchronized
  <2>8. ASSUME sock[p].state \in Synchronized
        PROVE  /\ sock[h].send_seq = sock[p].recv_seq
               /\ sock[h].state = "ESTABLISHED" => sock[h].send_ack = sock[h].send_seq
    <3>1. Took(p, sock[p]) = sock[p].recv_seq
      BY <2>8, OpenSocket DEF Synchronized
    <3>. QED BY <2>5, <2>6, <2>7, <3>1 DEF Heard
  <2>9. closed[h] => Eof(p)
    BY <2>1, <2>2, <2>3, <2>5, ClosedIsHeard
  <2>. QED BY <2>1, <2>8, <2>9
<1>. QED BY <1>1, OrderedPathInvariant, PTL
=============================================================================
