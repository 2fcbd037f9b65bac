---------------------------- MODULE RouterProofs ----------------------------
(***************************************************************************)
(* The packets of any number of routers, for every network and routing      *)
(* table: each is in one place, in transit or in one queue, and the packets *)
(* that wait for an address share its retries.  Almost every step takes a   *)
(* packet out of its place and puts it, or what came of it, in another one; *)
(* Ready says what holds between the two, Placed what holds after.          *)
(*                                                                         *)
(* The scan of the routing table is proved as well, for tables of any       *)
(* length.                                                                  *)
(***************************************************************************)
EXTENDS Router, FiniteSetTheorems, SequenceTheorems, TLAPS

\* The packets of a queue that wait for the same address share its retries.
Shared(queue) ==
  \A i, j \in DOMAIN queue :
    queue[i].ip = queue[j].ip =>
      queue[i].attempts = queue[j].attempts /\ queue[i].wait = queue[j].wait

\* A queue of router r.
QueueOK(r, queue) ==
  /\ queue \in Seq(Pending) /\ Len(queue) <= QueueSize
  /\ \A n \in DOMAIN queue : queue[n].port \in Interfaces(r)
  /\ Shared(queue)

\* Q are the queues of all routers, N the packets in transit.
QueuesOK(Q) == DOMAIN Q = Routers /\ \A r \in Routers : QueueOK(r, Q[r])

Present(Q, N, i) == \/ \E f \in N : f.packet.id = i
                    \/ \E r \in Routers : \E n \in DOMAIN Q[r] : Q[r][n].packet.id = i

\* No packet is in two places.
Single(Q, N) ==
  /\ \A f, g \in N : f.packet.id = g.packet.id => f = g
  /\ \A q, r \in Routers : \A n \in DOMAIN Q[q], k \in DOMAIN Q[r] :
       Q[q][n].packet.id = Q[r][k].packet.id => q = r /\ n = k
  /\ \A f \in N, r \in Routers : \A n \in DOMAIN Q[r] : Q[r][n].packet.id # f.packet.id

\* Packet id has been taken out of its place, and has not yet a new one.
Ready(Q, N, id) ==
  /\ Q = [r \in Routers |-> Q[r]] /\ QueuesOK(Q) /\ N \subseteq InTransit /\ Single(Q, N)
  /\ ~Present(Q, N, id)
  /\ \A i \in Ids \ {id} : fate[i] = "live" <=> Present(Q, N, i)

\* Every packet that is live is in one place.
Placed ==
  /\ pending = [r \in Routers |-> pending[r]] /\ QueuesOK(pending)
  /\ net \subseteq InTransit /\ Single(pending, net)
  /\ fate \in [Ids -> Fates]
  /\ \A i \in Ids : fate[i] = "live" <=> Present(pending, net, i)

\* What the requests and replies are about, and the state but for the packets.
WireOK == wire \subseteq Message /\ \A m \in wire : m.port \in Interfaces(m.router)
ArpTables == UNION {[D -> Vlans] : D \in SUBSET Address}
ArpOK ==
  /\ arp_table \in [Routers -> ArpTables]
  /\ \A r \in Routers : /\ IsFiniteSet(DOMAIN arp_table[r])
                        /\ Cardinality(DOMAIN arp_table[r]) <= TableSize
VlansOK == /\ interface_vlans = [r \in Routers |-> interface_vlans[r]]
           /\ \A r \in Routers : interface_vlans[r] \in [Interfaces(r) -> Vlans]
TablesOK == ArpOK /\ VlansOK
LoopsOK == /\ flushing \in [Routers -> SUBSET Address]
           /\ failing \in [Routers -> SUBSET Address]

RouterInv == Placed /\ WireOK /\ TablesOK /\ LoopsOK

-----------------------------------------------------------------------------
\* Every nonempty set of numbers has a least member.
LEMMA LeastNumber ==
  ASSUME NEW S \in SUBSET Nat, S # {}
  PROVE  \E m \in S : \A n \in S : m <= n
<1>1. PICK R : R = OpToRel(<, Nat)
  OBVIOUS
<1>2. IsWellFoundedOn(R, Nat)
  BY <1>1, NatLessThanWellFounded
<1>3. PICK m \in S : \A n \in S : ~(<<n, m>> \in R)
  BY <1>2, WFMin
<1>4. \A n \in S : ~(n < m)
  BY <1>1, <1>3 DEF OpToRel
<1>. QED BY <1>4

\* The constants that are numbers, and what the queue takes.
LEMMA RouterNumbers ==
  /\ QueueSize \in Nat \ {0} /\ TableSize \in Nat \ {0} /\ MaxAttempts \in Nat \ {0}
  /\ Interval \in Nat \ {0} /\ DefaultTtl \in Nat \ {0} /\ MaxPackets \in Nat
BY RouterAssumption

LEMMA QueueTypes ==
  ASSUME NEW r, NEW queue, QueueOK(r, queue)
  PROVE  /\ Len(queue) \in Nat /\ DOMAIN queue = 1 .. Len(queue)
         /\ \A n \in 1 .. Len(queue) :
              /\ queue[n] \in Pending /\ queue[n].packet \in Packet
              /\ queue[n].ip \in Address /\ queue[n].packet.id \in Ids
              /\ queue[n].attempts \in Nat /\ queue[n].wait \in Nat
              /\ queue[n].port \in Interfaces(r)
<1>1. queue \in Seq(Pending) /\ \A n \in DOMAIN queue : queue[n].port \in Interfaces(r)
  BY DEF QueueOK
<1>2. Len(queue) \in Nat /\ DOMAIN queue = 1 .. Len(queue)
      /\ queue \in [1 .. Len(queue) -> Pending]
  BY <1>1, LenProperties
<1>. QED BY <1>1, <1>2 DEF Pending, Packet

\* The first packet that waits for an address is one of those that do.
LEMMA FirstForType ==
  ASSUME NEW r, NEW queue, QueueOK(r, queue), NEW a
  PROVE  \/ FirstFor(queue, a) = 0 /\ \A n \in DOMAIN queue : queue[n].ip # a
         \/ FirstFor(queue, a) \in 1 .. Len(queue) /\ queue[FirstFor(queue, a)].ip = a
<1> DEFINE I == {i \in 1 .. Len(queue) : queue[i].ip = a}
<1>1. FirstFor(queue, a) = IF I # {} THEN CHOOSE i \in I : \A j \in I : i =< j ELSE 0
  BY DEF FirstFor, SelectInSeq, Min
<1>2. DOMAIN queue = 1 .. Len(queue) /\ Len(queue) \in Nat
  BY QueueTypes
<1>3. CASE I = {}
  BY <1>1, <1>2, <1>3
<1>4. CASE I # {}
  <2>1. \E i \in I : \A j \in I : i <= j
    <3>1. I \in SUBSET Nat
      BY <1>2
    <3> HIDE DEF I
    <3>. QED BY <1>4, <3>1, LeastNumber
  <2>2. FirstFor(queue, a) \in I
    BY <1>1, <1>4, <2>1
  <2>. QED BY <2>2
<1>. QED BY <1>3, <1>4

LEMMA FirstDueType ==
  ASSUME NEW r, QueueOK(r, pending[r])
  PROVE  \/ FirstDue(r) = 0 /\ \A n \in DOMAIN pending[r] : ~(pending[r][n].wait >= Interval)
         \/ FirstDue(r) \in 1 .. Len(pending[r]) /\ pending[r][FirstDue(r)].wait >= Interval
<1> DEFINE I == {i \in 1 .. Len(pending[r]) : pending[r][i].wait >= Interval}
<1>1. FirstDue(r) = IF I # {} THEN CHOOSE i \in I : \A j \in I : i =< j ELSE 0
  BY DEF FirstDue, SelectInSeq, Min
<1>2. DOMAIN pending[r] = 1 .. Len(pending[r]) /\ Len(pending[r]) \in Nat
  BY QueueTypes
<1>3. CASE I = {}
  BY <1>1, <1>2, <1>3
<1>4. CASE I # {}
  <2>1. \E i \in I : \A j \in I : i <= j
    <3>1. I \in SUBSET Nat
      BY <1>2
    <3> HIDE DEF I
    <3>. QED BY <1>4, <3>1, LeastNumber
  <2>2. FirstDue(r) \in I
    BY <1>1, <1>4, <2>1
  <2>. QED BY <2>2
<1>. QED BY <1>3, <1>4

\* A queue without its packet number i.
LEMMA RemoveProperties ==
  ASSUME NEW r, NEW queue, QueueOK(r, queue), NEW i \in 1 .. Len(queue)
  PROVE  LET rest == RemoveAt(queue, i)
         IN /\ QueueOK(r, rest) /\ Len(rest) = Len(queue) - 1
            /\ \A n \in DOMAIN rest : rest[n] = queue[IF n < i THEN n ELSE n + 1]
<1> DEFINE front == SubSeq(queue, 1, i - 1)
           back == SubSeq(queue, i + 1, Len(queue))
           rest == RemoveAt(queue, i)
<1>1. PICK len : len = Len(queue)
  OBVIOUS
<1>2. /\ len \in Nat /\ i \in 1 .. len /\ DOMAIN queue = 1 .. len
      /\ \A n \in 1 .. len : queue[n] \in Pending /\ queue[n].port \in Interfaces(r)
  BY <1>1, QueueTypes
<1>3. /\ front \in Seq(Pending) /\ Len(front) = i - 1
      /\ \A n \in 1 .. i - 1 : front[n] = queue[n]
  <2>1. /\ front \in Seq(Pending) /\ Len(front) = IF 1 <= i - 1 THEN (i - 1) - 1 + 1 ELSE 0
        /\ \A n \in 1 .. (i - 1) - 1 + 1 : front[n] = queue[1 + n - 1]
    BY <1>2, SubSeqProperties
  <2> HIDE DEF front
  <2>. QED BY <1>2, <2>1
<1>4. /\ back \in Seq(Pending) /\ Len(back) = len - i
      /\ \A n \in 1 .. len - i : back[n] = queue[i + n]
  <2>1. /\ back \in Seq(Pending) /\ Len(back) = IF i + 1 <= len THEN len - (i + 1) + 1 ELSE 0
        /\ \A n \in 1 .. len - (i + 1) + 1 : back[n] = queue[(i + 1) + n - 1]
    BY <1>1, <1>2, SubSeqProperties
  <2> HIDE DEF back
  <2>. QED BY <1>2, <2>1
<1>5. rest = front \o back
  BY DEF RemoveAt
<1> HIDE DEF front, back, rest
<1>6. /\ rest \in Seq(Pending) /\ Len(rest) = Len(front) + Len(back)
      /\ \A n \in 1 .. Len(front) + Len(back) :
           rest[n] = IF n <= Len(front) THEN front[n] ELSE back[n - Len(front)]
  BY <1>3, <1>4, <1>5, ConcatProperties
<1>7. Len(rest) = len - 1 /\ DOMAIN rest = 1 .. len - 1
  <2>1. DOMAIN rest = 1 .. Len(rest)
    BY <1>6, LenProperties
  <2>. QED BY <1>2, <1>3, <1>4, <1>6, <2>1
<1>8. \A n \in 1 .. len - 1 : rest[n] = queue[IF n < i THEN n ELSE n + 1]
  <2> TAKE n \in 1 .. len - 1
  <2>1. CASE n < i
    BY <1>2, <1>3, <1>4, <1>6, <2>1
  <2>2. CASE ~(n < i)
    <3>1. n - (i - 1) \in 1 .. len - i /\ i + (n - (i - 1)) = n + 1
      BY <1>2, <2>2
    <3>2. rest[n] = back[n - (i - 1)]
      BY <1>2, <1>3, <1>4, <1>6, <2>2
    <3>. QED BY <1>4, <2>2, <3>1, <3>2
  <2>. QED BY <2>1, <2>2
<1>9. \A n \in 1 .. len - 1 : (IF n < i THEN n ELSE n + 1) \in 1 .. len
  BY <1>2
<1>10. Shared(rest)
  <2>1. \A n, k \in 1 .. len : queue[n].ip = queue[k].ip =>
          queue[n].attempts = queue[k].attempts /\ queue[n].wait = queue[k].wait
    BY <1>2 DEF QueueOK, Shared
  <2>2. \A n \in 1 .. len - 1 : \E k \in 1 .. len : rest[n] = queue[k]
    BY <1>8, <1>9
  <2>3. ASSUME NEW n \in 1 .. len - 1, NEW k \in 1 .. len - 1, rest[n].ip = rest[k].ip
        PROVE  rest[n].attempts = rest[k].attempts /\ rest[n].wait = rest[k].wait
    BY <2>1, <2>2, <2>3
  <2>. QED BY <1>7, <2>3 DEF Shared
<1>11. QueueOK(r, rest)
  <2>1. len <= QueueSize
    BY <1>1 DEF QueueOK
  <2>2. \A n \in 1 .. len - 1 : rest[n].port \in Interfaces(r)
    BY <1>2, <1>8, <1>9
  <2>. QED BY <1>2, <1>6, <1>7, <1>10, <2>1, <2>2, RouterNumbers DEF QueueOK
<1>. QED BY <1>1, <1>7, <1>8, <1>11 DEF rest

\* A packet that comes into transit.
LEMMA AddToNet ==
  ASSUME NEW Q, NEW N, NEW id, Ready(Q, N, id), NEW f \in InTransit, f.packet.id = id
  PROVE  /\ Single(Q, N \cup {f}) /\ N \cup {f} \subseteq InTransit
         /\ Present(Q, N \cup {f}, id)
         /\ \A i : i # id => (Present(Q, N \cup {f}, i) <=> Present(Q, N, i))
<1>1. Single(Q, N) /\ ~Present(Q, N, id) /\ N \subseteq InTransit
  BY DEF Ready
<1>2. /\ \A g \in N : g.packet.id # id
      /\ \A r \in Routers : \A n \in DOMAIN Q[r] : Q[r][n].packet.id # id
  BY <1>1 DEF Present
<1>. QED BY <1>1, <1>2 DEF Single, Present

\* A packet that comes into a queue.
LEMMA AddToQueue ==
  ASSUME NEW Q, NEW N, NEW id, Ready(Q, N, id), NEW r \in Routers,
         NEW x \in Pending, x.packet.id = id, QueueOK(r, Append(Q[r], x)),
         NEW P, P = [Q EXCEPT ![r] = Append(Q[r], x)]
  PROVE  /\ P = [q \in Routers |-> P[q]] /\ QueuesOK(P) /\ Single(P, N)
         /\ Present(P, N, id)
         /\ \A i : i # id => (Present(P, N, i) <=> Present(Q, N, i))
<1>1. PICK old, len : old = Q[r] /\ len = Len(old)
  OBVIOUS
<1>2. /\ Q = [q \in Routers |-> Q[q]] /\ QueuesOK(Q) /\ Single(Q, N) /\ ~Present(Q, N, id)
  BY DEF Ready
<1>3. QueueOK(r, old) /\ old \in Seq(Pending) /\ len \in Nat /\ DOMAIN old = 1 .. len
  BY <1>1, <1>2, QueueTypes DEF QueuesOK, QueueOK
<1>4. PICK new : new = Append(old, x)
  OBVIOUS
<1>5. /\ new \in Seq(Pending) /\ DOMAIN new = 1 .. len + 1 /\ new[len + 1] = x
      /\ \A n \in 1 .. len : new[n] = old[n]
  BY <1>1, <1>3, <1>4, AppendProperties, LenProperties
<1>6. P[r] = new /\ DOMAIN P = Routers /\ \A q \in Routers \ {r} : P[q] = Q[q]
  BY <1>1, <1>2, <1>4
<1>7. P = [q \in Routers |-> P[q]]
  BY <1>2
<1>8. QueuesOK(P)
  BY <1>1, <1>2, <1>4, <1>6 DEF QueuesOK
<1>9. /\ \A q \in Routers : \A n \in DOMAIN Q[q] : Q[q][n].packet.id # id
      /\ \A f \in N : f.packet.id # id
  BY <1>2 DEF Present
<1>10. \A q \in Routers : \A n \in DOMAIN P[q] :
         \/ q = r /\ n = len + 1 /\ P[q][n] = x
         \/ n \in DOMAIN Q[q] /\ P[q][n] = Q[q][n]
  BY <1>1, <1>3, <1>5, <1>6
<1>11. Single(P, N)
  BY <1>2, <1>9, <1>10 DEF Single
<1>12. Present(P, N, id)
  BY <1>3, <1>5, <1>6 DEF Present
<1>13. \A q \in Routers : \A n \in DOMAIN Q[q] : n \in DOMAIN P[q] /\ P[q][n] = Q[q][n]
  BY <1>1, <1>3, <1>5, <1>6
<1>14. \A i : i # id => (Present(P, N, i) <=> Present(Q, N, i))
  BY <1>10, <1>13 DEF Present
<1>. QED BY <1>7, <1>8, <1>11, <1>12, <1>14

\* A packet that has been taken out gets its new place, or its end.
LEMMA Settle ==
  ASSUME NEW Q, NEW N, NEW id \in Ids, Ready(Q, N, id), fate \in [Ids -> Fates],
         NEW P, NEW T, pending' = P, net' = T,
         P = [r \in Routers |-> P[r]], QueuesOK(P), T \subseteq InTransit, Single(P, T),
         \A i : i # id => (Present(P, T, i) <=> Present(Q, N, i)),
         NEW v \in Fates, fate' = [fate EXCEPT ![id] = v], v = "live" <=> Present(P, T, id)
  PROVE  Placed'
<1>1. \A i \in Ids \ {id} : fate[i] = "live" <=> Present(P, T, i)
  BY DEF Ready
<1>2. fate' \in [Ids -> Fates] /\ fate'[id] = v
      /\ \A i \in Ids \ {id} : fate'[i] = fate[i]
  OBVIOUS
<1>3. \A i \in Ids : fate'[i] = "live" <=> Present(P, T, i)
  BY <1>1, <1>2
<1>. QED BY <1>2, <1>3 DEF Placed

\* The packet of a frame that has come.
LEMMA TakeFromNet ==
  ASSUME Placed, NEW f \in net
  PROVE  Ready(pending, net \ {f}, f.packet.id) /\ f \in InTransit /\ f.packet.id \in Ids
<1>1. f \in InTransit /\ f.packet.id \in Ids
  BY DEF Placed, InTransit, Packet
<1>2. Single(pending, net) /\ pending = [r \in Routers |-> pending[r]]
      /\ QueuesOK(pending) /\ net \ {f} \subseteq InTransit
  BY DEF Placed
<1>3. Single(pending, net \ {f}) /\ ~Present(pending, net \ {f}, f.packet.id)
  BY <1>2 DEF Single, Present
<1>4. ASSUME NEW i \in Ids \ {f.packet.id}
      PROVE  fate[i] = "live" <=> Present(pending, net \ {f}, i)
  <2>1. fate[i] = "live" <=> Present(pending, net, i)
    BY DEF Placed
  <2>2. Present(pending, net, i) <=> Present(pending, net \ {f}, i)
    BY DEF Present
  <2>. QED BY <2>1, <2>2
<1>. QED BY <1>1, <1>2, <1>3, <1>4 DEF Ready

\* A packet that is taken out of its queue.
LEMMA TakeFromQueue ==
  ASSUME Placed, NEW r \in Routers, NEW i \in 1 .. Len(pending[r])
  PROVE  Ready([pending EXCEPT ![r] = RemoveAt(pending[r], i)], net, pending[r][i].packet.id)
<1>1. PICK Q, N, old : Q = pending /\ N = net /\ old = Q[r]
  OBVIOUS
<1>2. PICK rest, P, len, id : /\ rest = RemoveAt(old, i) /\ P = [Q EXCEPT ![r] = rest]
                              /\ len = Len(old) /\ id = old[i].packet.id
  OBVIOUS
<1>3. /\ Single(Q, N) /\ Q = [q \in Routers |-> Q[q]] /\ QueuesOK(Q)
      /\ N \subseteq InTransit /\ QueueOK(r, old)
  BY <1>1 DEF Placed, QueuesOK
<1>4. /\ len \in Nat /\ i \in 1 .. len /\ DOMAIN old = 1 .. len
      /\ QueueOK(r, rest) /\ Len(rest) = len - 1
      /\ \A n \in DOMAIN rest : rest[n] = old[IF n < i THEN n ELSE n + 1]
  <2>1. i \in 1 .. Len(old) /\ Len(old) \in Nat /\ DOMAIN old = 1 .. Len(old)
    BY <1>1, <1>3, QueueTypes
  <2>2. /\ QueueOK(r, RemoveAt(old, i)) /\ Len(RemoveAt(old, i)) = Len(old) - 1
        /\ \A n \in DOMAIN RemoveAt(old, i) :
             RemoveAt(old, i)[n] = old[IF n < i THEN n ELSE n + 1]
    BY <1>3, <2>1, RemoveProperties
  <2>. QED BY <1>2, <2>1, <2>2
<1>5. DOMAIN rest = 1 .. len - 1
  BY <1>4, QueueTypes
<1>6. P[r] = rest /\ DOMAIN P = Routers /\ \A q \in Routers \ {r} : P[q] = Q[q]
  BY <1>2, <1>3
<1>7. P = [q \in Routers |-> P[q]] /\ QueuesOK(P)
  BY <1>2, <1>3, <1>4, <1>6 DEF QueuesOK
<1>8. \A n \in 1 .. len - 1 :
        LET k == IF n < i THEN n ELSE n + 1
        IN k \in 1 .. len /\ k # i /\ rest[n] = old[k]
  BY <1>4, <1>5
<1>9. \A k \in 1 .. len : k # i =>
        LET n == IF k < i THEN k ELSE k - 1
        IN n \in 1 .. len - 1 /\ rest[n] = old[k]
  BY <1>4, <1>5
<1>10. \A k, n \in 1 .. len : old[k].packet.id = old[n].packet.id => k = n
  BY <1>1, <1>3, <1>4 DEF Single
<1>11. \A m, n \in 1 .. len - 1 : rest[m].packet.id = rest[n].packet.id => m = n
  <2> TAKE m, n \in 1 .. len - 1
  <2>1. HAVE rest[m].packet.id = rest[n].packet.id
  <2>2. PICK j, k : /\ j = IF m < i THEN m ELSE m + 1
                    /\ k = IF n < i THEN n ELSE n + 1
    OBVIOUS
  <2>3. j \in 1 .. len /\ k \in 1 .. len /\ rest[m] = old[j] /\ rest[n] = old[k]
    BY <1>8, <2>2
  <2>4. j = k
    BY <1>10, <2>1, <2>3
  <2>. QED BY <1>4, <2>2, <2>4
<1>12. \A n \in 1 .. len - 1 : \E k \in 1 .. len : k # i /\ rest[n] = old[k]
  BY <1>8
<1>13. \A q \in Routers : \A n \in DOMAIN P[q] : \E k \in DOMAIN Q[q] :
         /\ P[q][n] = Q[q][k] /\ ~(q = r /\ k = i)
         /\ q # r => k = n
  BY <1>1, <1>4, <1>5, <1>6, <1>12
<1>14. Single(P, N)
  <2>1. \A f, g \in N : f.packet.id = g.packet.id => f = g
    BY <1>3 DEF Single
  <2>2. \A f \in N, q \in Routers : \A n \in DOMAIN P[q] : P[q][n].packet.id # f.packet.id
    BY <1>3, <1>13 DEF Single
  <2>3. ASSUME NEW q \in Routers, NEW s \in Routers, NEW n \in DOMAIN P[q],
               NEW k \in DOMAIN P[s], P[q][n].packet.id = P[s][k].packet.id
        PROVE  q = s /\ n = k
    <3>1. q = s
      BY <1>3, <1>13, <2>3 DEF Single
    <3>2. CASE q = r
      BY <1>5, <1>6, <1>11, <2>3, <3>1, <3>2
    <3>3. CASE q # r
      BY <1>3, <1>6, <2>3, <3>1, <3>3 DEF Single
    <3>. QED BY <3>1, <3>2, <3>3
  <2>. QED BY <2>1, <2>2, <2>3 DEF Single
<1>15. ~Present(P, N, id)
  <2>1. old[i] = Q[r][i] /\ i \in DOMAIN Q[r] /\ id = Q[r][i].packet.id
    BY <1>1, <1>2, <1>4
  <2>. QED BY <1>3, <1>13, <2>1 DEF Present, Single
<1>16. ASSUME NEW j \in Ids \ {id}
       PROVE  fate[j] = "live" <=> Present(P, N, j)
  <2>1. fate[j] = "live" <=> Present(Q, N, j)
    BY <1>1 DEF Placed
  <2>2. Present(P, N, j) => Present(Q, N, j)
    BY <1>13 DEF Present
  <2>3. \A q \in Routers : \A k \in DOMAIN Q[q] :
          Q[q][k].packet.id = j => \E n \in DOMAIN P[q] : P[q][n].packet.id = j
    <3> TAKE q \in Routers
    <3> TAKE k \in DOMAIN Q[q]
    <3>1. HAVE Q[q][k].packet.id = j
    <3>2. CASE q = r
      <4>1. k \in 1 .. len /\ k # i
        BY <1>1, <1>2, <1>4, <3>1, <3>2
      <4>2. PICK n \in 1 .. len - 1 : rest[n] = old[k]
        BY <1>9, <4>1
      <4>. QED BY <1>1, <1>5, <1>6, <3>1, <3>2, <4>2
    <3>3. CASE q # r
      BY <1>6, <3>1, <3>3
    <3>. QED BY <3>2, <3>3
  <2>4. Present(Q, N, j) => Present(P, N, j)
    BY <2>3 DEF Present
  <2>. QED BY <2>1, <2>2, <2>4
<1>. QED BY <1>1, <1>2, <1>3, <1>7, <1>14, <1>15, <1>16 DEF Ready

-----------------------------------------------------------------------------
(***************************************************************************)
(* The scan of the routing table, which the module writes as a recursive    *)
(* function.  That there is one, and what it finds, is shown by the least   *)
(* counterexample.                                                          *)
(***************************************************************************)
ScanNext(table, a, n, b) ==
  IF Matches(table[n], a) /\ (b = 0 \/ table[n].prefix > table[b].prefix) THEN n ELSE b

IsScan(table, a, m, f) ==
  f = [n \in 0 .. m |-> IF n = 0 THEN 0 ELSE ScanNext(table, a, n, f[n - 1])]

\* The route with number b is the first of the longest among the first n, or
\* none of those covers a and b is 0.
FirstLongest(table, a, n, b) ==
  \/ b = 0 /\ \A i \in 1 .. n : ~Matches(table[i], a)
  \/ /\ b \in 1 .. n /\ Matches(table[b], a)
     /\ \A i \in 1 .. n : Matches(table[i], a) =>
          /\ table[i].prefix <= table[b].prefix
          /\ table[i].prefix = table[b].prefix => b <= i

LEMMA ScanExists ==
  ASSUME NEW table, NEW a, NEW len \in Nat
  PROVE  \E f : IsScan(table, a, len, f)
<1> DEFINE S == {m \in Nat : \A f : ~IsScan(table, a, m, f)}
<1>1. SUFFICES ASSUME S # {} PROVE FALSE
  OBVIOUS
<1>2. PICK m \in S : \A n \in S : m <= n
  <2>1. S \in SUBSET Nat
    OBVIOUS
  <2> HIDE DEF S
  <2>. QED BY <1>1, <2>1, LeastNumber
<1>3. m \in Nat /\ \A f : ~IsScan(table, a, m, f)
  OBVIOUS
<1>4. CASE m = 0
  <2>1. PICK f : f = [n \in 0 .. 0 |-> 0]
    OBVIOUS
  <2>2. \A n \in 0 .. 0 : n = 0
    OBVIOUS
  <2>3. IsScan(table, a, 0, f)
    BY <2>1, <2>2 DEF IsScan
  <2>. QED BY <1>3, <1>4, <2>3
<1>5. CASE m # 0
  <2>1. m - 1 \in Nat /\ m - 1 \notin S
    BY <1>2, <1>3, <1>5
  <2>2. PICK f : IsScan(table, a, m - 1, f)
    BY <2>1
  <2>3. PICK g : g = [n \in 0 .. m |-> IF n = m THEN ScanNext(table, a, m, f[m - 1]) ELSE f[n]]
    OBVIOUS
  <2>4. \A n \in 0 .. m - 1 : g[n] = f[n]
    BY <1>3, <2>3
  <2>5. ASSUME NEW n \in 0 .. m
        PROVE  g[n] = IF n = 0 THEN 0 ELSE ScanNext(table, a, n, g[n - 1])
    <3>1. CASE n = m
      <4>1. n # 0 /\ g[n] = ScanNext(table, a, n, f[n - 1]) /\ n - 1 \in 0 .. m - 1
        BY <1>3, <1>5, <2>3, <3>1
      <4>. QED BY <2>4, <4>1
    <3>2. CASE n # m
      <4>1. n \in 0 .. m - 1 /\ (n # 0 => n - 1 \in 0 .. m - 1)
        BY <1>3, <3>2
      <4>2. f[n] = IF n = 0 THEN 0 ELSE ScanNext(table, a, n, f[n - 1])
        BY <2>2, <4>1 DEF IsScan
      <4>. QED BY <2>4, <4>1, <4>2
    <3>. QED BY <3>1, <3>2
  <2>6. g = [n \in 0 .. m |-> g[n]]
    BY <2>3
  <2>7. IsScan(table, a, m, g)
    BY <2>5, <2>6 DEF IsScan
  <2>. QED BY <1>3, <2>7
<1>. QED BY <1>4, <1>5

\* The scan of a table finds the first of the longest routes.
LEMMA ScanFinds ==
  ASSUME NEW table \in Seq(Entry), NEW a, NEW f, IsScan(table, a, Len(table), f)
  PROVE  FirstLongest(table, a, Len(table), f[Len(table)])
<1>1. PICK len : len = Len(table)
  OBVIOUS
<1>2. len \in Nat /\ \A n \in 1 .. len : table[n].prefix \in Int
  <2>1. Bits \in Nat
    BY RoutesAssumption
  <2>2. len \in Nat /\ \A n \in 1 .. len : table[n] \in Entry
    BY <1>1, LenProperties, ElementOfSeq
  <2>. QED BY <2>1, <2>2 DEF Entry, PrefixLengths
<1>3. /\ f[0] = 0
      /\ \A n \in 1 .. len : f[n] = ScanNext(table, a, n, f[n - 1])
  BY <1>1, <1>2 DEF IsScan
<1> DEFINE S == {n \in 0 .. len : ~FirstLongest(table, a, n, f[n])}
<1>4. S = {}
  <2>1. SUFFICES ASSUME S # {} PROVE FALSE
    OBVIOUS
  <2>2. PICK n \in S : \A k \in S : n <= k
    <3>1. S \in SUBSET Nat
      BY <1>2
    <3> HIDE DEF S
    <3>. QED BY <2>1, <3>1, LeastNumber
  <2>3. n \in 0 .. len /\ ~FirstLongest(table, a, n, f[n])
    OBVIOUS
  <2>4. n # 0
    BY <1>3, <2>3 DEF FirstLongest
  <2>5. n - 1 \in 0 .. len /\ n - 1 \notin S /\ n \in 1 .. len
    BY <1>2, <2>2, <2>3, <2>4
  <2>6. FirstLongest(table, a, n - 1, f[n - 1])
    BY <2>5
  <2>7. PICK b : b = f[n - 1]
    OBVIOUS
  <2> HIDE DEF S
  <2>8. \A i \in 1 .. n : i \in 1 .. n - 1 \/ i = n
    BY <1>2, <2>5
  <2>9. CASE Matches(table[n], a) /\ (b = 0 \/ table[n].prefix > table[b].prefix)
    <3>1. f[n] = n
      BY <1>3, <2>5, <2>7, <2>9 DEF ScanNext
    <3>2. ASSUME NEW i \in 1 .. n - 1, Matches(table[i], a)
          PROVE  table[i].prefix < table[n].prefix
      <4>1. b \in 1 .. n - 1 /\ table[i].prefix <= table[b].prefix
        BY <2>6, <2>7, <3>2 DEF FirstLongest
      <4>2. i \in 1 .. len /\ b \in 1 .. len /\ b # 0
        BY <1>2, <2>5, <4>1
      <4>. QED BY <1>2, <2>5, <2>9, <4>1, <4>2
    <3>3. FirstLongest(table, a, n, n)
      BY <1>2, <2>5, <2>8, <2>9, <3>2 DEF FirstLongest
    <3>. QED BY <2>3, <3>1, <3>3
  <2>10. CASE ~(Matches(table[n], a) /\ (b = 0 \/ table[n].prefix > table[b].prefix))
    <3>1. f[n] = b
      BY <1>3, <2>5, <2>7, <2>10 DEF ScanNext
    <3>2. CASE b = 0
      BY <2>3, <2>5, <2>6, <2>7, <2>8, <2>10, <3>1, <3>2 DEF FirstLongest
    <3>3. CASE b # 0
      <4>1. b \in 1 .. n - 1 /\ Matches(table[b], a)
            /\ \A i \in 1 .. n - 1 : Matches(table[i], a) =>
                 /\ table[i].prefix <= table[b].prefix
                 /\ table[i].prefix = table[b].prefix => b <= i
        BY <2>6, <2>7, <3>3 DEF FirstLongest
      <4>2. b \in 1 .. n /\ b <= n /\ b \in 1 .. len
        BY <1>2, <2>5, <4>1
      <4>3. Matches(table[n], a) => table[n].prefix <= table[b].prefix
        BY <1>2, <2>5, <2>10, <3>3, <4>2
      <4>4. FirstLongest(table, a, n, b)
        BY <2>8, <4>1, <4>2, <4>3 DEF FirstLongest
      <4>. QED BY <2>3, <3>1, <4>4
    <3>. QED BY <3>2, <3>3
  <2>. QED BY <2>9, <2>10
<1>. QED BY <1>1, <1>2, <1>4

\* router_lookup_route finds, for every table and every address, the first of
\* the routes with the longest prefix among those whose masked destination is
\* the masked address, and none only if there is none.
THEOREM LookupFindsLongest ==
  ASSUME NEW table \in Seq(Entry), NEW a
  PROVE  FirstLongest(table, a, Len(table), Lookup(table, a))
<1> DEFINE scan == CHOOSE f : IsScan(table, a, Len(table), f)
<1>1. Len(table) \in Nat
  BY LenProperties
<1>2. IsScan(table, a, Len(table), scan)
  BY <1>1, ScanExists
<1>3. Lookup(table, a) = scan[Len(table)]
  BY DEF Lookup, IsScan, ScanNext
<1> HIDE DEF scan
<1>. QED BY <1>2, <1>3, ScanFinds

LEMMA LookupIndex ==
  ASSUME NEW table \in Seq(Entry), NEW a
  PROVE  Lookup(table, a) \in 0 .. Len(table)
<1>1. Len(table) \in Nat
  BY LenProperties
<1>. QED BY <1>1, LookupFindsLongest DEF FirstLongest

-----------------------------------------------------------------------------
\* What a route says.  Route numbers are indexes of the table (LookupIndex).
LEMMA RouteTypes ==
  ASSUME NEW r \in Routers, NEW a \in Address, HasRoute(r, a)
  PROVE  NextHop(r, a) \in Address /\ OutPort(r, a) \in Interfaces(r)
<1>1. PICK i : i = Route[r][a]
  OBVIOUS
<1>2. Route[r][a] = Lookup(Table[r], a)
  BY DEF Route
<1>3. Table[r] \in Seq(Entry)
  BY RouterAssumption
<1>4. i \in 1 .. Len(Table[r]) /\ DOMAIN Table[r] = 1 .. Len(Table[r])
  BY <1>1, <1>2, <1>3, LookupIndex, LenProperties DEF HasRoute
<1>5. Table[r][i] \in Entry
  BY <1>3, <1>4, ElementOfSeq
<1>6. Table[r][i].port \in Interfaces(r)
  BY <1>4, NetworkAssumption
<1>. QED BY <1>1, <1>5, <1>6 DEF NextHop, OutPort, Entry

\* An address on an interface.
LEMMA InterfaceTypes ==
  ASSUME NEW r \in Routers, NEW s \in Interfaces(r)
  PROVE  InterfaceIp[r][s] \in Address /\ s \in Segments
BY RouterAssumption, NetworkAssumption

\* The VLAN for an address is one that there is.
LEMMA VlanForType ==
  ASSUME TablesOK, NEW r \in Routers, NEW a, NEW s \in Interfaces(r)
  PROVE  VlanFor(r, a, s) \in Vlans
<1>1. /\ arp_table[r] \in ArpTables
      /\ interface_vlans[r] \in [Interfaces(r) -> Vlans]
  BY DEF TablesOK, ArpOK, VlansOK
<1>2. PICK D \in SUBSET Address : arp_table[r] \in [D -> Vlans]
  BY <1>1 DEF ArpTables
<1>3. Knows(r, a) => arp_table[r][a] \in Vlans
  BY <1>2 DEF Knows
<1>. QED BY <1>1, <1>3 DEF VlanFor

\* A request of a router is about one of its interfaces.
LEMMA RequestsOK ==
  ASSUME WireOK, NEW r \in Routers, NEW s \in Interfaces(r), NEW a \in Address, NEW v \in Vlans
  PROVE  LET w == wire \cup Requests(r, s, a, v)
         IN w \subseteq Message /\ \A m \in w : m.port \in Interfaces(m.router)
<1>1. \A m \in Requests(r, s, a, v) : m \in Message /\ m.port \in Interfaces(m.router)
  BY InterfaceTypes DEF Requests, Message
<1>. QED BY <1>1 DEF WireOK

\* The packet comes to the only router that has the address, or is delivered.
LEMMA EmitPlaced ==
  ASSUME NEW Q, NEW transit, NEW p \in Packet, Ready(Q, transit, p.id), fate \in [Ids -> Fates],
         pending' = Q, NEW a, NEW s \in Segments, NEW v \in Vlans, Emit(p, a, s, v, transit)
  PROVE  Placed'
<1> DEFINE routers == {x \in Routers : s \in Interfaces(x) /\ a \in OwnIps(x) /\ v = 0}
           stations == {st \in Stations : StationIp[st] = a /\ Segment[st] = s /\ Vlan[st] = v}
           new == {[to |-> x, port |-> s, vlan |-> v, packet |-> p] : x \in routers}
           end == IF routers # {} THEN "live" ELSE IF stations # {} THEN "delivered" ELSE "astray"
<1>1. net' = transit \cup new /\ fate' = [fate EXCEPT ![p.id] = end]
  BY DEF Emit
<1>2. p.id \in Ids
  BY DEF Packet
<1>3. /\ Q = [r \in Routers |-> Q[r]] /\ QueuesOK(Q) /\ Single(Q, transit)
      /\ transit \subseteq InTransit /\ ~Present(Q, transit, p.id)
  BY DEF Ready
<1>4. end \in Fates
  BY DEF Fates
<1>5. CASE routers = {}
  <2>1. net' = transit /\ end # "live"
    BY <1>1, <1>5
  <2> HIDE DEF routers, stations, new, end
  <2>. QED BY <1>1, <1>2, <1>3, <1>4, <2>1, Settle
<1>6. CASE routers # {}
  <2>1. PICK x \in routers : TRUE
    BY <1>6
  <2>2. \A y \in routers : y = x
    BY <2>1, DistinctAssumption
  <2>3. PICK f : f = [to |-> x, port |-> s, vlan |-> v, packet |-> p]
    OBVIOUS
  <2>4. f \in InTransit /\ f.packet.id = p.id
    BY <2>1, <2>3 DEF InTransit
  <2>5. net' = transit \cup {f} /\ end = "live"
    BY <1>1, <1>6, <2>1, <2>2, <2>3
  <2> HIDE DEF routers, stations, new, end
  <2>6. /\ Single(Q, net') /\ net' \subseteq InTransit /\ Present(Q, net', p.id)
        /\ \A i : i # p.id => (Present(Q, net', i) <=> Present(Q, transit, i))
    BY <2>4, <2>5, AddToNet
  <2>. QED BY <1>1, <1>2, <1>3, <1>4, <2>5, <2>6, Settle
<1>. QED BY <1>5, <1>6

\* A packet is dropped.
LEMMA DropPlaced ==
  ASSUME NEW r \in Routers, NEW queue, NEW transit, NEW p \in Packet,
         Ready([pending EXCEPT ![r] = queue], transit, p.id),
         fate \in [Ids -> Fates], Drop(r, p, queue, transit)
  PROVE  Placed' /\ wire' = wire
<1>1. PICK Q : Q = [pending EXCEPT ![r] = queue]
  OBVIOUS
<1>2. /\ Ready(Q, transit, p.id) /\ pending' = Q /\ net' = transit
      /\ fate' = [fate EXCEPT ![p.id] = "dropped"] /\ wire' = wire
  BY <1>1 DEF Drop
<1>3. /\ Q = [q \in Routers |-> Q[q]] /\ QueuesOK(Q) /\ Single(Q, transit)
      /\ transit \subseteq InTransit /\ ~Present(Q, transit, p.id)
  BY <1>2 DEF Ready
<1>4. p.id \in Ids /\ "dropped" \in Fates
  BY DEF Packet, Fates
<1>. QED BY <1>2, <1>3, <1>4, Settle, ZenonT(30)

\* A packet that is queued shares the retries of those that wait already.
LEMMA QueuedOK ==
  ASSUME NEW r \in Routers, NEW queue, QueueOK(r, queue), Len(queue) < QueueSize,
         NEW a \in Address, NEW s \in Interfaces(r), NEW v \in Vlans, NEW p \in Packet
  PROVE  \E x \in Pending : /\ Queued(queue, a, s, v, p) = Append(queue, x) /\ x.packet = p
                            /\ QueueOK(r, Append(queue, x))
<1> DEFINE i == FirstFor(queue, a)
           x == [ip |-> a, port |-> s, vlan |-> v, packet |-> p,
                 attempts |-> IF i = 0 THEN 1 ELSE queue[i].attempts,
                 wait |-> IF i = 0 THEN 0 ELSE queue[i].wait]
<1>1. PICK len : len = Len(queue)
  OBVIOUS
<1>2. /\ queue \in Seq(Pending) /\ len \in Nat /\ DOMAIN queue = 1 .. len
      /\ \A n \in 1 .. len : /\ queue[n].attempts \in Nat /\ queue[n].wait \in Nat
                             /\ queue[n].port \in Interfaces(r)
  BY <1>1, QueueTypes DEF QueueOK
<1>3. \/ i = 0 /\ \A n \in 1 .. len : queue[n].ip # a
      \/ i \in 1 .. len /\ queue[i].ip = a
  BY <1>1, <1>2, FirstForType
<1>4. x \in Pending
  <2>1. s \in Segments
    BY InterfaceTypes
  <2>. QED BY <1>2, <1>3, <2>1 DEF Pending
<1>5. Queued(queue, a, s, v, p) = Append(queue, x)
  BY DEF Queued
<1>6. x.ip = a /\ x.packet = p /\ x.port = s
      /\ \A n \in 1 .. len : queue[n].ip = a =>
           (\E k \in 1 .. len : /\ queue[k].ip = a /\ x.attempts = queue[k].attempts
                                /\ x.wait = queue[k].wait)
  BY <1>2, <1>3
<1> HIDE DEF i, x
<1>7. PICK new : new = Append(queue, x)
  OBVIOUS
<1>8. /\ new \in Seq(Pending) /\ Len(new) = len + 1 /\ DOMAIN new = 1 .. len + 1
      /\ new[len + 1] = x /\ \A n \in 1 .. len : new[n] = queue[n]
  BY <1>1, <1>2, <1>4, <1>7, AppendProperties, LenProperties
<1>9. \A n \in 1 .. len : queue[n].ip = a =>
        x.attempts = queue[n].attempts /\ x.wait = queue[n].wait
  BY <1>2, <1>6 DEF QueueOK, Shared
<1>10. Shared(new)
  <2>1. ASSUME NEW m \in 1 .. len + 1, NEW n \in 1 .. len + 1, new[m].ip = new[n].ip
        PROVE  new[m].attempts = new[n].attempts /\ new[m].wait = new[n].wait
    <3>1. m \in 1 .. len \/ m = len + 1
      BY <1>2
    <3>2. n \in 1 .. len \/ n = len + 1
      BY <1>2
    <3>3. CASE m \in 1 .. len /\ n \in 1 .. len
      <4>1. \A k, l \in 1 .. len : queue[k].ip = queue[l].ip =>
              queue[k].attempts = queue[l].attempts /\ queue[k].wait = queue[l].wait
        BY <1>2 DEF QueueOK, Shared
      <4>. QED BY <1>8, <2>1, <3>3, <4>1
    <3>4. CASE m \in 1 .. len /\ n = len + 1
      BY <1>6, <1>8, <1>9, <2>1, <3>4
    <3>5. CASE m = len + 1 /\ n \in 1 .. len
      BY <1>6, <1>8, <1>9, <2>1, <3>5
    <3>6. CASE m = len + 1 /\ n = len + 1
      BY <3>6
    <3>. QED BY <3>1, <3>2, <3>3, <3>4, <3>5, <3>6
  <2>. QED BY <1>8, <2>1 DEF Shared
<1>11. QueueOK(r, new)
  <2>1. len + 1 <= QueueSize
    BY <1>1, <1>2, RouterNumbers
  <2>2. \A n \in 1 .. len + 1 : new[n].port \in Interfaces(r)
    BY <1>2, <1>6, <1>8
  <2>. QED BY <1>8, <1>10, <2>1, <2>2 DEF QueueOK
<1>. QED BY <1>4, <1>5, <1>6, <1>7, <1>11

\* The hypotheses under which a packet that was taken out is handled.
LEMMA SendToNextHopPlaced ==
  ASSUME TablesOK, WireOK, fate \in [Ids -> Fates], NEW r \in Routers, NEW queue, NEW transit,
         NEW p \in Packet, Ready([pending EXCEPT ![r] = queue], transit, p.id),
         DOMAIN pending = Routers, NEW a \in Address, NEW s \in Interfaces(r),
         SendToNextHop(r, p, a, s, queue, transit)
  PROVE  Placed' /\ WireOK'
<1>1. PICK Q, id, v : Q = [pending EXCEPT ![r] = queue] /\ id = p.id /\ v = VlanFor(r, a, s)
  OBVIOUS
<1>2. s \in Segments /\ v \in Vlans /\ id \in Ids
  BY <1>1, InterfaceTypes, VlanForType DEF Packet
<1>3. /\ Ready(Q, transit, id) /\ Q = [q \in Routers |-> Q[q]] /\ QueuesOK(Q)
      /\ Single(Q, transit) /\ transit \subseteq InTransit /\ ~Present(Q, transit, id)
  BY <1>1 DEF Ready
<1>4. Q[r] = queue /\ QueueOK(r, queue)
  BY <1>1, <1>3 DEF QueuesOK
<1>5. CASE Knows(r, a)
  <2>1. Emit(p, a, s, v, transit) /\ pending' = Q /\ wire' = wire
    BY <1>1, <1>5 DEF SendToNextHop
  <2>2. Placed'
    BY <1>1, <1>2, <1>3, <2>1, EmitPlaced
  <2>. QED BY <2>1, <2>2 DEF WireOK
<1>6. CASE ~Knows(r, a) /\ Len(queue) >= QueueSize
  <2>1. Drop(r, p, queue, transit)
    BY <1>6 DEF SendToNextHop
  <2>2. Placed' /\ wire' = wire
    BY <2>1, DropPlaced
  <2>. QED BY <2>2 DEF WireOK
<1>7. CASE ~Knows(r, a) /\ ~(Len(queue) >= QueueSize)
  <2>1. /\ pending' = [pending EXCEPT ![r] = Queued(queue, a, s, v, p)]
        /\ net' = transit /\ fate' = [fate EXCEPT ![id] = "live"]
        /\ wire' = wire \/ wire' = wire \cup Requests(r, s, a, v)
    BY <1>1, <1>7 DEF SendToNextHop
  <2>2. Len(queue) < QueueSize
    BY <1>4, <1>7, QueueTypes, RouterNumbers
  <2>3. PICK x \in Pending : /\ Queued(queue, a, s, v, p) = Append(queue, x) /\ x.packet = p
                             /\ QueueOK(r, Append(queue, x))
    BY <1>2, <1>4, <2>2, QueuedOK
  <2>4. PICK P : P = [Q EXCEPT ![r] = Append(Q[r], x)]
    OBVIOUS
  <2>5. pending' = P
    BY <1>1, <1>4, <2>1, <2>3, <2>4
  <2>6. /\ P = [q \in Routers |-> P[q]] /\ QueuesOK(P) /\ Single(P, transit)
        /\ Present(P, transit, id)
        /\ \A i : i # id => (Present(P, transit, i) <=> Present(Q, transit, i))
    BY <1>1, <1>3, <1>4, <2>3, <2>4, AddToQueue
  <2>7. Placed'
    <3>1. "live" \in Fates
      BY DEF Fates
    <3>. QED BY <1>2, <1>3, <2>1, <2>5, <2>6, <3>1, Settle
  <2>8. wire' \subseteq Message /\ \A m \in wire' : m.port \in Interfaces(m.router)
    BY <1>2, <2>1, RequestsOK DEF WireOK
  <2>. QED BY <2>7, <2>8 DEF WireOK
<1>. QED BY <1>5, <1>6, <1>7

LEMMA SendIpv4Placed ==
  ASSUME TablesOK, WireOK, fate \in [Ids -> Fates], NEW r \in Routers, NEW queue, NEW transit,
         NEW p \in Packet, Ready([pending EXCEPT ![r] = queue], transit, p.id),
         DOMAIN pending = Routers, SendIpv4(r, p, queue, transit)
  PROVE  Placed' /\ WireOK'
<1>1. p.dst \in Address
  BY DEF Packet
<1>2. CASE HasRoute(r, p.dst)
  <2>1. NextHop(r, p.dst) \in Address /\ OutPort(r, p.dst) \in Interfaces(r)
    BY <1>1, <1>2, RouteTypes
  <2>2. SendToNextHop(r, p, NextHop(r, p.dst), OutPort(r, p.dst), queue, transit)
    BY <1>2 DEF SendIpv4
  <2>. QED BY <2>1, <2>2, SendToNextHopPlaced
<1>3. CASE ~HasRoute(r, p.dst)
  <2>1. Drop(r, p, queue, transit)
    BY <1>3 DEF SendIpv4
  <2>2. Placed' /\ wire' = wire
    BY <2>1, DropPlaced
  <2>. QED BY <2>2 DEF WireOK
<1>. QED BY <1>2, <1>3

LEMMA SendErrorPlaced ==
  ASSUME TablesOK, WireOK, fate \in [Ids -> Fates], NEW r \in Routers, NEW queue, NEW transit,
         NEW p \in Packet, Ready([pending EXCEPT ![r] = queue], transit, p.id),
         DOMAIN pending = Routers, NEW kind \in Errors, SendError(r, p, kind, queue, transit)
  PROVE  Placed' /\ WireOK'
<1>1. p.id \in Ids /\ p.src \in Address
  BY DEF Packet
<1>2. CASE HasRoute(r, p.src) /\ InterfaceIp[r][OutPort(r, p.src)] # Zero
  <2>1. PICK q : q = [id |-> p.id, kind |-> kind, dst |-> p.src,
                      src |-> InterfaceIp[r][OutPort(r, p.src)], ttl |-> DefaultTtl]
    OBVIOUS
  <2>2. InterfaceIp[r][OutPort(r, p.src)] \in Address
    BY <1>1, <1>2, RouteTypes, InterfaceTypes
  <2>3. q \in Packet /\ q.id = p.id
    BY <1>1, <2>1, <2>2, RouterNumbers DEF Packet, Kinds, Errors
  <2>4. SendIpv4(r, q, queue, transit)
    BY <1>2, <2>1 DEF SendError
  <2>. QED BY <2>3, <2>4, SendIpv4Placed
<1>3. CASE ~(HasRoute(r, p.src) /\ InterfaceIp[r][OutPort(r, p.src)] # Zero)
  <2>1. Drop(r, p, queue, transit)
    BY <1>3 DEF SendError
  <2>2. Placed' /\ wire' = wire
    BY <2>1, DropPlaced
  <2>. QED BY <2>2 DEF WireOK
<1>. QED BY <1>2, <1>3

LEMMA ForwardPlaced ==
  ASSUME TablesOK, WireOK, fate \in [Ids -> Fates], NEW r \in Routers, NEW transit,
         NEW p \in Packet, Ready([pending EXCEPT ![r] = pending[r]], transit, p.id),
         DOMAIN pending = Routers, Forward(r, p, transit)
  PROVE  Placed' /\ WireOK'
<1>1. p.id \in Ids /\ p.ttl \in Nat /\ p.dst \in Address
  BY DEF Packet
<1>2. CASE p.ttl <= 1
  <2>1. SendError(r, p, "exceeded", pending[r], transit) /\ "exceeded" \in Errors
    BY <1>2 DEF Forward, Errors
  <2>. QED BY <2>1, SendErrorPlaced
<1>3. CASE ~(p.ttl <= 1)
  <2>1. PICK q : q = [p EXCEPT !.ttl = @ - 1]
    OBVIOUS
  <2>2. q \in Packet /\ q.id = p.id
    <3>1. p.ttl - 1 \in Nat
      BY <1>1, <1>3
    <3>. QED BY <2>1, <3>1 DEF Packet
  <2>3. CASE ~HasRoute(r, p.dst)
    <3>1. SendError(r, q, "unreachable", pending[r], transit) /\ "unreachable" \in Errors
      BY <1>3, <2>1, <2>3 DEF Forward, Errors
    <3>. QED BY <2>2, <3>1, SendErrorPlaced
  <2>4. CASE HasRoute(r, p.dst)
    <3>1. SendToNextHop(r, q, NextHop(r, p.dst), OutPort(r, p.dst), pending[r], transit)
      BY <1>3, <2>1, <2>4 DEF Forward
    <3>2. NextHop(r, p.dst) \in Address /\ OutPort(r, p.dst) \in Interfaces(r)
      BY <1>1, <2>4, RouteTypes
    <3>. QED BY <2>2, <3>1, <3>2, SendToNextHopPlaced
  <2>. QED BY <2>3, <2>4
<1>. QED BY <1>2, <1>3

LEMMA LocalPlaced ==
  ASSUME TablesOK, WireOK, fate \in [Ids -> Fates], NEW r \in Routers, NEW transit,
         NEW p \in Packet, Ready(pending, transit, p.id),
         DOMAIN pending = Routers, Local(r, p, transit)
  PROVE  Placed' /\ WireOK'
<1>1. p.id \in Ids /\ p.src \in Address /\ p.dst \in Address
  BY DEF Packet
<1>2. pending = [pending EXCEPT ![r] = pending[r]]
  BY DEF Ready
<1>3. CASE p.kind = "echo"
  <2>1. PICK q : q = [p EXCEPT !.kind = "reply", !.src = p.dst, !.dst = p.src,
                               !.ttl = DefaultTtl]
    OBVIOUS
  <2>2. q \in Packet /\ q.id = p.id
    BY <1>1, <2>1, RouterNumbers DEF Packet, Kinds
  <2>3. SendIpv4(r, q, pending[r], transit)
    BY <1>3, <2>1 DEF Local
  <2>. QED BY <1>2, <2>2, <2>3, SendIpv4Placed
<1>4. CASE p.kind # "echo"
  <2>1. /\ net' = transit /\ fate' = [fate EXCEPT ![p.id] = "delivered"]
        /\ pending' = pending /\ wire' = wire
    BY <1>4 DEF Local
  <2>2. PICK Q : Q = pending
    OBVIOUS
  <2>3. /\ Ready(Q, transit, p.id) /\ Q = [q \in Routers |-> Q[q]] /\ QueuesOK(Q)
        /\ Single(Q, transit) /\ transit \subseteq InTransit /\ ~Present(Q, transit, p.id)
    BY <2>2 DEF Ready
  <2>4. pending' = Q /\ "delivered" \in Fates /\ "delivered" # "live"
    BY <2>1, <2>2 DEF Fates
  <2>5. Placed'
    <3>1. PICK P, T, v : P = Q /\ T = transit /\ v = "delivered"
      OBVIOUS
    <3>2. /\ pending' = P /\ net' = T /\ fate' = [fate EXCEPT ![p.id] = v]
          /\ v \in Fates /\ (v = "live" <=> Present(P, T, p.id))
          /\ P = [q \in Routers |-> P[q]] /\ QueuesOK(P) /\ Single(P, T) /\ T \subseteq InTransit
          /\ \A i : i # p.id => (Present(P, T, i) <=> Present(Q, transit, i))
      BY <2>1, <2>3, <2>4, <3>1
    <3>. QED BY <1>1, <2>3, <3>2, Settle
  <2>. QED BY <2>1, <2>5 DEF WireOK
<1>. QED BY <1>3, <1>4

-----------------------------------------------------------------------------
LEMMA RouterInit == Init => RouterInv
<1> SUFFICES ASSUME Init PROVE RouterInv
  OBVIOUS
<1>1. /\ pending = [r \in Routers |-> <<>>] /\ net = {} /\ wire = {}
      /\ fate = [i \in Ids |-> "new"] /\ arp_table = [r \in Routers |-> <<>>]
      /\ interface_vlans = [r \in Routers |-> [s \in Interfaces(r) |-> 0]]
      /\ flushing = [r \in Routers |-> {}] /\ failing = [r \in Routers |-> {}]
  BY DEF Init
<1>2. DOMAIN <<>> = {} /\ <<>> \in Seq(Pending) /\ Len(<<>>) = 0
  BY EmptySeq
<1>3. \A r \in Routers : QueueOK(r, <<>>)
  BY <1>2, RouterNumbers DEF QueueOK, Shared
<1>4. Placed
  <2>1. QueuesOK(pending) /\ Single(pending, net)
    BY <1>1, <1>2, <1>3 DEF QueuesOK, Single
  <2>2. \A i \in Ids : ~Present(pending, net, i)
    BY <1>1, <1>2 DEF Present
  <2>. QED BY <1>1, <2>1, <2>2 DEF Placed, Fates
<1>5. ArpOK
  <2>1. <<>> \in [{} -> Vlans]
    OBVIOUS
  <2>2. <<>> \in ArpTables
    BY <2>1 DEF ArpTables
  <2>3. IsFiniteSet(DOMAIN <<>>) /\ Cardinality(DOMAIN <<>>) = 0
    BY <1>2, FS_EmptySet
  <2>. QED BY <1>1, <2>2, <2>3, RouterNumbers DEF ArpOK
<1>6. VlansOK
  BY <1>1 DEF VlansOK, Vlans
<1>. QED BY <1>1, <1>4, <1>5, <1>6 DEF RouterInv, TablesOK, WireOK, LoopsOK

LEMMA NoteVlanOK ==
  ASSUME VlansOK, NEW r \in Routers, NEW s, NEW v \in Vlans, NoteVlan(r, s, v)
  PROVE  VlansOK'
<1>1. CASE interface_vlans' = interface_vlans
  BY <1>1 DEF VlansOK
<1>2. CASE interface_vlans' = [interface_vlans EXCEPT ![r][s] = v]
  <2>1. PICK t : t = [interface_vlans[r] EXCEPT ![s] = v]
    OBVIOUS
  <2>2. t \in [Interfaces(r) -> Vlans]
    BY <2>1 DEF VlansOK
  <2>3. interface_vlans' = [interface_vlans EXCEPT ![r] = t]
    BY <1>2, <2>1
  <2>. QED BY <2>2, <2>3 DEF VlansOK
<1>. QED BY <1>1, <1>2 DEF NoteVlan

LEMMA LearnOK ==
  ASSUME ArpOK, NEW r \in Routers, NEW a \in Address, NEW v \in Vlans, Learn(r, a, v)
  PROVE  ArpOK'
<1>1. PICK t, n : t = arp_table[r] /\ n = Cardinality(DOMAIN arp_table[r])
  OBVIOUS
<1>2. /\ t \in ArpTables /\ IsFiniteSet(DOMAIN t) /\ n = Cardinality(DOMAIN t) /\ n <= TableSize
      /\ n \in Nat
  BY <1>1, FS_CardinalityType DEF ArpOK
<1>3. CASE arp_table' = arp_table
  BY <1>3 DEF ArpOK
<1>4. CASE a \in DOMAIN t \/ n < TableSize
  <2>1. PICK u : u = [b \in DOMAIN t \cup {a} |-> IF b = a THEN v ELSE t[b]]
    OBVIOUS
  <2>2. arp_table' = [arp_table EXCEPT ![r] = u]
    BY <1>1, <1>4, <2>1 DEF Learn, Knows
  <2>3. PICK D \in SUBSET Address : t \in [D -> Vlans]
    BY <1>2 DEF ArpTables
  <2>4. u \in [D \cup {a} -> Vlans] /\ D \cup {a} \in SUBSET Address /\ DOMAIN t = D
    BY <2>1, <2>3
  <2>5. u \in ArpTables
    BY <2>4 DEF ArpTables
  <2>6. /\ IsFiniteSet(D \cup {a})
        /\ Cardinality(D \cup {a}) = IF a \in D THEN n ELSE n + 1
    BY <1>2, <2>4, FS_AddElement
  <2>7. IsFiniteSet(DOMAIN u) /\ Cardinality(DOMAIN u) <= TableSize
    BY <1>2, <1>4, <2>4, <2>6, RouterNumbers
  <2>. QED BY <2>2, <2>5, <2>7 DEF ArpOK
<1>. QED BY <1>1, <1>3, <1>4 DEF Learn, Knows

\* A step that leaves the packets alone.
LEMMA PacketsStay == ASSUME Placed, UNCHANGED <<pending, net, fate>> PROVE Placed'
BY DEF Placed

\* What the other parts of the state keep when they are left alone.
LEMMA TablesStay == ASSUME TablesOK, UNCHANGED <<arp_table, interface_vlans>> PROVE TablesOK'
BY DEF TablesOK, ArpOK, VlansOK

LEMMA LoopsStay == ASSUME LoopsOK, UNCHANGED <<flushing, failing>> PROVE LoopsOK'
BY DEF LoopsOK

LEMMA WireStays == ASSUME WireOK, UNCHANGED wire PROVE WireOK'
BY DEF WireOK

\* A queue whose packets stay, with other attempts and waiting times.
LEMMA QueueUpdated ==
  ASSUME Placed, NEW r \in Routers, NEW queue, QueueOK(r, queue),
         DOMAIN queue = DOMAIN pending[r],
         \A n \in DOMAIN queue : queue[n].packet = pending[r][n].packet,
         pending' = [pending EXCEPT ![r] = queue], UNCHANGED <<net, fate>>
  PROVE  Placed'
<1>1. PICK Q, P, N : Q = pending /\ P = pending' /\ N = net
  OBVIOUS
<1>2. /\ Q = [q \in Routers |-> Q[q]] /\ QueuesOK(Q) /\ N \subseteq InTransit /\ Single(Q, N)
      /\ fate \in [Ids -> Fates] /\ \A i \in Ids : fate[i] = "live" <=> Present(Q, N, i)
  BY <1>1 DEF Placed
<1>3. P[r] = queue /\ P = [q \in Routers |-> P[q]] /\ \A q \in Routers \ {r} : P[q] = Q[q]
  BY <1>1, <1>2
<1>4. QueuesOK(P)
  BY <1>2, <1>3 DEF QueuesOK
<1>5. \A q \in Routers : /\ DOMAIN P[q] = DOMAIN Q[q]
                         /\ \A n \in DOMAIN P[q] : P[q][n].packet = Q[q][n].packet
  BY <1>1, <1>3
<1>6. Single(P, N)
  BY <1>2, <1>5, SMTT(30) DEF Single
<1>7. \A i : Present(P, N, i) <=> Present(Q, N, i)
  BY <1>5 DEF Present
<1>8. P = pending' /\ N = net' /\ fate' = fate
  BY <1>1
<1>. QED BY <1>2, <1>3, <1>4, <1>6, <1>7, <1>8 DEF Placed

\* Packets of a router.
LEMMA PendingQueue ==
  ASSUME Placed, NEW r \in Routers
  PROVE  QueueOK(r, pending[r]) /\ DOMAIN pending = Routers /\ fate \in [Ids -> Fates]
         /\ pending = [pending EXCEPT ![r] = pending[r]]
BY DEF Placed, QueuesOK

-----------------------------------------------------------------------------
LEMMA VlanTypes == 0 \in Vlans /\ \A st \in Stations : Vlan[st] \in Vlans
BY DEF Vlans

\* An IPv4 packet comes.
LEMMA ReceiveIpv4Step ==
  ASSUME RouterInv, NEW r \in Routers, NEW f \in net, ReceiveIpv4(r, f)
  PROVE  RouterInv'
<1>1. PICK p, transit : p = f.packet /\ transit = net \ {f}
  OBVIOUS
<1>2. Placed /\ WireOK /\ TablesOK /\ LoopsOK
  BY DEF RouterInv
<1>3. Ready(pending, transit, p.id) /\ f \in InTransit
  BY <1>1, <1>2, TakeFromNet
<1>4. p \in Packet /\ f.vlan \in Vlans
  BY <1>1, <1>3 DEF InTransit
<1>5. /\ DOMAIN pending = Routers /\ fate \in [Ids -> Fates]
      /\ Ready([pending EXCEPT ![r] = pending[r]], transit, p.id)
  BY <1>2, <1>3, PendingQueue
<1>6. CASE p.dst \in OwnIps(r)
  <2>1. Local(r, p, transit)
    BY <1>1, <1>6 DEF ReceiveIpv4
  <2>2. Placed' /\ WireOK'
    BY <1>2, <1>3, <1>4, <1>5, <2>1, LocalPlaced
  <2>. QED BY <1>2, <1>4, <2>2, NoteVlanOK, LoopsStay
       DEF ReceiveIpv4, RouterInv, TablesOK, ArpOK
<1>7. CASE p.dst \notin OwnIps(r)
  <2>1. Forward(r, p, transit)
    BY <1>1, <1>7 DEF ReceiveIpv4
  <2>2. Placed' /\ WireOK'
    BY <1>2, <1>4, <1>5, <2>1, ForwardPlaced
  <2>. QED BY <1>2, <1>4, <2>2, NoteVlanOK, LoopsStay
       DEF ReceiveIpv4, RouterInv, TablesOK, ArpOK
<1>. QED BY <1>6, <1>7

LEMMA OverhearStep ==
  ASSUME RouterInv, NEW r \in Routers, NEW st \in Stations, Overhear(r, st)
  PROVE  RouterInv'
<1>1. Placed' /\ WireOK' /\ LoopsOK'
  BY PacketsStay, WireStays, LoopsStay DEF RouterInv, Overhear
<1>2. VlansOK'
  BY NoteVlanOK, VlanTypes DEF RouterInv, TablesOK, Overhear
<1>. QED BY <1>1, <1>2 DEF RouterInv, TablesOK, ArpOK, Overhear

LEMMA StationAsksStep ==
  ASSUME RouterInv, NEW r \in Routers, NEW st \in Stations, StationAsks(r, st)
  PROVE  RouterInv'
<1>1. Placed' /\ WireOK' /\ LoopsOK'
  BY PacketsStay, WireStays, LoopsStay DEF RouterInv, StationAsks
<1>2. StationIp[st] \in Address
  BY NetworkAssumption
<1>3. VlansOK' /\ ArpOK'
  BY <1>2, NoteVlanOK, LearnOK, VlanTypes DEF RouterInv, TablesOK, StationAsks
<1>. QED BY <1>1, <1>3 DEF RouterInv, TablesOK

\* ARP messages come.
LEMMA ReplyOK ==
  ASSUME WireOK, NEW m \in wire, wire' = wire \cup {Reply(m)}
  PROVE  WireOK'
<1>1. m \in Message /\ m.port \in Interfaces(m.router)
  BY DEF WireOK
<1>2. Reply(m) \in Message /\ Reply(m).port = m.port /\ Reply(m).router = m.router
  BY <1>1 DEF Reply, Message
<1>. QED BY <1>1, <1>2 DEF WireOK

LEMMA ReceiveRequestStep ==
  ASSUME RouterInv, NEW r \in Routers, NEW m \in wire, ReceiveRequest(r, m)
  PROVE  RouterInv'
<1>1. Placed' /\ LoopsOK'
  BY PacketsStay, LoopsStay DEF RouterInv, ReceiveRequest
<1>2. WireOK'
  BY ReplyOK, WireStays DEF RouterInv, ReceiveRequest
<1>3. m \in Message /\ m.port \in Interfaces(m.router)
  BY DEF RouterInv, WireOK
<1>4. InterfaceIp[m.router][m.port] \in Address
  BY <1>3, InterfaceTypes DEF Message
<1>5. ArpOK'
  BY <1>4, LearnOK, VlanTypes DEF RouterInv, TablesOK, ReceiveRequest
<1>. QED BY <1>1, <1>2, <1>5 DEF RouterInv, TablesOK, VlansOK, ReceiveRequest

LEMMA StationAnswersStep ==
  ASSUME RouterInv, NEW st \in Stations, NEW m \in wire, StationAnswers(st, m)
  PROVE  RouterInv'
<1>1. Placed' /\ TablesOK' /\ LoopsOK'
  BY PacketsStay, TablesStay, LoopsStay DEF RouterInv, StationAnswers
<1>2. WireOK'
  BY ReplyOK DEF RouterInv, StationAnswers
<1>. QED BY <1>1, <1>2 DEF RouterInv

LEMMA ReceiveReplyStep ==
  ASSUME RouterInv, NEW r \in Routers, NEW m \in wire, ReceiveReply(r, m)
  PROVE  RouterInv'
<1>1. Placed' /\ WireOK'
  BY PacketsStay, WireStays DEF RouterInv, ReceiveReply
<1>2. m.ip \in Address /\ m.vlan \in Vlans
  BY DEF RouterInv, WireOK, Message
<1>3. ArpOK' /\ VlansOK'
  BY <1>2, LearnOK, NoteVlanOK DEF RouterInv, TablesOK, ReceiveReply
<1>4. LoopsOK'
  BY <1>2 DEF RouterInv, LoopsOK, ReceiveReply
<1>. QED BY <1>1, <1>3, <1>4 DEF RouterInv, TablesOK

-----------------------------------------------------------------------------
\* One packet of a queue is sent again.
LEMMA FlushStepStep ==
  ASSUME RouterInv, NEW r \in Routers, NEW a \in flushing[r], FlushStep(r, a)
  PROVE  RouterInv'
<1>1. PICK i : i = FirstFor(pending[r], a)
  OBVIOUS
<1>2. Placed /\ WireOK /\ TablesOK /\ LoopsOK /\ TablesOK'
  BY TablesStay DEF RouterInv, FlushStep
<1>3. /\ QueueOK(r, pending[r]) /\ DOMAIN pending = Routers /\ fate \in [Ids -> Fates]
  BY <1>2, PendingQueue
<1>4. LoopsOK'
  BY <1>2 DEF LoopsOK, FlushStep
<1>5. CASE i = 0
  BY <1>1, <1>2, <1>4, <1>5, PacketsStay, WireStays DEF FlushStep, Flush, RouterInv
<1>6. CASE i # 0
  <2>1. i \in 1 .. Len(pending[r])
    BY <1>1, <1>3, <1>6, FirstForType
  <2>2. PICK p, s, queue : /\ p = pending[r][i].packet /\ s = pending[r][i].port
                           /\ queue = RemoveAt(pending[r], i)
    OBVIOUS
  <2>3. p \in Packet /\ s \in Interfaces(r) /\ a \in Address
    BY <1>2, <1>3, <2>1, <2>2, QueueTypes DEF LoopsOK
  <2>4. Ready([pending EXCEPT ![r] = queue], net, p.id)
    BY <1>2, <2>1, <2>2, TakeFromQueue
  <2>5. SendToNextHop(r, p, a, s, queue, net)
    BY <1>1, <1>6, <2>2 DEF FlushStep, Flush
  <2>6. Placed' /\ WireOK'
    BY <1>2, <1>3, <2>3, <2>4, <2>5, SendToNextHopPlaced
  <2>. QED BY <1>2, <1>4, <2>6 DEF RouterInv
<1>. QED BY <1>5, <1>6

\* One packet of a queue is given up.
LEMMA FailStepStep ==
  ASSUME RouterInv, NEW r \in Routers, NEW a \in failing[r], FailStep(r, a)
  PROVE  RouterInv'
<1>1. PICK i : i = FirstFor(pending[r], a)
  OBVIOUS
<1>2. Placed /\ WireOK /\ TablesOK /\ LoopsOK /\ TablesOK'
  BY TablesStay DEF RouterInv, FailStep
<1>3. /\ QueueOK(r, pending[r]) /\ DOMAIN pending = Routers /\ fate \in [Ids -> Fates]
  BY <1>2, PendingQueue
<1>4. CASE i = 0
  <2>1. /\ failing' = [failing EXCEPT ![r] = @ \ {a}]
        /\ UNCHANGED <<pending, wire, net, fate, flushing>>
    BY <1>1, <1>4 DEF FailStep
  <2>2. LoopsOK'
    BY <1>2, <2>1 DEF LoopsOK
  <2>. QED BY <1>2, <2>1, <2>2, PacketsStay, WireStays DEF RouterInv
<1>5. CASE i # 0
  <2>1. i \in 1 .. Len(pending[r])
    BY <1>1, <1>3, <1>5, FirstForType
  <2>2. PICK p, queue : p = pending[r][i].packet /\ queue = RemoveAt(pending[r], i)
    OBVIOUS
  <2>3. p \in Packet
    BY <1>3, <2>1, <2>2, QueueTypes
  <2>4. Ready([pending EXCEPT ![r] = queue], net, p.id)
    BY <1>2, <2>1, <2>2, TakeFromQueue
  <2>5. /\ UNCHANGED <<failing, flushing>>
        /\ SendError(r, p, "host_unreachable", queue, net) \/ Drop(r, p, queue, net)
    BY <1>1, <1>5, <2>2 DEF FailStep
  <2>6. Placed' /\ WireOK'
    <3>1. CASE SendError(r, p, "host_unreachable", queue, net)
      <4>1. "host_unreachable" \in Errors
        BY DEF Errors
      <4>. QED BY <1>2, <1>3, <2>3, <2>4, <3>1, <4>1, SendErrorPlaced
    <3>2. CASE Drop(r, p, queue, net)
      BY <1>2, <1>3, <2>3, <2>4, <3>2, DropPlaced, WireStays
    <3>. QED BY <2>5, <3>1, <3>2
  <2>. QED BY <1>2, <2>5, <2>6, LoopsStay DEF RouterInv
<1>. QED BY <1>4, <1>5

\* The clock of the retries.
LEMMA PollRetryStep ==
  ASSUME RouterInv, NEW r \in Routers, PollRetry(r)
  PROVE  RouterInv'
<1>1. PICK old, k, len : old = pending[r] /\ k = FirstDue(r) /\ len = Len(old)
  OBVIOUS
<1>2. Placed /\ WireOK /\ TablesOK /\ LoopsOK /\ TablesOK' /\ LoopsOK'
  BY TablesStay, LoopsStay DEF RouterInv, PollRetry
<1>3. QueueOK(r, old)
  BY <1>1, <1>2, PendingQueue
<1>4. /\ len \in Nat /\ DOMAIN old = 1 .. len /\ old \in Seq(Pending) /\ len <= QueueSize
      /\ \A n \in 1 .. len : old[n] \in Pending /\ old[n].port \in Interfaces(r)
  BY <1>1, <1>3, QueueTypes DEF QueueOK
<1>5. PICK p : p = old[k]
  OBVIOUS
<1>6. k \in 1 .. len /\ p \in Pending /\ p.port \in Interfaces(r) /\ p.wait >= Interval
  BY <1>1, <1>3, <1>4, <1>5, FirstDueType DEF PollRetry
<1>7. PICK att, w : att = p.attempts + 1 /\ w = p.wait - Interval
  OBVIOUS
<1>8. att \in Nat /\ w \in Nat
  BY <1>6, <1>7, RouterNumbers DEF Pending
<1>9. PICK new : new = [n \in 1 .. len |-> IF old[n].ip = p.ip
                          THEN [old[n] EXCEPT !.attempts = att, !.wait = w] ELSE old[n]]
  OBVIOUS
<1>10. /\ pending' = [pending EXCEPT ![r] = new]
       /\ wire' = wire \cup Requests(r, p.port, p.ip, p.vlan)
       /\ UNCHANGED <<net, fate>>
  BY <1>1, <1>4, <1>5, <1>7, <1>9 DEF PollRetry
<1>11. \A n \in 1 .. len :
         /\ new[n] \in Pending /\ new[n].ip = old[n].ip
         /\ new[n].port = old[n].port /\ new[n].packet = old[n].packet
         /\ old[n].ip = p.ip => new[n].attempts = att /\ new[n].wait = w
         /\ old[n].ip # p.ip => new[n] = old[n]
  BY <1>4, <1>8, <1>9 DEF Pending
<1>12. new \in Seq(Pending) /\ Len(new) = len /\ DOMAIN new = 1 .. len
  <2>1. new \in [1 .. len -> Pending]
    BY <1>9, <1>11
  <2>2. new \in Seq(Pending)
    BY <1>4, <2>1, SeqDef
  <2>. QED BY <1>4, <2>1, <2>2, LenProperties
<1>13. Shared(new)
  BY <1>3, <1>4, <1>11, <1>12 DEF QueueOK, Shared
<1>14. QueueOK(r, new)
  BY <1>4, <1>11, <1>12, <1>13 DEF QueueOK
<1>15. Placed'
  BY <1>1, <1>2, <1>4, <1>10, <1>11, <1>12, <1>14, QueueUpdated
<1>16. WireOK'
  <2>1. p.ip \in Address /\ p.vlan \in Vlans
    BY <1>6 DEF Pending
  <2>. QED BY <1>2, <1>6, <1>10, <2>1, RequestsOK DEF WireOK
<1>. QED BY <1>2, <1>15, <1>16 DEF RouterInv

LEMMA PollGiveUpStep ==
  ASSUME RouterInv, NEW r \in Routers, PollGiveUp(r)
  PROVE  RouterInv'
<1>1. Placed' /\ WireOK' /\ TablesOK'
  BY PacketsStay, WireStays, TablesStay DEF RouterInv, PollGiveUp
<1>2. QueueOK(r, pending[r])
  BY PendingQueue DEF RouterInv
<1>3. FirstDue(r) \in 1 .. Len(pending[r])
  BY <1>2, FirstDueType DEF PollGiveUp
<1>4. pending[r][FirstDue(r)].ip \in Address
  BY <1>2, <1>3, QueueTypes
<1>5. LoopsOK'
  BY <1>4 DEF RouterInv, LoopsOK, PollGiveUp
<1>. QED BY <1>1, <1>5 DEF RouterInv

LEMMA TickStep ==
  ASSUME RouterInv, NEW r \in Routers, Tick(r)
  PROVE  RouterInv'
<1>1. PICK old, len : old = pending[r] /\ len = Len(old)
  OBVIOUS
<1>2. Placed /\ TablesOK' /\ LoopsOK' /\ WireOK'
  BY TablesStay, LoopsStay, WireStays DEF RouterInv, Tick
<1>3. QueueOK(r, old)
  BY <1>1, <1>2, PendingQueue
<1>4. /\ len \in Nat /\ DOMAIN old = 1 .. len /\ len <= QueueSize
      /\ \A n \in 1 .. len : old[n] \in Pending /\ old[n].port \in Interfaces(r)
  BY <1>1, <1>3, QueueTypes DEF QueueOK
<1>5. PICK new : new = [n \in 1 .. len |-> [old[n] EXCEPT !.wait = @ + 1]]
  OBVIOUS
<1>6. pending' = [pending EXCEPT ![r] = new] /\ UNCHANGED <<net, fate>>
  <2>1. pending' = [pending EXCEPT ![r] = [i \in DOMAIN old |-> [old[i] EXCEPT !.wait = @ + 1]]]
    BY <1>1 DEF Tick
  <2>. QED BY <1>4, <1>5, <2>1 DEF Tick
<1>7. \A n \in 1 .. len :
        /\ new[n] \in Pending /\ new[n].ip = old[n].ip
        /\ new[n].port = old[n].port /\ new[n].packet = old[n].packet
        /\ new[n].attempts = old[n].attempts /\ new[n].wait = old[n].wait + 1
  BY <1>4, <1>5 DEF Pending
<1>8. new \in Seq(Pending) /\ Len(new) = len /\ DOMAIN new = 1 .. len
  <2>1. new \in [1 .. len -> Pending]
    BY <1>5, <1>7
  <2>2. new \in Seq(Pending)
    BY <1>4, <2>1, SeqDef
  <2>. QED BY <1>4, <2>1, <2>2, LenProperties
<1>9. Shared(new)
  BY <1>3, <1>4, <1>7, <1>8 DEF QueueOK, Shared
<1>10. QueueOK(r, new)
  BY <1>4, <1>7, <1>8, <1>9 DEF QueueOK
<1>11. Placed'
  BY <1>1, <1>2, <1>4, <1>6, <1>7, <1>8, <1>10, QueueUpdated
<1>. QED BY <1>2, <1>11 DEF RouterInv

\* A new packet is sent.
LEMMA NewPacket ==
  ASSUME Placed, Fresh
  PROVE  NewId \in Ids /\ Ready(pending, net, NewId)
<1> DEFINE S == {i \in Ids : fate[i] = "new"}
<1>1. S \in SUBSET Nat /\ S # {}
  BY RouterNumbers DEF Fresh, Ids
<1>2. \E i \in S : \A j \in S : i <= j
  <2> HIDE DEF S
  <2>. QED BY <1>1, LeastNumber
<1>3. \E i \in Ids : fate[i] = "new" /\ \A j \in 1 .. i - 1 : fate[j] # "new"
  BY <1>2, RouterNumbers DEF Ids
<1>4. NewId \in Ids /\ fate[NewId] = "new"
  BY <1>3 DEF NewId
<1>5. ~Present(pending, net, NewId)
  BY <1>4 DEF Placed
<1>. QED BY <1>4, <1>5 DEF Placed, Ready

LEMMA StationSendsStep ==
  ASSUME RouterInv, NEW st \in Stations, NEW x \in Sends[st], StationSends(st, x)
  PROVE  RouterInv'
<1>1. PICK id, Q, N : id = NewId /\ Q = pending /\ N = net
  OBVIOUS
<1>2. Placed /\ TablesOK' /\ LoopsOK' /\ WireOK'
  BY TablesStay, LoopsStay, WireStays DEF RouterInv, StationSends
<1>3. id \in Ids /\ Ready(Q, N, id) /\ fate \in [Ids -> Fates]
  BY <1>1, <1>2, NewPacket, PendingQueue DEF StationSends, Placed
<1>4. PICK f : f = [to |-> Gateway[st], port |-> Segment[st], vlan |-> Vlan[st],
                    packet |-> [id |-> id, kind |-> x.kind, src |-> StationIp[st],
                                dst |-> x.dst, ttl |-> x.ttl]]
  OBVIOUS
<1>5. f \in InTransit /\ f.packet.id = id
  <2>1. /\ StationIp[st] \in Address /\ Gateway[st] \in Routers /\ Vlan[st] \in Vlans
        /\ x.kind \in Kinds /\ x.dst \in Address /\ x.ttl \in Nat
    BY NetworkAssumption, VlanTypes
  <2>2. Segment[st] \in Segments
    BY <2>1, RouterAssumption
  <2>. QED BY <1>3, <1>4, <2>1, <2>2 DEF InTransit, Packet
<1>6. PICK P, T, v : P = Q /\ T = N \cup {f} /\ v = "live"
  OBVIOUS
<1>7. pending' = P /\ net' = T /\ fate' = [fate EXCEPT ![id] = v] /\ v \in Fates
  BY <1>1, <1>4, <1>6 DEF StationSends, Fates
<1>8. /\ Single(P, T) /\ T \subseteq InTransit /\ (v = "live" <=> Present(P, T, id))
      /\ P = [r \in Routers |-> P[r]] /\ QueuesOK(P)
      /\ \A i : i # id => (Present(P, T, i) <=> Present(Q, N, i))
  BY <1>3, <1>5, <1>6, AddToNet DEF Ready
<1>9. Placed'
  BY <1>3, <1>7, <1>8, Settle
<1>. QED BY <1>2, <1>9 DEF RouterInv

LEMMA RouterPingsStep ==
  ASSUME RouterInv, NEW r \in Routers, NEW a \in Pings[r], RouterPings(r, a)
  PROVE  RouterInv'
<1>1. Placed /\ TablesOK /\ WireOK /\ TablesOK' /\ LoopsOK'
  BY TablesStay, LoopsStay DEF RouterInv, RouterPings
<1>2. PICK p : p = [id |-> NewId, kind |-> "echo", src |-> InterfaceIp[r][OutPort(r, a)],
                    dst |-> a, ttl |-> DefaultTtl]
  OBVIOUS
<1>3. NewId \in Ids /\ Ready(pending, net, NewId)
  BY <1>1, NewPacket DEF RouterPings
<1>4. a \in Address /\ HasRoute(r, a)
  BY NetworkAssumption DEF RouterPings
<1>5. InterfaceIp[r][OutPort(r, a)] \in Address
  BY <1>4, RouteTypes, InterfaceTypes
<1>6. p \in Packet /\ p.id = NewId
  BY <1>2, <1>3, <1>4, <1>5, RouterNumbers DEF Packet, Kinds
<1>7. SendIpv4(r, p, pending[r], net)
  BY <1>2 DEF RouterPings
<1>8. /\ DOMAIN pending = Routers /\ fate \in [Ids -> Fates]
      /\ Ready([pending EXCEPT ![r] = pending[r]], net, p.id)
  BY <1>1, <1>3, <1>6, PendingQueue
<1>9. Placed' /\ WireOK'
  BY <1>1, <1>6, <1>7, <1>8, SendIpv4Placed
<1>. QED BY <1>1, <1>9 DEF RouterInv

-----------------------------------------------------------------------------
LEMMA RouterNext == RouterInv /\ [Next]_vars => RouterInv'
<1> SUFFICES ASSUME RouterInv, [Next]_vars PROVE RouterInv'
  OBVIOUS
<1>1. ASSUME NEW st \in Stations, NEW x \in Sends[st], StationSends(st, x) PROVE RouterInv'
  BY <1>1, StationSendsStep
<1>2. ASSUME NEW st \in Stations, NEW m \in wire, StationAnswers(st, m) PROVE RouterInv'
  BY <1>2, StationAnswersStep
<1>3. ASSUME NEW r \in Routers, NEW st \in Stations, StationAsks(r, st) \/ Overhear(r, st)
      PROVE  RouterInv'
  BY <1>3, StationAsksStep, OverhearStep
<1>4. ASSUME NEW r \in Routers, NEW a \in Pings[r], RouterPings(r, a) PROVE RouterInv'
  BY <1>4, RouterPingsStep
<1>5. ASSUME NEW r \in Routers, ReceiveAny(r) PROVE RouterInv'
  BY <1>5, ReceiveIpv4Step DEF ReceiveAny
<1>6. ASSUME NEW r \in Routers, NEW m \in wire, ReceiveRequest(r, m) \/ ReceiveReply(r, m)
      PROVE  RouterInv'
  BY <1>6, ReceiveRequestStep, ReceiveReplyStep
<1>7. ASSUME NEW r \in Routers, NEW a \in flushing[r], FlushStep(r, a) PROVE RouterInv'
  BY <1>7, FlushStepStep
<1>8. ASSUME NEW r \in Routers, FailAny(r) PROVE RouterInv'
  BY <1>8, FailStepStep DEF FailAny
<1>9. ASSUME NEW r \in Routers, PollRetry(r) \/ PollGiveUp(r) \/ Tick(r) PROVE RouterInv'
  BY <1>9, PollRetryStep, PollGiveUpStep, TickStep
<1>10. CASE UNCHANGED vars
  <2>1. UNCHANGED <<pending, net, fate>> /\ UNCHANGED wire
        /\ UNCHANGED <<arp_table, interface_vlans>> /\ UNCHANGED <<flushing, failing>>
    BY <1>10 DEF vars
  <2>. QED BY <2>1, PacketsStay, WireStays, TablesStay, LoopsStay DEF RouterInv
<1>. QED BY <1>1, <1>2, <1>3, <1>4, <1>5, <1>6, <1>7, <1>8, <1>9, <1>10 DEF Next

\* The invariant that OnePlace and SharedRetry need: all packets in their
\* places, with everything that is needed to handle them.
THEOREM RouterInvariant == Spec => []RouterInv
BY RouterInit, RouterNext, PTL DEF Spec

\* Packets are neither lost nor multiplied by routers: one that is on its way
\* is in one place.
LEMMA PlacedOnce == RouterInv => OnePlace
<1> SUFFICES ASSUME RouterInv PROVE OnePlace
  OBVIOUS
<1>1. Placed /\ WireOK /\ TablesOK /\ LoopsOK
  BY DEF RouterInv
<1>2. TypeOK
  <2>1. ASSUME NEW r \in Routers
        PROVE  /\ DOMAIN arp_table[r] \subseteq Address
               /\ \A a \in DOMAIN arp_table[r] : arp_table[r][a] \in Vlans
    <3>1. PICK D \in SUBSET Address : arp_table[r] \in [D -> Vlans]
      BY <1>1 DEF TablesOK, ArpOK, ArpTables
    <3>. QED BY <3>1
  <2>. QED BY <1>1, <2>1
       DEF TypeOK, Placed, QueuesOK, QueueOK, WireOK, TablesOK, ArpOK, VlansOK, LoopsOK
<1>3. ASSUME NEW i \in Ids
      PROVE  Cardinality(Places(i)) = IF fate[i] = "live" THEN 1 ELSE 0
  <2>1. Single(pending, net) /\ (fate[i] = "live" <=> Present(pending, net, i))
    BY <1>1 DEF Placed
  <2>2. \A x, y \in Places(i) : x = y
    <3>1. \A x \in Places(i) :
            \/ x \in net /\ x.packet.id = i
            \/ \E r \in Routers : \E n \in DOMAIN pending[r] :
                 x = <<r, n>> /\ pending[r][n].packet.id = i
      BY DEF Places
    <3>. QED BY <2>1, <3>1 DEF Single
  <2>3. Present(pending, net, i) <=> Places(i) # {}
    <3>1. \A r \in Routers : \A n \in DOMAIN pending[r] :
            pending[r][n].packet.id = i => <<r, n>> \in Places(i)
      BY DEF Places
    <3>2. \A f \in net : f.packet.id = i => f \in Places(i)
      BY DEF Places
    <3>3. \A x \in Places(i) :
            \/ x \in net /\ x.packet.id = i
            \/ \E r \in Routers : \E n \in DOMAIN pending[r] :
                 x = <<r, n>> /\ pending[r][n].packet.id = i
      BY DEF Places
    <3>. QED BY <3>1, <3>2, <3>3 DEF Present
  <2>4. CASE Places(i) = {}
    BY <2>1, <2>3, <2>4, FS_EmptySet
  <2>5. CASE Places(i) # {}
    <3>1. PICK x : Places(i) = {x}
      BY <2>2, <2>5
    <3>2. Cardinality({x}) = 1
      BY FS_Singleton
    <3>. QED BY <2>1, <2>3, <2>5, <3>1, <3>2
  <2>. QED BY <2>4, <2>5
<1>. QED BY <1>2, <1>3 DEF OnePlace

\* router_receive, the queue of waiting packets, its flush and its failure and
\* the errors neither lose a packet nor multiply it, in any network of routers.
THEOREM PacketsHaveOnePlace == Spec => []OnePlace
BY RouterInvariant, PlacedOnce, PTL

\* Packets that wait for the same address have the same attempts and wait the
\* same time, for whatever reason they were queued.
THEOREM RouterRetriesShared == Spec => []SharedRetry
<1>1. RouterInv => SharedRetry
  BY DEF RouterInv, Placed, QueuesOK, QueueOK, Shared, SharedRetry
<1>. QED BY <1>1, RouterInvariant, PTL

-----------------------------------------------------------------------------
(***************************************************************************)
(* Packets leave in the VLAN of their next hop, in every network whose      *)
(* routes lead to it and whose segments are tagged or untagged as a whole.  *)
(***************************************************************************)
Tagged(s) == \E st \in Stations : Segment[st] = s /\ Vlan[st] # 0

\* Somebody whom r can ask has address a, in VLAN v.
Neighbour(r, a, v) ==
  \/ \E st \in Stations : StationIp[st] = a /\ Vlan[st] = v /\ Segment[st] \in Interfaces(r)
  \/ /\ v = 0
     /\ \E q \in Routers \ {r} : a \in OwnIps(q) /\ Interfaces(q) \cap Interfaces(r) # {}

\* What routers have learned, and what they can still learn.
ArpRight == \A r \in Routers : \A a \in DOMAIN arp_table[r] : Neighbour(r, a, arp_table[r][a])
VlansRight == \A r \in Routers : \A s \in Interfaces(r) :
                interface_vlans[r][s] # 0 => Tagged(s)
WireRight == \A m \in wire :
  /\ InterfaceIp[m.router][m.port] # Zero
  /\ m.op = "REPLY" => /\ Neighbour(m.router, m.ip, m.vlan)
                       /\ m.vlan # 0 => Tagged(m.port)

\* Packets in transit and waiting packets.
TransitRight(N) == \A f \in N : f.vlan # 0 => Tagged(f.port)
QueueRight(r, queue) == \A n \in DOMAIN queue : Leads(r, queue[n].ip, queue[n].port)
PacketsRight == /\ NeverAstray /\ WireRight /\ TransitRight(net)
                /\ \A r \in Routers : QueueRight(r, pending[r])

VlanInv == RouterInv /\ ArpRight /\ VlansRight /\ PacketsRight

\* A frame for a known address on its segment leaves in the right VLAN.
LEMMA VlanForRight ==
  ASSUME TablesOK, ArpRight, VlansRight, NEW r \in Routers, NEW a, NEW s \in Interfaces(r),
         Knows(r, a), Leads(r, a, s)
  PROVE  \/ VlanFor(r, a, s) = 0 /\ \E x \in Routers : s \in Interfaces(x) /\ a \in OwnIps(x)
         \/ \E st \in Stations : /\ StationIp[st] = a /\ Segment[st] = s
                                 /\ Vlan[st] = VlanFor(r, a, s)
<1>1. PICK w : w = arp_table[r][a]
  OBVIOUS
<1>2. Neighbour(r, a, w)
  BY <1>1 DEF ArpRight, Knows
<1>3. VlanFor(r, a, s) = IF w > 0 THEN w ELSE interface_vlans[r][s]
  BY <1>1 DEF VlanFor
<1>4. CASE \E st \in Stations : StationIp[st] = a /\ Vlan[st] = w /\ Segment[st] \in Interfaces(r)
  <2>1. PICK st \in Stations : StationIp[st] = a /\ Vlan[st] = w /\ Segment[st] \in Interfaces(r)
    BY <1>4
  <2>2. Segment[st] = s
    BY <2>1 DEF Leads
  <2>3. w \in Nat
    BY <2>1, NetworkAssumption
  <2>4. CASE w > 0
    BY <1>3, <2>1, <2>2, <2>4
  <2>5. CASE ~(w > 0)
    <3>1. w = 0
      BY <2>3, <2>5
    <3>2. ~Tagged(s)
      BY <2>1, <2>2, <3>1, SegmentAssumption DEF Tagged
    <3>3. interface_vlans[r][s] = 0
      BY <3>2 DEF VlansRight
    <3>. QED BY <1>3, <2>1, <2>2, <2>5, <3>1, <3>3
  <2>. QED BY <2>4, <2>5
<1>5. CASE w = 0 /\ \E q \in Routers \ {r} :
                      a \in OwnIps(q) /\ Interfaces(q) \cap Interfaces(r) # {}
  <2>1. PICK q \in Routers \ {r} : a \in OwnIps(q) /\ Interfaces(q) \cap Interfaces(r) # {}
    BY <1>5
  <2>2. s \in Interfaces(q)
    BY <2>1 DEF Leads
  <2>3. ~Tagged(s)
    BY <2>1, <2>2, SegmentAssumption DEF Tagged
  <2>4. interface_vlans[r][s] = 0
    BY <2>3 DEF VlansRight
  <2>. QED BY <1>3, <1>5, <2>1, <2>2, <2>4
<1>. QED BY <1>2, <1>4, <1>5 DEF Neighbour

\* What the handling of a packet needs, and what it leaves: queue and transit
\* are right and so are the other queues.
HandlingRight(r, queue, transit) ==
  /\ NeverAstray /\ WireRight /\ TransitRight(transit) /\ QueueRight(r, queue)
  /\ \A q \in Routers : QueueRight(q, pending[q])

LEMMA DropRight ==
  ASSUME NEW r \in Routers, NEW queue, NEW transit, NEW p, HandlingRight(r, queue, transit),
         fate \in [Ids -> Fates], pending = [q \in Routers |-> pending[q]],
         Drop(r, p, queue, transit)
  PROVE  PacketsRight'
<1>1. /\ pending' = [pending EXCEPT ![r] = queue] /\ net' = transit /\ wire' = wire
      /\ fate' = [fate EXCEPT ![p.id] = "dropped"]
  BY DEF Drop
<1>2. NeverAstray'
  BY <1>1 DEF HandlingRight, NeverAstray
<1>3. ASSUME NEW q \in Routers PROVE QueueRight(q, pending'[q])
  <2>1. pending'[q] = IF q = r THEN queue ELSE pending[q]
    BY <1>1
  <2>. QED BY <2>1 DEF HandlingRight
<1>4. WireRight'
  BY <1>1 DEF HandlingRight, WireRight
<1>5. TransitRight(net')
  BY <1>1 DEF HandlingRight
<1>. QED BY <1>2, <1>3, <1>4, <1>5 DEF PacketsRight

LEMMA SendToNextHopRight ==
  ASSUME VlanInv, NEW r \in Routers, NEW queue, NEW transit, NEW p, QueueOK(r, queue),
         HandlingRight(r, queue, transit), NEW a \in Address, NEW s \in Interfaces(r),
         Leads(r, a, s), SendToNextHop(r, p, a, s, queue, transit)
  PROVE  PacketsRight'
<1>1. PICK v : v = VlanFor(r, a, s)
  OBVIOUS
<1>2. /\ pending = [q \in Routers |-> pending[q]] /\ fate \in [Ids -> Fates]
      /\ TablesOK /\ ArpRight /\ VlansRight /\ NeverAstray /\ WireRight
      /\ TransitRight(transit) /\ QueueRight(r, queue)
      /\ \A q \in Routers : QueueRight(q, pending[q])
  BY DEF VlanInv, RouterInv, Placed, HandlingRight
<1>3. v \in Vlans /\ s \in Segments
  BY <1>1, <1>2, VlanForType, InterfaceTypes
<1>4. CASE Knows(r, a)
  <2>1. /\ Emit(p, a, s, v, transit) /\ wire' = wire
        /\ pending' = [pending EXCEPT ![r] = queue]
    BY <1>1, <1>4 DEF SendToNextHop
  <2>2. \/ v = 0 /\ \E x \in Routers : s \in Interfaces(x) /\ a \in OwnIps(x)
        \/ \E st \in Stations : StationIp[st] = a /\ Segment[st] = s /\ Vlan[st] = v
    BY <1>1, <1>2, <1>4, VlanForRight
  <2>3. NeverAstray'
    <3> DEFINE routers == {x \in Routers : s \in Interfaces(x) /\ a \in OwnIps(x) /\ v = 0}
               stations == {st \in Stations : /\ StationIp[st] = a /\ Segment[st] = s
                                              /\ Vlan[st] = v}
               end == IF routers # {} THEN "live"
                      ELSE IF stations # {} THEN "delivered" ELSE "astray"
    <3>1. fate' = [fate EXCEPT ![p.id] = end]
      BY <2>1 DEF Emit
    <3>2. routers # {} \/ stations # {}
      BY <2>2
    <3>3. end # "astray"
      BY <3>2
    <3> HIDE DEF end
    <3>. QED BY <1>2, <3>1, <3>3 DEF NeverAstray
  <2>4. TransitRight(net')
    <3>1. \A f \in net' : f \in transit \/ (f.vlan = v /\ v = 0)
      BY <2>1 DEF Emit
    <3>. QED BY <1>2, <3>1 DEF TransitRight
  <2>5. ASSUME NEW q \in Routers PROVE QueueRight(q, pending'[q])
    <3>1. pending'[q] = IF q = r THEN queue ELSE pending[q]
      BY <1>2, <2>1
    <3>. QED BY <1>2, <3>1
  <2>6. WireRight'
    BY <1>2, <2>1 DEF WireRight
  <2>. QED BY <2>3, <2>4, <2>5, <2>6 DEF PacketsRight
<1>5. CASE ~Knows(r, a) /\ Len(queue) >= QueueSize
  <2>1. Drop(r, p, queue, transit)
    BY <1>5 DEF SendToNextHop
  <2>. QED BY <1>2, <2>1, DropRight
<1>6. CASE ~Knows(r, a) /\ ~(Len(queue) >= QueueSize)
  <2>1. /\ pending' = [pending EXCEPT ![r] = Queued(queue, a, s, v, p)]
        /\ net' = transit /\ fate' = [fate EXCEPT ![p.id] = "live"]
        /\ wire' = wire \/ wire' = wire \cup Requests(r, s, a, v)
    BY <1>1, <1>6 DEF SendToNextHop
  <2>2. NeverAstray'
    BY <1>2, <2>1 DEF NeverAstray
  <2>3. WireRight'
    <3>1. \A m \in Requests(r, s, a, v) : /\ InterfaceIp[m.router][m.port] # Zero
                                          /\ m.op # "REPLY"
      BY DEF Requests
    <3>. QED BY <1>2, <2>1, <3>1 DEF WireRight
  <2>4. PICK new : new = Queued(queue, a, s, v, p)
    OBVIOUS
  <2>5. \A n \in DOMAIN new : \/ n \in DOMAIN queue /\ new[n] = queue[n]
                              \/ new[n].ip = a /\ new[n].port = s
    <3>1. PICK x : new = Append(queue, x) /\ x.ip = a /\ x.port = s
      BY <2>4 DEF Queued
    <3>2. queue \in Seq(Pending) /\ Len(queue) \in Nat /\ DOMAIN queue = 1 .. Len(queue)
      BY QueueTypes DEF QueueOK
    <3>3. /\ DOMAIN new = 1 .. Len(queue) + 1 /\ new[Len(queue) + 1] = x
          /\ \A n \in 1 .. Len(queue) : new[n] = queue[n]
      BY <3>1, <3>2
    <3>. QED BY <3>1, <3>2, <3>3
  <2>6. QueueRight(r, new)
    BY <1>2, <2>5 DEF QueueRight
  <2>7. ASSUME NEW q \in Routers PROVE QueueRight(q, pending'[q])
    <3>1. pending'[q] = IF q = r THEN new ELSE pending[q]
      BY <1>2, <2>1, <2>4
    <3>. QED BY <1>2, <2>6, <3>1
  <2>. QED BY <1>2, <2>1, <2>2, <2>3, <2>7 DEF PacketsRight
<1>. QED BY <1>4, <1>5, <1>6

LEMMA SendIpv4Right ==
  ASSUME VlanInv, NEW r \in Routers, NEW queue, NEW transit, NEW p, QueueOK(r, queue),
         HandlingRight(r, queue, transit), p.dst \in Address, SendIpv4(r, p, queue, transit)
  PROVE  PacketsRight'
<1>1. pending = [q \in Routers |-> pending[q]] /\ fate \in [Ids -> Fates]
  BY DEF VlanInv, RouterInv, Placed
<1>2. CASE HasRoute(r, p.dst)
  <2>1. /\ NextHop(r, p.dst) \in Address /\ OutPort(r, p.dst) \in Interfaces(r)
        /\ Leads(r, NextHop(r, p.dst), OutPort(r, p.dst))
    BY <1>2, RouteTypes, RouteAssumption
  <2>2. SendToNextHop(r, p, NextHop(r, p.dst), OutPort(r, p.dst), queue, transit)
    BY <1>2 DEF SendIpv4
  <2>. QED BY <2>1, <2>2, SendToNextHopRight
<1>3. CASE ~HasRoute(r, p.dst)
  BY <1>1, <1>3, DropRight DEF SendIpv4
<1>. QED BY <1>2, <1>3

LEMMA SendErrorRight ==
  ASSUME VlanInv, NEW r \in Routers, NEW queue, NEW transit, NEW p, QueueOK(r, queue),
         HandlingRight(r, queue, transit), p.src \in Address, NEW kind,
         SendError(r, p, kind, queue, transit)
  PROVE  PacketsRight'
<1>1. pending = [q \in Routers |-> pending[q]] /\ fate \in [Ids -> Fates]
  BY DEF VlanInv, RouterInv, Placed
<1>2. CASE HasRoute(r, p.src) /\ InterfaceIp[r][OutPort(r, p.src)] # Zero
  <2>1. PICK q : q = [id |-> p.id, kind |-> kind, dst |-> p.src,
                      src |-> InterfaceIp[r][OutPort(r, p.src)], ttl |-> DefaultTtl]
    OBVIOUS
  <2>2. SendIpv4(r, q, queue, transit) /\ q.dst \in Address
    BY <1>2, <2>1 DEF SendError
  <2>. QED BY <2>2, SendIpv4Right
<1>3. CASE ~(HasRoute(r, p.src) /\ InterfaceIp[r][OutPort(r, p.src)] # Zero)
  BY <1>1, <1>3, DropRight DEF SendError
<1>. QED BY <1>2, <1>3

LEMMA ForwardRight ==
  ASSUME VlanInv, NEW r \in Routers, NEW transit, NEW p \in Packet,
         HandlingRight(r, pending[r], transit), Forward(r, p, transit)
  PROVE  PacketsRight'
<1>1. p.dst \in Address /\ p.src \in Address /\ QueueOK(r, pending[r])
  BY PendingQueue DEF Packet, VlanInv, RouterInv
<1>2. CASE p.ttl <= 1
  BY <1>1, <1>2, SendErrorRight DEF Forward
<1>3. CASE ~(p.ttl <= 1)
  <2>1. PICK q : q = [p EXCEPT !.ttl = @ - 1]
    OBVIOUS
  <2>2. q.src \in Address
    BY <1>1, <2>1 DEF Packet
  <2>3. CASE ~HasRoute(r, p.dst)
    <3>1. SendError(r, q, "unreachable", pending[r], transit)
      BY <1>3, <2>1, <2>3 DEF Forward
    <3>. QED BY <1>1, <2>2, <3>1, SendErrorRight
  <2>4. CASE HasRoute(r, p.dst)
    <3>1. SendToNextHop(r, q, NextHop(r, p.dst), OutPort(r, p.dst), pending[r], transit)
      BY <1>3, <2>1, <2>4 DEF Forward
    <3>2. /\ NextHop(r, p.dst) \in Address /\ OutPort(r, p.dst) \in Interfaces(r)
          /\ Leads(r, NextHop(r, p.dst), OutPort(r, p.dst))
      BY <1>1, <2>4, RouteTypes, RouteAssumption
    <3>. QED BY <1>1, <3>1, <3>2, SendToNextHopRight
  <2>. QED BY <2>3, <2>4
<1>. QED BY <1>2, <1>3

LEMMA LocalRight ==
  ASSUME VlanInv, NEW r \in Routers, NEW transit, NEW p \in Packet,
         HandlingRight(r, pending[r], transit), Local(r, p, transit)
  PROVE  PacketsRight'
<1>1. /\ p.dst \in Address /\ p.src \in Address /\ QueueOK(r, pending[r])
      /\ fate \in [Ids -> Fates]
  BY PendingQueue DEF Packet, VlanInv, RouterInv
<1>2. CASE p.kind = "echo"
  <2>1. PICK q : q = [p EXCEPT !.kind = "reply", !.src = p.dst, !.dst = p.src,
                               !.ttl = DefaultTtl]
    OBVIOUS
  <2>2. SendIpv4(r, q, pending[r], transit)
    BY <1>2, <2>1 DEF Local
  <2>3. q.dst \in Address
    BY <1>1, <2>1 DEF Packet
  <2>. QED BY <1>1, <2>2, <2>3, SendIpv4Right
<1>3. CASE p.kind # "echo"
  <2>1. /\ net' = transit /\ fate' = [fate EXCEPT ![p.id] = "delivered"]
        /\ pending' = pending /\ wire' = wire
    BY <1>3 DEF Local
  <2>2. NeverAstray' /\ WireRight'
    BY <1>1, <2>1 DEF HandlingRight, NeverAstray, WireRight
  <2>. QED BY <2>1, <2>2 DEF PacketsRight, HandlingRight
<1>. QED BY <1>2, <1>3

\* A part of the transit, and a queue without one of its packets.
LEMMA HandlingAfter ==
  ASSUME VlanInv, NEW r \in Routers, NEW transit \in SUBSET net, NEW queue,
         \/ queue = pending[r]
         \/ \E i \in 1 .. Len(pending[r]) : queue = RemoveAt(pending[r], i)
  PROVE  HandlingRight(r, queue, transit) /\ QueueOK(r, queue)
<1>1. /\ NeverAstray /\ WireRight /\ TransitRight(net) /\ QueueOK(r, pending[r])
      /\ \A q \in Routers : QueueRight(q, pending[q])
  BY PendingQueue DEF VlanInv, PacketsRight, RouterInv
<1>2. TransitRight(transit)
  BY <1>1 DEF TransitRight
<1>3. QueueRight(r, queue) /\ QueueOK(r, queue)
  <2>1. CASE queue = pending[r]
    BY <1>1, <2>1
  <2>2. CASE \E i \in 1 .. Len(pending[r]) : queue = RemoveAt(pending[r], i)
    <3>1. PICK old, len : old = pending[r] /\ len = Len(old)
      OBVIOUS
    <3>2. PICK i \in 1 .. len : queue = RemoveAt(old, i)
      BY <2>2, <3>1
    <3>3. /\ QueueOK(r, queue) /\ Len(queue) = len - 1
          /\ \A n \in DOMAIN queue : queue[n] = old[IF n < i THEN n ELSE n + 1]
      BY <1>1, <3>1, <3>2, RemoveProperties, SMTT(30)
    <3>4. len \in Nat /\ DOMAIN old = 1 .. len /\ DOMAIN queue = 1 .. len - 1
      BY <1>1, <3>1, <3>3, QueueTypes
    <3>5. \A n \in DOMAIN queue : \E k \in DOMAIN old : queue[n] = old[k]
      BY <3>2, <3>3, <3>4
    <3>6. QueueRight(r, old)
      BY <1>1, <3>1
    <3>. QED BY <3>3, <3>5, <3>6 DEF QueueRight
  <2>. QED BY <2>1, <2>2
<1>. QED BY <1>1, <1>2, <1>3 DEF HandlingRight

\* What a router learns of a neighbour is right, and so is a VLAN it notes.
LEMMA LearnRight ==
  ASSUME ArpOK, ArpRight, NEW r \in Routers, NEW a, NEW v, Neighbour(r, a, v), Learn(r, a, v)
  PROVE  ArpRight'
<1>1. CASE arp_table' = arp_table
  BY <1>1 DEF ArpRight
<1>2. CASE arp_table' = [arp_table EXCEPT ![r] =
             [b \in DOMAIN arp_table[r] \cup {a} |-> IF b = a THEN v ELSE arp_table[r][b]]]
  <2>1. PICK u : u = [b \in DOMAIN arp_table[r] \cup {a} |->
                        IF b = a THEN v ELSE arp_table[r][b]]
    OBVIOUS
  <2>2. \A b \in DOMAIN u : Neighbour(r, b, u[b])
    <3> TAKE b \in DOMAIN u
    <3>1. CASE b = a
      <4>1. u[b] = v
        BY <2>1, <3>1
      <4>. QED BY <3>1, <4>1
    <3>2. CASE b # a
      <4>1. b \in DOMAIN arp_table[r] /\ u[b] = arp_table[r][b]
        BY <2>1, <3>2
      <4>. QED BY <4>1 DEF ArpRight
    <3>. QED BY <3>1, <3>2
  <2>3. \A q \in Routers : arp_table'[q] = IF q = r THEN u ELSE arp_table[q]
    BY <1>2, <2>1 DEF ArpOK
  <2>4. ASSUME NEW q \in Routers, NEW b \in DOMAIN arp_table'[q]
        PROVE  Neighbour(q, b, arp_table'[q][b])
    BY <2>2, <2>3, <2>4 DEF ArpRight
  <2>. QED BY <2>4 DEF ArpRight
<1>. QED BY <1>1, <1>2 DEF Learn

LEMMA NoteVlanRight ==
  ASSUME VlansOK, VlansRight, NEW r \in Routers, NEW s, NEW v \in Vlans, v # 0 => Tagged(s),
         NoteVlan(r, s, v)
  PROVE  VlansRight'
<1>1. CASE interface_vlans' = interface_vlans
  BY <1>1 DEF VlansRight
<1>2. CASE v # 0 /\ interface_vlans' = [interface_vlans EXCEPT ![r][s] = v]
  <2>1. ASSUME NEW q \in Routers, NEW t \in Interfaces(q), interface_vlans'[q][t] # 0
        PROVE  Tagged(t)
    <3>1. interface_vlans'[q][t] = interface_vlans[q][t] \/ t = s
      BY <1>2 DEF VlansOK
    <3>. QED BY <1>2, <2>1, <3>1 DEF VlansRight
  <2>. QED BY <2>1 DEF VlansRight
<1>3. CASE v > 0
  <2>1. v # 0
    BY <1>3
  <2>. QED BY <1>2, <1>3, <2>1 DEF NoteVlan
<1>4. CASE ~(v > 0)
  BY <1>1, <1>4 DEF NoteVlan
<1>. QED BY <1>3, <1>4

\* What stays right because it stays.
LEMMA PacketsRightStay ==
  ASSUME PacketsRight, UNCHANGED <<pending, wire, net, fate>> PROVE PacketsRight'
BY DEF PacketsRight, NeverAstray, WireRight

LEMMA TablesRightStay ==
  ASSUME ArpRight, VlansRight, UNCHANGED <<arp_table, interface_vlans>>
  PROVE  ArpRight' /\ VlansRight'
BY DEF ArpRight, VlansRight

\* A station is a neighbour of the routers of its segment.
LEMMA StationNeighbour ==
  ASSUME NEW r \in Routers, NEW st \in Stations, Segment[st] \in Interfaces(r)
  PROVE  /\ Neighbour(r, StationIp[st], Vlan[st])
         /\ Vlan[st] # 0 => Tagged(Segment[st])
BY DEF Neighbour, Tagged

\* Routers of a segment are neighbours.
LEMMA RouterNeighbour ==
  ASSUME NEW r \in Routers, NEW q \in Routers \ {r}, NEW a \in OwnIps(q),
         NEW s, s \in Interfaces(q), s \in Interfaces(r)
  PROVE  Neighbour(r, a, 0)
BY DEF Neighbour

-----------------------------------------------------------------------------
LEMMA ReceiveIpv4Right ==
  ASSUME VlanInv, NEW r \in Routers, NEW f \in net, ReceiveIpv4(r, f)
  PROVE  ArpRight' /\ VlansRight' /\ PacketsRight'
<1>1. PICK p, transit : p = f.packet /\ transit = net \ {f}
  OBVIOUS
<1>2. f \in InTransit /\ p \in Packet /\ f.vlan \in Vlans
  BY <1>1, TakeFromNet DEF VlanInv, RouterInv, InTransit
<1>3. transit \in SUBSET net
  BY <1>1
<1>4. HandlingRight(r, pending[r], transit)
  BY <1>3, HandlingAfter
<1>5. PacketsRight'
  <2>1. CASE p.dst \in OwnIps(r)
    <3>1. Local(r, p, transit)
      BY <1>1, <2>1 DEF ReceiveIpv4
    <3>. QED BY <1>2, <1>4, <3>1, LocalRight
  <2>2. CASE p.dst \notin OwnIps(r)
    <3>1. Forward(r, p, transit)
      BY <1>1, <2>2 DEF ReceiveIpv4
    <3>. QED BY <1>2, <1>4, <3>1, ForwardRight
  <2>. QED BY <2>1, <2>2
<1>6. VlansRight'
  <2>1. f.vlan # 0 => Tagged(f.port)
    BY DEF VlanInv, PacketsRight, TransitRight
  <2>2. NoteVlan(r, f.port, f.vlan) /\ VlansOK /\ VlansRight
    BY DEF ReceiveIpv4, VlanInv, RouterInv, TablesOK
  <2>. QED BY <1>2, <2>1, <2>2, NoteVlanRight
<1>7. ArpRight'
  BY DEF VlanInv, ArpRight, ReceiveIpv4
<1>. QED BY <1>5, <1>6, <1>7

LEMMA OverhearRight ==
  ASSUME VlanInv, NEW r \in Routers, NEW st \in Stations, Overhear(r, st)
  PROVE  ArpRight' /\ VlansRight' /\ PacketsRight'
<1>1. PacketsRight'
  BY PacketsRightStay DEF VlanInv, Overhear
<1>2. ArpRight'
  BY DEF VlanInv, ArpRight, Overhear
<1>3. VlansRight'
  BY NoteVlanRight, VlanTypes, StationNeighbour DEF VlanInv, RouterInv, TablesOK, Overhear
<1>. QED BY <1>1, <1>2, <1>3

LEMMA StationAsksRight ==
  ASSUME VlanInv, NEW r \in Routers, NEW st \in Stations, StationAsks(r, st)
  PROVE  ArpRight' /\ VlansRight' /\ PacketsRight'
<1>1. PacketsRight'
  BY PacketsRightStay DEF VlanInv, StationAsks
<1>2. ArpRight'
  BY LearnRight, StationNeighbour DEF VlanInv, RouterInv, TablesOK, StationAsks
<1>3. VlansRight'
  BY NoteVlanRight, VlanTypes, StationNeighbour DEF VlanInv, RouterInv, TablesOK, StationAsks
<1>. QED BY <1>1, <1>2, <1>3

\* An answer is right if the one who gives it is a neighbour.
LEMMA ReplyRight ==
  ASSUME VlanInv, NEW m \in wire, Neighbour(m.router, m.ip, m.vlan),
         m.vlan # 0 => Tagged(m.port), wire' = wire \cup {Reply(m)},
         UNCHANGED <<pending, net, fate>>
  PROVE  PacketsRight'
<1>1. WireRight /\ m \in Message
  BY DEF VlanInv, PacketsRight, RouterInv, WireOK
<1>2. /\ Reply(m).router = m.router /\ Reply(m).port = m.port
      /\ Reply(m).ip = m.ip /\ Reply(m).vlan = m.vlan
  BY <1>1 DEF Reply, Message
<1>3. WireRight'
  BY <1>1, <1>2 DEF WireRight
<1>. QED BY <1>3 DEF VlanInv, PacketsRight, NeverAstray

LEMMA ReceiveRequestRight ==
  ASSUME VlanInv, NEW r \in Routers, NEW m \in wire, ReceiveRequest(r, m)
  PROVE  ArpRight' /\ VlansRight' /\ PacketsRight'
<1>1. /\ m \in Message /\ m.router \in Routers \ {r} /\ m.port \in Interfaces(r)
      /\ m.port \in Interfaces(m.router) /\ m.vlan = 0
      /\ InterfaceIp[m.router][m.port] # Zero
  BY DEF ReceiveRequest, VlanInv, RouterInv, WireOK, Message, PacketsRight, WireRight
<1>2. ArpRight'
  <2>1. InterfaceIp[m.router][m.port] \in OwnIps(m.router)
    BY <1>1 DEF OwnIps
  <2>2. Neighbour(r, InterfaceIp[m.router][m.port], 0)
    BY <1>1, <2>1, RouterNeighbour
  <2>. QED BY <2>2, LearnRight DEF VlanInv, RouterInv, TablesOK, ReceiveRequest
<1>3. VlansRight'
  BY DEF VlanInv, VlansRight, ReceiveRequest
<1>4. PacketsRight'
  <2>1. CASE m.ip \in OwnIps(r)
    <3>1. Neighbour(m.router, m.ip, m.vlan)
      BY <1>1, <2>1, RouterNeighbour
    <3>. QED BY <1>1, <2>1, <3>1, ReplyRight DEF ReceiveRequest
  <2>2. CASE m.ip \notin OwnIps(r)
    BY <2>2, PacketsRightStay DEF VlanInv, ReceiveRequest
  <2>. QED BY <2>1, <2>2
<1>. QED BY <1>2, <1>3, <1>4

LEMMA StationAnswersRight ==
  ASSUME VlanInv, NEW st \in Stations, NEW m \in wire, StationAnswers(st, m)
  PROVE  ArpRight' /\ VlansRight' /\ PacketsRight'
<1>1. m.router \in Routers /\ m.port \in Interfaces(m.router)
  BY DEF VlanInv, RouterInv, WireOK, Message
<1>2. m.ip = StationIp[st] /\ m.port = Segment[st] /\ m.vlan = Vlan[st]
  BY DEF StationAnswers
<1>3. Neighbour(m.router, m.ip, m.vlan) /\ (m.vlan # 0 => Tagged(m.port))
  BY <1>1, <1>2, StationNeighbour
<1>4. PacketsRight'
  BY <1>3, ReplyRight DEF StationAnswers
<1>. QED BY <1>4, TablesRightStay DEF VlanInv, StationAnswers

LEMMA ReceiveReplyRight ==
  ASSUME VlanInv, NEW r \in Routers, NEW m \in wire, ReceiveReply(r, m)
  PROVE  ArpRight' /\ VlansRight' /\ PacketsRight'
<1>1. Neighbour(r, m.ip, m.vlan) /\ (m.vlan # 0 => Tagged(m.port)) /\ m.vlan \in Vlans
  BY DEF ReceiveReply, VlanInv, RouterInv, WireOK, Message, PacketsRight, WireRight
<1>2. ArpOK /\ VlansOK /\ ArpRight /\ VlansRight /\ PacketsRight
  BY DEF VlanInv, RouterInv, TablesOK
<1>3. Learn(r, m.ip, m.vlan) /\ NoteVlan(r, m.port, m.vlan)
  BY DEF ReceiveReply
<1>4. PacketsRight'
  BY <1>2, PacketsRightStay DEF ReceiveReply
<1>. QED BY <1>1, <1>2, <1>3, <1>4, LearnRight, NoteVlanRight

LEMMA FlushStepRight ==
  ASSUME VlanInv, NEW r \in Routers, NEW a \in flushing[r], FlushStep(r, a)
  PROVE  ArpRight' /\ VlansRight' /\ PacketsRight'
<1>1. PICK i : i = FirstFor(pending[r], a)
  OBVIOUS
<1>2. ArpRight' /\ VlansRight'
  BY TablesRightStay DEF VlanInv, FlushStep
<1>3. CASE i = 0
  BY <1>1, <1>2, <1>3, PacketsRightStay DEF FlushStep, Flush, VlanInv
<1>4. CASE i # 0
  <2>1. QueueOK(r, pending[r]) /\ QueueRight(r, pending[r]) /\ a \in Address
    BY PendingQueue DEF VlanInv, RouterInv, PacketsRight, LoopsOK
  <2>2. i \in 1 .. Len(pending[r]) /\ pending[r][i].ip = a
    BY <1>1, <1>4, <2>1, FirstForType
  <2>3. PICK p, s, queue : /\ p = pending[r][i].packet /\ s = pending[r][i].port
                           /\ queue = RemoveAt(pending[r], i)
    OBVIOUS
  <2>4. s \in Interfaces(r) /\ Leads(r, a, s)
    BY <2>1, <2>2, <2>3, QueueTypes DEF QueueRight
  <2>5. HandlingRight(r, queue, net) /\ QueueOK(r, queue)
    BY <2>2, <2>3, HandlingAfter
  <2>6. SendToNextHop(r, p, a, s, queue, net)
    BY <1>1, <1>4, <2>3 DEF FlushStep, Flush
  <2>7. PacketsRight'
    BY <2>1, <2>4, <2>5, <2>6, SendToNextHopRight
  <2>. QED BY <1>2, <2>7
<1>. QED BY <1>3, <1>4

LEMMA FailStepRight ==
  ASSUME VlanInv, NEW r \in Routers, NEW a \in failing[r], FailStep(r, a)
  PROVE  ArpRight' /\ VlansRight' /\ PacketsRight'
<1>1. PICK i : i = FirstFor(pending[r], a)
  OBVIOUS
<1>2. ArpRight' /\ VlansRight'
  BY TablesRightStay DEF VlanInv, FailStep
<1>3. CASE i = 0
  BY <1>1, <1>2, <1>3, PacketsRightStay DEF FailStep, VlanInv
<1>4. CASE i # 0
  <2>1. /\ QueueOK(r, pending[r]) /\ fate \in [Ids -> Fates]
        /\ pending = [q \in Routers |-> pending[q]]
    BY PendingQueue DEF VlanInv, RouterInv, Placed
  <2>2. i \in 1 .. Len(pending[r])
    BY <1>1, <1>4, <2>1, FirstForType
  <2>3. PICK p, queue : p = pending[r][i].packet /\ queue = RemoveAt(pending[r], i)
    OBVIOUS
  <2>4. p.src \in Address
    BY <2>1, <2>2, <2>3, QueueTypes DEF Packet
  <2>5. HandlingRight(r, queue, net) /\ QueueOK(r, queue)
    BY <2>2, <2>3, HandlingAfter
  <2>6. SendError(r, p, "host_unreachable", queue, net) \/ Drop(r, p, queue, net)
    BY <1>1, <1>4, <2>3 DEF FailStep
  <2>7. PacketsRight'
    BY <2>1, <2>4, <2>5, <2>6, SendErrorRight, DropRight
  <2>. QED BY <1>2, <2>7
<1>. QED BY <1>3, <1>4

\* Waiting packets keep their addresses and interfaces.
SameHops(old, new) ==
  /\ DOMAIN new = DOMAIN old
  /\ \A n \in DOMAIN new : new[n].ip = old[n].ip /\ new[n].port = old[n].port

LEMMA QueueUpdatedRight ==
  ASSUME VlanInv, NEW r \in Routers, NEW queue, SameHops(pending[r], queue),
         pending' = [pending EXCEPT ![r] = queue], UNCHANGED <<net, fate>>
  PROVE  WireRight' => PacketsRight'
<1>1. /\ NeverAstray /\ TransitRight(net) /\ \A q \in Routers : QueueRight(q, pending[q])
      /\ pending = [q \in Routers |-> pending[q]]
  BY DEF VlanInv, PacketsRight, RouterInv, Placed
<1>2. QueueRight(r, queue)
  BY <1>1 DEF QueueRight, SameHops
<1>3. ASSUME NEW q \in Routers PROVE QueueRight(q, pending'[q])
  <2>1. pending'[q] = IF q = r THEN queue ELSE pending[q]
    BY <1>1
  <2>. QED BY <1>1, <1>2, <2>1
<1>. QED BY <1>1, <1>3 DEF PacketsRight, NeverAstray

LEMMA PollRetryRight ==
  ASSUME VlanInv, NEW r \in Routers, PollRetry(r)
  PROVE  ArpRight' /\ VlansRight' /\ PacketsRight'
<1>1. PICK old, p : old = pending[r] /\ p = old[FirstDue(r)]
  OBVIOUS
<1>2. PICK new : new = [n \in DOMAIN old |-> IF old[n].ip = p.ip
                          THEN [old[n] EXCEPT !.attempts = p.attempts + 1,
                                              !.wait = p.wait - Interval]
                          ELSE old[n]]
  OBVIOUS
<1>3. /\ pending' = [pending EXCEPT ![r] = new]
      /\ wire' = wire \cup Requests(r, p.port, p.ip, p.vlan)
      /\ UNCHANGED <<net, fate, arp_table, interface_vlans>>
  BY <1>1, <1>2 DEF PollRetry
<1>4. QueueOK(r, old) /\ DOMAIN old = 1 .. Len(old) /\ \A n \in DOMAIN old : old[n] \in Pending
  BY <1>1, PendingQueue, QueueTypes DEF VlanInv, RouterInv
<1>5. SameHops(old, new)
  BY <1>2, <1>4 DEF Pending, SameHops
<1>6. WireRight'
  <2>1. \A m \in Requests(r, p.port, p.ip, p.vlan) :
          InterfaceIp[m.router][m.port] # Zero /\ m.op # "REPLY"
    BY DEF Requests
  <2>. QED BY <1>3, <2>1 DEF VlanInv, PacketsRight, WireRight
<1>7. PacketsRight'
  <2>1. SameHops(pending[r], new) /\ UNCHANGED <<net, fate>>
    BY <1>1, <1>3, <1>5
  <2>. QED BY <1>3, <1>6, <2>1, QueueUpdatedRight
<1>. QED BY <1>3, <1>7, TablesRightStay DEF VlanInv

LEMMA PollGiveUpRight ==
  ASSUME VlanInv, NEW r \in Routers, PollGiveUp(r)
  PROVE  ArpRight' /\ VlansRight' /\ PacketsRight'
BY PacketsRightStay, TablesRightStay DEF VlanInv, PollGiveUp

LEMMA TickRight ==
  ASSUME VlanInv, NEW r \in Routers, Tick(r)
  PROVE  ArpRight' /\ VlansRight' /\ PacketsRight'
<1>1. PICK old : old = pending[r]
  OBVIOUS
<1>2. PICK new : new = [n \in DOMAIN old |-> [old[n] EXCEPT !.wait = old[n].wait + 1]]
  OBVIOUS
<1>3. /\ pending' = [pending EXCEPT ![r] = new]
      /\ UNCHANGED <<wire, net, fate, arp_table, interface_vlans>>
  BY <1>1, <1>2 DEF Tick
<1>4. QueueOK(r, old) /\ DOMAIN old = 1 .. Len(old) /\ \A n \in DOMAIN old : old[n] \in Pending
  BY <1>1, PendingQueue, QueueTypes DEF VlanInv, RouterInv
<1>5. SameHops(old, new)
  BY <1>2, <1>4 DEF Pending, SameHops
<1>6. WireRight'
  BY <1>3 DEF VlanInv, PacketsRight, WireRight
<1>7. PacketsRight'
  <2>1. SameHops(pending[r], new) /\ UNCHANGED <<net, fate>>
    BY <1>1, <1>3, <1>5
  <2>. QED BY <1>3, <1>6, <2>1, QueueUpdatedRight
<1>. QED BY <1>3, <1>7, TablesRightStay DEF VlanInv

LEMMA StationSendsRight ==
  ASSUME VlanInv, NEW st \in Stations, NEW x \in Sends[st], StationSends(st, x)
  PROVE  ArpRight' /\ VlansRight' /\ PacketsRight'
<1>1. PICK f : /\ f.vlan = Vlan[st] /\ f.port = Segment[st] /\ net' = net \cup {f}
  BY DEF StationSends
<1>2. /\ fate' = [fate EXCEPT ![NewId] = "live"]
      /\ UNCHANGED <<arp_table, interface_vlans, pending, wire>>
  BY DEF StationSends
<1>3. TransitRight(net')
  BY <1>1 DEF VlanInv, PacketsRight, TransitRight, Tagged
<1>4. NeverAstray'
  BY <1>2 DEF VlanInv, RouterInv, Placed, PacketsRight, NeverAstray
<1>5. PacketsRight'
  BY <1>2, <1>3, <1>4 DEF VlanInv, PacketsRight, WireRight
<1>. QED BY <1>2, <1>5, TablesRightStay DEF VlanInv

LEMMA RouterPingsRight ==
  ASSUME VlanInv, NEW r \in Routers, NEW a \in Pings[r], RouterPings(r, a)
  PROVE  ArpRight' /\ VlansRight' /\ PacketsRight'
<1>1. PICK p : p = [id |-> NewId, kind |-> "echo", src |-> InterfaceIp[r][OutPort(r, a)],
                    dst |-> a, ttl |-> DefaultTtl]
  OBVIOUS
<1>2. SendIpv4(r, p, pending[r], net) /\ p.dst \in Address
  BY <1>1, NetworkAssumption DEF RouterPings
<1>3. HandlingRight(r, pending[r], net) /\ QueueOK(r, pending[r])
  BY HandlingAfter
<1>4. PacketsRight'
  BY <1>2, <1>3, SendIpv4Right
<1>. QED BY <1>4, TablesRightStay DEF VlanInv, RouterPings

-----------------------------------------------------------------------------
LEMMA VlanInit == Init => VlanInv
<1> SUFFICES ASSUME Init PROVE VlanInv
  OBVIOUS
<1>1. RouterInv
  BY RouterInit
<1>2. ArpRight /\ VlansRight
  BY DEF Init, ArpRight, VlansRight
<1>3. PacketsRight
  BY DEF Init, PacketsRight, NeverAstray, WireRight, TransitRight, QueueRight
<1>. QED BY <1>1, <1>2, <1>3 DEF VlanInv

LEMMA VlanNext == VlanInv /\ [Next]_vars => VlanInv'
<1> SUFFICES ASSUME VlanInv, [Next]_vars PROVE VlanInv'
  OBVIOUS
<1>1. ArpRight' /\ VlansRight' /\ PacketsRight' => VlanInv'
  BY RouterNext DEF VlanInv
<1>2. ASSUME NEW st \in Stations, NEW x \in Sends[st], StationSends(st, x) PROVE VlanInv'
  BY <1>1, <1>2, StationSendsRight
<1>3. ASSUME NEW st \in Stations, NEW m \in wire, StationAnswers(st, m) PROVE VlanInv'
  BY <1>1, <1>3, StationAnswersRight
<1>4. ASSUME NEW r \in Routers, NEW st \in Stations, StationAsks(r, st) \/ Overhear(r, st)
      PROVE  VlanInv'
  BY <1>1, <1>4, StationAsksRight, OverhearRight
<1>5. ASSUME NEW r \in Routers, NEW a \in Pings[r], RouterPings(r, a) PROVE VlanInv'
  BY <1>1, <1>5, RouterPingsRight
<1>6. ASSUME NEW r \in Routers, ReceiveAny(r) PROVE VlanInv'
  BY <1>1, <1>6, ReceiveIpv4Right DEF ReceiveAny
<1>7. ASSUME NEW r \in Routers, NEW m \in wire, ReceiveRequest(r, m) \/ ReceiveReply(r, m)
      PROVE  VlanInv'
  BY <1>1, <1>7, ReceiveRequestRight, ReceiveReplyRight
<1>8. ASSUME NEW r \in Routers, NEW a \in flushing[r], FlushStep(r, a) PROVE VlanInv'
  BY <1>1, <1>8, FlushStepRight
<1>9. ASSUME NEW r \in Routers, FailAny(r) PROVE VlanInv'
  BY <1>1, <1>9, FailStepRight DEF FailAny
<1>10. ASSUME NEW r \in Routers, PollRetry(r) \/ PollGiveUp(r) \/ Tick(r) PROVE VlanInv'
  BY <1>1, <1>10, PollRetryRight, PollGiveUpRight, TickRight
<1>11. CASE UNCHANGED vars
  <2>1. /\ UNCHANGED <<pending, wire, net, fate>>
        /\ UNCHANGED <<arp_table, interface_vlans>>
    BY <1>11 DEF vars
  <2>. QED BY <1>1, <2>1, PacketsRightStay, TablesRightStay DEF VlanInv
<1>. QED BY <1>2, <1>3, <1>4, <1>5, <1>6, <1>7, <1>8, <1>9, <1>10, <1>11 DEF Next

\* The invariant that NeverAstray needs: what every router knows of its
\* neighbours and their VLANs is true, and so is what is on its way to it.
THEOREM VlanInvariant == Spec => []VlanInv
BY VlanInit, VlanNext, PTL DEF Spec

\* However the VLAN of an interface changes with the frames that come, no
\* packet leaves it in the VLAN of somebody else (router_vlan_for_ip).
THEOREM PacketsNeverAstray == Spec => []NeverAstray
<1>1. VlanInv => NeverAstray
  BY DEF VlanInv, PacketsRight
<1>. QED BY <1>1, VlanInvariant, PTL
=============================================================================
