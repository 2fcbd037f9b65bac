---------------------------- MODULE HostArpProofs ----------------------------
(***************************************************************************)
(* The pending queue of a host and its retries, for every number of hosts,  *)
(* every queue and table size, and every loss, duplication or delay of the  *)
(* ARP messages.  Conservation and SharedRetry are inductive together:      *)
(* Conservation says which packet an id stands for, SharedRetry that the    *)
(* packets removed together were asked for together.                        *)
(***************************************************************************)
EXTENDS HostArp, WellFoundedInduction, TLAPS

\* What Conservation and SharedRetry say of one host.
Queue(h) ==
  /\ IdsOf(pending[h]) = {i \in Ids : fate[h][i] = "waiting"}
  /\ \A p, q \in pending[h] : p.id = q.id => p = q

Retries(h) ==
  /\ \A p, q \in pending[h] : p.ip = q.ip => p.wait = q.wait
  /\ \A p \in pending[h] : /\ p.attempts = asked[h][p.ip]
                           /\ p.attempts \in 1 .. MaxAttempts
                           /\ Request(h, p.ip) \in wire
  /\ \A a \in NextHops : Waiting(h, a) = {} => asked[h][a] = 0

ArpInv == TypeOK /\ \A h \in Hosts : Queue(h) /\ Retries(h)

\* A step of host h leaves the queues of the others alone.
Elsewhere(h) ==
  /\ \A g \in Hosts \ {h} : /\ pending'[g] = pending[g]
                            /\ fate'[g] = fate[g]
                            /\ asked'[g] = asked[g]
  /\ wire \subseteq wire'

-----------------------------------------------------------------------------
\* The host constants are natural numbers.
LEMMA ArpNumbers ==
  /\ QueueSize \in Nat \ {0} /\ TableSize \in Nat \ {0}
  /\ MaxAttempts \in Nat \ {0} /\ Interval \in Nat \ {0}
  /\ MaxStep \in Nat \ {0} /\ MaxPackets \in Nat \ {0}
BY ArpAssumption

\* Every nonempty set of numbers has a least member.
LEMMA LeastExists ==
  ASSUME NEW S \in SUBSET Nat, S # {}
  PROVE  \E m \in S : \A n \in S : m <= n
<1>1. PICK m \in S : \A n \in S : ~(<<n, m>> \in OpToRel(<, Nat))
  BY NatLessThanWellFounded, WFMin, Zenon
<1>2. \A n \in S : ~(n < m)
  BY <1>1 DEF OpToRel
<1>. QED BY <1>2

\* A nonempty set of packets has a first one.
LEMMA FirstExists ==
  ASSUME NEW S \in SUBSET Packet, S # {}
  PROVE  First(S) \in S
<1>1. IdsOf(S) \in SUBSET Nat /\ IdsOf(S) # {}
  BY DEF IdsOf, Packet, Ids
<1>2. PICK m \in IdsOf(S) : \A n \in IdsOf(S) : m <= n
  BY <1>1, LeastExists
<1>3. PICK p \in S : p.id = m
  BY DEF IdsOf
<1>4. \A q \in S : p.id <= q.id
  BY <1>2, <1>3 DEF IdsOf
<1>. QED BY <1>3, <1>4 DEF First

\* The number of the next packet is one that was not used.
LEMMA NextId ==
  ASSUME TypeOK, NEW h \in Hosts, \E i \in 1 .. Quota[h] : fate[h][i] = "new"
  PROVE  LET id == CHOOSE i \in Ids : /\ fate[h][i] = "new"
                                      /\ \A j \in 1 .. i - 1 : fate[h][j] # "new"
         IN id \in Ids /\ fate[h][id] = "new"
<1> DEFINE S == {i \in Ids : fate[h][i] = "new"}
<1>1. Quota[h] \in 0 .. MaxPackets
  BY ArpAssumption
<1>2. S \in SUBSET Nat /\ S # {}
  BY <1>1, ArpNumbers DEF Ids
<1>3. PICK m \in S : \A n \in S : m <= n
  BY <1>2, LeastExists
<1>4. \A j \in 1 .. m - 1 : fate[h][j] # "new"
  BY <1>2, <1>3, ArpNumbers DEF Ids
<1>. QED BY <1>3, <1>4

\* The next hop of what is not broadcast is an address or, for a host with
\* a leased address, any destination.
LEMMA NextHopType ==
  ASSUME NEW h \in Hosts, NEW target \in Targets[h], target # Broadcast
  PROVE  NextHop(h, target) \in NextHops
BY ArpAssumption DEF NextHop, NextHops, Addresses

\* The other hosts keep their part of the invariant.
LEMMA OthersKeep ==
  ASSUME ArpInv, NEW h \in Hosts, Elsewhere(h), NEW g \in Hosts \ {h}
  PROVE  Queue(g)' /\ Retries(g)'
<1>1. Queue(g) /\ Retries(g)
  BY DEF ArpInv
<1>2. /\ pending'[g] = pending[g] /\ fate'[g] = fate[g]
      /\ asked'[g] = asked[g] /\ wire \subseteq wire'
  BY DEF Elsewhere
<1>3. Queue(g)'
  BY <1>1, <1>2 DEF Queue, IdsOf
<1>4. Retries(g)'
  BY <1>1, <1>2 DEF Retries, Waiting, Request
<1>. QED BY <1>3, <1>4

\* Taking every packet that waits for an address out of the queue, as a
\* flush and a failure do.
LEMMA RemoveKeeps ==
  ASSUME ArpInv, NEW h \in Hosts, NEW a \in NextHops, NEW f \in {"sent", "failed"},
         pending' = [pending EXCEPT ![h] = @ \ Waiting(h, a)],
         Settle(h, IdsOf(Waiting(h, a)), f),
         asked' = [asked EXCEPT ![h][a] = 0],
         wire' = wire
  PROVE  /\ pending' \in [Hosts -> SUBSET Packet]
         /\ fate' \in [Hosts -> [Ids -> Fates]]
         /\ asked' \in [Hosts -> [NextHops -> Nat]]
         /\ Elsewhere(h) /\ Queue(h)' /\ Retries(h)'
<1>1. TypeOK /\ Queue(h) /\ Retries(h)
  BY DEF ArpInv
<1>2. /\ pending'[h] = pending[h] \ Waiting(h, a)
      /\ fate'[h] = [i \in Ids |-> IF i \in IdsOf(Waiting(h, a)) THEN f ELSE fate[h][i]]
      /\ asked'[h] = [asked[h] EXCEPT ![a] = 0]
  BY <1>1 DEF TypeOK, Settle
<1>3. /\ pending' \in [Hosts -> SUBSET Packet]
      /\ asked' \in [Hosts -> [NextHops -> Nat]]
  BY <1>1 DEF TypeOK
<1>4. fate' \in [Hosts -> [Ids -> Fates]]
  <2>1. fate'[h] \in [Ids -> Fates]
    BY <1>1, <1>2 DEF TypeOK, Fates
  <2>2. fate' = [fate EXCEPT ![h] = fate'[h]]
    BY <1>1, <1>2 DEF TypeOK, Settle
  <2>. QED BY <1>1, <2>1, <2>2 DEF TypeOK
<1>5. Elsewhere(h)
  BY <1>1 DEF TypeOK, Settle, Elsewhere
<1>6. Queue(h)'
  <2>1. \A p, q \in pending'[h] : p.id = q.id => p = q
    BY <1>1, <1>2 DEF Queue
  <2>2. \A p \in pending[h] : p.id \in IdsOf(Waiting(h, a)) <=> p \in Waiting(h, a)
    BY <1>1 DEF Queue, IdsOf, Waiting
  <2>3. ASSUME NEW i \in Ids
        PROVE  i \in IdsOf(pending'[h]) <=> fate'[h][i] = "waiting"
    <3>1. fate'[h][i] = "waiting" <=> fate[h][i] = "waiting" /\ i \notin IdsOf(Waiting(h, a))
      BY <1>2
    <3>2. i \in IdsOf(pending'[h]) <=> i \in IdsOf(pending[h]) /\ i \notin IdsOf(Waiting(h, a))
      BY <1>2, <2>2 DEF IdsOf
    <3>. QED BY <1>1, <3>1, <3>2 DEF Queue
  <2>4. IdsOf(pending'[h]) \subseteq Ids
    BY <1>3 DEF IdsOf, Packet
  <2>. QED BY <2>1, <2>3, <2>4 DEF Queue, IdsOf
<1>7. Retries(h)'
  <2>1. \A p \in pending'[h] : p \in pending[h] /\ p.ip # a /\ p.ip \in NextHops
    BY <1>1, <1>2 DEF Waiting, TypeOK, Packet
  <2>2. \A b \in NextHops : asked'[h][b] = IF b = a THEN 0 ELSE asked[h][b]
    BY <1>1, <1>2 DEF TypeOK
  <2>3. \A b \in NextHops : b # a => {p \in pending'[h] : p.ip = b} = Waiting(h, b)
    BY <1>2 DEF Waiting
  <2>. QED BY <1>1, <2>1, <2>2, <2>3 DEF Retries, Waiting, Request
<1>. QED BY <1>3, <1>4, <1>5, <1>6, <1>7

\* Updating the retry state of the queue, packet by packet, as a tick does.
LEMMA TickKeeps ==
  ASSUME ArpInv, NEW h \in Hosts, NEW d \in 1 .. MaxStep, Tick(h, d)
  PROVE  TypeOK' /\ Elsewhere(h) /\ Queue(h)' /\ Retries(h)'
<1> DEFINE Later(p) == [p EXCEPT !.wait = @ + d]
<1>1. TypeOK /\ Queue(h) /\ Retries(h)
  BY DEF ArpInv
<1>2. /\ pending'[h] = {Later(p) : p \in pending[h]}
      /\ \A g \in Hosts \ {h} : pending'[g] = pending[g]
      /\ pending' = [pending EXCEPT ![h] = pending'[h]]
      /\ UNCHANGED <<has_ip, leased, table, icmp, wire, fate, asked>>
  BY <1>1 DEF TypeOK, Tick
<1>3. \A p \in pending[h] : p \in Packet /\ p.ip \in NextHops
  BY <1>1 DEF TypeOK, Packet
<1>4. ASSUME NEW p \in Packet
      PROVE  /\ Later(p) \in Packet /\ Later(p).id = p.id /\ Later(p).ip = p.ip
             /\ Later(p).attempts = p.attempts /\ Later(p).wait = p.wait + d
  BY ArpNumbers DEF Packet
<1> HIDE DEF Later
<1>5. TypeOK'
  BY <1>1, <1>2, <1>3, <1>4 DEF TypeOK
<1>6. Elsewhere(h)
  BY <1>2 DEF Elsewhere
<1>7. Queue(h)'
  <2>1. IdsOf(pending'[h]) = IdsOf(pending[h])
    BY <1>2, <1>3, <1>4 DEF IdsOf
  <2>2. \A p, q \in pending'[h] : p.id = q.id => p = q
    BY <1>1, <1>2, <1>3, <1>4 DEF Queue
  <2>. QED BY <1>1, <1>2, <2>1, <2>2 DEF Queue, IdsOf
<1>8. Retries(h)'
  <2>1. \A q \in pending'[h] : \E p \in pending[h] : q = Later(p)
    BY <1>2
  <2>2. \A a \in NextHops : {q \in pending'[h] : q.ip = a} = {} => Waiting(h, a) = {}
    BY <1>2, <1>3, <1>4 DEF Waiting
  <2>3. \A p, q \in pending'[h] : p.ip = q.ip => p.wait = q.wait
    BY <1>1, <1>3, <1>4, <2>1 DEF Retries
  <2>4. \A p \in pending'[h] : /\ p.attempts = asked[h][p.ip]
                               /\ p.attempts \in 1 .. MaxAttempts
                               /\ Request(h, p.ip) \in wire
    BY <1>1, <1>3, <1>4, <2>1 DEF Retries
  <2>. QED BY <1>1, <1>2, <2>2, <2>3, <2>4 DEF Retries, Waiting, Request
<1>. QED BY <1>5, <1>6, <1>7, <1>8

\* A retry gives every packet for the address the state of the first one.
LEMMA RetryKeeps ==
  ASSUME ArpInv, NEW h \in Hosts, Retry(h)
  PROVE  TypeOK' /\ Elsewhere(h) /\ Queue(h)' /\ Retries(h)'
<1> DEFINE first == First(Due(h))
           Again(p) == IF p.ip = first.ip
                       THEN [p EXCEPT !.attempts = first.attempts + 1,
                                      !.wait = first.wait - Interval]
                       ELSE p
<1>1. TypeOK /\ Queue(h) /\ Retries(h)
  BY DEF ArpInv
<1>2. first \in Due(h)
  BY <1>1, FirstExists DEF Retry, Due, TypeOK
<1>3. first.attempts < MaxAttempts
  BY DEF Retry
<1>4. /\ pending' = [pending EXCEPT ![h] = {Again(p) : p \in @}]
      /\ wire' = wire \cup {Request(h, first.ip)}
      /\ asked' = [asked EXCEPT ![h][first.ip] = @ + 1]
      /\ UNCHANGED <<has_ip, leased, table, icmp, fate>>
  BY DEF Retry
<1> HIDE DEF first
<1>. /\ first \in pending[h] /\ first \in Packet /\ first.ip \in NextHops
     /\ first.wait >= Interval /\ first.attempts \in Nat /\ first.wait \in Nat
  BY <1>1, <1>2 DEF Due, TypeOK, Packet
<1>5. ASSUME NEW p \in Packet
      PROVE  /\ Again(p) \in Packet /\ Again(p).id = p.id /\ Again(p).ip = p.ip
             /\ p.ip = first.ip => /\ Again(p).attempts = first.attempts + 1
                                   /\ Again(p).wait = first.wait - Interval
             /\ p.ip # first.ip => Again(p) = p
  <2>1. first.attempts + 1 \in Nat /\ first.wait - Interval \in Nat
    BY ArpNumbers
  <2>. QED BY <2>1 DEF Packet
<1> HIDE DEF Again
<1>6. /\ pending'[h] = {Again(p) : p \in pending[h]}
      /\ \A g \in Hosts \ {h} : pending'[g] = pending[g] /\ asked'[g] = asked[g]
      /\ pending' = [pending EXCEPT ![h] = pending'[h]]
      /\ asked'[h] = [asked[h] EXCEPT ![first.ip] = @ + 1]
  BY <1>1, <1>4 DEF TypeOK
<1>7. \A p \in pending[h] : p \in Packet /\ p.ip \in NextHops
  BY <1>1 DEF TypeOK, Packet
<1>8. TypeOK'
  <2>1. pending' \in [Hosts -> SUBSET Packet]
    BY <1>1, <1>5, <1>6, <1>7 DEF TypeOK
  <2>2. Request(h, first.ip) \in Message
    BY <1>3 DEF Request, Message
  <2>3. asked' \in [Hosts -> [NextHops -> Nat]]
    BY <1>1, <1>3, <1>4 DEF TypeOK
  <2>. QED BY <1>1, <1>4, <2>1, <2>2, <2>3 DEF TypeOK
<1>9. Elsewhere(h)
  BY <1>4, <1>6 DEF Elsewhere
<1>10. Queue(h)'
  <2>1. IdsOf(pending'[h]) = IdsOf(pending[h])
    BY <1>5, <1>6, <1>7 DEF IdsOf
  <2>2. \A p, q \in pending'[h] : p.id = q.id => p = q
    BY <1>1, <1>5, <1>6, <1>7 DEF Queue
  <2>. QED BY <1>1, <1>4, <2>1, <2>2 DEF Queue, IdsOf
<1>11. Retries(h)'
  <2>1. \A b \in NextHops : asked'[h][b] = IF b = first.ip THEN asked[h][b] + 1
                                           ELSE asked[h][b]
    BY <1>1, <1>6 DEF TypeOK
  <2>2. \A q \in pending'[h] : \E p \in pending[h] : q = Again(p)
    BY <1>6
  <2>3. \A a \in NextHops : {q \in pending'[h] : q.ip = a} = {} =>
                               a # first.ip /\ Waiting(h, a) = {}
    BY <1>3, <1>5, <1>6, <1>7 DEF Waiting
  <2>4. \A p, q \in pending'[h] : p.ip = q.ip => p.wait = q.wait
    BY <1>1, <1>5, <1>7, <2>2 DEF Retries
  <2>5. ASSUME NEW q \in pending'[h]
        PROVE  /\ q.attempts = asked'[h][q.ip]
               /\ q.attempts \in 1 .. MaxAttempts
               /\ Request(h, q.ip) \in wire'
    <3>1. PICK p \in pending[h] : q = Again(p)
      BY <2>2
    <3>2. CASE p.ip = first.ip
      <4>1. q.ip = first.ip /\ q.attempts = first.attempts + 1
        BY <1>5, <1>7, <3>1, <3>2
      <4>2. first.attempts = asked[h][first.ip]
        BY <1>1, <1>3 DEF Retries
      <4>. QED BY <1>3, <1>4, <2>1, <4>1, <4>2, ArpNumbers
    <3>3. CASE p.ip # first.ip
      <4>1. q = p
        BY <1>5, <1>7, <3>1, <3>3
      <4>. QED BY <1>1, <1>4, <1>7, <2>1, <3>3, <4>1 DEF Retries
    <3>. QED BY <3>2, <3>3
  <2>. QED BY <1>1, <2>1, <2>3, <2>4, <2>5 DEF Retries, Waiting, Request
<1>. QED BY <1>8, <1>9, <1>10, <1>11

\* Sending at once, or refusing, a packet that was not seen before.
LEMMA SettleNewKeeps ==
  ASSUME ArpInv, NEW h \in Hosts, NEW id \in Ids, fate[h][id] = "new",
         NEW f \in {"sent", "refused"}, Settle(h, {id}, f),
         UNCHANGED <<pending, wire, asked>>
  PROVE  /\ fate' \in [Hosts -> [Ids -> Fates]]
         /\ Elsewhere(h) /\ Queue(h)' /\ Retries(h)'
<1>1. TypeOK /\ Queue(h) /\ Retries(h)
  BY DEF ArpInv
<1>2. /\ fate'[h] = [i \in Ids |-> IF i \in {id} THEN f ELSE fate[h][i]]
      /\ fate' = [fate EXCEPT ![h] = fate'[h]]
  BY <1>1 DEF TypeOK, Settle
<1>3. fate' \in [Hosts -> [Ids -> Fates]]
  <2>1. fate'[h] \in [Ids -> Fates]
    BY <1>1, <1>2 DEF TypeOK, Fates
  <2>. QED BY <1>1, <1>2, <2>1 DEF TypeOK
<1>4. Elsewhere(h)
  BY <1>1, <1>2 DEF TypeOK, Elsewhere
<1>5. Queue(h)'
  <2>1. \A i \in Ids : fate'[h][i] = "waiting" <=> fate[h][i] = "waiting"
    BY <1>2
  <2>. QED BY <1>1, <2>1 DEF Queue, IdsOf
<1>6. Retries(h)'
  BY <1>1 DEF Retries, Waiting, Request
<1>. QED BY <1>3, <1>4, <1>5, <1>6

\* Queuing a packet: it joins those that wait for its next hop in their
\* retry state, or is the first and asks.
LEMMA QueueKeeps ==
  ASSUME ArpInv, NEW h \in Hosts, NEW id \in Ids, fate[h][id] = "new",
         NEW a \in NextHops, NEW echo \in BOOLEAN, QueuePacket(h, id, a, echo)
  PROVE  /\ pending' \in [Hosts -> SUBSET Packet]
         /\ fate' \in [Hosts -> [Ids -> Fates]]
         /\ asked' \in [Hosts -> [NextHops -> Nat]]
         /\ wire' \in SUBSET Message
         /\ Elsewhere(h) /\ Queue(h)' /\ Retries(h)'
<1> DEFINE mates == Waiting(h, a)
           first == First(mates)
           new   == Queued(h, id, a, echo)
           n     == IF mates # {} THEN first.attempts ELSE 1
           w     == IF mates # {} THEN first.wait ELSE 0
<1>1. TypeOK /\ Queue(h) /\ Retries(h)
  BY DEF ArpInv
<1>2. /\ pending' = [pending EXCEPT ![h] = @ \cup {new}]
      /\ fate' = [fate EXCEPT ![h] = [i \in Ids |-> IF i \in {id} THEN "waiting" ELSE @[i]]]
      /\ IF mates = {}
         THEN /\ wire' = wire \cup {Request(h, a)}
              /\ asked' = [asked EXCEPT ![h][a] = @ + 1]
         ELSE UNCHANGED <<wire, asked>>
  BY DEF QueuePacket, Settle
<1>3. mates \subseteq pending[h] /\ pending[h] \subseteq Packet
  BY <1>1 DEF Waiting, TypeOK
<1>4. mates # {} => first \in mates
  BY <1>3, FirstExists
<1>5. new = [id |-> id, ip |-> a, echo |-> echo, attempts |-> n, wait |-> w]
  BY DEF Queued
<1> HIDE DEF mates, first, n, w, new
<1>6. mates # {} => /\ n = first.attempts /\ w = first.wait /\ first \in pending[h]
                    /\ first.ip = a /\ first.attempts \in Nat /\ first.wait \in Nat
  BY <1>3, <1>4 DEF n, w, mates, Waiting, Packet
<1>7. mates = {} => n = 1 /\ w = 0
  BY DEF n, w
<1>8. /\ n \in Nat /\ w \in Nat /\ new \in Packet /\ new.id = id /\ new.ip = a
      /\ new.attempts = n /\ new.wait = w
  <2>1. n \in Nat /\ w \in Nat
    BY <1>6, <1>7
  <2>. QED BY <1>5, <2>1 DEF Packet
<1>9. /\ pending'[h] = pending[h] \cup {new}
      /\ fate'[h] = [i \in Ids |-> IF i \in {id} THEN "waiting" ELSE fate[h][i]]
      /\ fate' = [fate EXCEPT ![h] = fate'[h]]
  BY <1>1, <1>2 DEF TypeOK
<1>10. pending' \in [Hosts -> SUBSET Packet]
  BY <1>1, <1>2, <1>8 DEF TypeOK
<1>11. fate' \in [Hosts -> [Ids -> Fates]]
  <2>1. fate'[h] \in [Ids -> Fates]
    BY <1>1, <1>9 DEF TypeOK, Fates
  <2>. QED BY <1>1, <1>9, <2>1 DEF TypeOK
<1>12. wire' \in SUBSET Message /\ wire \subseteq wire'
  <2>1. Request(h, a) \in Message
    BY DEF Request, Message
  <2>. QED BY <1>1, <1>2, <2>1 DEF TypeOK
<1>13. asked' \in [Hosts -> [NextHops -> Nat]]
  <2>1. CASE mates = {}
    <3>1. asked' = [asked EXCEPT ![h][a] = @ + 1]
      BY <1>2, <2>1
    <3>. QED BY <1>1, <3>1 DEF TypeOK
  <2>2. CASE mates # {}
    BY <1>1, <1>2, <2>2 DEF TypeOK
  <2>. QED BY <2>1, <2>2
<1>14. Elsewhere(h)
  BY <1>1, <1>2, <1>12 DEF TypeOK, Elsewhere
<1>15. id \notin IdsOf(pending[h])
  BY <1>1 DEF Queue
<1>16. Queue(h)'
  <2>1. IdsOf(pending'[h]) = IdsOf(pending[h]) \cup {id}
    BY <1>8, <1>9 DEF IdsOf
  <2>2. \A i \in Ids : fate'[h][i] = "waiting" <=> fate[h][i] = "waiting" \/ i = id
    BY <1>9
  <2>3. \A p, q \in pending'[h] : p.id = q.id => p = q
    BY <1>1, <1>8, <1>9, <1>15 DEF Queue, IdsOf
  <2>. QED BY <1>1, <2>1, <2>2, <2>3 DEF Queue, IdsOf
<1>17. \A p \in pending[h] : p.ip \in NextHops
  BY <1>3 DEF Packet
<1>18. \A p \in pending[h] : p.ip = a => p \in mates
  BY DEF mates, Waiting
<1>19. Retries(h)'
  <2>1. \A b \in NextHops : b # a => asked'[h][b] = asked[h][b]
    BY <1>1, <1>2 DEF TypeOK
  <2>2. asked'[h][a] = IF mates = {} THEN asked[h][a] + 1 ELSE asked[h][a]
    BY <1>1, <1>2 DEF TypeOK
  <2>3. mates = {} => asked[h][a] = 0
    BY <1>1 DEF Retries, mates
  <2>4. n = asked'[h][a] /\ n \in 1 .. MaxAttempts /\ Request(h, a) \in wire'
    <3>1. CASE mates = {}
      BY <1>2, <1>7, <2>2, <2>3, <3>1, ArpNumbers
    <3>2. CASE mates # {}
      BY <1>1, <1>6, <1>12, <2>2, <3>2 DEF Retries
    <3>. QED BY <3>1, <3>2
  <2>5. \A p \in pending[h] : p.ip = a => p.wait = w
    BY <1>1, <1>6, <1>18 DEF Retries
  <2>6. \A p, q \in pending'[h] : p.ip = q.ip => p.wait = q.wait
    BY <1>1, <1>8, <1>9, <2>5 DEF Retries
  <2>7. ASSUME NEW p \in pending'[h]
        PROVE  /\ p.attempts = asked'[h][p.ip]
               /\ p.attempts \in 1 .. MaxAttempts
               /\ Request(h, p.ip) \in wire'
    <3>1. CASE p = new
      BY <1>8, <2>4, <3>1
    <3>2. CASE p \in pending[h] /\ p.ip # a
      BY <1>1, <1>12, <1>17, <2>1, <3>2 DEF Retries
    <3>3. CASE p \in pending[h] /\ p.ip = a
      <4>1. asked'[h][a] = asked[h][a]
        BY <1>18, <2>2, <3>3
      <4>. QED BY <1>1, <1>12, <3>3, <4>1 DEF Retries
    <3>. QED BY <1>9, <3>1, <3>2, <3>3
  <2>8. \A b \in NextHops : {p \in pending'[h] : p.ip = b} = {} =>
                              b # a /\ Waiting(h, b) = {}
    BY <1>8, <1>9 DEF Waiting
  <2>. QED BY <1>1, <2>1, <2>6, <2>7, <2>8 DEF Retries, Waiting, Request
<1>. QED BY <1>10, <1>11, <1>12, <1>13, <1>14, <1>16, <1>19

\* host_send_l3_packet
LEMMA SendKeeps ==
  ASSUME ArpInv, NEW h \in Hosts, NEW target \in Targets[h], NEW echo \in BOOLEAN,
         HostSend(h, target, echo)
  PROVE  TypeOK' /\ Elsewhere(h) /\ Queue(h)' /\ Retries(h)'
<1> DEFINE id == CHOOSE i \in Ids : /\ fate[h][i] = "new"
                                    /\ \A j \in 1 .. i - 1 : fate[h][j] # "new"
           a  == NextHop(h, target)
<1>1. TypeOK
  BY DEF ArpInv
<1>2. id \in Ids /\ fate[h][id] = "new"
  BY <1>1, NextId DEF HostSend
<1>3. /\ StartEcho(h, echo)
      /\ UNCHANGED <<has_ip, leased, table>>
      /\ \/ SendOut(h, id)
         \/ Refuse(h, id)
         \/ target # Broadcast /\ QueuePacket(h, id, a, echo)
  BY DEF HostSend
<1> HIDE DEF id
<1>4. icmp' \in [Hosts -> 0 .. MaxPackets]
  BY <1>1, <1>3, ArpNumbers DEF StartEcho, TypeOK
<1>5. CASE SendOut(h, id)
  <2>1. /\ fate' \in [Hosts -> [Ids -> Fates]]
        /\ Elsewhere(h) /\ Queue(h)' /\ Retries(h)'
    BY <1>2, <1>5, SettleNewKeeps DEF SendOut
  <2>. QED BY <1>1, <1>3, <1>4, <1>5, <2>1 DEF TypeOK, SendOut
<1>6. CASE Refuse(h, id)
  <2>1. /\ fate' \in [Hosts -> [Ids -> Fates]]
        /\ Elsewhere(h) /\ Queue(h)' /\ Retries(h)'
    BY <1>2, <1>6, SettleNewKeeps DEF Refuse
  <2>. QED BY <1>1, <1>3, <1>4, <1>6, <2>1 DEF TypeOK, Refuse
<1>7. CASE target # Broadcast /\ QueuePacket(h, id, a, echo)
  <2>1. a \in NextHops
    BY <1>7, NextHopType
  <2> HIDE DEF a
  <2>2. /\ pending' \in [Hosts -> SUBSET Packet]
        /\ fate' \in [Hosts -> [Ids -> Fates]]
        /\ asked' \in [Hosts -> [NextHops -> Nat]]
        /\ wire' \in SUBSET Message
        /\ Elsewhere(h) /\ Queue(h)' /\ Retries(h)'
    BY <1>2, <1>7, <2>1, QueueKeeps
  <2>. QED BY <1>1, <1>3, <1>4, <2>2 DEF TypeOK
<1>. QED BY <1>3, <1>5, <1>6, <1>7

\* The ARP branch of host_receive
LEMMA ReceiveKeeps ==
  ASSUME ArpInv, NEW h \in Hosts, NEW m \in wire,
         ReceiveRequest(h, m) \/ ReceiveReply(h, m)
  PROVE  TypeOK' /\ Elsewhere(h) /\ Queue(h)' /\ Retries(h)'
<1>1. TypeOK /\ Queue(h) /\ Retries(h)
  BY DEF ArpInv
<1>2. m.src \in Hosts /\ m.src \in NextHops
  BY <1>1 DEF TypeOK, Message, NextHops, Addresses
<1>3. Learn(h, m.src) \in SUBSET Addresses
  BY <1>1, <1>2 DEF Learn, TypeOK, Addresses
<1>4. [table EXCEPT ![h] = Learn(h, m.src)] \in [Hosts -> SUBSET Addresses]
  BY <1>1, <1>3 DEF TypeOK
<1>5. CASE ReceiveRequest(h, m)
  <2>1. [op |-> "REPLY", src |-> h, ip |-> m.src] \in Message
    BY <1>2 DEF Message
  <2>2. wire \subseteq wire' /\ wire' \in SUBSET Message
    BY <1>1, <1>5, <2>1 DEF ReceiveRequest, TypeOK
  <2>3. TypeOK'
    BY <1>1, <1>4, <1>5, <2>2 DEF ReceiveRequest, TypeOK
  <2>4. Elsewhere(h)
    BY <1>5, <2>2 DEF ReceiveRequest, Elsewhere
  <2>5. Queue(h)'
    BY <1>1, <1>5 DEF ReceiveRequest, Queue, IdsOf
  <2>6. Retries(h)'
    BY <1>1, <1>5, <2>2 DEF ReceiveRequest, Retries, Waiting, Request
  <2>. QED BY <2>3, <2>4, <2>5, <2>6
<1>6. CASE ReceiveReply(h, m)
  <2>1. CASE m.src \in Learn(h, m.src)
    <3>1. Flush(h, m.src) /\ UNCHANGED <<has_ip, leased, icmp, wire>>
      BY <1>6, <2>1 DEF ReceiveReply
    <3>2. /\ pending' \in [Hosts -> SUBSET Packet]
          /\ fate' \in [Hosts -> [Ids -> Fates]]
          /\ asked' \in [Hosts -> [NextHops -> Nat]]
          /\ Elsewhere(h) /\ Queue(h)' /\ Retries(h)'
      BY <1>2, <3>1, RemoveKeeps DEF Flush
    <3>. QED BY <1>1, <1>4, <1>6, <3>1, <3>2 DEF ReceiveReply, TypeOK
  <2>2. CASE m.src \notin Learn(h, m.src)
    <3>1. UNCHANGED <<has_ip, leased, icmp, wire, pending, fate, asked>>
      BY <1>6, <2>2 DEF ReceiveReply
    <3>. QED BY <1>1, <1>4, <1>6, <3>1
             DEF ReceiveReply, TypeOK, Elsewhere, Queue, IdsOf, Retries, Waiting, Request
  <2>. QED BY <2>1, <2>2
<1>. QED BY <1>5, <1>6

\* The last of the failed echo requests, when there is one.
LEMMA ReportType ==
  ASSUME TypeOK, NEW h \in Hosts, NEW failed \in SUBSET Packet, ReportFailure(h, failed)
  PROVE  icmp' \in [Hosts -> 0 .. MaxPackets]
<1> DEFINE echoes == {p \in failed : p.echo}
           S == IdsOf(echoes)
           Below == {MaxPackets - i : i \in S}
<1>1. CASE echoes = {}
  BY <1>1 DEF ReportFailure, TypeOK
<1>2. CASE echoes # {}
  <2>1. S \subseteq Ids /\ S # {}
    BY <1>2 DEF IdsOf, Packet
  <2>2. icmp' = [icmp EXCEPT ![h] = CHOOSE i \in S : \A j \in S : j <= i]
    BY <1>2 DEF ReportFailure
  <2> HIDE DEF S
  <2>3. Below \in SUBSET Nat /\ Below # {}
    <3>1. \A i \in S : MaxPackets - i \in Nat
      BY <2>1, ArpNumbers DEF Ids
    <3>. QED BY <2>1, <3>1
  <2>4. PICK m \in Below : \A n \in Below : m <= n
    BY <2>3, LeastExists
  <2>5. PICK i \in S : m = MaxPackets - i
    BY <2>4
  <2>6. \A j \in S : MaxPackets - j \in Below
    OBVIOUS
  <2>7. \A j \in S : j <= i
    BY <2>1, <2>4, <2>5, <2>6, ArpNumbers DEF Ids
  <2>8. (CHOOSE k \in S : \A j \in S : j <= k) \in Ids
    BY <2>1, <2>7
  <2>. QED BY <2>2, <2>8, ArpNumbers DEF TypeOK, Ids
<1>. QED BY <1>1, <1>2

LEMMA GiveUpKeeps ==
  ASSUME ArpInv, NEW h \in Hosts, GiveUp(h)
  PROVE  TypeOK' /\ Elsewhere(h) /\ Queue(h)' /\ Retries(h)'
<1> DEFINE a == First(Due(h)).ip
<1>1. TypeOK
  BY DEF ArpInv
<1>2. First(Due(h)) \in Due(h)
  BY <1>1, FirstExists DEF GiveUp, Due, TypeOK
<1>3. First(Due(h)) \in pending[h]
  BY <1>2 DEF Due
<1>4. a \in NextHops
  BY <1>1, <1>3 DEF TypeOK, Packet
<1>5. /\ pending' = [pending EXCEPT ![h] = @ \ Waiting(h, a)]
      /\ Settle(h, IdsOf(Waiting(h, a)), "failed")
      /\ ReportFailure(h, Waiting(h, a))
      /\ asked' = [asked EXCEPT ![h][a] = 0]
      /\ UNCHANGED <<has_ip, leased, table, wire>>
  BY DEF GiveUp
<1> HIDE DEF a
<1>6. /\ pending' \in [Hosts -> SUBSET Packet]
      /\ fate' \in [Hosts -> [Ids -> Fates]]
      /\ asked' \in [Hosts -> [NextHops -> Nat]]
      /\ Elsewhere(h) /\ Queue(h)' /\ Retries(h)'
  BY <1>4, <1>5, RemoveKeeps
<1>7. icmp' \in [Hosts -> 0 .. MaxPackets]
  BY <1>1, <1>5, ReportType DEF TypeOK, Waiting
<1>. QED BY <1>1, <1>5, <1>6, <1>7 DEF TypeOK

LEMMA ConfigureKeeps ==
  ASSUME ArpInv, NEW h \in Hosts, Configure(h)
  PROVE  TypeOK' /\ Elsewhere(h) /\ Queue(h)' /\ Retries(h)'
BY DEF ArpInv, Configure, TypeOK, Elsewhere, Queue, IdsOf, Retries, Waiting, Request

-----------------------------------------------------------------------------
LEMMA ArpInit == Init => ArpInv
<1>. SUFFICES ASSUME Init PROVE ArpInv
  OBVIOUS
<1>1. TypeOK
  BY ArpNumbers DEF Init, TypeOK, Fates
<1>2. ASSUME NEW h \in Hosts PROVE Queue(h) /\ Retries(h)
  BY DEF Init, Queue, IdsOf, Retries
<1>. QED BY <1>1, <1>2 DEF ArpInv

LEMMA ArpStep == ArpInv /\ [Next]_vars => ArpInv'
<1>. SUFFICES ASSUME ArpInv, [Next]_vars PROVE ArpInv'
  OBVIOUS
<1>1. CASE Next
  <2>1. PICK h \in Hosts :
          \/ \E target \in Targets[h], echo \in BOOLEAN : HostSend(h, target, echo)
          \/ \E m \in wire : ReceiveRequest(h, m) \/ ReceiveReply(h, m)
          \/ GiveUp(h)
          \/ Retry(h)
          \/ \E d \in 1 .. MaxStep : Tick(h, d)
          \/ Configure(h)
    BY <1>1 DEF Next, Advance
  <2>2. TypeOK' /\ Elsewhere(h) /\ Queue(h)' /\ Retries(h)'
    BY <2>1, SendKeeps, ReceiveKeeps, GiveUpKeeps, RetryKeeps, TickKeeps, ConfigureKeeps
  <2>3. \A g \in Hosts \ {h} : Queue(g)' /\ Retries(g)'
    BY <2>2, OthersKeep
  <2>. QED BY <2>2, <2>3 DEF ArpInv
<1>2. CASE UNCHANGED vars
  BY <1>2 DEF ArpInv, vars, TypeOK, Queue, IdsOf, Retries, Waiting, Request
<1>. QED BY <1>1, <1>2

LEMMA ArpInvariant == Spec => []ArpInv
BY ArpInit, ArpStep, PTL DEF Spec

\* A packet accepted by host_send_l3_packet is in the pending queue exactly
\* until host_flush_pending_packets sends it or host_poll_arp gives it up.
THEOREM QueueConserves == Spec => []Conservation
<1>1. ArpInv => Conservation
  BY DEF ArpInv, Queue, Conservation
<1>. QED BY <1>1, ArpInvariant, PTL

\* The packets that wait for one address share their retry state and have as
\* many requests behind them as host_poll_arp counted.
THEOREM RetriesShared == Spec => []SharedRetry
<1>1. ArpInv => SharedRetry
  BY DEF ArpInv, Retries, SharedRetry
<1>. QED BY <1>1, ArpInvariant, PTL

\* host_poll_arp reports a packet as failed only after HOST_ARP_MAX_ATTEMPTS
\* requests for its next hop, whatever was queued or answered meanwhile.
THEOREM FailureIsLate == Spec => FailsAfterAttempts
<1> DEFINE Late == \A h \in Hosts : \A p \in pending[h] :
                     fate'[h][p.id] = "failed" => asked[h][p.ip] = MaxAttempts
<1>1. ArpInv /\ [Next]_vars => [Late]_vars
  <2>. SUFFICES ASSUME ArpInv, Next, NEW g \in Hosts, NEW p \in pending[g],
                       fate'[g][p.id] = "failed"
                PROVE  asked[g][p.ip] = MaxAttempts
    BY DEF Late
  <2>1. TypeOK /\ Queue(g) /\ Retries(g)
    BY DEF ArpInv
  <2>2. p \in Packet /\ p.id \in Ids /\ p.ip \in NextHops
    BY <2>1 DEF TypeOK, Packet
  <2>3. fate[g][p.id] = "waiting"
    BY <2>1, <2>2 DEF Queue, IdsOf
  <2>4. fate'[g][p.id] # fate[g][p.id]
    BY <2>3
  <2>5. ASSUME NEW h \in Hosts, NEW ids, NEW f, Settle(h, ids, f)
        PROVE  g = h /\ p.id \in ids /\ f = "failed"
    BY <2>1, <2>2, <2>4, <2>5 DEF Settle, TypeOK
  <2>6. ASSUME NEW h \in Hosts, NEW target \in Targets[h], NEW echo \in BOOLEAN,
               HostSend(h, target, echo)
        PROVE  FALSE
    <3> DEFINE id == CHOOSE i \in Ids : /\ fate[h][i] = "new"
                                        /\ \A j \in 1 .. i - 1 : fate[h][j] # "new"
    <3>1. \/ Settle(h, {id}, "sent")
          \/ Settle(h, {id}, "refused")
          \/ Settle(h, {id}, "waiting")
      BY <2>6 DEF HostSend, SendOut, Refuse, QueuePacket
    <3> HIDE DEF id
    <3>. QED BY <2>5, <3>1
  <2>7. ASSUME NEW h \in Hosts, NEW m \in wire,
               ReceiveRequest(h, m) \/ ReceiveReply(h, m)
        PROVE  FALSE
    <3>1. fate' = fate \/ Settle(h, IdsOf(Waiting(h, m.src)), "sent")
      BY <2>7 DEF ReceiveRequest, ReceiveReply, Flush
    <3>. QED BY <2>4, <2>5, <3>1
  <2>8. ASSUME NEW h \in Hosts, GiveUp(h)
        PROVE  asked[g][p.ip] = MaxAttempts
    <3> DEFINE first == First(Due(h))
    <3>1. first \in Due(h)
      BY <2>1, <2>8, FirstExists DEF GiveUp, Due, TypeOK
    <3>2. first \in pending[h] /\ first.attempts >= MaxAttempts
      BY <2>8, <3>1 DEF Due, GiveUp
    <3>3. g = h /\ p.id \in IdsOf(Waiting(h, first.ip))
      BY <2>5, <2>8 DEF GiveUp
    <3> HIDE DEF first
    <3>4. p \in Waiting(h, first.ip)
      BY <2>1, <3>3 DEF Queue, IdsOf, Waiting
    <3>5. first.attempts = asked[g][p.ip] /\ first.attempts \in 1 .. MaxAttempts
      BY <2>1, <3>2, <3>3, <3>4 DEF Retries, Waiting
    <3>. QED BY <3>2, <3>5, ArpNumbers
  <2>9. ASSUME NEW h \in Hosts,
               Retry(h) \/ Configure(h) \/ \E d \in 1 .. MaxStep : Tick(h, d)
        PROVE  FALSE
    BY <2>4, <2>9 DEF Retry, Configure, Tick
  <2>. QED BY <2>6, <2>7, <2>8, <2>9 DEF Next, Advance
<1>. QED BY <1>1, ArpInvariant, PTL DEF Spec, FailsAfterAttempts
=============================================================================
