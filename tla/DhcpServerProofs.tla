-------------------------- MODULE DhcpServerProofs --------------------------
(***************************************************************************)
(* Leases of one run of the DHCP server, for every number of hosts, every   *)
(* pool and every size of the table of clients, full or not.                *)
(***************************************************************************)
EXTENDS DhcpServer, SequenceTheorems, WellFoundedInduction, TLAPS

\* An address below the counter that no other host holds or is on record
\* for: what host h may be offered, ask for and be given.
OnlyFor(h, a) ==
  /\ a \in FirstOctet .. EndOctet /\ a < next
  /\ \A g \in Hosts \ {h} : lease[g] # a
  /\ \A i \in DOMAIN clients : clients[i].ip = a => clients[i].chaddr = h

\* The counter is ahead of every address given or on record, so the loop of
\* dhcp_allocate_ip never meets a duplicate.
CounterAhead ==
  /\ \A i \in DOMAIN clients : clients[i].ip < next
  /\ \A h \in Hosts : lease[h] < next

Leases ==
  /\ \A g, h \in Hosts : g # h /\ lease[g] # 0 => lease[g] # lease[h]
  /\ \A h \in Hosts, i \in DOMAIN clients :
       lease[h] # 0 /\ clients[i].ip = lease[h] => clients[i].chaddr = h

\* All datagrams on the way belong to the command in progress, and the
\* addresses in them, or in the last one its host got, are for its host only.
\* That is why nobody needs to compare transaction numbers here.
InProgress ==
  /\ Ready => wire = {}
  /\ call.stage = "offer" =>
       /\ \A c \in wire : /\ c.msg.chaddr = call.host
                          /\ c.msg.type \in {"DISCOVER", "OFFER"}
                          /\ c.msg.type = "OFFER" => OnlyFor(call.host, c.msg.ip)
       /\ last[call.host].type = "OFFER" => OnlyFor(call.host, last[call.host].ip)
  /\ call.stage = "ack" =>
       /\ \A c \in wire : /\ c.msg.chaddr = call.host
                          /\ c.msg.type \in {"REQUEST", "ACK"}
                          /\ OnlyFor(call.host, c.msg.ip)
       /\ last[call.host].type = "ACK" => OnlyFor(call.host, last[call.host].ip)

LeaseInv == TypeOK /\ CounterAhead /\ Leases /\ InProgress

-----------------------------------------------------------------------------
LEMMA DhcpNumbers ==
  /\ FirstOctet \in Nat /\ FirstOctet > 0 /\ EndOctet \in Nat /\ MaxClients \in Nat
  /\ MaxCalls \in Nat /\ FirstOctet < EndOctet
BY DhcpAssumption

\* A command in progress has a host.
LEMMA CallType ==
  ASSUME TypeOK, call.stage \in {"offer", "ack"}
  PROVE  call \in [host : Hosts, stage : {"offer", "ack"}] /\ call.host \in Hosts /\ ~Ready
BY DEF TypeOK, Idle, Ready

LEMMA ClientTypes ==
  ASSUME TypeOK
  PROVE  /\ Len(clients) \in Nat /\ DOMAIN clients = 1 .. Len(clients)
         /\ \A i \in DOMAIN clients : /\ clients[i] \in Client
                                      /\ clients[i].ip \in Octets /\ clients[i].ip \in Nat
                                      /\ clients[i].chaddr \in Hosts
<1>1. clients \in Seq(Client)
  BY DEF TypeOK
<1>2. Len(clients) \in Nat /\ DOMAIN clients = 1 .. Len(clients)
  BY <1>1, LenProperties
<1>3. \A i \in DOMAIN clients : clients[i] \in Client
  BY <1>1, <1>2, ElementOfSeq
<1>. QED BY <1>2, <1>3, DhcpNumbers DEF Client, Octets

LEMMA FirstExists ==
  ASSUME NEW S \in SUBSET Nat, S # {}
  PROVE  FirstOf(S) \in S
<1>1. PICK m \in S : \A n \in S : ~(<<n, m>> \in OpToRel(<, Nat))
  BY NatLessThanWellFounded, WFMin, Zenon
<1>2. \A n \in S : ~(n < m)
  BY <1>1 DEF OpToRel
<1>3. \A n \in S : m <= n
  BY <1>2
<1>. QED BY <1>3 DEF FirstOf

\* dhcp_allocate_ip: the address is the counter, which moves past it.
LEMMA AllocateOK ==
  ASSUME TypeOK, CounterAhead, NEW h \in Hosts
  PROVE  LET a == AllocateIp(h)
         IN /\ a.ip = next
            /\ a.next \in FirstOctet .. EndOctet + 1 /\ next <= a.next
            /\ a.ok => next \in FirstOctet .. EndOctet /\ next < a.next
            /\ a.clients \in Seq(Client) /\ Len(a.clients) <= MaxClients
            /\ \/ a.clients = clients
               \/ /\ a.ok
                  /\ DOMAIN a.clients = DOMAIN clients \cup {Len(clients) + 1}
                  /\ \A i \in DOMAIN clients : a.clients[i] = clients[i]
                  /\ a.clients[Len(clients) + 1] = [chaddr |-> h, ip |-> next]
<1> DEFINE S == {k \in 0 .. EndOctet + 1 :
                   next + 1 + k > EndOctet \/ Candidate(k) \notin Recorded}
           n == next + 1
           ok == n < EndOctet
           rec == [chaddr |-> h, ip |-> next]
           a == AllocateIp(h)
<1>1. next \in FirstOctet .. EndOctet + 1 /\ next \in Nat
  BY DhcpNumbers DEF TypeOK
<1>2. next \notin Recorded
  <2>1. \A i \in DOMAIN clients : clients[i].ip # next
    BY <1>1, ClientTypes DEF CounterAhead
  <2>. QED BY <2>1 DEF Recorded
<1>3. Tries = 0
  <2>1. 0 \in S
    BY <1>2, DhcpNumbers DEF Candidate
  <2>2. \A k \in S : k \in Nat
    BY DhcpNumbers
  <2>3. Tries = FirstOf(S)
    BY DEF Tries
  <2> HIDE DEF S
  <2>4. FirstOf(S) = 0
    <3>1. 0 \in S /\ \A j \in S : 0 <= j
      BY <2>1, <2>2
    <3>2. FirstOf(S) \in S /\ \A j \in S : FirstOf(S) <= j
      BY <3>1 DEF FirstOf
    <3>. QED BY <2>2, <3>1, <3>2
  <2>. QED BY <2>3, <2>4
<1>4. next + 1 + Tries = n /\ Candidate(Tries) = next
  BY <1>1, <1>3 DEF Candidate
<1>5. /\ (a.ok <=> ok) /\ a.ip = next
      /\ a.next = IF n > EndOctet THEN EndOctet + 1 ELSE n
      /\ a.clients = IF ok /\ Len(clients) < MaxClients THEN Append(clients, rec) ELSE clients
  BY <1>4 DEF AllocateIp
<1> HIDE DEF a
<1>6. a.next \in FirstOctet .. EndOctet + 1 /\ next <= a.next
  BY <1>1, <1>5, DhcpNumbers
<1>7. a.ok => next \in FirstOctet .. EndOctet /\ next < a.next
  BY <1>1, <1>5, DhcpNumbers
<1>8. clients \in Seq(Client) /\ Len(clients) \in Nat /\ Len(clients) <= MaxClients
  BY ClientTypes DEF TypeOK
<1>9. rec \in Client
  BY <1>1, DhcpNumbers DEF Client, Octets
<1> HIDE DEF rec
<1>10. /\ Append(clients, rec) \in Seq(Client) /\ Len(Append(clients, rec)) = Len(clients) + 1
       /\ DOMAIN Append(clients, rec) = DOMAIN clients \cup {Len(clients) + 1}
       /\ \A i \in DOMAIN clients : Append(clients, rec)[i] = clients[i]
       /\ Append(clients, rec)[Len(clients) + 1] = rec
  <2>1. /\ Append(clients, rec) \in Seq(Client) /\ Len(Append(clients, rec)) = Len(clients) + 1
        /\ \A i \in 1 .. Len(clients) : Append(clients, rec)[i] = clients[i]
        /\ Append(clients, rec)[Len(clients) + 1] = rec
    BY <1>8, <1>9
  <2>2. DOMAIN Append(clients, rec) = 1 .. Len(clients) + 1
    BY <2>1, LenProperties
  <2>3. 1 .. Len(clients) + 1 = 1 .. Len(clients) \cup {Len(clients) + 1}
    BY <1>8
  <2>. QED BY <2>1, <2>2, <2>3, ClientTypes
<1>11. a.clients \in Seq(Client) /\ Len(a.clients) <= MaxClients
  BY <1>5, <1>8, <1>10, DhcpNumbers
<1>12. a.clients = clients \/ (a.ok /\ a.clients = Append(clients, rec))
  BY <1>5
<1>. QED BY <1>5, <1>6, <1>7, <1>10, <1>11, <1>12 DEF a, rec

\* dhcp_server_handle_request: the record that changes is the client's own.
LEMMA UpdateOK ==
  ASSUME TypeOK, NEW m \in Message
  PROVE  /\ UpdateRecord(m) \in Seq(Client)
         /\ Len(UpdateRecord(m)) = Len(clients)
         /\ DOMAIN UpdateRecord(m) = DOMAIN clients
         /\ \A i \in DOMAIN clients :
              \/ UpdateRecord(m)[i] = clients[i]
              \/ UpdateRecord(m)[i].chaddr = m.chaddr /\ UpdateRecord(m)[i].ip = m.ip
<1> DEFINE own == {i \in DOMAIN clients : clients[i].chaddr = m.chaddr}
           f == FirstOf(own)
           u == UpdateRecord(m)
<1>1. CASE own = {}
  BY <1>1 DEF UpdateRecord, TypeOK
<1>2. CASE own # {}
  <2>1. u = [clients EXCEPT ![f].ip = m.ip]
    BY <1>2 DEF UpdateRecord
  <2>2. clients \in Seq(Client) /\ DOMAIN clients = 1 .. Len(clients)
    BY ClientTypes DEF TypeOK
  <2>3. own \in SUBSET Nat
    BY <2>2
  <2>4. f \in own
    BY <1>2, <2>3, FirstExists
  <2> DEFINE r == [clients[f] EXCEPT !.ip = m.ip]
  <2>5. f \in 1 .. Len(clients) /\ clients[f] \in Client /\ clients[f].chaddr = m.chaddr
    BY <2>2, <2>4, ClientTypes
  <2> HIDE DEF f, own, u
  <2>6. r \in Client /\ r.chaddr = m.chaddr /\ r.ip = m.ip
    BY <2>5 DEF Client, Message
  <2>7. u = [clients EXCEPT ![f] = r]
    BY <2>1
  <2> HIDE DEF r
  <2>8. /\ u \in Seq(Client) /\ Len(u) = Len(clients)
        /\ \A j \in 1 .. Len(clients) : u[j] = IF j = f THEN r ELSE clients[j]
    BY <2>2, <2>5, <2>6, <2>7, ExceptSeq
  <2>9. DOMAIN u = 1 .. Len(clients)
    BY <2>8, LenProperties
  <2>. QED BY <2>2, <2>6, <2>8, <2>9 DEF u
<1>. QED BY <1>1, <1>2

-----------------------------------------------------------------------------
\* What the server does with a datagram of the command in progress, which
\* is the command of host x.
LEMMA DispatchStep ==
  ASSUME LeaseInv, NEW h \in Hosts, NEW m \in Message, NEW x \in Hosts, x = call.host,
         [to |-> h, msg |-> m] \in wire, m.type \in {"DISCOVER", "REQUEST"},
         Dispatch(h, m, wire \ {[to |-> h, msg |-> m]}),
         UNCHANGED <<call, lease>>
  PROVE  /\ clients' \in Seq(Client) /\ Len(clients') <= MaxClients
         /\ next' \in FirstOctet .. EndOctet + 1
         /\ wire' \subseteq [to : Hosts, msg : Message]
         /\ CounterAhead' /\ Leases'
         /\ \A b : OnlyFor(x, b) => OnlyFor(x, b)'
         /\ call.stage = "offer" =>
              \A c \in wire' : /\ c.msg.chaddr = x
                               /\ c.msg.type \in {"DISCOVER", "OFFER"}
                               /\ c.msg.type = "OFFER" => OnlyFor(x, c.msg.ip)'
         /\ call.stage = "ack" =>
              \A c \in wire' : /\ c.msg.chaddr = x
                               /\ c.msg.type \in {"REQUEST", "ACK"}
                               /\ OnlyFor(x, c.msg.ip)'
<1> DEFINE c0 == [to |-> h, msg |-> m]
           rest == wire \ {c0}
<1>1. TypeOK /\ CounterAhead /\ Leases /\ InProgress
  BY DEF LeaseInv
<1>2. call.stage \in {"offer", "ack"}
  BY <1>1 DEF TypeOK, InProgress, Ready
<1>3. c0.msg = m
  OBVIOUS
<1>4. m.chaddr = x
  BY <1>1, <1>2, <1>3 DEF InProgress
<1>5. next \in Nat /\ \A g \in Hosts : lease[g] \in Nat
  BY <1>1, DhcpNumbers DEF TypeOK, Octets
<1>6. rest \subseteq wire /\ wire \subseteq [to : Hosts, msg : Message]
  BY <1>1 DEF TypeOK
<1> HIDE DEF rest
<1>7. CASE m.type = "DISCOVER"
  <2>. PICK n : n = next
    OBVIOUS
  <2> DEFINE a == AllocateIp(x)
             n0 == Len(clients) + 1
             offer == OfferMsg(m, n)
  <2>1. /\ a.ip = n
        /\ a.next \in FirstOctet .. EndOctet + 1 /\ n <= a.next
        /\ a.ok => n \in FirstOctet .. EndOctet /\ n < a.next
        /\ a.clients \in Seq(Client) /\ Len(a.clients) <= MaxClients
        /\ \/ a.clients = clients
           \/ /\ a.ok
              /\ DOMAIN a.clients = DOMAIN clients \cup {n0}
              /\ \A i \in DOMAIN clients : a.clients[i] = clients[i]
              /\ a.clients[n0] = [chaddr |-> x, ip |-> n]
    BY <1>1, AllocateOK
  <2>2. /\ clients' = a.clients /\ next' = a.next
        /\ IF a.ok THEN SendResponse(h, OfferMsg(m, a.ip), rest) ELSE wire' = rest
    BY <1>4, <1>7 DEF Dispatch, rest
  <2>. PICK ok \in BOOLEAN : ok <=> a.ok
    BY Zenon
  <2> HIDE DEF a
  <2>3. \/ wire' = rest
        \/ ok /\ wire' = rest \cup Copies(h, offer)
    BY <2>1, <2>2 DEF SendResponse
  <2>4. /\ next' \in Nat /\ n <= next' /\ (ok => n < next')
    BY <2>1, <2>2, DhcpNumbers
  <2>5. \A i \in DOMAIN clients' :
          \/ i \in DOMAIN clients /\ clients'[i] = clients[i]
          \/ ok /\ clients'[i].chaddr = x /\ clients'[i].ip = n
    BY <2>1, <2>2
  <2>6. call.stage = "offer"
    BY <1>1, <1>2, <1>3, <1>7 DEF InProgress
  <2>7. CounterAhead'
    <3>1. ASSUME NEW i \in DOMAIN clients' PROVE clients'[i].ip < next'
      <4>1. CASE i \in DOMAIN clients /\ clients'[i] = clients[i]
        BY <1>1, <1>5, <2>4, <4>1, ClientTypes DEF CounterAhead
      <4>2. CASE ok /\ clients'[i].ip = n
        BY <2>4, <4>2
      <4>. QED BY <2>5, <4>1, <4>2
    <3>2. \A g \in Hosts : lease[g] < next'
      BY <1>1, <1>5, <2>4 DEF CounterAhead
    <3>. QED BY <3>1, <3>2 DEF CounterAhead
  <2>8. \A g \in Hosts : lease[g] # n
    BY <1>1, <1>5 DEF CounterAhead
  <2>9. Leases'
    BY <1>1, <2>5, <2>8 DEF Leases
  <2>10. ASSUME NEW b, OnlyFor(x, b) PROVE OnlyFor(x, b)'
    <3>1. b \in Nat /\ b < next'
      BY <1>5, <2>4, <2>10, DhcpNumbers DEF OnlyFor
    <3>. QED BY <2>5, <2>10, <3>1 DEF OnlyFor
  <2>11. ok => OnlyFor(x, n)'
    <3>1. \A i \in DOMAIN clients : clients[i].ip # n
      BY <1>1, <1>5, ClientTypes DEF CounterAhead
    <3>. QED BY <2>1, <2>4, <2>5, <2>8, <3>1 DEF OnlyFor
  <2>12. ok => offer \in Message /\ offer.chaddr = x /\ offer.type = "OFFER" /\ offer.ip = n
    <3>1. ok => n \in Octets
      BY <2>1, DhcpNumbers DEF Octets
    <3>. QED BY <1>4, <3>1 DEF OfferMsg, Message
  <2> HIDE DEF offer
  <2>13. \A c \in wire' : c \in wire \/ (ok /\ c \in [to : Hosts, msg : Message] /\ c.msg = offer)
    <3>1. ok => \A c \in Copies(h, offer) : c \in [to : Hosts, msg : Message] /\ c.msg = offer
      BY <2>12 DEF Copies
    <3>. QED BY <1>6, <2>3, <3>1
  <2>14. \A c \in wire' : /\ c.msg.chaddr = x
                          /\ c.msg.type \in {"DISCOVER", "OFFER"}
                          /\ c.msg.type = "OFFER" => OnlyFor(x, c.msg.ip)'
    <3>. SUFFICES ASSUME NEW c \in wire'
                  PROVE  /\ c.msg.chaddr = x
                         /\ c.msg.type \in {"DISCOVER", "OFFER"}
                         /\ c.msg.type = "OFFER" => OnlyFor(x, c.msg.ip)'
      OBVIOUS
    <3>1. CASE c \in wire
      BY <1>1, <2>6, <2>10, <3>1 DEF InProgress
    <3>2. CASE ok /\ c.msg = offer
      BY <2>11, <2>12, <3>2
    <3>. QED BY <2>13, <3>1, <3>2
  <2>15. wire' \subseteq [to : Hosts, msg : Message]
    BY <1>6, <2>13
  <2>. QED BY <2>1, <2>2, <2>6, <2>7, <2>9, <2>10, <2>14, <2>15
<1>8. CASE m.type = "REQUEST"
  <2> DEFINE ack == AckMsg(m)
  <2>1. /\ clients' \in Seq(Client) /\ Len(clients') = Len(clients)
        /\ DOMAIN clients' = DOMAIN clients
        /\ \A i \in DOMAIN clients' :
             \/ clients'[i] = clients[i]
             \/ clients'[i].chaddr = x /\ clients'[i].ip = m.ip
    BY <1>1, <1>4, <1>8, UpdateOK DEF Dispatch
  <2>2. next' = next /\ (wire' = rest \/ wire' = rest \cup Copies(h, ack))
    BY <1>8 DEF Dispatch, SendResponse, rest
  <2>3. call.stage = "ack" /\ OnlyFor(x, m.ip)
    BY <1>1, <1>2, <1>3, <1>8 DEF InProgress
  <2>4. ack \in Message /\ ack.chaddr = x /\ ack.type = "ACK" /\ ack.ip = m.ip
    BY <1>4 DEF AckMsg, Message
  <2> HIDE DEF ack
  <2>5. CounterAhead'
    BY <1>1, <2>1, <2>2, <2>3 DEF CounterAhead, OnlyFor
  <2>6. Leases'
    BY <1>1, <2>1, <2>3 DEF Leases, OnlyFor
  <2>7. ASSUME NEW b, OnlyFor(x, b) PROVE OnlyFor(x, b)'
    BY <2>1, <2>2, <2>7 DEF OnlyFor
  <2>8. \A c \in wire' : c \in wire \/ (c \in [to : Hosts, msg : Message] /\ c.msg = ack)
    <3>1. \A c \in Copies(h, ack) : c \in [to : Hosts, msg : Message] /\ c.msg = ack
      BY <2>4 DEF Copies
    <3>. QED BY <1>6, <2>2, <3>1
  <2>9. \A c \in wire' : /\ c.msg.chaddr = x
                         /\ c.msg.type \in {"REQUEST", "ACK"}
                         /\ OnlyFor(x, c.msg.ip)'
    <3>. SUFFICES ASSUME NEW c \in wire'
                  PROVE  /\ c.msg.chaddr = x
                         /\ c.msg.type \in {"REQUEST", "ACK"}
                         /\ OnlyFor(x, c.msg.ip)'
      OBVIOUS
    <3>1. CASE c \in wire
      BY <1>1, <2>3, <2>7, <3>1 DEF InProgress
    <3>2. CASE c.msg = ack
      BY <2>3, <2>4, <2>7, <3>2
    <3>. QED BY <2>8, <3>1, <3>2
  <2>10. wire' \subseteq [to : Hosts, msg : Message]
    BY <1>6, <2>8
  <2>. QED BY <1>1, <2>1, <2>2, <2>3, <2>5, <2>6, <2>7, <2>9, <2>10 DEF TypeOK
<1>. QED BY <1>7, <1>8

\* The UDP branch of host_receive
LEMMA ReceiveStep ==
  ASSUME LeaseInv, NEW c \in wire, Receive(c.to, c.msg)
  PROVE  LeaseInv'
<1> DEFINE h == c.to
           m == c.msg
           rest == wire \ {[to |-> h, msg |-> m]}
<1>1. TypeOK /\ CounterAhead /\ Leases /\ InProgress
  BY DEF LeaseInv
<1>2. h \in Hosts /\ m \in Message /\ c = [to |-> h, msg |-> m]
  BY <1>1 DEF TypeOK
<1>3. call.stage \in {"offer", "ack"} /\ call.host \in Hosts
  BY <1>1 DEF TypeOK, InProgress, Ready
<1>. PICK x \in Hosts : x = call.host
  BY <1>3
<1>4. last' = [last EXCEPT ![h] = m] /\ UNCHANGED <<ip, prefix, call, lease, calls>>
  BY DEF Receive
<1>5. \/ /\ m.type \in {"DISCOVER", "REQUEST"} /\ Dispatch(h, m, rest) /\ bound' = bound
      \/ wire' = rest /\ UNCHANGED server
  BY DEF Receive, Dispatch
<1> HIDE DEF h, m
<1>6. /\ clients' \in Seq(Client) /\ Len(clients') <= MaxClients
      /\ next' \in FirstOctet .. EndOctet + 1 /\ bound' = bound
      /\ wire' \subseteq [to : Hosts, msg : Message]
      /\ CounterAhead' /\ Leases'
      /\ \A b : OnlyFor(x, b) => OnlyFor(x, b)'
      /\ call.stage = "offer" =>
           \A d \in wire' : /\ d.msg.chaddr = x
                            /\ d.msg.type \in {"DISCOVER", "OFFER"}
                            /\ d.msg.type = "OFFER" => OnlyFor(x, d.msg.ip)'
      /\ call.stage = "ack" =>
           \A d \in wire' : /\ d.msg.chaddr = x
                            /\ d.msg.type \in {"REQUEST", "ACK"}
                            /\ OnlyFor(x, d.msg.ip)'
  <2>1. CASE m.type \in {"DISCOVER", "REQUEST"} /\ Dispatch(h, m, rest) /\ bound' = bound
    BY <1>2, <1>4, <2>1, DispatchStep
  <2>2. CASE wire' = rest /\ UNCHANGED server
    <3>1. CounterAhead' /\ Leases' /\ \A b : OnlyFor(x, b) => OnlyFor(x, b)'
      BY <1>1, <1>4, <2>2 DEF server, CounterAhead, Leases, OnlyFor
    <3>2. wire' \subseteq wire
      BY <2>2
    <3>. QED BY <1>1, <2>2, <3>1, <3>2 DEF server, TypeOK, InProgress
  <2>. QED BY <1>5, <2>1, <2>2
<1>7. TypeOK'
  <2>1. last' \in [Hosts -> Message \cup {None}]
    BY <1>1, <1>2, <1>4 DEF TypeOK
  <2>. QED BY <1>1, <1>4, <1>6, <2>1 DEF TypeOK
<1>8. last'[x] = IF h = x THEN m ELSE last[x]
  BY <1>1, <1>2, <1>4 DEF TypeOK
<1>9. ASSUME call.stage = "offer", last'[x].type = "OFFER", NEW b, b = last'[x].ip
      PROVE  OnlyFor(x, b)'
  <2>1. OnlyFor(x, b)
    BY <1>1, <1>8, <1>9 DEF InProgress, m
  <2>. QED BY <1>6, <2>1
<1>10. ASSUME call.stage = "ack", last'[x].type = "ACK", NEW b, b = last'[x].ip
      PROVE  OnlyFor(x, b)'
  <2>1. OnlyFor(x, b)
    BY <1>1, <1>8, <1>10 DEF InProgress, m
  <2>. QED BY <1>6, <2>1
<1>11. InProgress'
  <2>1. call'.host = x /\ call'.stage = call.stage /\ ~Ready'
    BY <1>1, <1>3, <1>4, CallType DEF Ready
  <2>. QED BY <1>6, <1>9, <1>10, <2>1 DEF InProgress, OnlyFor
<1>. QED BY <1>6, <1>7, <1>11 DEF LeaseInv

\* dhcp_discover, up to the DISCOVER: the host's last datagram is forgotten.
LEMMA DiscoverStep ==
  ASSUME LeaseInv, NEW h \in Hosts, Discover(h)
  PROVE  LeaseInv'
<1>1. TypeOK /\ CounterAhead /\ Leases
  BY DEF LeaseInv
<1>2. /\ wire' = Copies(h, DiscoverMsg(h)) /\ last' = [last EXCEPT ![h] = None]
      /\ call' = [host |-> h, stage |-> "offer"] /\ calls' = calls + 1 /\ calls < MaxCalls
      /\ UNCHANGED <<ip, prefix, bound, clients, next, lease>>
  BY DEF Discover, Broadcast, server
<1>3. /\ DiscoverMsg(h) \in Message /\ DiscoverMsg(h).chaddr = h
      /\ DiscoverMsg(h).type = "DISCOVER"
  BY DhcpNumbers DEF DiscoverMsg, Message, Octets
<1>4. \A c \in wire' : c \in [to : Hosts, msg : Message] /\ c.msg = DiscoverMsg(h)
  BY <1>2, <1>3 DEF Copies
<1>5. call'.host = h /\ call'.stage = "offer" /\ call' \in [host : Hosts, stage : {"offer", "ack"}]
  BY <1>2
<1>6. calls' \in 0 .. MaxCalls
  BY <1>1, <1>2, DhcpNumbers DEF TypeOK
<1>7. TypeOK'
  <2>1. last' \in [Hosts -> Message \cup {None}]
    BY <1>1, <1>2 DEF TypeOK
  <2>. QED BY <1>1, <1>2, <1>4, <1>5, <1>6, <2>1 DEF TypeOK
<1>8. CounterAhead' /\ Leases'
  BY <1>1, <1>2 DEF CounterAhead, Leases
<1>9. last'[h].type # "OFFER"
  BY <1>1, <1>2 DEF TypeOK, None
<1>10. ~Ready'
  BY <1>5, DhcpAssumption DEF Ready, Idle
<1>11. InProgress'
  BY <1>3, <1>4, <1>5, <1>9, <1>10 DEF InProgress
<1>. QED BY <1>7, <1>8, <1>11 DEF LeaseInv

\* dhcp_discover, after the DISCOVER
LEMMA DiscoverReturnsStep ==
  ASSUME LeaseInv, DiscoverReturns
  PROVE  LeaseInv'
<1>1. TypeOK /\ CounterAhead /\ Leases /\ InProgress
  BY DEF LeaseInv
<1>2. call.stage = "offer" /\ wire = {}
  BY DEF DiscoverReturns
<1>3. call \in [host : Hosts, stage : {"offer", "ack"}] /\ call.host \in Hosts
  BY <1>1, <1>2, CallType
<1>. PICK h \in Hosts : h = call.host
  BY <1>3
<1>4. UNCHANGED <<ip, prefix, bound, clients, next, lease, calls>>
  BY DEF DiscoverReturns, server
<1>5. CounterAhead' /\ Leases'
  BY <1>1, <1>4 DEF CounterAhead, Leases
<1>6. CASE last[h].type = "OFFER"
  <2>. PICK a : a = last[h].ip
    OBVIOUS
  <2> DEFINE m == RequestMsg(h, a)
  <2>1. /\ wire' = Copies(h, m) /\ last' = [last EXCEPT ![h] = None]
        /\ call' = [call EXCEPT !.stage = "ack"]
    BY <1>6 DEF DiscoverReturns, Broadcast
  <2>2. OnlyFor(h, a)
    BY <1>1, <1>2, <1>6 DEF InProgress
  <2>3. m \in Message /\ m.chaddr = h /\ m.type = "REQUEST" /\ m.ip = a
    <3>1. a \in Octets
      BY <2>2, DhcpNumbers DEF OnlyFor, Octets
    <3>. QED BY <3>1 DEF RequestMsg, Message
  <2> HIDE DEF m
  <2>4. \A c \in wire' : c \in [to : Hosts, msg : Message] /\ c.msg = m
    BY <2>1, <2>3 DEF Copies
  <2>5. /\ call' \in [host : Hosts, stage : {"offer", "ack"}]
        /\ call'.host = h /\ call'.stage = "ack"
    BY <1>3, <2>1
  <2>6. TypeOK'
    <3>1. last' \in [Hosts -> Message \cup {None}]
      BY <1>1, <2>1 DEF TypeOK
    <3>. QED BY <1>1, <1>4, <2>4, <2>5, <3>1 DEF TypeOK
  <2>7. last'[h].type # "ACK"
    BY <1>1, <2>1 DEF TypeOK, None
  <2>8. ~Ready'
    BY <2>5 DEF Ready, Idle
  <2>9. OnlyFor(h, a)'
    BY <1>4, <2>2 DEF OnlyFor
  <2>10. InProgress'
    BY <2>3, <2>4, <2>5, <2>7, <2>8, <2>9 DEF InProgress, OnlyFor
  <2>. QED BY <1>5, <2>6, <2>10 DEF LeaseInv
<1>7. CASE last[h].type # "OFFER"
  <2>1. call' = Idle /\ wire' = wire /\ last' = last
    BY <1>7 DEF DiscoverReturns
  <2>2. TypeOK'
    BY <1>1, <1>4, <2>1 DEF TypeOK
  <2>3. InProgress'
    BY <1>2, <2>1 DEF InProgress, Idle, Ready
  <2>. QED BY <1>5, <2>2, <2>3 DEF LeaseInv
<1>. QED BY <1>6, <1>7

\* dhcp_discover, after the REQUEST: the host takes the address it was told.
LEMMA RequestReturnsStep ==
  ASSUME LeaseInv, RequestReturns
  PROVE  LeaseInv'
<1>1. TypeOK /\ CounterAhead /\ Leases /\ InProgress
  BY DEF LeaseInv
<1>2. call.stage = "ack" /\ wire = {} /\ call' = Idle
  BY DEF RequestReturns
<1>3. call.host \in Hosts
  BY <1>1, <1>2, CallType
<1>. PICK h \in Hosts : h = call.host
  BY <1>3
<1>4. UNCHANGED <<last, bound, clients, next, wire, calls>>
  BY DEF RequestReturns, server
<1>5. InProgress'
  BY <1>2, <1>4 DEF InProgress, Idle, Ready
<1>6. CASE last[h].type = "ACK"
  <2>. PICK a : a = last[h].ip
    OBVIOUS
  <2>1. /\ ip' = [ip EXCEPT ![h] = a] /\ prefix' = [prefix EXCEPT ![h] = 0]
        /\ lease' = [lease EXCEPT ![h] = a]
    BY <1>6 DEF RequestReturns
  <2>2. OnlyFor(h, a)
    BY <1>1, <1>2, <1>6 DEF InProgress
  <2>3. a \in Octets
    BY <2>2, DhcpNumbers DEF OnlyFor, Octets
  <2>4. TypeOK'
    BY <1>1, <1>2, <1>4, <2>1, <2>3 DEF TypeOK
  <2>5. lease'[h] = a /\ \A g \in Hosts \ {h} : lease'[g] = lease[g]
    BY <1>1, <2>1 DEF TypeOK
  <2>6. CounterAhead'
    BY <1>1, <1>4, <2>2, <2>5 DEF CounterAhead, OnlyFor
  <2>7. Leases'
    BY <1>1, <1>4, <2>2, <2>5 DEF Leases, OnlyFor
  <2>. QED BY <1>5, <2>4, <2>6, <2>7 DEF LeaseInv
<1>7. CASE last[h].type # "ACK"
  <2>1. UNCHANGED <<ip, prefix, lease>>
    BY <1>7 DEF RequestReturns
  <2>2. TypeOK' /\ CounterAhead' /\ Leases'
    BY <1>1, <1>2, <1>4, <2>1 DEF TypeOK, CounterAhead, Leases
  <2>. QED BY <1>5, <2>2 DEF LeaseInv
<1>. QED BY <1>6, <1>7

\* dhcp_server start and stop, between commands
LEMMA ServerSteps ==
  ASSUME LeaseInv, ServerStop \/ \E h \in Hosts : ServerStart(h)
  PROVE  LeaseInv'
<1>1. TypeOK /\ CounterAhead /\ Leases /\ InProgress
  BY DEF LeaseInv
<1>2. UNCHANGED <<wire, call, last, ip, prefix, calls>> /\ Ready
  BY DEF ServerStart, ServerStop
<1>3. InProgress'
  BY <1>1, <1>2 DEF InProgress, Ready, Idle
<1>4. CASE ServerStop
  BY <1>1, <1>3, <1>4 DEF ServerStop, LeaseInv, TypeOK, CounterAhead, Leases
<1>5. ASSUME NEW h \in Hosts, ServerStart(h) PROVE LeaseInv'
  <2>1. clients' = <<>> /\ next' = FirstOctet /\ lease' = [g \in Hosts |-> 0] /\ bound' = h
    BY <1>5 DEF ServerStart
  <2>2. DOMAIN clients' = {} /\ clients' \in Seq(Client) /\ Len(clients') = 0
    BY <2>1
  <2>3. TypeOK'
    BY <1>1, <1>2, <2>1, <2>2, DhcpNumbers DEF TypeOK, Octets
  <2>4. CounterAhead' /\ Leases'
    BY <2>1, <2>2, DhcpNumbers DEF CounterAhead, Leases
  <2>. QED BY <1>3, <2>3, <2>4 DEF LeaseInv
<1>. QED BY <1>4, <1>5

-----------------------------------------------------------------------------
LEMMA LeaseInit == Init => LeaseInv
<1>. SUFFICES ASSUME Init PROVE LeaseInv
  OBVIOUS
<1>1. DOMAIN clients = {} /\ clients \in Seq(Client) /\ Len(clients) = 0
  BY DEF Init
<1>2. TypeOK
  BY <1>1, DhcpNumbers, DhcpAssumption DEF Init, TypeOK, Octets
<1>3. CounterAhead /\ Leases
  BY <1>1, DhcpNumbers DEF Init, CounterAhead, Leases
<1>4. InProgress
  BY DEF Init, InProgress, Idle, Ready
<1>. QED BY <1>2, <1>3, <1>4 DEF LeaseInv

LEMMA LeaseStep == LeaseInv /\ [Next]_vars => LeaseInv'
<1>. SUFFICES ASSUME LeaseInv, [Next]_vars PROVE LeaseInv'
  OBVIOUS
<1>1. CASE UNCHANGED vars
  BY <1>1 DEF vars, LeaseInv, TypeOK, CounterAhead, Leases, InProgress, Ready, OnlyFor
<1>. QED BY <1>1, DiscoverStep, ReceiveStep, DiscoverReturnsStep, RequestReturnsStep,
            ServerSteps DEF Next

\* No two hosts hold the same address from one run of the server, and the
\* table of clients agrees with what they hold: dhcp_allocate_ip hands every
\* address out once, and what a client takes is always an answer to itself.
THEOREM LeasesDistinct == Spec => []NoDoubleLease
<1>1. LeaseInv => NoDoubleLease
  BY DEF LeaseInv, Leases, NoDoubleLease
<1>2. Spec => []LeaseInv
  BY LeaseInit, LeaseStep, PTL DEF Spec
<1>. QED BY <1>1, <1>2, PTL
=============================================================================
