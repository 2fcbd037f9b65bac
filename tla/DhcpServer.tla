------------------------------ MODULE DhcpServer ------------------------------
(***************************************************************************)
(* The DHCP server (layer7/dhcp_server.c), the console's dhcp_discover and  *)
(* the UDP branch of host_receive, for hosts of one broadcast domain in the *)
(* synchronous mode: all datagrams a call sets off are received before the  *)
(* call returns.                                                            *)
(*                                                                         *)
(* Server and clients meet in three global or per-host places: the server's *)
(* table of clients and its counter, and the last UDP datagram of each      *)
(* host, which every broadcast overwrites.  An address is its last octet;   *)
(* the message is what is read of it (the transaction number is written and *)
(* never read).  An answer is lost when no descriptor is free for it.       *)
(***************************************************************************)
EXTENDS Integers, Sequences, FiniteSets

CONSTANTS
  Hosts,
  Static,       \* Static[h]: the configured address of h, 0 for none
  FirstOctet,   \* 20
  EndOctet,     \* 254
  MaxClients,   \* DHCP_MAX_CLIENTS
  MaxCalls      \* bound on the dhcp_discover commands

Nobody == "nobody"
Octets == 0 .. EndOctet + 1

ASSUME DhcpAssumption ==
  /\ {FirstOctet, EndOctet, MaxClients, MaxCalls} \subseteq Nat \ {0}
  /\ FirstOctet < EndOctet
  /\ Static \in [Hosts -> Octets]
  /\ Nobody \notin Hosts

\* struct DHCPMessage: DISCOVER and REQUEST go to port 67, OFFER and ACK come
\* from it.
Message == [type : {"DISCOVER", "OFFER", "REQUEST", "ACK"}, chaddr : Hosts, ip : Octets]
None == [type |-> "NONE"]
\* struct DHCPClient
Client == [chaddr : Hosts, ip : Octets]

VARIABLES
  ip,        \* ip[h]: ip_address of h, 0 without one
  prefix,    \* prefix[h]: its prefix length
  last,      \* last[h]: last_udp, None when has_last_udp is false
  bound,     \* g_bound_host
  clients,   \* g_clients
  next,      \* g_next_ip_octet
  wire,      \* the copies of datagrams that are still to be received
  call,      \* the dhcp_discover in progress
  lease,     \* lease[h]: what h got since the server last started (history)
  calls

vars == <<ip, prefix, last, bound, clients, next, wire, call, lease, calls>>
server == <<bound, clients, next>>
Idle == [host |-> Nobody, stage |-> "idle"]

\* The loader has configured the hosts; the server is not started.
Init == /\ ip = Static
        /\ prefix = [h \in Hosts |-> IF Static[h] = 0 THEN 0 ELSE 24]
        /\ last = [h \in Hosts |-> None]
        /\ bound = Nobody
        /\ clients = <<>> /\ next = FirstOctet
        /\ wire = {} /\ call = Idle
        /\ lease = [h \in Hosts |-> 0]
        /\ calls = 0

-----------------------------------------------------------------------------
Ready == call = Idle
Recorded == {clients[i].ip : i \in DOMAIN clients}
FirstOf(S) == CHOOSE i \in S : \A j \in S : i <= j
Copies(h, m) == [to : Hosts \ {h}, msg : {m}]

\* dhcp_allocate_ip: the loop that looks for an address without a record.
\* The candidate starts at the counter and, after k >= 1 duplicates, is the
\* counter itself.
Candidate(k) == IF k = 0 THEN next ELSE next + 1 + k
Tries == FirstOf({k \in 0 .. EndOctet + 1 :
                    next + 1 + k > EndOctet \/ Candidate(k) \notin Recorded})

\* dhcp_allocate_ip: it succeeds without a record when the table is full, and
\* fails for good when the counter reaches the end.  (Beyond it the counter
\* keeps growing, to no effect.)
AllocateIp(h) ==
  LET n == next + 1 + Tries
  IN [ok      |-> n < EndOctet,
      ip      |-> Candidate(Tries),
      next    |-> IF n > EndOctet THEN EndOctet + 1 ELSE n,
      clients |-> IF n < EndOctet /\ Len(clients) < MaxClients
                  THEN Append(clients, [chaddr |-> h, ip |-> Candidate(Tries)])
                  ELSE clients]

\* dhcp_server_handle_request: the first record of the client is updated.
UpdateRecord(m) ==
  LET own == {i \in DOMAIN clients : clients[i].chaddr = m.chaddr}
  IN IF own = {} THEN clients ELSE [clients EXCEPT ![FirstOf(own)].ip = m.ip]

\* dhcp_create_discover, dhcp_create_request, and the two answers.
DiscoverMsg(h) == [type |-> "DISCOVER", chaddr |-> h, ip |-> 0]
RequestMsg(h, a) == [type |-> "REQUEST", chaddr |-> h, ip |-> a]
OfferMsg(m, a) == [m EXCEPT !.type = "OFFER", !.ip = a]
AckMsg(m) == [m EXCEPT !.type = "ACK"]

\* dhcp_send_response: a broadcast, unless no descriptor is free.
SendResponse(h, m, rest) == wire' = rest \/ wire' = rest \cup Copies(h, m)

\* dhcp_server_dispatch at host h; every DISCOVER takes a new address, and
\* every REQUEST is acknowledged.
Dispatch(h, m, rest) ==
  /\ \/ /\ m.type = "DISCOVER"
        /\ LET a == AllocateIp(m.chaddr)
           IN /\ clients' = a.clients /\ next' = a.next
              /\ IF a.ok
                 THEN SendResponse(h, OfferMsg(m, a.ip), rest)
                 ELSE wire' = rest
     \/ /\ m.type = "REQUEST"
        /\ clients' = UpdateRecord(m)
        /\ SendResponse(h, AckMsg(m), rest)
        /\ UNCHANGED next
  /\ UNCHANGED bound

\* The UDP branch of host_receive.
Receive(h, m) ==
  LET rest == wire \ {[to |-> h, msg |-> m]}
  IN /\ [to |-> h, msg |-> m] \in wire
     /\ last' = [last EXCEPT ![h] = m]
     /\ IF bound = h /\ m.type \in {"DISCOVER", "REQUEST"}
        THEN Dispatch(h, m, rest)
        ELSE wire' = rest /\ UNCHANGED server
     /\ UNCHANGED <<ip, prefix, call, lease, calls>>

\* Mutant: the last datagram is not forgotten before the broadcast.
BroadcastKeeps(h, m) == wire' = Copies(h, m) /\ UNCHANGED last

\* dhcp_client_send_broadcast
Broadcast(h, m) == wire' = Copies(h, m) /\ last' = [last EXCEPT ![h] = None]

\* dhcp_discover, up to the DISCOVER
Discover(h) ==
  /\ Ready /\ calls < MaxCalls
  /\ calls' = calls + 1
  /\ call' = [host |-> h, stage |-> "offer"]
  /\ Broadcast(h, DiscoverMsg(h))
  /\ UNCHANGED <<ip, prefix, server, lease>>

\* dhcp_discover, after the DISCOVER: without an OFFER it ends.
DiscoverReturns ==
  LET h == call.host
  IN /\ call.stage = "offer" /\ wire = {}
     /\ IF last[h].type = "OFFER"
        THEN /\ Broadcast(h, RequestMsg(h, last[h].ip))
             /\ call' = [call EXCEPT !.stage = "ack"]
        ELSE call' = Idle /\ UNCHANGED <<wire, last>>
     /\ UNCHANGED <<ip, prefix, server, lease, calls>>

\* dhcp_discover, after the REQUEST: the address comes without a prefix.
RequestReturns ==
  LET h == call.host
  IN /\ call.stage = "ack" /\ wire = {}
     /\ call' = Idle
     /\ IF last[h].type = "ACK"
        THEN /\ ip' = [ip EXCEPT ![h] = last[h].ip]
             /\ prefix' = [prefix EXCEPT ![h] = 0]
             /\ lease' = [lease EXCEPT ![h] = last[h].ip]
        ELSE UNCHANGED <<ip, prefix, lease>>
     /\ UNCHANGED <<last, server, wire, calls>>

\* dhcp_server start: the records are forgotten.
ServerStart(h) ==
  /\ Ready /\ ip[h] # 0
  /\ bound' = h /\ clients' = <<>> /\ next' = FirstOctet
  /\ lease' = [g \in Hosts |-> 0]
  /\ UNCHANGED <<ip, prefix, last, wire, call, calls>>

\* dhcp_server stop
ServerStop ==
  /\ Ready /\ bound # Nobody
  /\ bound' = Nobody
  /\ UNCHANGED <<ip, prefix, last, clients, next, wire, call, lease, calls>>

Next == \/ \E h \in Hosts : Discover(h) \/ ServerStart(h)
        \/ \E c \in wire : Receive(c.to, c.msg)
        \/ DiscoverReturns \/ RequestReturns \/ ServerStop

Spec == Init /\ [][Next]_vars

-----------------------------------------------------------------------------
\* Addresses, records, datagrams and calls have their types.
TypeOK == /\ ip \in [Hosts -> Octets] /\ prefix \in [Hosts -> {0, 24}]
          /\ last \in [Hosts -> Message \cup {None}]
          /\ bound \in Hosts \cup {Nobody}
          /\ clients \in Seq(Client) /\ Len(clients) <= MaxClients
          /\ next \in FirstOctet .. EndOctet + 1
          /\ wire \subseteq [to : Hosts, msg : Message]
          /\ call \in {Idle} \cup [host : Hosts, stage : {"offer", "ack"}]
          /\ lease \in [Hosts -> Octets]
          /\ calls \in 0 .. MaxCalls

\* Two hosts never hold the same address from one run of the server, although
\* the table of clients overflows, answers are lost, clients ask again, and they
\* take whatever datagram came last, without comparing its transaction number
\* or hardware address; and after a command the server has no record that gives
\* one host's address to another.  (And the state has its types.)
NoDoubleLease ==
  /\ TypeOK
  /\ \A g, h \in Hosts : g # h /\ lease[g] # 0 => lease[g] # lease[h]
  /\ Ready => \A h \in Hosts, i \in DOMAIN clients :
       lease[h] # 0 /\ clients[i].ip = lease[h] => clients[i].chaddr = h
=============================================================================
