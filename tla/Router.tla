-------------------------------- MODULE Router --------------------------------
(***************************************************************************)
(* Routers (layer3/router.c) between segments: forwarding, TTL, ICMP        *)
(* errors, the ARP table with the VLAN of each entry, the packets that wait *)
(* for an address, the retries and the flush.                               *)
(*                                                                         *)
(* An interface of a router is named by the segment it is on.  A segment is *)
(* a link between routers, or a switch whose trunk leads to the router; a   *)
(* station on it has a VLAN, 0 if its frames come untagged.  Stations are   *)
(* the environment: they send packets to their gateway, answer ARP requests *)
(* that reach them, and take what comes.                                    *)
(*                                                                         *)
(* Each handling of a packet leaves at most one packet behind, forwarded or *)
(* in answer, which keeps its id.  wire keeps ARP messages for ever: they   *)
(* may arrive late, again, or not at all; net holds the IPv4 packets on     *)
(* their way to a router.  A loop of the code that sends in its body (the   *)
(* flush, the failure of a next hop) is one step per round, for the sending *)
(* may come back to the router in the synchronous mode.                     *)
(***************************************************************************)
EXTENDS Routes, FiniteSets, SequencesExt

CONSTANTS
  Routers, Stations,
  InterfaceIp,   \* InterfaceIp[r][s]: the address of r on segment s, or Zero
  Table,         \* Table[r]: its routing table
  StationIp,     \* StationIp[st], and the station's place:
  Segment, Vlan,
  Gateway,       \* Gateway[st]: the router it sends to
  Sends,         \* Sends[st]: what it sends, as records of kind, dst and ttl
  Pings,         \* Pings[r]: the addresses that r pings
  QueueSize,     \* ROUTER_PENDING_QUEUE_MAX_ENTRIES
  TableSize,     \* ARP_TABLE_MAX_ENTRIES
  MaxAttempts,   \* ROUTER_ARP_MAX_ATTEMPTS
  Interval,      \* ROUTER_ARP_RETRY_INTERVAL_MS
  DefaultTtl,    \* IPV4_DEFAULT_TTL
  MaxPackets     \* bound on the packets stations and routers send

Segments == Ports
Ids == 1 .. MaxPackets
Vlans == {0} \cup {Vlan[st] : st \in Stations}
Kinds == {"data", "echo", "reply", "unreachable", "host_unreachable", "exceeded"}
Errors == {"unreachable", "host_unreachable", "exceeded"}
Fates == {"new", "live", "delivered", "dropped", "astray"}

Interfaces(r) == DOMAIN InterfaceIp[r]
OwnIps(r) == {InterfaceIp[r][s] : s \in Interfaces(r)} \ {Zero}

\* The addresses from which a reply can come.
Owned == {StationIp[st] : st \in Stations} \cup UNION {OwnIps(r) : r \in Routers}

ASSUME RouterAssumption ==
  /\ \A r \in Routers : Table[r] \in Seq(Entry) /\ Len(Table[r]) <= MaxRoutes
  /\ \A r \in Routers : Interfaces(r) \subseteq Segments
  /\ \A st \in Stations : Segment[st] \in Interfaces(Gateway[st])
  /\ {QueueSize, TableSize, MaxAttempts, Interval, DefaultTtl} \subseteq Nat \ {0}
  /\ MaxPackets \in Nat

\* Interfaces, stations and what is sent have addresses, and routes leave by
\* interfaces of their router.
ASSUME NetworkAssumption ==
  /\ \A r \in Routers :
       /\ \A s \in Interfaces(r) : InterfaceIp[r][s] \in Address
       /\ \A i \in DOMAIN Table[r] : Table[r][i].port \in Interfaces(r)
       /\ Pings[r] \subseteq Address
  /\ \A st \in Stations :
       /\ StationIp[st] \in Address /\ Gateway[st] \in Routers /\ Vlan[st] \in Nat
       /\ \A x \in Sends[st] : x.kind \in Kinds /\ x.dst \in Address /\ x.ttl \in Nat

\* Two routers of one segment have no address in common: frames are for the
\* owner of an address here, and for that of a MAC address in the code.
ASSUME DistinctAssumption ==
  \A q, r \in Routers :
    q # r /\ Interfaces(q) \cap Interfaces(r) # {} => OwnIps(q) \cap OwnIps(r) = {}

Packet == [id : Ids, kind : Kinds, src : Address, dst : Address, ttl : Nat]
\* struct RouterPendingPacket; wait is the time since arp_last_attempt_ms.
Pending == [ip : Address, port : Segments, vlan : Vlans, packet : Packet,
            attempts : Nat, wait : Nat]
Message == [op : {"REQUEST", "REPLY"}, router : Routers, port : Segments,
            ip : Address, vlan : Vlans]
InTransit == [to : Routers, port : Segments, vlan : Vlans, packet : Packet]

VARIABLES
  arp_table,        \* arp_table[r]: the known addresses and their VLANs
  interface_vlans,  \* interface_vlans[r][s]: the last VLAN seen there
  pending,          \* pending[r]: the queue of waiting packets
  flushing,         \* flushing[r]: the addresses whose packets r is sending
  failing,          \* failing[r]: the addresses r is giving up
  wire, net,
  fate              \* fate[i]: what became of packet i (history)

vars == <<arp_table, interface_vlans, pending, flushing, failing, wire, net, fate>>

\* router_init_with_macs, router_pending_queue_init
Init == /\ arp_table = [r \in Routers |-> <<>>]
        /\ interface_vlans = [r \in Routers |-> [s \in Interfaces(r) |-> 0]]
        /\ pending = [r \in Routers |-> <<>>]
        /\ flushing = [r \in Routers |-> {}]
        /\ failing = [r \in Routers |-> {}]
        /\ wire = {} /\ net = {}
        /\ fate = [i \in Ids |-> "new"]

-----------------------------------------------------------------------------
\* The route of every address, from the scan of the routing table.
Route == [r \in Routers |-> [a \in Address |-> Lookup(Table[r], a)]]
HasRoute(r, a) == Route[r][a] # 0
OutPort(r, a) == Table[r][Route[r][a]].port
NextHop(r, a) == IF Table[r][Route[r][a]].next_hop = Zero
                 THEN a ELSE Table[r][Route[r][a]].next_hop

\* Whoever has address a among the neighbours of r is on segment s.
Leads(r, a, s) ==
  /\ \A st \in Stations : StationIp[st] = a /\ Segment[st] \in Interfaces(r) => Segment[st] = s
  /\ \A q \in Routers : a \in OwnIps(q) /\ Interfaces(q) \cap Interfaces(r) # {}
                        => s \in Interfaces(q)

\* Routes leave by the segment of the next hop.
ASSUME RouteAssumption ==
  \A r \in Routers, a \in Address : HasRoute(r, a) => Leads(r, NextHop(r, a), OutPort(r, a))

\* A router is at a trunk port of a switch and gets tagged frames, or it is at
\* an access port or a cable and gets untagged ones; routers send each other
\* untagged frames.
ASSUME SegmentAssumption ==
  \A st \in Stations :
    /\ \A other \in Stations : Segment[st] = Segment[other] /\ Vlan[st] = 0 => Vlan[other] = 0
    /\ \A q, r \in Routers : q # r /\ Segment[st] \in Interfaces(q) \cap Interfaces(r)
                             => Vlan[st] = 0

Knows(r, a) == a \in DOMAIN arp_table[r]

\* Mutant: the VLAN of the interface is used for everyone behind it.
VlanOfPort(r, a, s) == interface_vlans[r][s]

\* router_vlan_for_ip, router_arp_index_for_ip
VlanFor(r, a, s) == IF Knows(r, a) /\ arp_table[r][a] > 0
                    THEN arp_table[r][a] ELSE interface_vlans[r][s]

\* The first packet of a queue that waits for a (router_find_pending_for_ip),
\* 0 when there is none.
FirstFor(queue, a) == SelectInSeq(queue, LAMBDA p : p.ip = a)

\* A frame for the owner of address a leaves on segment s in VLAN v.  It gets
\* there if the owner is on that segment and in that VLAN.
Emit(p, a, s, v, transit) ==
  LET routers  == {x \in Routers : s \in Interfaces(x) /\ a \in OwnIps(x) /\ v = 0}
      stations == {st \in Stations : StationIp[st] = a /\ Segment[st] = s /\ Vlan[st] = v}
  IN /\ net' = transit \cup {[to |-> x, port |-> s, vlan |-> v, packet |-> p] : x \in routers}
     /\ fate' = [fate EXCEPT ![p.id] = IF routers # {} THEN "live"
                                       ELSE IF stations # {} THEN "delivered"
                                       ELSE "astray"]

Drop(r, p, queue, transit) ==
  /\ pending' = [pending EXCEPT ![r] = queue]
  /\ net' = transit
  /\ fate' = [fate EXCEPT ![p.id] = "dropped"]
  /\ UNCHANGED wire

\* router_send_arp_request: an interface without an address cannot ask.
Requests(r, s, a, v) ==
  IF InterfaceIp[r][s] = Zero THEN {}
  ELSE {[op |-> "REQUEST", router |-> r, port |-> s, ip |-> a, vlan |-> v]}

\* Mutant of Queued: a packet starts its own count of attempts.
QueuedAlone(queue, a, s, v, p) ==
  Append(queue, [ip |-> a, port |-> s, vlan |-> v, packet |-> p, attempts |-> 1, wait |-> 0])

\* router_queue_pending_packet, with the attempts of the first packet that
\* waits for the same address, if there is one.
Queued(queue, a, s, v, p) ==
  LET i == FirstFor(queue, a)
  IN Append(queue, [ip |-> a, port |-> s, vlan |-> v, packet |-> p,
                    attempts |-> IF i = 0 THEN 1 ELSE queue[i].attempts,
                    wait |-> IF i = 0 THEN 0 ELSE queue[i].wait])

\* router_send_packet_to_next_hop.  queue and transit are the router's queue
\* and the packets in transit without p.
SendToNextHop(r, p, a, s, queue, transit) ==
  IF Knows(r, a)
  THEN /\ Emit(p, a, s, VlanFor(r, a, s), transit)
       /\ pending' = [pending EXCEPT ![r] = queue]
       /\ UNCHANGED wire
  ELSE IF Len(queue) >= QueueSize THEN Drop(r, p, queue, transit)
  ELSE LET v == VlanFor(r, a, s)
       IN /\ pending' = [pending EXCEPT ![r] = Queued(queue, a, s, v, p)]
          /\ net' = transit
          /\ wire' = IF FirstFor(queue, a) = 0 THEN wire \cup Requests(r, s, a, v) ELSE wire
          /\ fate' = [fate EXCEPT ![p.id] = "live"]

\* router_send_ipv4_packet
SendIpv4(r, p, queue, transit) ==
  IF HasRoute(r, p.dst)
  THEN SendToNextHop(r, p, NextHop(r, p.dst), OutPort(r, p.dst), queue, transit)
  ELSE Drop(r, p, queue, transit)

\* router_send_icmp_error: it needs a route back, and an address on the
\* interface of that route to send from.
SendError(r, p, kind, queue, transit) ==
  IF HasRoute(r, p.src) /\ InterfaceIp[r][OutPort(r, p.src)] # Zero
  THEN SendIpv4(r, [id |-> p.id, kind |-> kind, dst |-> p.src,
                    src |-> InterfaceIp[r][OutPort(r, p.src)],
                    ttl |-> DefaultTtl], queue, transit)
  ELSE Drop(r, p, queue, transit)

-----------------------------------------------------------------------------
\* Mutant: a router forwards a packet as it came.
ForwardUnchanged(r, p, transit) ==
  IF p.ttl < 1 THEN SendError(r, p, "exceeded", pending[r], transit)
  ELSE IF ~HasRoute(r, p.dst) THEN SendError(r, p, "unreachable", pending[r], transit)
  ELSE SendToNextHop(r, p, NextHop(r, p.dst), OutPort(r, p.dst), pending[r], transit)

\* router_forward_ipv4_packet
Forward(r, p, transit) ==
  IF p.ttl <= 1 THEN SendError(r, p, "exceeded", pending[r], transit)
  ELSE LET q == [p EXCEPT !.ttl = @ - 1]
       IN IF ~HasRoute(r, p.dst) THEN SendError(r, q, "unreachable", pending[r], transit)
          ELSE SendToNextHop(r, q, NextHop(r, p.dst), OutPort(r, p.dst), pending[r], transit)

\* router_handle_local_ipv4: only an echo request is answered.
Local(r, p, transit) ==
  IF p.kind = "echo"
  THEN SendIpv4(r, [p EXCEPT !.kind = "reply", !.src = p.dst, !.dst = p.src,
                             !.ttl = DefaultTtl], pending[r], transit)
  ELSE /\ net' = transit
       /\ fate' = [fate EXCEPT ![p.id] = "delivered"]
       /\ UNCHANGED <<pending, wire>>

\* router_receive notes the VLAN of every tagged frame, its own or not.
NoteVlan(r, s, v) ==
  interface_vlans' = IF v > 0 THEN [interface_vlans EXCEPT ![r][s] = v] ELSE interface_vlans

\* router_receive, IPv4.
ReceiveIpv4(r, f) ==
  /\ f.to = r
  /\ NoteVlan(r, f.port, f.vlan)
  /\ IF f.packet.dst \in OwnIps(r) THEN Local(r, f.packet, net \ {f})
     ELSE Forward(r, f.packet, net \ {f})
  /\ UNCHANGED <<arp_table, flushing, failing>>

\* router_receive: a tagged frame that is not for the router's MAC address.
Overhear(r, st) ==
  /\ Segment[st] \in Interfaces(r) /\ Vlan[st] > 0
  /\ NoteVlan(r, Segment[st], Vlan[st])
  /\ UNCHANGED <<arp_table, pending, flushing, failing, wire, net, fate>>

-----------------------------------------------------------------------------
\* router_learn_arp over arp_table_set: a full table takes no new address.
Learn(r, a, v) ==
  arp_table' = IF Knows(r, a) \/ Cardinality(DOMAIN arp_table[r]) < TableSize
               THEN [arp_table EXCEPT ![r] =
                       [b \in DOMAIN @ \cup {a} |-> IF b = a THEN v ELSE @[b]]]
               ELSE arp_table

\* A station asks for an address of the segment; routers learn where it is.
\* (Their reply is the station's business.)
StationAsks(r, st) ==
  /\ Segment[st] \in Interfaces(r)
  /\ NoteVlan(r, Segment[st], Vlan[st])
  /\ Learn(r, StationIp[st], Vlan[st])
  /\ UNCHANGED <<pending, flushing, failing, wire, net, fate>>

Reply(m) == [m EXCEPT !.op = "REPLY"]

\* The ARP branch of router_receive for a request of another router, which
\* sends untagged frames here; it is answered for any of the own addresses.
ReceiveRequest(r, m) ==
  /\ m.op = "REQUEST" /\ m.router # r /\ m.port \in Interfaces(r) /\ m.vlan = 0
  /\ Learn(r, InterfaceIp[m.router][m.port], 0)
  /\ wire' = IF m.ip \in OwnIps(r) THEN wire \cup {Reply(m)} ELSE wire
  /\ UNCHANGED <<interface_vlans, pending, flushing, failing, net, fate>>

\* A station answers a request that reaches its VLAN.
StationAnswers(st, m) ==
  /\ m.op = "REQUEST" /\ m.ip = StationIp[st]
  /\ m.port = Segment[st] /\ m.vlan = Vlan[st]
  /\ wire' = wire \cup {Reply(m)}
  /\ UNCHANGED <<arp_table, interface_vlans, pending, flushing, failing, net, fate>>

\* The ARP branch of router_receive for a reply.
ReceiveReply(r, m) ==
  /\ m.op = "REPLY" /\ m.router = r
  /\ NoteVlan(r, m.port, m.vlan)
  /\ Learn(r, m.ip, m.vlan)
  /\ flushing' = [flushing EXCEPT ![r] = @ \cup {m.ip}]
  /\ UNCHANGED <<pending, failing, wire, net, fate>>

\* Mutant: a packet that was sent stays in the queue.
FlushKeeps(r, a) ==
  LET i == FirstFor(pending[r], a)
  IN IF i = 0 THEN UNCHANGED <<pending, wire, net, fate>>
     ELSE SendToNextHop(r, pending[r][i].packet, a, pending[r][i].port, pending[r], net)

\* router_flush_pending_packets, one round: the first packet for the address
\* is taken out and sent again, as if it had just come.
Flush(r, a) ==
  LET i == FirstFor(pending[r], a)
  IN IF i = 0 THEN UNCHANGED <<pending, wire, net, fate>>
     ELSE SendToNextHop(r, pending[r][i].packet, a, pending[r][i].port,
                        RemoveAt(pending[r], i), net)

FlushStep(r, a) ==
  /\ a \in flushing[r]
  /\ Flush(r, a)
  /\ flushing' = IF FirstFor(pending[r], a) = 0
                 THEN [flushing EXCEPT ![r] = @ \ {a}] ELSE flushing
  /\ UNCHANGED <<arp_table, interface_vlans, failing>>

-----------------------------------------------------------------------------
\* The first due packet, 0 when none is.
FirstDue(r) == SelectInSeq(pending[r], LAMBDA p : p.wait >= Interval)

\* router_poll_arp, one round of the loop: ask once more, ...
PollRetry(r) ==
  /\ FirstDue(r) # 0 /\ failing[r] = {}
  /\ LET p == pending[r][FirstDue(r)]
     IN /\ p.attempts < MaxAttempts
        \* router_set_arp_attempt_for_ip
        /\ pending' = [pending EXCEPT ![r] = [i \in DOMAIN @ |->
             IF @[i].ip = p.ip
             THEN [@[i] EXCEPT !.attempts = p.attempts + 1, !.wait = p.wait - Interval]
             ELSE @[i]]]
        /\ wire' = wire \cup Requests(r, p.port, p.ip, p.vlan)
  /\ UNCHANGED <<arp_table, interface_vlans, flushing, failing, net, fate>>

\* ... or give up the address, ...
PollGiveUp(r) ==
  /\ FirstDue(r) # 0 /\ failing[r] = {}
  /\ pending[r][FirstDue(r)].attempts >= MaxAttempts
  /\ failing' = [failing EXCEPT ![r] = {pending[r][FirstDue(r)].ip}]
  /\ UNCHANGED <<arp_table, interface_vlans, pending, flushing, wire, net, fate>>

\* router_can_send_error_for_packet
CanSendError(p) == p.kind \notin Errors

\* ... packet by packet, with an error to the source of each.
FailStep(r, a) ==
  LET i == FirstFor(pending[r], a)
  IN /\ a \in failing[r]
     /\ IF i = 0
        THEN failing' = [failing EXCEPT ![r] = @ \ {a}] /\ UNCHANGED <<pending, wire, net, fate>>
        ELSE /\ IF CanSendError(pending[r][i].packet)
                THEN SendError(r, pending[r][i].packet, "host_unreachable",
                               RemoveAt(pending[r], i), net)
                ELSE Drop(r, pending[r][i].packet, RemoveAt(pending[r], i), net)
             /\ UNCHANGED failing
     /\ UNCHANGED <<arp_table, interface_vlans, flushing>>

\* Time passes between two polls.
Tick(r) ==
  /\ FirstDue(r) = 0 /\ failing[r] = {}
  /\ pending' = [pending EXCEPT ![r] =
       [i \in DOMAIN @ |-> [@[i] EXCEPT !.wait = pending[r][i].wait + 1]]]
  /\ UNCHANGED <<arp_table, interface_vlans, flushing, failing, wire, net, fate>>

-----------------------------------------------------------------------------
NewId == CHOOSE i \in Ids : fate[i] = "new" /\ \A j \in 1 .. i - 1 : fate[j] # "new"
Fresh == \E i \in Ids : fate[i] = "new"

\* A station sends a packet to its gateway.
StationSends(st, x) ==
  /\ Fresh
  /\ net' = net \cup {[to |-> Gateway[st], port |-> Segment[st], vlan |-> Vlan[st],
                       packet |-> [id |-> NewId, kind |-> x.kind, src |-> StationIp[st],
                                   dst |-> x.dst, ttl |-> x.ttl]]}
  /\ fate' = [fate EXCEPT ![NewId] = "live"]
  /\ UNCHANGED <<arp_table, interface_vlans, pending, flushing, failing, wire>>

\* router_send_icmp_echo_request: ping and traceroute from a router.
RouterPings(r, a) ==
  /\ Fresh
  /\ HasRoute(r, a) /\ InterfaceIp[r][OutPort(r, a)] # Zero
  /\ SendIpv4(r, [id |-> NewId, kind |-> "echo", src |-> InterfaceIp[r][OutPort(r, a)],
                  dst |-> a, ttl |-> DefaultTtl], pending[r], net)
  /\ UNCHANGED <<arp_table, interface_vlans, flushing, failing>>

ReceiveAny(r) == \E f \in net : ReceiveIpv4(r, f)
FailAny(r) == \E a \in failing[r] : FailStep(r, a)

Next ==
  \/ \E st \in Stations : \E x \in Sends[st] : StationSends(st, x)
  \/ \E st \in Stations, m \in wire : StationAnswers(st, m)
  \/ \E r \in Routers :
       \/ \E st \in Stations : StationAsks(r, st) \/ Overhear(r, st)
       \/ \E a \in Pings[r] : RouterPings(r, a)
       \/ ReceiveAny(r)
       \/ \E m \in wire : ReceiveRequest(r, m) \/ ReceiveReply(r, m)
       \/ \E a \in flushing[r] : FlushStep(r, a)
       \/ FailAny(r)
       \/ PollRetry(r) \/ PollGiveUp(r) \/ Tick(r)

\* Frames are delivered, loops go on, and the main loop polls every router.
\* The clock runs whatever arrives between two of its steps, hence SF.
Fairness ==
  \A r \in Routers :
    /\ WF_vars(ReceiveAny(r)) /\ WF_vars(FailAny(r))
    /\ \A a \in Owned : WF_vars(FlushStep(r, a))
    /\ WF_vars(PollRetry(r)) /\ WF_vars(PollGiveUp(r)) /\ SF_vars(Tick(r))

Spec == Init /\ [][Next]_vars /\ Fairness

-----------------------------------------------------------------------------
\* The tables and queues have their types and keep their bounds.
TypeOK ==
  /\ \A r \in Routers :
       /\ DOMAIN arp_table[r] \subseteq Address
       /\ Cardinality(DOMAIN arp_table[r]) <= TableSize
       /\ \A a \in DOMAIN arp_table[r] : arp_table[r][a] \in Vlans
       /\ interface_vlans[r] \in [Interfaces(r) -> Vlans]
       /\ pending[r] \in Seq(Pending) /\ Len(pending[r]) <= QueueSize
       /\ flushing[r] \subseteq Address /\ failing[r] \subseteq Address
  /\ wire \subseteq Message /\ net \subseteq InTransit
  /\ fate \in [Ids -> Fates]

\* Where a packet with id i is.
Places(i) ==
  {f \in net : f.packet.id = i}
    \cup UNION {{<<r, n>> : n \in {k \in DOMAIN pending[r] : pending[r][k].packet.id = i}}
                : r \in Routers}

\* A packet that was sent is in exactly one place, on its way to a router or
\* in one queue, until it or the packet that came of it is delivered or
\* dropped: routers neither lose nor multiply packets, through forwarding,
\* errors, retries and flushes.  (And the state has its types.)
OnePlace ==
  /\ TypeOK
  /\ \A i \in Ids : Cardinality(Places(i)) = IF fate[i] = "live" THEN 1 ELSE 0

\* A packet never leaves in a VLAN, or on a segment, where its next hop is
\* not, although the VLAN of an interface changes with every frame seen.
NeverAstray == \A i \in Ids : fate[i] # "astray"

\* Packets that wait for the same address have the same attempts, whenever
\* and for whatever reason (forwarded, answer, error, flushed again) they were
\* queued; router_poll_arp looks at the first due one only.
SharedRetry ==
  \A r \in Routers : \A i, j \in DOMAIN pending[r] :
    pending[r][i].ip = pending[r][j].ip =>
      pending[r][i].attempts = pending[r][j].attempts /\ pending[r][i].wait = pending[r][j].wait

\* Every packet ends: it is delivered or dropped, through routing loops, next
\* hops that never answer and the errors about them, which go the same ways.
AllSettle == \A i \in Ids : fate[i] = "live" ~> fate[i] # "live"
=============================================================================
