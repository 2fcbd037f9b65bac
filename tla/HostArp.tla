------------------------------- MODULE HostArp -------------------------------
(***************************************************************************)
(* Sending from a host (layer2/host.c): the ARP table, the queue of packets *)
(* that wait for an address, the requests and their retries, and the        *)
(* answers of the other hosts on the segment.                               *)
(*                                                                         *)
(* A host and its address have the same name.  Packets are numbered in the  *)
(* order host_send_l3_packet gets them; the pending queue keeps that order  *)
(* (dequeuing rotates it without reordering), so it is a set here and       *)
(* "first in the queue" is the smallest id.  arp_last_attempt_ms is only    *)
(* compared with the clock, so a packet carries the time since then (wait). *)
(*                                                                         *)
(* wire keeps every ARP message ever sent: it may reach a host at any time, *)
(* more than once or never.  host_poll_arp loops until no packet is due;    *)
(* one round of the loop is one step, because in the synchronous mode the   *)
(* request it sends is answered, and the answer received, inside it.        *)
(***************************************************************************)
EXTENDS Integers, FiniteSets

CONSTANTS
  Hosts,         \* the hosts of the segment
  Absent,        \* addresses of the subnet that no host has
  Unconfigured,  \* hosts that may start without an address
  Gateway,       \* the next hop for everything outside the subnet
  QueueSize,     \* HOST_PENDING_QUEUE_MAX_ENTRIES
  TableSize,     \* ARP_TABLE_MAX_ENTRIES
  MaxAttempts,   \* HOST_ARP_MAX_ATTEMPTS
  Interval,      \* HOST_ARP_RETRY_INTERVAL_MS
  MaxStep,       \* bound on one advance of the clock
  MaxPackets,    \* bound on the packets of one host
  Quota,         \* Quota[h]: how many of them h sends
  Targets        \* Targets[h]: the destinations to which h sends

Addresses == Hosts \cup Absent
Outside == "outside"       \* a destination in another subnet
NextHops == Addresses \cup {Outside}
Broadcast == "broadcast"   \* 255.255.255.255

ASSUME ArpAssumption ==
  /\ Gateway \in Addresses
  /\ {QueueSize, TableSize, MaxAttempts, Interval, MaxStep, MaxPackets} \subseteq Nat \ {0}
  /\ Quota \in [Hosts -> 0 .. MaxPackets]
  /\ \A h \in Hosts : Targets[h] \subseteq Addresses \cup {Outside, Broadcast}

Ids == 1 .. MaxPackets
Fates == {"new", "refused", "waiting", "sent", "failed"}

\* struct HostPendingPacket; echo: the payload is an ICMP echo request.
Packet == [id : Ids, ip : NextHops, echo : BOOLEAN, attempts : Nat, wait : Nat]
Message == [op : {"REQUEST", "REPLY"}, src : Hosts, ip : NextHops]

VARIABLES
  has_ip,    \* has_ip[h]: h is configured
  leased,    \* leased[h]: by DHCP, which sets the prefix length to 0
  table,     \* table[h]: the addresses in the ARP table of h
  pending,   \* pending[h]: the pending queue of h
  icmp,      \* icmp[h]: the echo reported unreachable, 0 when none is
  wire,      \* the ARP messages sent so far
  fate,      \* fate[h][i]: what became of the i-th packet of h (history)
  asked      \* asked[h][a]: requests for a since packets wait for it (history)

vars == <<has_ip, leased, table, pending, icmp, wire, fate, asked>>

Init == /\ has_ip \in {f \in [Hosts -> BOOLEAN] : \A h \in Hosts \ Unconfigured : f[h]}
        /\ leased = [h \in Hosts |-> FALSE]
        /\ table = [h \in Hosts |-> {}]
        /\ pending = [h \in Hosts |-> {}]
        /\ icmp = [h \in Hosts |-> 0]
        /\ wire = {}
        /\ fate = [h \in Hosts |-> [i \in Ids |-> "new"]]
        /\ asked = [h \in Hosts |-> [a \in NextHops |-> 0]]

-----------------------------------------------------------------------------
\* host_is_same_subnet: with prefix length 0 everything is.
NextHop(h, target) == IF target \in Addresses \/ leased[h] THEN target ELSE Gateway

\* The packets of h that wait for address a, and the first of a set of them.
Waiting(h, a) == {p \in pending[h] : p.ip = a}
First(S) == CHOOSE p \in S : \A q \in S : p.id <= q.id
IdsOf(S) == {p.id : p \in S}

\* fate[h] once the packets in ids have met fate f.
Settle(h, ids, f) ==
  fate' = [fate EXCEPT ![h] = [i \in Ids |-> IF i \in ids THEN f ELSE @[i]]]

\* host_send_arp_request: a broadcast that names the sender's own address.
Request(h, a) == [op |-> "REQUEST", src |-> h, ip |-> a]

\* Mutant of Queued: every packet starts its own retries.
QueuedAlone(h, id, a, echo) ==
  [id |-> id, ip |-> a, echo |-> echo, attempts |-> 1, wait |-> 0]
\* host_queue_pending_packet_with_arp_state: a packet that is not the first
\* for its next hop takes over the retry state of the first one.
Queued(h, id, a, echo) ==
  LET mates == Waiting(h, a)
      old   == mates # {}
  IN [id |-> id, ip |-> a, echo |-> echo,
      attempts |-> IF old THEN First(mates).attempts ELSE 1,
      wait |-> IF old THEN First(mates).wait ELSE 0]

SendOut(h, id) ==
  /\ Settle(h, {id}, "sent")
  /\ UNCHANGED <<pending, wire, asked>>

Refuse(h, id) ==
  /\ Settle(h, {id}, "refused")
  /\ UNCHANGED <<pending, wire, asked>>

\* On a cache miss the packet is queued; only the first one for its next hop
\* sends a request.
QueuePacket(h, id, a, echo) ==
  /\ Cardinality(pending[h]) < QueueSize
  /\ pending' = [pending EXCEPT ![h] = @ \cup {Queued(h, id, a, echo)}]
  /\ Settle(h, {id}, "waiting")
  /\ IF Waiting(h, a) = {}
     THEN /\ wire' = wire \cup {Request(h, a)}
          /\ asked' = [asked EXCEPT ![h][a] = @ + 1]
     ELSE UNCHANGED <<wire, asked>>

\* host_send_icmp_echo_request, before it hands the packet on: the last
\* report is forgotten.  Other packets come from their own callers.
StartEcho(h, echo) ==
  /\ echo => has_ip[h]
  /\ icmp' = IF echo THEN [icmp EXCEPT ![h] = 0] ELSE icmp

\* host_send_l3_packet
HostSend(h, target, echo) ==
  LET id == CHOOSE i \in Ids : /\ fate[h][i] = "new"
                               /\ \A j \in 1 .. i - 1 : fate[h][j] # "new"
      a  == NextHop(h, target)
  IN /\ \E i \in 1 .. Quota[h] : fate[h][i] = "new"
     /\ StartEcho(h, echo)
     /\ IF target = Broadcast THEN SendOut(h, id)
        ELSE IF ~has_ip[h] THEN Refuse(h, id)
        ELSE IF a \in table[h] THEN SendOut(h, id)
        ELSE \/ QueuePacket(h, id, a, echo)
             \/ Cardinality(pending[h]) >= QueueSize /\ Refuse(h, id)
     /\ UNCHANGED <<has_ip, leased, table>>

-----------------------------------------------------------------------------
\* arp_table_set: a full table takes no new address.
Learn(h, a) == IF a \in table[h] \/ Cardinality(table[h]) < TableSize
               THEN table[h] \cup {a} ELSE table[h]

\* The ARP branch of host_receive.  Every message teaches its sender's
\* address; a request for the host's own address is answered; only a reply
\* flushes the packets that wait for its sender.
ReceiveRequest(h, m) ==
  /\ m.op = "REQUEST" /\ m.src # h
  /\ table' = [table EXCEPT ![h] = Learn(h, m.src)]
  /\ wire' = IF has_ip[h] /\ m.ip = h
             THEN wire \cup {[op |-> "REPLY", src |-> h, ip |-> m.src]} ELSE wire
  /\ UNCHANGED <<has_ip, leased, pending, icmp, fate, asked>>

\* Mutant: the packets are sent but stay in the queue.
FlushKeeps(h, a) ==
  /\ Settle(h, IdsOf(Waiting(h, a)), "sent")
  /\ UNCHANGED <<pending, asked>>

\* host_flush_pending_packets
Flush(h, a) ==
  /\ pending' = [pending EXCEPT ![h] = @ \ Waiting(h, a)]
  /\ Settle(h, IdsOf(Waiting(h, a)), "sent")
  /\ asked' = [asked EXCEPT ![h][a] = 0]

ReceiveReply(h, m) ==
  /\ m.op = "REPLY" /\ m.ip = h
  /\ table' = [table EXCEPT ![h] = Learn(h, m.src)]
  /\ IF m.src \in Learn(h, m.src) THEN Flush(h, m.src)
     ELSE UNCHANGED <<pending, fate, asked>>
  /\ UNCHANGED <<has_ip, leased, icmp, wire>>

-----------------------------------------------------------------------------
Due(h) == {p \in pending[h] : p.attempts > 0 /\ p.wait >= Interval}

\* host_report_arp_failure: the last of the host's own echo requests among
\* the failed packets is recorded as unreachable.
ReportFailure(h, failed) ==
  LET echoes == {p \in failed : p.echo}
  IN icmp' = IF echoes = {} THEN icmp
             ELSE [icmp EXCEPT ![h] = CHOOSE i \in IdsOf(echoes) :
                                        \A j \in IdsOf(echoes) : j <= i]

\* Mutant: one attempt too few.
GiveUpEarly(h) ==
  /\ Due(h) # {}
  /\ First(Due(h)).attempts >= MaxAttempts - 1
  /\ LET a == First(Due(h)).ip
     IN /\ pending' = [pending EXCEPT ![h] = @ \ Waiting(h, a)]
        /\ Settle(h, IdsOf(Waiting(h, a)), "failed")
        /\ ReportFailure(h, Waiting(h, a))
        /\ asked' = [asked EXCEPT ![h][a] = 0]
  /\ UNCHANGED <<has_ip, leased, table, wire>>

\* Mutant: one attempt too many, which Retry never makes.
GiveUpLate(h) ==
  /\ Due(h) # {}
  /\ First(Due(h)).attempts > MaxAttempts
  /\ LET a == First(Due(h)).ip
     IN /\ pending' = [pending EXCEPT ![h] = @ \ Waiting(h, a)]
        /\ Settle(h, IdsOf(Waiting(h, a)), "failed")
        /\ ReportFailure(h, Waiting(h, a))
        /\ asked' = [asked EXCEPT ![h][a] = 0]
  /\ UNCHANGED <<has_ip, leased, table, wire>>

\* host_poll_arp, the round for the first due packet: give up, ...
GiveUp(h) ==
  /\ Due(h) # {}
  /\ First(Due(h)).attempts >= MaxAttempts
  /\ LET a == First(Due(h)).ip
     IN /\ pending' = [pending EXCEPT ![h] = @ \ Waiting(h, a)]
        /\ Settle(h, IdsOf(Waiting(h, a)), "failed")
        /\ ReportFailure(h, Waiting(h, a))
        /\ asked' = [asked EXCEPT ![h][a] = 0]
  /\ UNCHANGED <<has_ip, leased, table, wire>>

\* ... or set the attempt of every packet for that address and ask again.
Retry(h) ==
  LET first == First(Due(h))
  IN /\ Due(h) # {}
     /\ first.attempts < MaxAttempts
     /\ pending' = [pending EXCEPT ![h] =
          {IF p.ip = first.ip
           THEN [p EXCEPT !.attempts = first.attempts + 1, !.wait = first.wait - Interval]
           ELSE p : p \in @}]
     /\ wire' = wire \cup {Request(h, first.ip)}
     /\ asked' = [asked EXCEPT ![h][first.ip] = @ + 1]
     /\ UNCHANGED <<has_ip, leased, table, icmp, fate>>

\* The clock of h moves on, by more than one interval after a stall or with
\* the poll of the synchronous mode.  The loop of the last poll has ended.
Tick(h, d) ==
  /\ Due(h) = {}
  /\ pending' = [pending EXCEPT ![h] = {[p EXCEPT !.wait = @ + d] : p \in @}]
  /\ UNCHANGED <<has_ip, leased, table, icmp, wire, fate, asked>>

\* DHCP gives h its address.
Configure(h) ==
  /\ ~has_ip[h]
  /\ has_ip' = [has_ip EXCEPT ![h] = TRUE]
  /\ leased' = [leased EXCEPT ![h] = TRUE]
  /\ UNCHANGED <<table, pending, icmp, wire, fate, asked>>

Advance(h) == \E d \in 1 .. MaxStep : Tick(h, d)

Next == \E h \in Hosts :
  \/ \E target \in Targets[h], echo \in BOOLEAN :
       HostSend(h, target, echo)
  \/ \E m \in wire : ReceiveRequest(h, m) \/ ReceiveReply(h, m)
  \/ GiveUp(h)
  \/ Retry(h)
  \/ Advance(h)
  \/ Configure(h)

\* The main loop polls every host at every frame and the clock runs.
Fairness == \A h \in Hosts : WF_vars(GiveUp(h)) /\ WF_vars(Retry(h)) /\ WF_vars(Advance(h))

Spec == Init /\ [][Next]_vars /\ Fairness

-----------------------------------------------------------------------------
\* The queue, the table, the messages and the histories have their types.
TypeOK == /\ has_ip \in [Hosts -> BOOLEAN]
          /\ leased \in [Hosts -> BOOLEAN]
          /\ table \in [Hosts -> SUBSET Addresses]
          /\ pending \in [Hosts -> SUBSET Packet]
          /\ icmp \in [Hosts -> 0 .. MaxPackets]
          /\ wire \in SUBSET Message
          /\ fate \in [Hosts -> [Ids -> Fates]]
          /\ asked \in [Hosts -> [NextHops -> Nat]]

\* A packet that was accepted is in the queue exactly until it is sent or
\* given up: it is never lost by the queue, sent twice, or sent after it was
\* reported as failed.  (And the state has its types.)
Conservation ==
  /\ TypeOK
  /\ \A h \in Hosts :
       /\ IdsOf(pending[h]) = {i \in Ids : fate[h][i] = "waiting"}
       /\ \A p, q \in pending[h] : p.id = q.id => p = q

\* Packets that wait for the same address share their retry state, whenever
\* they were queued: host_poll_arp looks at the first due one only and relies
\* on it.  Behind each stand as many requests as its attempts say, at least
\* one and at most MaxAttempts: no packet waits for an address that nobody
\* asked for.
SharedRetry ==
  \A h \in Hosts :
    /\ \A p, q \in pending[h] : p.ip = q.ip => p.wait = q.wait
    /\ \A p \in pending[h] : /\ p.attempts = asked[h][p.ip]
                             /\ p.attempts \in 1 .. MaxAttempts
                             /\ Request(h, p.ip) \in wire
    /\ \A a \in NextHops : Waiting(h, a) = {} => asked[h][a] = 0

\* A packet is given up only after MaxAttempts requests for its next hop.
FailsAfterAttempts ==
  [][\A h \in Hosts : \A p \in pending[h] :
       fate'[h][p.id] = "failed" => asked[h][p.ip] = MaxAttempts]_vars

\* Every queued packet is eventually sent or given up, whatever the network
\* does: resolution that gets no answer ends.
PendingDrains ==
  \A h \in Hosts : \A i \in 1 .. Quota[h] :
    fate[h][i] = "waiting" ~> fate[h][i] \in {"sent", "failed"}
=============================================================================
