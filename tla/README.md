# A TLA+ model of the Magi network stack

This directory holds a formal model of `magi_system`, a user-space TCP/IP stack
and network simulator in C. TLC checks the modules on small instances; TLAPS
proves most of the safety properties for every value of the parameters. Every
definition is translated from the source; `PROJECT.json` maps each of them to
the lines it stands for, and lists the runs, mutants, hazards and theorems that
this text explains.

## 1. The system

A topology of hosts, switches and routers lives in one process. There are no
threads. Two modes decide in which order things happen:

- **synchronous** (the CLI): `transmit` calls `receive` of the other interface
  at once, so that a command runs the whole exchange, answers included, nested
  inside itself;
- **realtime** (the SDL GUI): a frame on a link with a delay is copied into an
  in-flight table, and the main loop delivers what is due once per frame of
  animation. Frames on a link without delay, and frames that find the table
  full, are still received at once.

| Component | State | Operations | Interacts with |
|---|---|---|---|
| TCP socket (`layer4/tcp_socket.c`) | state, sequence numbers, send buffer, receive buffer with an out-of-order window | connect, listen, accept, send, recv, close, receive_segment | host, CLI, MagiSocket |
| Host (`layer2/host.c`) | address, ARP table, pending queue, ICMP and UDP results, 16 sockets | send_l3_packet, receive, poll_arp, echo | every layer |
| ARP (`layer2/arp.c`) | table of at most 100 entries | set, get, remove, codec | host, router |
| Clock (`core/sim_clock.c`) | pause, speed, in-flight table | pause, step, speed, enqueue, tick, clear | links, GUI loop |
| Links (`core/link.c`) | two interfaces, delay | init, unlink, transmit | clock, topology |
| Topology (`simulator.c`) | nodes, interfaces, array of links | create, remove, link, unlink, clear | CLI, loader, GUI |
| Switch (`layer2/switch.c`) | MAC table, VLAN ports | learn, forward, flood | links |
| Router (`layer3/router.c`) | routes, ARP table, pending queue | forward, ICMP errors, poll_arp | links |
| MagiSocket, HTTP (`layer7`) | descriptor table, the server's listener | BSD-like calls, request dispatch | TCP sockets |
| DHCP, DNS (`layer7`) | pool and clients; name table | dispatch on UDP | host, MagiSocket |
| Loader (`utils/loader.c`) | - | save, load | topology, services, clock |
| JSON, CLI, GUI, visualizer | - | text and pictures | all |

RIP, NAT and ACL are named by the repository's README and are empty files.

What is hard in this code: segments that are lost, repeated and reordered
(there is no retransmission); the close of a connection from both ends; retries
of an ARP request against a late reply; handlers that run inside a scan of a
table and change it, or that put back what a loop is taking out; pointers into
an array that is shifted, and to nodes that are freed; slots, ports and
descriptors that are used again; answers that come after the call that waited
for them; one record per host for the last datagram and the last ICMP message;
bounded queues, tables and buffers. The list with its lines is under "hazards" in
`PROJECT.json`.

What makes each part correct:

- *TCP*: both byte streams arrive unchanged, in order and complete at the end
  of file; the ends agree on opening, acknowledging and closing.
- *Host and ARP*: a packet that waits for an address is sent once or reported
  once, after the full number of attempts and never later than that.
- *Clock*: a packet in flight is received once and in the first tick at which
  it is due; time does not jump.
- *Topology*: a port is linked exactly when the topology says so, and frames
  reach the port at the other end.
- *Switch*: frames stay in their VLAN and arrive once, whether the tables know
  the way or not, and a learned address is where the station is.
- *Router*: the longest prefix wins; a packet is never lost, multiplied or sent
  into another VLAN; errors do not go on setting off others, and every packet
  ends.
- *MagiSocket, HTTP*: a descriptor reaches its own socket and a segment its own
  connection, although slots, ports and descriptors are used again; requests
  are answered.
- *DHCP, DNS*: leases are disjoint; a name gets the address the table has for
  it, and not the answer to another question.
- *Loader*: a topology comes back from its file; a load leaves nothing that
  refers to the nodes it has freed.

## 2. Modules

| Module | Models | Extends |
|---|---|---|
| `TcpSocket` | one socket, as operators from socket to socket | |
| `TcpConnection` | two sockets, the users, an unreliable network | `TcpSocket` |
| `ByteStream` | abstract: a pair of reliable byte streams | |
| `TcpFifo` | the connection on an ordered path, with fairness | `TcpConnection` |
| `TcpConnectionProofs` | theorems: the streams, the agreement of the ends, `ByteStream`, the ordered path | `TcpFifo`, `TLAPS` |
| `HostArp` | sending, ARP and the pending queue of hosts on one segment | |
| `SimClock` | clock, in-flight table, main loop | |
| `Simulator` | nodes, links and pointers into the link array | |
| `Switch` | switches with VLANs, and the stations on their ports | |
| `Routes` | masks, network addresses, adding and finding a route, as operators | |
| `Router` | routers between segments: forwarding, errors, ARP, queue | `Routes` |
| `MagiSocket` | descriptors over the socket tables of hosts, the HTTP server | |
| `DhcpServer` | server, clients, the UDP branch of `host_receive` | |
| `DnsServer` | name table, name encoding, queries and their clients | |
| `Loader` | save, load, the routing tables as they are filled, and what refers to nodes from outside | `Routes` |
| `MC*` | constants for TLC | one each |
| `HostArpProofs`, `SimClockProofs`, `SimulatorProofs`, `SwitchProofs`, `RouterProofs`, `MagiSocketProofs`, `DhcpServerProofs` | theorems | one each, `TLAPS` |

A definition whose comment says "mutant" is a plausible wrong version of the
definition after it. No action uses one. Putting it in the place of the right
definition makes TLC report a violation, which shows that the property can fail.

### TcpSocket, TcpConnection

A socket is the record `TCPSocket`. `BufferPayload` is `tcp_buffer_payload`:
`Accepts` its three refusals, `Store` the loop that fills the window, `Drain`
the move of the contiguous run. `ReceiveSegment` dispatches on the state as the
`switch` of `tcp_socket_receive_segment` does; each `On...` operator is one of
its cases. A handler returns the new socket and at most one answer.

Bytes are named by their position in their sender's stream. The code never
looks at a byte, so this tells apart every wrong delivery. Sequence numbers
are naturals and streams are bounded below 2^31: `uint32_t` wrap-around is not
modelled. RST is left out of the flags because no code sends it; ports and
addresses because one connection is modelled.

`TcpConnection` has the CLI's commands at both ends (`TcpConnect`, `TcpListen`,
`TcpSend`, `TcpRecv`, `TcpClose`) and `Deliver`, the TCP branch of
`host_receive`. `net[h]` keeps every segment ever sent to `h`; any may be
delivered at any time, more than once or never. No command or handler changes
its socket after it has passed a segment to `host_send_l3_packet`, so the
nested exchanges of the synchronous mode are among these behaviours. A SYN that
comes back after the server's child was freed would open another connection;
`Deliver` leaves that out, as there is one connection. The socket table, with
several connections over one port, is in `MagiSocket`.

`sent`, `read` and `closed` are history: what the users did.

### TcpFifo

The same actions over two queues. `Fairness` says that a queue that is not
empty is served again: the main loop ticks for ever (`gui/app.c`), and in the
synchronous mode delivery is a function call. Nothing is assumed of the users.
It is written with `[]<>` instead of `WF` because the guard of `FifoDeliver` is
known, and TLC's evaluation of `ENABLED` is slow for this action; the two are
equivalent here (delivering always removes the head, so the step is never a
stutter).

### HostArp

One segment of hosts, the addresses nobody has, a gateway. `HostSend` is
`host_send_l3_packet` with all its returns: broadcast, no address, cache hit,
queue full, queued behind others, queued first with a request. `ReceiveRequest`
and `ReceiveReply` are the ARP branch of `host_receive`; `GiveUp` and `Retry`
are the two ends of one round of the loop of `host_poll_arp`; `Tick` moves the
host's clock, by several intervals too. The pending queue is a set of packets
ordered by their number, which is the order of the ring buffer because
dequeuing rotates it without reordering. `arp_last_attempt_ms` becomes the time
since then. A host that got its address from DHCP (`leased`) has prefix length
0 and takes every destination for a neighbour.

Fairness: every host is polled in each frame of the main loop and the clock
runs while the simulation is not paused (`Retry`, `GiveUp`, `Advance`). Nothing
is assumed about replies.

### SimClock

`Transmit` is `transmit` with `sim_clock_enqueue`, by a command between ticks
or by a handler inside one. `BeginTick`, `TickDeliver`, `TickNext` are the scan
of `sim_clock_tick`, whose steps are separate because a handler runs between
them. Real time passes at any point. Times are integers and delays are
multiples of the speeds.

### Simulator

A `Link *` is an index into the array; elements beyond `link_count` keep their
old contents. A node is the memory block it was allocated in, so that a freed
block can come back as another node. `RemoveNode` runs the loop over ports
(`after[p]` is the topology after port p), each with its own shift. `Clear` is
the loop of `simulator_clear` in one step: every element within `link_count` is
unlinked, and no other, nothing moves. `topo.shifted` is history: whether a link before the
end of the array was removed since the last clear.

### Switch

`Receive` is the whole of `switch_receive`: the VLAN of the frame, learning,
and the copies that leave. `Send` is a station putting a frame on its link. The
copies in transit are received in any order. The switches form a tree, as
`TreeAssumption` says: there is no spanning tree protocol in the code, and a
loop of links floods for ever. Links between switches lead from trunk port to
trunk port; a switch behind an access port is left out. `ConnectedAssumption` says that the tree reaches
every station; only `Delivered` needs it. The MAC table is a set; its order shows nowhere.

### Routes, Router

`Routes` computes with numbers of `Bits` bits as the code does with `uint32_t`:
`Mask` is the truncated shift of `ip_prefix_to_mask`, `Lookup` the scan of
`router_lookup_route`, `AddRoute` the normalisation, comparison and bound of
`router_add_route`. The tables are filled in `Loader`, by files and by the
connected routes of the interfaces.

`Router` handles a packet in one action (`ReceiveIpv4`: local or forwarded,
with the TTL, the ICMP error and the pending queue), because every handling
leaves at most one packet behind, which keeps the number of the first. The two
loops that send in their body, the flush after a reply (`FlushStep`) and the
failure of a next hop (`FailStep`), are one step per round: in the synchronous
mode anything may come back to the router between two rounds. `interface_vlans`
is the VLAN last seen on an interface, in frames for others too (`Overhear`);
`VlanFor` prefers the one of the ARP entry. Stations answer requests that reach
their VLAN. Four assumptions describe the network that a configuration gives.
`NetworkAssumption`: routes leave by interfaces of their router.
`DistinctAssumption`: routers of one segment share no address.
`RouteAssumption`: a route leaves by the segment of its next hop.
`SegmentAssumption`: the frames that a router gets on a segment are all tagged,
from a trunk port of a switch, or all untagged, from an access port or a cable
(`switch_receive` adds and removes tags by the mode of the port), and routers
send each other untagged frames. The code checks none of the four; without the
last two no choice of a VLAN in `router_vlan_for_ip` could be right for every
next hop. Time stands still while a packet is due or
the failure loop runs.

Fairness: frames arrive; the failure loop goes on, and so does the flush for an
address that has an owner (no reply comes from another); every router is polled
in each frame of the main loop. `Tick` has strong fairness: it is disabled
again and again by arriving replies, but real time passes whatever arrives.

### MagiSocket

The module is about ownership: descriptors refer to slots of a host's table of
sockets, children to their listener's slot, slots are freed and used again, and a
segment finds its slot by ports. A slot holds a `TcpSocket` record, and every
handler and command changes it by the operators of `TcpSocket`, refusals
included; data is counted in units. Every connection attempt has a number, which
slots, segments and descriptors carry and no guard reads, so that the properties
can say which belongs to which. `cut` is history: a socket has been closed under a
descriptor that stays.

A transmission over a link without delay runs the receiver's handler before it
returns, in both modes. `todo` is what the command in progress has still to do, the
frames of its nested calls with the innermost first: a segment to its receiver,
the test for a request that ends `host_receive` (`Check`), the rest of an answer of
the HTTP server (`Answer`), the end of a `magi_close` (`Closed`). A handler puts its
own frames before the rest, so that they are worked off in the order of the calls.
`delays` says whether there are links with delay in the realtime mode. If so, any
segment may instead go to `flight`, the in-flight table, and arrive in some tick
between two commands, in any order, or never; and a sending host may refuse it
(`Refuse`). If not, all happens inside the commands: that is the synchronous mode,
and the realtime mode on links without delay.

`StartConnect` and `ConnectReturns` are the two halves of `magi_connect` with the
command around it (`magi_sock_connect` or `http_get`), and what happens in between
decides whether it succeeds. `SockSend`, `SockRecv`, `SockClose` use the
descriptor of a host; `TcpConnect`, `TcpSend`, `TcpRecv`, `TcpClose`, `TcpListen`
are the raw commands, which take the first suitable socket of the host whether a
descriptor has it or not. `HttpStart`, `HttpStartFails` and `HttpStop` are
`http_server start` and `stop`. `Deliver` is the TCP branch of `host_receive`.

### DhcpServer, DnsServer

`DhcpServer` has one broadcast domain in the synchronous mode. `AllocateIp`
keeps the loop's arithmetic, in which the counter and the candidate get out of
step after a duplicate. `Receive` overwrites the host's last datagram and, at
the server, dispatches; `DiscoverReturns` and `RequestReturns` look at the last
datagram as `dhcp_discover` does. An answer is lost when no descriptor is free.

`DnsServer` writes names as sequences of labels and encodes and decodes them
byte by byte, because a name that is cut short would be answered with another
entry. `DnsQuery` is `cli_dns_query`: the query or its answer is received
inside the call, or late, or never; `RecvFrom` takes the last datagram of the
host, whose id is not compared. `HttpResolve` adds the fallback of `http_get`
to the table.

### Loader

A file is a tree with the members that `simulator_save` writes. `Saved` and
`Loaded` are the two functions, with the fields that are dropped on the way: a
prefix of 0, a default VLAN, the number of ports of hosts and routers. Six
files of users are given: the repository's example in small, one with every kind
of mistake that the loader passes over, one that names a node twice, and three
with routes of every prefix length, repeated in other spellings and more than
the table holds. `holds` and `flying` say to which nodes the services, the descriptors and
the packets in flight refer.

## 3. Runs

Every run passes; a run asks one question of one part.

| Run | Bounds | Properties |
|---|---|---|
| `tcp_connection` | buffer 2, segments of 1-2 bytes, streams of 3 and 1 | `TypeOK`, `EofComplete`, `SendBufferUnacked`, `NoPhantomAck`, `HandshakeAgreement`, `CloseAgreement` |
| `tcp_reassembly` | buffer 4, segments of 1-3 bytes, one stream of 5 | `StreamIntegrity`, `ReceiveWindow`, `ImplementsByteStream` |
| `tcp_fifo` | buffer 2, streams of 2 and 2, ordered path | `QuiescentAgreement`, `OpenCompletes`, `AllArrives`, `CloseCompletes` |
| `host_arp` | 3 hosts, queue 2, table 1, 2 attempts, 2 packets of one host and 1 of another | `Conservation`, `SharedRetry`, `FailsAfterAttempts`, `PendingDrains` |
| `sim_clock` | 2 slots, 3 frames, 2 speeds, delays 0, 2, 4 | `InFlightOnce`, `TickComplete`, `TimeContinuous` |
| `simulator` | 4 blocks, 2 ports, 4 nodes, 3 links | `LinkedIff`, `NoMisdelivery`, `EveryLinkCarries` |
| `switch` | 2 switches, 4 stations, 2 VLANs, table 2, 3 frames | `VlanIsolation`, `LearnedTowards`, `Delivered` |
| `router` | 2 routers, 3 segments, 2 VLANs, a routing loop, queue 2, 2 attempts, 2 packets | `OnePlace`, `SharedRetry`, `NeverAstray`, `AllSettle` |
| `magi` | 2 hosts, 3 slots, 3 source ports, 3 descriptors, 2 connections, buffer 2; without delays 2 units sent and answers of 2, with delays answers of 1 and 1 segment waiting | `NoStaleDescriptor`, `NoMixing`, `EndsAgree`, `RequestAnswered` |
| `dhcp` | 3 hosts, pool of 4 addresses, 2 client records, 6 discoveries | `NoDoubleLease` |
| `dns` | 3 hosts, 3 names, table 2, buffer 6, 1 late datagram | `RightAnswer`, `HttpResolves` |
| `loader` | 3 nodes, 2 links, 2 ports, 6 files, addresses of 3 bits, table 4 | `TopologySound`, `SavedComesBack`, `LookupIsLongest` |

Why the bounds are enough to be interesting: a stream of 3 over a buffer of 2
fills the receive buffer and leaves bytes unread while more arrive. A window
can hold a gap and keep bytes behind it after a drain only from a buffer of 3
on, so the reassembly run has 4, with one direction of data to pay for it. With
an ARP table of one entry and a queue of two, both limits are reached. A clock
step of 2 against an interval of 1 misses deadlines. Two slots and three packets
make the in-flight table full. Three links make a removal shift the array by
two; eight ports would allow a fourth, so the array gets full; a freed block
comes back while others are in use. Three senders fill a MAC table of two
entries, so that one stays unknown. With a TTL of 3 a packet turns in the
routing loop and expires; the router's queue of two is full with both packets,
also when both are errors about others; its ARP table has room for every
neighbour, so the run says nothing of a flush with a full one (section 5). Two
connections over three slots, one of them a listener's, fill the table, and with a
failed or finished connection a slot is used again; the three descriptors are all
taken by a listener and the two ends, or by listeners. Two units of a user and an
answer of two fill a buffer of two and are refused beyond it, and leave a FIN
behind. With delays, one segment that waits until a tick is enough for it to meet a
slot freed by the command that sent it. The second host of `magi` is also the one
that listens; both connect, send and close. Six
discoveries exhaust a pool of four and overflow two records. A buffer of six
bytes has a longest name that can be asked and a longer one that only the table
holds. Two connected and three static routes do not fit a routing table of four.

`CHECK_DEADLOCK FALSE` is set for the TCP runs, where a connection that has been
used and closed, or whose streams have reached their bound, has nothing left to
do, for `switch` and `router`, which stop when all packets have ended, and for
the MagiSocket, DHCP, DNS and loader runs, which bound the number of commands.

What the properties say:

- `StreamIntegrity`, `EofComplete`: what arrives is a prefix; at end of file it
  is everything. `ReceiveWindow`: the window's accounting. `SendBufferUnacked`,
  `NoPhantomAck`: the send buffer holds what the peer has not acknowledged, and
  nothing is acknowledged that did not arrive. `HandshakeAgreement`,
  `CloseAgreement`: what one end may conclude about the other.
  `ImplementsByteStream`: under the mapping of `TcpConnection!Stream` every
  behaviour is one of `ByteStream`.
- `OpenCompletes`, `AllArrives`, `CloseCompletes`: progress; `AllArrives` for
  streams that fit in the receive buffer. `QuiescentAgreement`: the ends agree
  whenever nothing is on its way.
- `Conservation`: each packet has one fate. `SharedRetry`: the retry state that
  `host_poll_arp` and `router_poll_arp` rely on. `FailsAfterAttempts`,
  `PendingDrains`: giving up neither too early nor never.
- `InFlightOnce`, `TickComplete`, `TimeContinuous`: see section 1.
- `LinkedIff`, `NoMisdelivery`: stale pointers do less harm than one might
  fear: they drop frames, but never deliver them to the wrong port.
  `EveryLinkCarries`: and as long as only last links were removed they do not
  even drop any; of the time after a shift it says nothing.
- `VlanIsolation`, `Delivered`: who gets a frame that crosses several switches,
  and that nobody gets it twice. `LearnedTowards`: every table entry points to
  the station.
- `OnePlace`: the router's queue through forwarding, errors, retries and
  flushes. `NeverAstray`: the VLAN in which a packet leaves is its next hop's,
  although the interface's VLAN changes with every frame seen. `AllSettle`:
  packets, and the errors about them, come to an end.
- `NoStaleDescriptor`: slots are used again without confusion, until a socket is
  closed under its descriptor. `NoMixing`: so are ports, until a host has gone once
  through its source ports. After that section 5 shows what happens. `EndsAgree`:
  where all segments arrive at once, both ends agree after each command, and only
  refused data keeps an end from taking the other's FIN. `RequestAnswered`: there, a
  request to the running server, whose listener is the only one on the port, has
  been answered before `http_get` reads, unless an idle connection in an earlier
  slot took its turn.
- `NoDoubleLease`: leases of one run of the server, and its records.
- `RightAnswer`, `HttpResolves`: lookups against the table.
- `TopologySound`, `SavedComesBack`: saving, loading, and loading a part.
  `LookupIsLongest`: the scan over masks against a definition by division.

Where a module has a type invariant of its own, the first property of its run
includes it.

## 4. Proofs

Eight modules hold theorems. Each is about its component's own `Spec`, for
every value of the constants that satisfies the named assumptions of that
module; TLC evaluates those assumptions in every run. Each proof has the same
shape: an inductive invariant, a lemma per action (and per case of the long
handlers), a theorem that the invariant holds, and one theorem per property. The
invariants were checked by TLC, on the bounds of section 3 or smaller, before they were
proved. The theorems about properties of the runs:

| Module | Inductive invariant | Theorems |
|---|---|---|
| `TcpConnectionProofs` | `StreamInv` | `TypeCorrect`, `StreamIntegrityHolds`, `EofCompleteHolds` |
| | `AgreementInv` | `WindowBounded`, `SendBufferExact`, `AcksAreReal`, `HandshakeAgrees`, `CloseAgrees`, `ConnectionIsByteStream` |
| | `FifoInv` | `EndsAgreeInOrder`, and `OrderedPathIsNetwork` from `AgreementInv` |
| `HostArpProofs` | `ArpInv` | `QueueConserves`, `RetriesShared`, `FailureIsLate` |
| `SimClockProofs` | `ClockInv` | `FramesInFlightOnce`, `TicksComplete`, `TimeIsContinuous` |
| `SimulatorProofs` | `SimulatorInv` | `PointerTellsLink`, `NeverMisdelivered`, `LinksCarry` |
| `SwitchProofs` | `SwitchInv` | `VlansIsolated`, `TablesPointHome`, `FramesDelivered` |
| `RouterProofs` | `RouterInv`, `VlanInv` | `LookupFindsLongest`, `PacketsHaveOnePlace`, `RouterRetriesShared`, `PacketsNeverAstray` |
| `MagiSocketProofs` | `DescriptorInv`, `PortInv` | `DescriptorsKeepSockets`, `SegmentsMeetTheirSockets` |
| `DhcpServerProofs` | `LeaseInv` | `LeasesDistinct` |

Why the properties are not inductive, and what the invariants add:

**Streams** (`BufferAssumption`, `ConnectionAssumption`: buffer size, segment
size, stream lengths and initial sequence numbers are arbitrary).
`StreamIntegrity` is not inductive: a socket that holds the right bytes can be
spoiled by a segment with the wrong ones, or by a window whose marks are wrong.
`StreamInv` says of each segment ever sent that its payload is a slice of its
sender's stream, at the position its sequence number says, and that a FIN
stands where the stream of a sender that closed ends; of each socket that
`recv_seq` counts what was read and what is buffered, that each valid slot of
the window holds the byte of its position, and that `send_seq` counts what was
sent, plus one for the FIN; of each user's history that it is a prefix. With
this the FIN's position equals `recv_seq` only when all bytes are there, which
is `EofComplete`. The first part of the module has the lemmas about one socket:
`Store` and `Drain` keep the meaning of the window (`RecvOK`), whatever the
number of bytes drained, hence so does `BufferPayload`; the contiguous run that
`Ready` names exists and is maximal.

**Agreement of the ends** (same assumptions). `AgreementInv` rests on one fact
about both ends and the network: no acknowledgement, in a socket or in a segment
ever sent, is ahead of what its sender has taken (`Took`). `Took` must go on
counting after the socket is freed, because segments of a closed connection
are still around. `SenderOK` adds which bytes the send buffer holds. What one
end concludes from an acknowledgement is then true of the other.
`ConnectionIsByteStream` is the refinement: initial states map to initial
states, and each action, through `Progress`, to a step of `ByteStream` or to a
stutter (a segment appends to what has arrived, ends it, or changes neither).

**Ordered path** (same assumptions). `OrderedPathIsNetwork` says that every
behaviour of `FifoSpec` is one of `Spec`, so that all of the above holds there
too. `QuiescentAgreement` is about what has arrived when nothing is on its way,
which no invariant of an unreliable network can say. `FifoInv` goes through five
phases: nobody has connected, the SYN is on its way (or found no listener), the
SYN-ACK is, the last segment of the handshake is ahead of all others, and both
ends are open. In the last phase (`InOrder`) the segments on their way to a host
lead, without a gap, from what the host has taken to what its peer has given,
and the last acknowledgement among them, or the one the host has, is of all that
its sender had taken. The reassembly window is never used (`Clean`). The
theorems about `FifoInv` have a hypothesis, `Fits`: streams are no longer than the
receive buffer. It is needed because the code drops what exceeds the buffer and
never sends it again (section 5), and the `tcp_fifo` run satisfies it.

**Packets that wait for an address** (`ArpAssumption`). `ArpInv` joins
`Conservation` and `SharedRetry`, which need each other: the packets that
`host_poll_arp` takes out together must have been asked for together, or one
would be given up too early; and a packet may be counted by its number only
while no two carry the same. The history `asked` ties the attempts of a packet
to the requests really sent, from which `FailureIsLate` follows.

**Clock** (`ClockAssumption`). `TickComplete` is about a scan in progress, and a
handler may transmit into the slot that the scan has just freed. `HandlerSlot`
says that what is then in this slot is due later than the tick, since a frame
that waits at all waits for a whole unit; `NotBehind`, that the clock has not
gone back behind the tick's argument.

**Topology** (`TopologyAssumption`: any number of blocks, ports, nodes, links).
`NoMisdelivery` is not inductive: a pointer is stale after a shift, and the
element it leads to may be filled again. `PointersRight` is what simulator.c
keeps in spite of that: an interface has a pointer exactly while it has a link,
and if it finds itself in the element it points to, then that element, in its
place or as the copy that the shift left behind the end of the array, is one of
the present links. `Exact` says more for the time before the first shift.
`simulator_remove_node` shifts the array once per port; its loop is a recursive
function, and the invariant is carried through it by induction on the ports
(`LoopExists`, `LoopOK`).

**Switch** (`TreeAssumption`; `ConnectedAssumption` for `Delivered`: the tree
reaches every station). `SwitchInv` says of each copy on the way that it has
left its sender behind and that the tag together with the port tells the
sender's VLAN (`CopyOK`), of each table entry that its station is behind its
port (`TableOK`), and of each frame and station that either the station has it
and no copy can reach it again, or at most one copy is on the way to it, and one
is if the frame is meant for it (`OnePath`). The tree makes the sets behind
the other ports of a switch disjoint, so flooding splits `OnePath` and never
doubles it; known or unknown, the port that is chosen is the one ahead.

**Router** (`RouterAssumption`, `RoutesAssumption`, and for the VLANs the
four assumptions of section 2). A handler takes a packet out of its place and
puts it, or an error about it, in another. `Ready` describes the state between the
two, `Placed` the state after it: every live packet is in transit or in one queue,
in one place, with the retries of its address shared. `VlanInv` says that what
routers know and what is on its way to them is true: an entry of the ARP table
names a neighbour in his VLAN, a segment on which a tag was seen is a tagged one,
and a reply tells the truth; and that every waiting packet leads to the segment of
its next hop. `LookupFindsLongest` is about `router_lookup_route` alone, a
recursive function over a table of any length: the scan ends with the first of
the longest matching routes.

**Descriptors, slots and ports** (`MagiAssumption`: any hosts and sizes of the
tables, the range of source ports, the buffers and the run, with or without
delays). Two invariants, the second with the first.

- `DescriptorInv`: while nothing is cut, a descriptor in use points to a socket of
  its connection that is still its user's (`Owned`), and to a slot that no other one
  points to (`OneOwner`). Slots are recycled only in states in which no descriptor
  has them, and a close and the end of its descriptor are tied by a frame of
  `todo`. The rest is what must hold cut or not: types, and that a connect in
  progress, the server and each frame refer to descriptors and slots that are there
  (`CallOK`, `ServerOK`, `TodoOK`). The first part of the module has the lemmas
  about `TcpSocket`: what each operation makes of a socket's type and state.
- `PortInv`: every socket and segment belongs to a client, a port and an attempt
  (`KnownSlots`, `KnownTodo`, `KnownFlight`). Until a host's ports have all been
  taken, a port of a client means one attempt (`UsedOnce`), because the ports from
  `next_port` on are fresh (`FreshPorts`). No scan of the table for a busy port is
  needed for this, and nothing about descriptors.

`EndsAgree` and `RequestAnswered` are checked by TLC only.

**DHCP** (`DhcpAssumption`). `NoDoubleLease` looks at leases, the danger is in
offers. `LeaseInv` says that the counter is ahead of every address given or on
record, so the loop of `dhcp_allocate_ip` never meets a duplicate and its counter
and candidate never get out of step in one run of the server; and that while a
command runs, every address on the wire or in its host's last datagram is for
that host only. This is why the client need not compare transaction numbers.

Four things stay with TLC.

- Liveness: `PendingDrains`, `AllSettle`, `OpenCompletes`, `AllArrives`,
  `CloseCompletes`. They need fairness and `ENABLED`, which the prover lacks.
- `EndsAgree` and `RequestAnswered` of `MagiSocket`: they need an account of every
  moment inside nested exchanges, of data that is refused in the middle of them and
  of dispatches within dispatches.
- The properties of `DnsServer` (`RightAnswer`, `HttpResolves`): that the answer
  is right rests on names coming back unchanged from the codec, or cut short, and
  encoding joins sequences of any length, a recursion over data.
- The properties of `Loader`: `TopologySound` and `SavedComesBack` speak of the
  result of folds over the members of a file (`Saved`, `Loaded`), and
  `LookupIsLongest` of the arithmetic of masks (powers of two), which it compares
  with a definition by division. `LookupFindsLongest` takes `Matches` as the code
  computes it.

Recursion over an index is within reach where it is written as a function: the
function exists by a least counterexample, a well-founded argument about a set
of numbers (`LeastNumber`, `LeastIndex`), and the same argument replaces
induction.

## 5. Met while modelling

Behaviours of the code that limit what can be promised. Each names the
condition under which a property above stops short.

- *The TCP window.* `tcp_socket_send` looks only at the sender's buffer, no code
  reads a received window, and the advertised one is always 65535 while the
  receive buffer has 4096 bytes. A receiver whose user does not read drops what
  exceeds its buffer and never gets it again. Hence `AllArrives` is stated for
  streams that fit. The FIN behind refused data is refused too: the sender stays in
  FIN_WAIT_1, CLOSING or LAST_ACK, and its peer open, also after the peer's user has
  read. Hence the exception in `EndsAgree`. Some twenty sends of 200 bytes that
  nobody reads are enough.
- *Links that go dead.* Removing a link shifts the array `links` by value, and
  the ports of the shifted links keep their old pointers. Once the element they
  point to holds another link, `transmit` finds that the sender is not one of
  its ends and drops the frame, although the topology still lists the link.
  Hence the condition `~topo.shifted` of `EveryLinkCarries`.
- *A flush that does not end.* With a full ARP table the router cannot store the
  address a reply brings. The flush then takes each waiting packet out, fails to
  find the address and queues it again. `router` therefore has a table with room
  for every neighbour.
- *Handshakes over links with delay.* `magi_connect` takes the handshake to be
  over when the SYN has been sent. That is so in the synchronous mode, and in the
  realtime mode over links without delay or when the in-flight table is full. Over
  a link with delay the handshake has not begun: the call fails and frees the
  socket, and the server keeps a half-open connection. Hence `EndsAgree` and
  `RequestAnswered` are about the case without delays.
- *A socket closed under its descriptor.* The raw commands take the first socket
  that suits. After `H2 tcp_listen 80`, `H1 magi_sock_connect`, `H2 tcp_close` and
  `H1 tcp_close`, the last ACK frees the socket of H1's descriptor; a `tcp_connect`
  of H1 gets the slot, and H1's `magi_sock` commands then read and close that
  connection. A
  `magi_close` whose FIN `host_send_l3_packet` refuses (a full queue of packets that
  wait for ARP) returns early with the socket in FIN_WAIT_1 or LAST_ACK and the
  descriptor in use. Hence `cut` in `NoStaleDescriptor`.
- *Source ports used again.* The code takes the next port that no socket in the
  host's own table uses to that peer; it cannot know of the peer's table. A
  server's child that a failed connect over a link with delay left half open, or one in TIME_WAIT,
  then gets the segments of a new connection from the same port; in TIME_WAIT it
  swallows the SYN, and the connect fails. Hence the condition of `NoMixing`.
- *Two listeners on port 80.* Connections may become children of the other
  listener, while the HTTP server accepts only children of its own, and the
  request stays unread. *An idle connection* to port 80 is accepted by the first
  dispatch if it is in an earlier slot, and its turn is the request's: the server
  dispatches once per segment with data. Hence two conditions of `RequestAnswered`.
- *A failing start.* `http_server_init` is only called by the tests. The first
  start of the server, when it fails, closes descriptor 0, whoever has it. The
  descriptor is then closed properly, so `NoStaleDescriptor` holds. But the
  console keeps its number for that host (`magi_sock_fd`). A later start of the
  server may get the same descriptor, and `magi_sock_close` then closes the
  listener of a server that regards itself as running. Hence `RequestAnswered`
  asks for a server whose listener is there.
- *Leases* are forgotten when the DHCP server starts again, so that two hosts can
  get one address: `NoDoubleLease` is about one run of the server. The client
  asks for the subnet mask and does not read it.
- *A full name table* refuses a new address for a name it has. *A name with an
  empty label* is answered with the address of what precedes the label: the DNS
  properties are about names without them.
- *The number of ports* of hosts and routers is not saved, and links on ports
  beyond the default are lost: the condition `Standard` of `SavedComesBack`.
- *Packets in flight* refer to nodes that a load frees; `flying` then holds
  `Freed`, and no property excludes it.

Smaller ones: a SYN that precedes the listener leaves the client in SYN_SENT for
ever; an ACK that arrives in CLOSE_WAIT is ignored, so that the send buffer is
never freed; unread data is discarded when LAST_ACK frees the socket; packets
that wait for an address are not sent when it is learned from a request, only on
a reply; in the realtime mode `traceroute` sends all its requests before the
first answer can arrive and prints stars only; a second `magi_sock_connect` on a
host forgets the first descriptor, which stays in use; the DHCP pool never takes
an address back.

## 6. Not modelled, and the plan

Not modelled: the text side of the CLI and of JSON (parsing, printing,
escapes), which keeps no state; the codecs of segments, datagrams, frames and
messages with their checksums, stateless byte layout, of which the models keep
the fields that some handler reads; rendering and the visualizer; the tests,
read as documentation. RIP, NAT and ACL are empty files; fragmentation, which
the repository's README lists, is not in the code.

Left out of modelled parts, and why:

- the wrap of 32-bit sequence numbers: with the fixed initial numbers it takes
  4 GiB on one connection;
- a duplicate SYN after its connection is gone: links do not repeat frames, and
  `flight` of `MagiSocket` gives each segment once;
- in `MagiSocket`: a host that connects to itself; listening ports other than 80;
  answers other than of the sizes given; a connect that finds no source port, as
  there are fewer sockets than ports; and, without delays, lost and refused
  segments: an exchange that waits for ARP counts as one with delays;

- stations that move to another port of a switch: the tables never age, and
  nothing promises that a moved station is reached before it sends;
- how `ping` and `traceroute` wait for and time their answers: one record of
  the last ICMP message per host, read by the printing code;
- `magi_http_get` and other functions that only the tests call.

What would come next: `RightAnswer` of `DnsServer`, from lemmas about the codec
(the encoder is a concatenation of a sequence of sequences, for which it would
take a recursive function over an index) and an invariant about queries and
answers on the wire; `TopologySound` of `Loader`, from lemmas about the folds that
build the topology; and a module with the wrap of sequence numbers.

Outside the prover's reach: liveness under fairness, `ENABLED`, and what a
recursive definition that builds data computes for all inputs. These stay with
TLC.
