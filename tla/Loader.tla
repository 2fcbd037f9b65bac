-------------------------------- MODULE Loader --------------------------------
(***************************************************************************)
(* Saving and loading a topology (utils/loader.c), with the commands that   *)
(* change it in between and everything that refers to its nodes from        *)
(* outside: the layer-7 services, the socket descriptors and the packets in *)
(* flight.                                                                  *)
(*                                                                         *)
(* A file is the tree that simulator_save writes and simulator_load reads;  *)
(* what the loader passes over without a word (an element of the wrong type *)
(* or without its fields) is not in it.  An address in a file may come      *)
(* without a prefix.  Numbers keep their value; strings need no escapes.    *)
(* save changes nothing but its file, and what a load makes of a file does  *)
(* not depend on the topology it replaces: so a load takes one of the files *)
(* of the users, or the one that a save has just written.                   *)
(***************************************************************************)
EXTENDS Routes

LOCAL INSTANCE SequencesExt

CONSTANTS
  NodeType,      \* NodeType[n]: the type of the node a user calls n
  Requested,     \* the numbers of ports that users ask for
  Delays,        \* the delays of their links
  Leased,        \* the addresses DHCP hands out
  Files,         \* the files that users wrote
  Services,      \* http, dhcp, dns, and the sockets of programs
  MaxPort,       \* MAX_PORT
  MaxNodes,      \* SIMULATOR_MAX_NODES
  MaxLinks,      \* SIMULATOR_MAX_LINKS
  MaxFlying      \* bound on the packets in flight

Names == DOMAIN NodeType
NoIp == [ip |-> -1, prefix |-> 0]
ZeroIp == [ip |-> Zero, prefix |-> 0]
Bad == [ip |-> -1, prefix |-> -1]       \* a text that ip_parse refuses
DefaultPort == [mode |-> "access", vlan |-> 1]
Nobody == "nobody"
Freed == "freed"                        \* a pointer to memory that was freed

ASSUME LoaderAssumption ==
  /\ {Nobody, Freed} \cap Names = {}
  /\ {MaxPort, MaxNodes, MaxLinks, MaxFlying} \subseteq Nat
  /\ Ports = 1 .. Cardinality(Ports) /\ Cardinality(Ports) <= MaxPort

VARIABLES
  topo,       \* [nodes, links]: the arrays of the simulator
  holds,      \* holds[s]: the node to which the service s refers
  flying      \* the nodes to which packets in flight refer

vars == <<topo, holds, flying>>
Empty == [nodes |-> <<>>, links |-> <<>>]

Init == /\ topo = Empty
        /\ holds = [s \in Services |-> Nobody]
        /\ flying = {}

-----------------------------------------------------------------------------
(* Nodes and links                                                          *)

Find(t, n) == SelectInSeq(t.nodes, LAMBDA x : x.name = n)     \* simulator_find_node

NumPorts(k) == IF k <= 0 THEN 1 ELSE IF k > MaxPort THEN MaxPort ELSE k

CanCreate(t, n) == Find(t, n) = 0 /\ Len(t.nodes) < MaxNodes

\* simulator_create_node for the three types: what a node has before it is
\* configured.
NewHost(n, k) == [name |-> n, type |-> "host", ports |-> NumPorts(k),
                  ip |-> NoIp, gateway |-> ZeroIp]
NewSwitch(n, k) == [name |-> n, type |-> "switch", ports |-> NumPorts(k),
                    configs |-> [p \in 1 .. NumPorts(k) |-> DefaultPort]]
NewRouter(n, k) == [name |-> n, type |-> "router", ports |-> NumPorts(k),
                    ips |-> [p \in 1 .. NumPorts(k) |-> NoIp],
                    vlans |-> [p \in 1 .. NumPorts(k) |-> 0], routes |-> <<>>]
NewNode(n, k) == CASE NodeType[n] = "host" -> NewHost(n, k)
                   [] NodeType[n] = "switch" -> NewSwitch(n, k)
                   [] NodeType[n] = "router" -> NewRouter(n, k)
Add(t, x) == [t EXCEPT !.nodes = Append(@, x)]

\* endpoint_to_interface, and whether the interface has a link.
IsPort(t, e) == Find(t, e[1]) # 0 /\ e[2] \in 1 .. t.nodes[Find(t, e[1])].ports
Linked(t, e) == \E i \in DOMAIN t.links : e \in {t.links[i].a, t.links[i].b}

\* Mutant: only the first endpoint has to be free.
LinkedToOne(t, l) ==
  IF /\ Len(t.links) < MaxLinks /\ l.a # l.b
     /\ IsPort(t, l.a) /\ IsPort(t, l.b) /\ ~Linked(t, l.a)
  THEN [t EXCEPT !.links = Append(@, l)] ELSE t

\* simulator_link; an endpoint without a link has no duplicate either.
SimulatorLink(t, l) ==
  IF /\ Len(t.links) < MaxLinks /\ l.a # l.b
     /\ IsPort(t, l.a) /\ IsPort(t, l.b) /\ ~Linked(t, l.a) /\ ~Linked(t, l.b)
  THEN [t EXCEPT !.links = Append(@, l)] ELSE t

-----------------------------------------------------------------------------
(* Saving                                                                   *)

Of(t, type) == SelectSeq(t.nodes, LAMBDA x : x.type = type)
Map(s, F(_)) == [i \in DOMAIN s |-> F(s[i])]

\* ip_address_to_string: a prefix of 0 is not written.  ip_parse: without a
\* prefix it is 0.
Written(a) == IF a.prefix > 0 THEN a ELSE [ip |-> a.ip]
Parsed(x) == IF "prefix" \in DOMAIN x THEN x ELSE [ip |-> x.ip, prefix |-> 0]

SaveHost(h) == IF h.ip = NoIp THEN [name |-> h.name]
               ELSE [name |-> h.name, ip |-> Written(h.ip), gateway |-> Written(h.gateway)]

\* Mutant: only access ports are written.
SaveVlansAccess(s) ==
  SelectSeq([p \in 1 .. s.ports |-> [port |-> p] @@ s.configs[p]],
            LAMBDA c : c.mode = "access" /\ c.vlan # 1)

\* The VLAN configurations other than the default one.
SaveVlans(s) ==
  SelectSeq([p \in 1 .. s.ports |-> [port |-> p] @@ s.configs[p]],
            LAMBDA c : c.mode = "trunk" \/ c.vlan # 1)
SaveSwitch(s) == [name |-> s.name, num_ports |-> s.ports, vlans |-> SaveVlans(s)]

\* The interfaces with an address, the VLAN 0 meaning none.
SaveInterfaces(r) ==
  SelectSeq([p \in 1 .. r.ports |->
               [port |-> p, ip |-> IF r.ips[p] = NoIp THEN NoIp ELSE Written(r.ips[p]),
                vlan |-> r.vlans[p]]],
            LAMBDA i : i.ip # NoIp)
\* The whole table, direct routes included; the number of ports is not written.
SaveRouter(r) == [name |-> r.name, interfaces |-> SaveInterfaces(r), routes |-> r.routes]

\* simulator_save
Saved(t) == [hosts |-> Map(Of(t, "host"), SaveHost),
             switches |-> Map(Of(t, "switch"), SaveSwitch),
             routers |-> Map(Of(t, "router"), SaveRouter),
             links |-> t.links]

-----------------------------------------------------------------------------
(* Loading                                                                  *)

\* The address of a host, and its gateway if the address was read.
LoadHost(h) ==
  LET x == NewHost(h.name, 1)
  IN IF "ip" \notin DOMAIN h THEN x
     ELSE IF h.ip = Bad THEN x
     ELSE [x EXCEPT !.ip = Parsed(h.ip), !.gateway = Parsed(h.gateway)]

\* switch_set_access_port and switch_set_trunk_port refuse other ports.
SetPort(configs, c) ==
  IF c.port \notin DOMAIN configs THEN configs
  ELSE IF c.mode = "trunk"
  THEN [configs EXCEPT ![c.port] = [mode |-> "trunk", vlan |-> 0]]
  ELSE IF c.vlan < 1 THEN configs
  ELSE [configs EXCEPT ![c.port] = [mode |-> "access", vlan |-> c.vlan]]

LoadSwitch(s) == LET x == NewSwitch(s.name, s.num_ports)
                 IN [x EXCEPT !.configs = FoldLeft(SetPort, @, s.vlans)]

\* An interface of a router: the VLAN is taken although the address may not be.
SetInterface(r, i) ==
  IF i.port \notin 1 .. r.ports THEN r
  ELSE [r EXCEPT !.ips[i.port] = IF i.ip = Bad THEN @ ELSE Parsed(i.ip),
                 !.vlans[i.port] = IF i.vlan = 0 THEN @ ELSE i.vlan]

\* A route of the file: router_add_route refuses other interfaces.
SetRoute(table, e) ==
  IF e.port \notin Ports THEN table
  ELSE AddRoute(table, e.net, e.prefix, e.next_hop, e.port)

\* A router always gets the default number of ports, its interfaces, the
\* direct routes, and then the routes of the file.
LoadRouter(r) ==
  LET x == FoldLeft(SetInterface, NewRouter(r.name, Cardinality(Ports)), r.interfaces)
  IN [x EXCEPT !.routes = FoldLeft(SetRoute, DirectRoutes(@, x.ips, NoIp), r.routes)]

\* simulator_load after the clear: a node that cannot be created ends the
\* load, with what there is by then; a link that cannot be made is skipped.
Loaded(f) ==
  LET xs == Map(f.hosts, LoadHost) \o Map(f.switches, LoadSwitch)
              \o Map(f.routers, LoadRouter)
      step(acc, x) == IF acc.ok /\ CanCreate(acc.t, x.name)
                      THEN [acc EXCEPT !.t = Add(@, x)]
                      ELSE [acc EXCEPT !.ok = FALSE]
      all == FoldLeft(step, [ok |-> TRUE, t |-> Empty], xs)
  IN IF all.ok THEN [all EXCEPT !.t = FoldLeft(SimulatorLink, @, f.links)] ELSE all

-----------------------------------------------------------------------------
(* Commands                                                                 *)

\* create
Create(n, k) ==
  /\ CanCreate(topo, n)
  /\ topo' = Add(topo, NewNode(n, k))
  /\ UNCHANGED <<holds, flying>>

\* link
LinkNodes(l) ==
  /\ SimulatorLink(topo, l) # topo
  /\ topo' = SimulatorLink(topo, l)
  /\ UNCHANGED <<holds, flying>>

\* unlink
UnlinkNodes(i) ==
  /\ topo' = [topo EXCEPT !.links = RemoveAt(@, i)]
  /\ UNCHANGED <<holds, flying>>

IsHost(i) == topo.nodes[i].type = "host"

\* dhcp_discover, which leaves the gateway as it is
Lease(i, a) ==
  /\ IsHost(i)
  /\ topo' = [topo EXCEPT !.nodes[i].ip = [ip |-> a, prefix |-> 0]]
  /\ UNCHANGED <<holds, flying>>

\* A service starts on a host, or the host's program opens a descriptor.
Start(s, i) ==
  /\ IsHost(i) /\ topo.nodes[i].ip # NoIp
  /\ holds' = [holds EXCEPT ![s] = topo.nodes[i].name]
  /\ UNCHANGED <<topo, flying>>

\* transmit in realtime mode puts a packet for the interface e, at the end of a
\* link with a delay, into the table of the clock.
Transmit(e) ==
  /\ \E i \in DOMAIN topo.links :
       topo.links[i].delay > 0 /\ e \in {topo.links[i].a, topo.links[i].b}
  /\ Cardinality(flying) < MaxFlying
  /\ flying' = flying \cup {e[1]}
  /\ UNCHANGED <<topo, holds>>

\* sim_clock_tick
Arrive(n) ==
  /\ flying' = flying \ {n}
  /\ UNCHANGED <<topo, holds>>

\* The services are stopped, and all descriptors forgotten.
Stopped == [s \in Services |-> Nobody]

\* load of a file that can be read: simulator_clear frees the nodes.  One that
\* cannot be read changes nothing.
Load(f) ==
  /\ holds' = [s \in Services |-> IF Stopped[s] = Nobody THEN Nobody ELSE Freed]
  /\ flying' = IF flying = {} THEN {} ELSE {Freed}
  /\ topo' = Loaded(f).t

Endpoints == {<<topo.nodes[i].name, p>> : i \in DOMAIN topo.nodes, p \in 1 .. MaxPort}

Next ==
  \/ \E n \in Names, k \in Requested : Create(n, k)
  \/ \E a, b \in Endpoints, d \in Delays : LinkNodes([a |-> a, b |-> b, delay |-> d])
  \/ \E i \in DOMAIN topo.links : UnlinkNodes(i)
  \/ \E i \in DOMAIN topo.nodes :
       \/ \E a \in Leased : Lease(i, a)
       \/ \E s \in Services : Start(s, i)
  \/ \E e \in Endpoints : Transmit(e)
  \/ \E n \in flying : Arrive(n)
  \/ \E f \in Files \cup {Saved(topo)} : Load(f)

Spec == Init /\ [][Next]_vars

-----------------------------------------------------------------------------
\* The routing tables of the routers.
Tables == {topo.nodes[i].routes :
             i \in {k \in DOMAIN topo.nodes : topo.nodes[k].type = "router"}}

\* The arrays keep their bounds and the references their types.
TypeOK == /\ Len(topo.nodes) <= MaxNodes /\ Len(topo.links) <= MaxLinks
          /\ \A i \in DOMAIN topo.nodes :
               LET x == topo.nodes[i]
               IN x.name \in Names /\ x.type \in {"host", "switch", "router"}
                    /\ x.ports \in 1 .. MaxPort
          /\ \A table \in Tables : table \in Seq(Entry) /\ Len(table) <= MaxRoutes
          /\ holds \in [Services -> Names \cup {Nobody, Freed}]
          /\ flying \subseteq Names \cup {Freed}

\* The ports that the loader gives.
Standard(t) == \A i \in DOMAIN t.nodes :
  LET x == t.nodes[i]
  IN /\ x.type = "host" => x.ports = 1
     /\ x.type = "router" => x.ports = Cardinality(Ports)

\* A node without what its file leaves out: the VLAN of a router's interface
\* whose address could not be read.
Kept(x) == IF x.type # "router" THEN x
           ELSE [x EXCEPT !.vlans = [p \in DOMAIN @ |-> IF x.ips[p] = NoIp THEN 0 ELSE @[p]]]

\* Everything a topology with the default numbers of ports has, whether typed
\* in, loaded from a file with errors or changed by DHCP, comes back from
\* its file: names, addresses and prefixes, gateways, VLANs, the routing tables
\* with their order, and the links.  Only the order of the nodes changes.
SavedComesBack ==
  LET r == Loaded(Saved(topo))
  IN Standard(topo) => /\ r.ok
                       /\ ToSet(r.t.nodes) = {Kept(x) : x \in ToSet(topo.nodes)}
                       /\ r.t.links = topo.links

\* No service and no descriptor refers to a node that a load has freed.
ServicesLive == \A s \in Services : holds[s] # Freed

\* Two addresses agree on their first p bits.
SamePrefix(a, b, p) == a \div 2^(Bits - p) = b \div 2^(Bits - p)

\* However often routes are added, in whatever form their destinations are
\* written, no route occupies two entries of the bounded table.
NoDuplicateRoutes ==
  \A table \in Tables : \A i, j \in DOMAIN table :
    LET e == table[i]
        f == table[j]
    IN /\ e.prefix = f.prefix /\ SamePrefix(e.net, f.net, e.prefix)
       /\ e.next_hop = f.next_hop /\ e.port = f.port
       => i = j

\* Also a topology of which only a part could be loaded, from a file that
\* repeats names and endpoints, has one node of a name, and links between
\* ports that exist, at most one at each; its routing tables hold no route
\* twice, and nothing refers to the nodes it replaced.
TopologySound ==
  /\ TypeOK /\ ServicesLive /\ NoDuplicateRoutes
  /\ \A i, j \in DOMAIN topo.nodes : topo.nodes[i].name = topo.nodes[j].name => i = j
  /\ \A i \in DOMAIN topo.links :
       /\ IsPort(topo, topo.links[i].a) /\ IsPort(topo, topo.links[i].b)
       /\ \A j \in DOMAIN topo.links \ {i} :
            {topo.links[i].a, topo.links[i].b} \cap {topo.links[j].a, topo.links[j].b} = {}

\* router_lookup_route, which works with masks of 0, Bits and everything in
\* between, finds for every address the first of the entries with the longest
\* prefix that covers it, and finds one whenever there is one.
LookupIsLongest ==
  \A table \in Tables, a \in Address :
    LET covering == {i \in DOMAIN table : SamePrefix(a, table[i].net, table[i].prefix)}
        longest == {i \in covering : \A j \in covering : table[j].prefix <= table[i].prefix}
        i == Lookup(table, a)
    IN IF covering = {} THEN i = 0 ELSE i \in longest /\ \A j \in longest : i <= j
=============================================================================
