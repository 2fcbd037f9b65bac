------------------------------- MODULE MCLoader -------------------------------
(***************************************************************************)
(* Loader with one node of each type and two files: the one of the          *)
(* repository in small, with prefixes, VLANs, a default route and routes    *)
(* that are written with host bits, and one with mistakes: addresses that   *)
(* cannot be read, ports that do not exist, an endpoint and a name used     *)
(* twice.  A router has two ports by default.                               *)
(***************************************************************************)
EXTENDS Loader

MCPorts == {1, 2}
MCNodeType == [H |-> "host", S |-> "switch", R |-> "router"]
Ip(a, p) == [ip |-> a, prefix |-> p]
Route(a, p, hop, i) == [net |-> a, prefix |-> p, next_hop |-> hop, port |-> i]
Cable(n, p, m, q) == [a |-> <<n, p>>, b |-> <<m, q>>, delay |-> 10]

Good == [hosts |-> <<[name |-> "H", ip |-> Ip(1, 1), gateway |-> [ip |-> 0]]>>,
         switches |-> <<[name |-> "S", num_ports |-> 2,
                         vlans |-> <<[port |-> 1, mode |-> "access", vlan |-> 10],
                                     [port |-> 2, mode |-> "trunk", vlan |-> 0]>>]>>,
         routers |-> <<[name |-> "R",
                        interfaces |-> <<[port |-> 1, ip |-> Ip(0, 2), vlan |-> 10],
                                         [port |-> 2, ip |-> Ip(3, 1), vlan |-> 0]>>,
                        routes |-> <<Route(3, 1, 2, 1), Route(0, 0, 2, 2), Route(1, 2, 0, 1)>>]>>,
         links |-> <<Cable("H", 1, "S", 1), Cable("S", 2, "R", 1)>>]

Flawed == [hosts |-> <<[name |-> "H", ip |-> Bad, gateway |-> Ip(1, 1)]>>,
           switches |-> <<[name |-> "S", num_ports |-> 0,
                           vlans |-> <<[port |-> 3, mode |-> "trunk", vlan |-> 0],
                                       [port |-> 1, mode |-> "access", vlan |-> 0]>>]>>,
           routers |-> <<[name |-> "R",
                          interfaces |-> <<[port |-> 3, ip |-> Ip(1, 1), vlan |-> 0],
                                           [port |-> 2, ip |-> Bad, vlan |-> 10],
                                           [port |-> 1, ip |-> [ip |-> 2], vlan |-> 0]>>,
                          routes |-> <<Route(3, 1, 2, 3)>>]>>,
           links |-> <<Cable("H", 1, "S", 1), Cable("H", 1, "R", 1), Cable("R", 1, "S", 1),
                       Cable("R", 2, "R", 1), Cable("R", 2, "X", 1)>>]
Twice == [Good EXCEPT !.switches = <<@[1], [@[1] EXCEPT !.num_ports = 3]>>]
\* A router alone, with routes of every prefix length, two of which may be one
\* route, and more of them than its table holds.
Routing(p, q) == [hosts |-> <<>>, switches |-> <<>>, links |-> <<>>,
                  routers |-> <<[Good.routers[1] EXCEPT !.routes =
                    <<Route(5, p, 4, 1), Route(4, q, 4, 1), Route(7, p, 1, 2)>>]>>]
MCFiles == {Good, Flawed, Twice, Routing(0, 3), Routing(2, 2), Routing(3, 1)}
=============================================================================
