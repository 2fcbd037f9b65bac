-------------------------------- MODULE Routes --------------------------------
(***************************************************************************)
(* IPv4 prefixes and the routing table of a router as values (layer3/ipv4.c *)
(* and layer3/router.c): masks, network addresses, the addition of a route  *)
(* and the scan that finds one.  An address is a number of Bits bits, as    *)
(* ip_to_u32_public makes it out of four octets.                            *)
(***************************************************************************)
EXTENDS Integers, Sequences, FiniteSets

CONSTANTS
  Bits,     \* 32
  Ports,    \* the interfaces of a router
  MaxRoutes \* ROUTER_MAX_ROUTES

ASSUME RoutesAssumption == Bits \in Nat \ {0} /\ MaxRoutes \in Nat

Address == 0 .. 2^Bits - 1
Zero == 0                 \* 0.0.0.0: no next hop, a directly connected route
PrefixLengths == 0 .. Bits

\* struct RoutingTableEntry
Entry == [net : Address, prefix : PrefixLengths, next_hop : Address, port : Ports]

\* x & y of C on unsigned numbers of Bits bits.
And(x, y) ==
  LET and[i \in 0 .. Bits] ==
        IF i = 0 THEN 0
        ELSE and[i - 1] + IF /\ (x \div 2^(i - 1)) % 2 = 1
                             /\ (y \div 2^(i - 1)) % 2 = 1
                          THEN 2^(i - 1) ELSE 0
  IN and[Bits]

\* Mutant: the shift counts the prefix from the wrong end.
MaskLow(p) ==
  IF p = 0 THEN 0
  ELSE IF p >= Bits THEN 2^Bits - 1
  ELSE ((2^Bits - 1) * 2^p) % 2^Bits

\* ip_prefix_to_mask: the shift is truncated to Bits bits, and a shift by the
\* whole width never happens.
Mask(p) ==
  IF p = 0 THEN 0
  ELSE IF p >= Bits THEN 2^Bits - 1
  ELSE ((2^Bits - 1) * 2^(Bits - p)) % 2^Bits

\* ip_network_address
NetworkAddress(a, p) == And(a, Mask(p))

Matches(e, a) == And(a, Mask(e.prefix)) = And(e.net, Mask(e.prefix))

\* router_lookup_route: the index of the best entry after the scan, 0 if none
\* matches.
Lookup(table, a) ==
  LET best[n \in 0 .. Len(table)] ==
        IF n = 0 THEN 0
        ELSE LET b == best[n - 1]
             IN IF /\ Matches(table[n], a)
                   /\ b = 0 \/ table[n].prefix > table[b].prefix
                THEN n ELSE b
  IN best[Len(table)]

\* router_add_route: the destination is normalised before it is compared; an
\* entry that is there already, and one for which there is no room, change
\* nothing.
AddRoute(table, a, prefix, next_hop, port) ==
  LET e == [net |-> NetworkAddress(a, prefix), prefix |-> prefix,
            next_hop |-> next_hop, port |-> port]
  IN IF (\E i \in DOMAIN table : table[i] = e) \/ Len(table) >= MaxRoutes
     THEN table ELSE Append(table, e)

\* router_add_direct_routes: one route for each interface with an address, in
\* the order of the interfaces; one that cannot be added is passed over.
DirectRoutes(table, ips, noIp) ==
  LET added[i \in Ports \cup {0}] ==
        IF i = 0 THEN table
        ELSE IF ips[i] = noIp THEN added[i - 1]
        ELSE AddRoute(added[i - 1], ips[i].ip, ips[i].prefix, Zero, i)
  IN added[Cardinality(Ports)]
=============================================================================
