------------------------------- MODULE MCRouter -------------------------------
(***************************************************************************)
(* Two routers between three segments.  Addresses have four bits: 0-3 is    *)
(* the first segment, a switch with two VLANs on the trunk of r1; 4-7 is    *)
(* the link between r1 and r2; 8-11 is the empty segment of r2.  12 and 13  *)
(* are routed in a circle, 14 and 15 end at r2.                             *)
(***************************************************************************)
EXTENDS Router, TLC

MCPorts == {1, 2, 3}
MCInterfaceIp == [r1 |-> 1 :> 3 @@ 2 :> 5, r2 |-> 2 :> 6 @@ 3 :> 11]
Direct(n, s) == [net |-> n, prefix |-> 2, next_hop |-> 0, port |-> s]
Via(n, p, hop) == [net |-> n, prefix |-> p, next_hop |-> hop, port |-> 2]
MCTable == [r1 |-> <<Direct(0, 1), Direct(4, 2), Via(0, 0, 6)>>,
            r2 |-> <<Direct(4, 2), Direct(8, 3), Via(0, 2, 5), Via(12, 3, 5)>>]
MCStationIp == [a |-> 1, b |-> 2]
MCSegment == [a |-> 1, b |-> 1]
MCVlan == [a |-> 10, b |-> 20]
MCGateway == [a |-> "r1", b |-> "r1"]
To(dst) == [kind |-> "data", dst |-> dst, ttl |-> DefaultTtl]
\* Two stations in two VLANs; a sends into the circle and to where r2 has no
\* route, and r1 pings r2.
MCSends == [a |-> {To(13), To(14)}, b |-> {}]
MCPings == [r1 |-> {6}, r2 |-> {}]
=============================================================================
