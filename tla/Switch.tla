-------------------------------- MODULE Switch --------------------------------
(***************************************************************************)
(* Switches (layer2/switch.c) and the stations on their ports: VLANs, MAC   *)
(* learning, forwarding and flooding across several switches.               *)
(*                                                                         *)
(* A port is linked to a station, to a port of another switch, or to        *)
(* nothing.  Port modes come from the topology file and do not change.  A   *)
(* station on an access port (a host) sends and gets untagged frames; one   *)
(* on a trunk port (a router) tags the frames it sends, or does not if it   *)
(* knows no VLAN.  A station and its MAC address have the same name.        *)
(*                                                                         *)
(* wire holds the frames on their way to a switch, in no order.  A handler  *)
(* reads and writes the table before it sends, so the nested deliveries of  *)
(* the synchronous mode are among the behaviours below.                     *)
(***************************************************************************)
EXTENDS Integers, FiniteSets, Sequences

CONSTANTS
  Switches, Stations, Vlans,
  Ports,        \* the ports of all switches
  Owner,        \* Owner[p]: the switch of port p
  Far,          \* Far[p]: what is at the other end of the link of p
  Access,       \* Access[p]: the VLAN of an access port, 0 for a trunk
  Behind,       \* Behind[p]: the stations that are reached through p
  TableSize,    \* SWITCH_MAC_TABLE_MAX_ENTRIES
  MaxFrames     \* bound on the frames the stations send

NoLink == "nolink"
Broadcast == "broadcast"

\* The other ports of the switch of p.
Others(p) == {q \in Ports : Owner[q] = Owner[p] /\ q # p}

\* The links form a tree, of which Behind is the description, and switches
\* are linked by trunks.  Each station has one port.
ASSUME TreeAssumption ==
  /\ Owner \in [Ports -> Switches]
  /\ Far \in [Ports -> Ports \cup Stations \cup {NoLink}]
  /\ Ports \cap Stations = {} /\ NoLink \notin Ports \cup Stations
  /\ Broadcast \notin Stations
  /\ Vlans \subseteq Nat \ {0}
  /\ Access \in [Ports -> Vlans \cup {0}]
  /\ TableSize \in Nat /\ MaxFrames \in Nat
  /\ \A p \in Ports : Far[p] \in Ports => Far[Far[p]] = p /\ Access[p] = 0
  /\ \A st \in Stations : \E p \in Ports : Far[p] = st
  /\ \A p \in Ports :
       Behind[p] = CASE Far[p] \in Stations -> {Far[p]}
                     [] Far[p] \in Ports    -> UNION {Behind[q] : q \in Others(Far[p])}
                     [] OTHER               -> {}
  /\ \A p \in Ports : \A q \in Others(p) : Behind[p] \cap Behind[q] = {}
  /\ \A p, q \in Ports : Far[p] \in Stations /\ Far[q] = Far[p] => p = q

\* The port of each station.
Home == [st \in Stations |-> CHOOSE p \in Ports : Far[p] = st]

\* The network is in one piece: behind the other ports of its switch a
\* station finds all the others.
ASSUME ConnectedAssumption ==
  \A st \in Stations : Stations \ {st} \subseteq UNION {Behind[q] : q \in Others(Home[st])}

Entry == [vlan : Vlans, mac : Stations, port : Ports]
Frame == [src : Stations, dst : Stations \cup {Broadcast}, vlan : Vlans \cup {0}]
Copy == [id : Nat, tag : Vlans \cup {0}, at : Ports]

VARIABLES
  table,   \* table[s]: the MAC table of switch s
  sent,    \* the frames sent so far, with the VLAN they belong to
  wire,    \* the copies on their way to a port
  seen     \* seen[i][st]: copies of frame i that reached st (history)

vars == <<table, sent, wire, seen>>

Init == /\ table = [s \in Switches |-> {}]
        /\ sent = <<>>
        /\ wire = {}
        /\ seen = <<>>

-----------------------------------------------------------------------------
\* A station sends a frame in VLAN v: a host in that of its port, a router in
\* any, or without a tag (v is 0) when it has learned no VLAN for the port.
Send(st, dst, v) ==
  LET p == Home[st]
  IN /\ Len(sent) < MaxFrames
     /\ dst # st
     /\ Access[p] \in {0, v}
     /\ sent' = Append(sent, [src |-> st, dst |-> dst, vlan |-> v])
     /\ wire' = wire \cup {[id |-> Len(sent) + 1, at |-> p,
                            tag |-> IF Access[p] = 0 THEN v ELSE 0]}
     /\ seen' = Append(seen, [x \in Stations |-> 0])
     /\ UNCHANGED table

-----------------------------------------------------------------------------
\* switch_determine_ingress_vlan: 0 when the frame is refused.
IngressVlan(p, tag) == IF Access[p] = 0 THEN tag
                       ELSE IF tag = 0 THEN Access[p] ELSE 0

\* Mutant: an access port lets frames of every VLAN out.
AllowsAnyVlan(p, v) == TRUE

\* switch_port_allows_vlan
AllowsVlan(p, v) == Access[p] \in {0, v}

\* switch_mac_table_get: the ports recorded for a station, one or none.
Lookup(t, v, mac) == {e.port : e \in {f \in t : f.vlan = v /\ f.mac = mac}}

\* Mutant: a full table gives an entry to the new station, with its old port.
LearnInPlace(t, v, mac, p) ==
  IF Lookup(t, v, mac) # {} \/ Cardinality(t) < TableSize
  THEN {e \in t : ~(e.vlan = v /\ e.mac = mac)}
         \cup {[vlan |-> v, mac |-> mac, port |-> p]}
  ELSE LET old == CHOOSE e \in t : TRUE
       IN (t \ {old}) \cup {[vlan |-> v, mac |-> mac, port |-> old.port]}

\* switch_mac_table_set: a known station is moved to port p, a new one is
\* recorded unless the table is full.
Learn(t, v, mac, p) ==
  IF Lookup(t, v, mac) # {} \/ Cardinality(t) < TableSize
  THEN {e \in t : ~(e.vlan = v /\ e.mac = mac)}
         \cup {[vlan |-> v, mac |-> mac, port |-> p]}
  ELSE t

\* switch_flood_frame: every port but the one the frame came from.
Flood(p) == Others(p)

\* Mutant: a frame for a station that is not in the table is dropped.
OutPortsKnown(t, p, v, dst) ==
  LET to == IF dst = Broadcast THEN Flood(p) ELSE Lookup(t, v, dst) \ {p}
  IN {q \in to : AllowsVlan(q, v)}

\* Where the rest of switch_receive sends a frame that came in through p: to
\* all other ports, or to the port of its destination, which may be p.
OutPorts(t, p, v, dst) ==
  LET known == IF dst = Broadcast THEN {} ELSE Lookup(t, v, dst)
      to    == IF known = {} THEN Flood(p) ELSE known \ {p}
  IN {q \in to : AllowsVlan(q, v)}

\* switch_send_frame_on_port: trunks carry the tag, access ports do not.
Outbound(id, v, out) ==
  {[id |-> id, at |-> Far[q], tag |-> IF Access[q] = 0 THEN v ELSE 0] :
     q \in {r \in out : Far[r] \in Ports}}

\* switch_receive
Receive(f) ==
  LET s   == Owner[f.at]
      fr  == sent[f.id]
      v   == IngressVlan(f.at, f.tag)
      t   == Learn(table[s], v, fr.src, f.at)
      out == IF v = 0 THEN {} ELSE OutPorts(t, f.at, v, fr.dst)
  IN /\ table' = IF v = 0 THEN table ELSE [table EXCEPT ![s] = t]
     /\ wire' = (wire \ {f}) \cup Outbound(f.id, v, out)
     /\ seen' = [seen EXCEPT ![f.id] = [st \in Stations |->
                   @[st] + IF Home[st] \in out THEN 1 ELSE 0]]
     /\ UNCHANGED sent

Next ==
  \/ \E st \in Stations, dst \in Stations \cup {Broadcast}, v \in Vlans \cup {0} :
       Send(st, dst, v)
  \/ \E f \in wire : Receive(f)

Spec == Init /\ [][Next]_vars

-----------------------------------------------------------------------------
\* The tables, the frames and the histories have their types, and a table
\* stays within the array of SWITCH_MAC_TABLE_MAX_ENTRIES entries.
TypeOK == /\ table \in [Switches -> SUBSET Entry]
          /\ \A s \in Switches : Cardinality(table[s]) <= TableSize
          /\ sent \in Seq(Frame)
          /\ wire \subseteq Copy
          /\ seen \in Seq([Stations -> Nat]) /\ Len(seen) = Len(sent)

\* A host only ever sees frames of the VLAN of its port, over however many
\* switches and trunks they came; no station sees its own frame again, and a
\* frame that came to a trunk without a tag is seen by nobody.
VlanIsolation ==
  \A st \in Stations : \A i \in 1 .. Len(sent) :
    seen[i][st] > 0 => /\ Access[Home[st]] \in {0, sent[i].vlan}
                       /\ sent[i].vlan # 0
                       /\ sent[i].src # st

\* Every switch has learned each station, per VLAN, at the one port behind
\* which it is, although it learns from frames in transit and in any order.
\* (And the state has its types.)
LearnedTowards ==
  /\ TypeOK
  /\ \A s \in Switches : \A e \in table[s] :
       /\ Owner[e.port] = s
       /\ e.mac \in Behind[e.port]
       /\ \A g \in table[s] : g.vlan = e.vlan /\ g.mac = e.mac => g = e

\* A frame reaches a station at most once, flooded or not, and one of which no
\* copy is left on the way has reached every station in its VLAN for which it
\* is meant, whether the switches knew the way, had to flood or have full
\* tables.
Delivered ==
  \A i \in 1 .. Len(sent) :
    /\ \A st \in Stations : seen[i][st] <= 1
    /\ (\A f \in wire : f.id # i) =>
         \A st \in Stations \ {sent[i].src} :
           /\ sent[i].vlan # 0
           /\ sent[i].dst \in {st, Broadcast}
           /\ Access[Home[st]] \in {0, sent[i].vlan}
           => seen[i][st] = 1
=============================================================================
