----------------------------- MODULE SwitchProofs -----------------------------
(***************************************************************************)
(* Learning, VLANs and delivery over any tree of switches, with any number  *)
(* of stations, VLANs and frames, any table size, and the copies of frames  *)
(* in any order.                                                            *)
(***************************************************************************)
EXTENDS Switch, SequenceTheorems, FiniteSetTheorems, TLAPS

\* The stations that a copy which has come to port p can still reach.
Ahead(p) == UNION {Behind[q] : q \in Others(p)}

\* A table of switch s: small, with one entry for a station in a VLAN, which
\* is at the port that leads to it.
TableOK(s, t) ==
  /\ t \in SUBSET Entry /\ IsFiniteSet(t) /\ Cardinality(t) <= TableSize
  /\ \A e \in t : /\ Owner[e.port] = s
                  /\ e.mac \in Behind[e.port]
                  /\ \A g \in t : g.vlan = e.vlan /\ g.mac = e.mac => g = e

\* A copy is at a port behind which its sender is, and what the port makes
\* of its tag is the VLAN in which it was sent.
CopyOK(f) ==
  /\ f \in Copy /\ f.id \in 1 .. Len(sent)
  /\ sent[f.id].src \in Behind[f.at]
  /\ IngressVlan(f.at, f.tag) = sent[f.id].vlan

\* Frame i is for station st.
Meant(i, st) ==
  /\ sent[i].vlan # 0 /\ st # sent[i].src
  /\ sent[i].dst \in {st, Broadcast}
  /\ Access[Home[st]] \in {0, sent[i].vlan}

\* Station st has got frame i, and no copy of it can reach st again; or one
\* copy at most is on the way to st, and one is if the frame is for st.
OnePath(i, st) ==
  LET coming == {f \in wire : f.id = i /\ st \in Ahead(f.at)}
  IN \/ seen[i][st] = 1 /\ coming = {}
     \/ /\ seen[i][st] = 0
        /\ \A f, g \in coming : f = g
        /\ Meant(i, st) => coming # {}

Isolated(i, st) ==
  seen[i][st] > 0 => /\ Access[Home[st]] \in {0, sent[i].vlan}
                     /\ sent[i].vlan # 0
                     /\ sent[i].src # st

Histories == /\ sent \in Seq(Frame)
             /\ seen \in Seq([Stations -> Nat]) /\ Len(seen) = Len(sent)
             /\ table \in [Switches -> SUBSET Entry]

SwitchInv ==
  /\ Histories
  /\ \A s \in Switches : TableOK(s, table[s])
  /\ \A f \in wire : CopyOK(f)
  /\ \A i \in 1 .. Len(sent), st \in Stations : Isolated(i, st) /\ OnePath(i, st)

-----------------------------------------------------------------------------
\* The port of a station, and what is behind it.
LEMMA HomePort ==
  ASSUME NEW st \in Stations
  PROVE  /\ Home[st] \in Ports /\ Far[Home[st]] = st /\ Behind[Home[st]] = {st}
         /\ \A p \in Ports : Far[p] = st => p = Home[st]
<1>1. \E p \in Ports : Far[p] = st
  BY TreeAssumption
<1>2. Home[st] \in Ports /\ Far[Home[st]] = st
  BY <1>1 DEF Home
<1>3. Behind[Home[st]] = {st}
  <2> DEFINE h == Home[st]
  <2>1. Behind[h] = CASE Far[h] \in Stations -> {Far[h]}
                      [] Far[h] \in Ports    -> UNION {Behind[q] : q \in Others(Far[h])}
                      [] OTHER               -> {}
    BY <1>2, TreeAssumption
  <2>2. Far[h] = st /\ Far[h] \notin Ports
    BY <1>2, TreeAssumption
  <2> HIDE DEF h
  <2>. QED BY <2>1, <2>2 DEF h
<1>4. \A p \in Ports : Far[p] = st => p = Home[st]
  BY <1>2, TreeAssumption
<1>. QED BY <1>2, <1>3, <1>4

\* A link between switches is a trunk; what is behind its one end is ahead
\* of its other end.
LEMMA AcrossLink ==
  ASSUME NEW p \in Ports, Far[p] \in Ports
  PROVE  /\ Access[p] = 0 /\ Access[Far[p]] = 0 /\ Far[Far[p]] = p
         /\ Behind[p] = Ahead(Far[p]) /\ Behind[Far[p]] = Ahead(p)
<1>1. Access[p] = 0 /\ Far[Far[p]] = p
  BY TreeAssumption
<1>2. Access[Far[p]] = 0
  BY <1>1, TreeAssumption
<1>3. \A q \in Ports : Far[q] \in Ports => Behind[q] = Ahead(Far[q])
  <2>. SUFFICES ASSUME NEW q \in Ports, Far[q] \in Ports PROVE Behind[q] = Ahead(Far[q])
    OBVIOUS
  <2>1. Far[q] \notin Stations
    BY TreeAssumption
  <2>2. Behind[q] = CASE Far[q] \in Stations -> {Far[q]}
                      [] Far[q] \in Ports    -> UNION {Behind[r] : r \in Others(Far[q])}
                      [] OTHER               -> {}
    BY TreeAssumption
  <2>. QED BY <2>1, <2>2 DEF Ahead
<1>. QED BY <1>1, <1>2, <1>3

\* A station is behind one port of a switch at most.
LEMMA OneWay ==
  ASSUME NEW q \in Ports, NEW r \in Ports, Owner[q] = Owner[r],
         NEW st, st \in Behind[q], st \in Behind[r]
  PROVE  q = r
<1>. SUFFICES ASSUME q # r PROVE FALSE
  OBVIOUS
<1>1. r \in Others(q)
  BY DEF Others
<1>2. Behind[q] \cap Behind[r] = {}
  BY <1>1, TreeAssumption
<1>. QED BY <1>2

\* Every port with a station behind it has a link.
LEMMA LinkedPort ==
  ASSUME NEW q \in Ports, NEW st, st \in Behind[q]
  PROVE  Far[q] \in Ports \/ (Far[q] \in Stations /\ Far[q] = st /\ q = Home[st])
<1>1. Behind[q] = CASE Far[q] \in Stations -> {Far[q]}
                    [] Far[q] \in Ports    -> UNION {Behind[r] : r \in Others(Far[q])}
                    [] OTHER               -> {}
  BY TreeAssumption
<1>2. CASE Far[q] \in Stations
  BY <1>1, <1>2, HomePort
<1>3. CASE Far[q] \notin Stations /\ Far[q] \notin Ports
  BY <1>1, <1>3
<1>. QED BY <1>2, <1>3

-----------------------------------------------------------------------------
\* switch_mac_table_set keeps the table small, unambiguous and correct when
\* the station is behind the port of the frame.
LEMMA LearnOK ==
  ASSUME NEW s \in Switches, NEW t, TableOK(s, t), NEW v \in Vlans, NEW mac \in Stations,
         NEW p \in Ports, Owner[p] = s, mac \in Behind[p]
  PROVE  TableOK(s, Learn(t, v, mac, p))
<1> DEFINE old == {e \in t : e.vlan = v /\ e.mac = mac}
           kept == {e \in t : ~(e.vlan = v /\ e.mac = mac)}
           new == [vlan |-> v, mac |-> mac, port |-> p]
           u == kept \cup {new}
<1>1. /\ t \in SUBSET Entry /\ IsFiniteSet(t) /\ Cardinality(t) <= TableSize
      /\ Cardinality(t) \in Nat /\ TableSize \in Nat
  BY FS_CardinalityType, TreeAssumption DEF TableOK
<1>2. CASE ~(Lookup(t, v, mac) # {} \/ Cardinality(t) < TableSize)
  BY <1>2 DEF Learn
<1>3. CASE Lookup(t, v, mac) # {} \/ Cardinality(t) < TableSize
  <2>1. Learn(t, v, mac, p) = u
    BY <1>3 DEF Learn
  <2>2. kept \in SUBSET t
    OBVIOUS
  <2>3. /\ IsFiniteSet(kept) /\ Cardinality(kept) <= Cardinality(t)
        /\ Cardinality(kept) \in Nat /\ (Cardinality(t) = Cardinality(kept) => t = kept)
    BY <1>1, <2>2, FS_Subset, FS_CardinalityType
  <2>4. /\ new \in Entry /\ new.vlan = v /\ new.mac = mac /\ new.port = p
    BY DEF Entry
  <2> HIDE DEF new
  <2>5. new \notin kept
    BY <2>4
  <2>6. IsFiniteSet(u) /\ Cardinality(u) = Cardinality(kept) + 1
    <3> HIDE DEF kept
    <3>. QED BY <2>3, <2>5, FS_AddElement
  <2>7. Cardinality(u) <= TableSize
    <3>1. CASE Lookup(t, v, mac) # {}
      <4>1. old # {}
        BY <3>1 DEF Lookup
      <4>2. t # kept
        BY <4>1
      <4>. QED BY <1>1, <2>3, <2>6, <4>2
    <3>2. CASE Cardinality(t) < TableSize
      BY <1>1, <2>3, <2>6, <3>2
    <3>. QED BY <1>3, <3>1, <3>2
  <2>8. u \in SUBSET Entry
    BY <1>1, <2>2, <2>4
  <2>9. \A e \in u : /\ Owner[e.port] = s
                     /\ e.mac \in Behind[e.port]
                     /\ \A g \in u : g.vlan = e.vlan /\ g.mac = e.mac => g = e
    BY <2>4 DEF TableOK
  <2>. QED BY <2>1, <2>6, <2>7, <2>8, <2>9 DEF TableOK
<1>. QED BY <1>2, <1>3

\* A frame leaves through other ports of the switch that carry its VLAN, ...
LEMMA OutPortsOK ==
  ASSUME NEW s \in Switches, NEW t, TableOK(s, t), NEW p \in Ports, Owner[p] = s,
         NEW v, NEW dst, NEW q \in OutPorts(t, p, v, dst)
  PROVE  q \in Others(p) /\ AllowsVlan(q, v)
<1>1. AllowsVlan(q, v)
  BY DEF OutPorts
<1>2. q \in Flood(p) \/ q \in Lookup(t, v, dst) \ {p}
  BY DEF OutPorts
<1>3. ASSUME q \in Lookup(t, v, dst) \ {p} PROVE q \in Others(p)
  <2>1. PICK e \in t : q = e.port
    BY <1>3 DEF Lookup
  <2>2. e \in Entry /\ Owner[e.port] = s
    BY DEF TableOK
  <2>. QED BY <1>3, <2>1, <2>2 DEF Others, Entry
<1>. QED BY <1>1, <1>2, <1>3 DEF Flood

\* ... among them the one that leads to its destination.
LEMMA OutPortsReach ==
  ASSUME NEW s \in Switches, NEW t, TableOK(s, t), NEW p \in Ports, Owner[p] = s,
         NEW v, NEW st \in Stations, NEW dst \in {st, Broadcast},
         NEW q \in Others(p), st \in Behind[q], AllowsVlan(q, v)
  PROVE  q \in OutPorts(t, p, v, dst)
<1> DEFINE known == IF dst = Broadcast THEN {} ELSE Lookup(t, v, dst)
           to == IF known = {} THEN Flood(p) ELSE known \ {p}
<1>1. OutPorts(t, p, v, dst) = {r \in to : AllowsVlan(r, v)}
  BY DEF OutPorts
<1>2. CASE known = {}
  BY <1>1, <1>2 DEF Flood
<1>3. CASE known # {}
  <2>1. dst = st /\ known = Lookup(t, v, st)
    BY <1>3
  <2>2. PICK e \in t : e.mac = st /\ e.port \in known
    BY <1>3, <2>1 DEF Lookup
  <2>3. e \in Entry /\ Owner[e.port] = s /\ st \in Behind[e.port]
    BY <2>2 DEF TableOK
  <2>4. e.port = q
    BY <2>3, OneWay DEF Others, Entry
  <2>5. q # p
    BY DEF Others
  <2>. QED BY <1>1, <1>3, <2>2, <2>4, <2>5
<1>. QED BY <1>2, <1>3

-----------------------------------------------------------------------------
\* A new frame: one copy, at the port of its sender, with all stations but
\* the sender ahead of it.
LEMMA SendStep ==
  ASSUME SwitchInv, NEW st \in Stations, NEW dst \in Stations \cup {Broadcast},
         NEW v \in Vlans \cup {0}, Send(st, dst, v)
  PROVE  SwitchInv'
<1>. PICK n : n = Len(sent)
  OBVIOUS
<1> DEFINE p == Home[st]
           fr == [src |-> st, dst |-> dst, vlan |-> v]
           tag == IF Access[p] = 0 THEN v ELSE 0
           c == [id |-> n + 1, at |-> p, tag |-> tag]
           zero == [x \in Stations |-> 0]
<1>1. /\ sent' = Append(sent, fr) /\ seen' = Append(seen, zero)
      /\ wire' = wire \cup {c} /\ table' = table /\ Access[p] \in {0, v}
  BY DEF Send
<1>2. /\ sent \in Seq(Frame) /\ seen \in Seq([Stations -> Nat]) /\ Len(seen) = n
      /\ n \in Nat /\ table \in [Switches -> SUBSET Entry]
  BY LenProperties DEF SwitchInv, Histories
<1>3. fr \in Frame /\ fr.src = st /\ fr.dst = dst /\ fr.vlan = v
  BY DEF Frame
<1>4. zero \in [Stations -> Nat]
  OBVIOUS
<1>5. p \in Ports /\ Behind[p] = {st} /\ Far[p] = st
  BY HomePort
<1>6. /\ c \in Copy /\ c.id = n + 1 /\ c.at = p /\ c.tag = tag
      /\ IngressVlan(p, tag) = v
  <2>1. IngressVlan(p, tag) = v
    BY <1>1 DEF IngressVlan
  <2>2. tag \in Vlans \cup {0}
    OBVIOUS
  <2> HIDE DEF tag
  <2>. QED BY <1>2, <1>5, <2>1, <2>2 DEF Copy
<1> HIDE DEF p, fr, tag, c, zero
<1>7. /\ sent' \in Seq(Frame) /\ Len(sent') = n + 1
      /\ \A i \in 1 .. n : sent'[i] = sent[i]
      /\ sent'[n + 1] = fr
  BY <1>1, <1>2, <1>3
<1>8. /\ seen' \in Seq([Stations -> Nat]) /\ Len(seen') = n + 1
      /\ \A i \in 1 .. n : seen'[i] = seen[i]
      /\ seen'[n + 1] = zero
  BY <1>1, <1>2, <1>4
<1>9. ASSUME NEW f \in wire
      PROVE  f \in Copy /\ f.id \in 1 .. n /\ sent'[f.id] = sent[f.id] /\ CopyOK(f)'
  <2>1. CopyOK(f)
    BY DEF SwitchInv
  <2>2. f \in Copy /\ f.id \in 1 .. n
    BY <2>1 DEF CopyOK
  <2>. QED BY <1>2, <1>7, <2>1, <2>2 DEF CopyOK
<1>10. CopyOK(c)'
  BY <1>2, <1>3, <1>5, <1>6, <1>7 DEF CopyOK
<1>11. ASSUME NEW i \in 1 .. n, NEW x \in Stations
       PROVE  Isolated(i, x)' /\ OnePath(i, x)'
  <2>1. Isolated(i, x) /\ OnePath(i, x)
    BY DEF SwitchInv
  <2>2. sent'[i] = sent[i] /\ seen'[i] = seen[i]
    BY <1>7, <1>8
  <2>3. i # n + 1
    BY <1>2
  <2>4. {f \in wire' : f.id = i /\ x \in Ahead(f.at)} = {f \in wire : f.id = i /\ x \in Ahead(f.at)}
    BY <1>1, <1>6, <2>3
  <2>. QED BY <2>1, <2>2, <2>4 DEF Isolated, OnePath, Meant
<1>12. ASSUME NEW x \in Stations
       PROVE  Isolated(n + 1, x)' /\ OnePath(n + 1, x)'
  <2> DEFINE coming == {f \in wire' : f.id = n + 1 /\ x \in Ahead(f.at)}
  <2>1. seen'[n + 1][x] = 0
    BY <1>8 DEF zero
  <2>2. \A f \in wire : f.id # n + 1
    BY <1>2, <1>9
  <2>3. \A f \in coming : f = c
    BY <1>1, <2>2
  <2>4. x # st => c \in coming
    <3>1. x # st => x \in Ahead(p)
      BY ConnectedAssumption DEF Ahead, p
    <3>. QED BY <1>1, <1>6, <3>1
  <2>5. sent'[n + 1].src = st
    BY <1>3, <1>7
  <2>6. Isolated(n + 1, x)'
    BY <2>1 DEF Isolated
  <2>7. OnePath(n + 1, x)'
    <3>1. Meant(n + 1, x)' => coming # {}
      BY <2>4, <2>5 DEF Meant
    <3>. QED BY <2>1, <2>3, <3>1 DEF OnePath
  <2>. QED BY <2>6, <2>7
<1>13. Histories'
  BY <1>1, <1>2, <1>7, <1>8 DEF Histories
<1>14. \A s \in Switches : TableOK(s, table'[s])
  BY <1>1 DEF SwitchInv
<1>15. \A f \in wire' : CopyOK(f)'
  BY <1>1, <1>9, <1>10
<1>16. \A i \in 1 .. Len(sent'), x \in Stations : Isolated(i, x)' /\ OnePath(i, x)'
  <2>1. \A i \in 1 .. n + 1 : i \in 1 .. n \/ i = n + 1
    BY <1>2
  <2>. QED BY <1>7, <1>11, <1>12, <2>1
<1>17. (\A s \in Switches : TableOK(s, table[s]))'
  BY <1>14 DEF TableOK
<1>. QED BY <1>13, <1>15, <1>16, <1>17 DEF SwitchInv

\* switch_receive: the copy is replaced by copies on the other ports, which
\* lead to disjoint sets of stations.
LEMMA ReceiveStep ==
  ASSUME SwitchInv, NEW f \in wire, Receive(f)
  PROVE  SwitchInv'
<1> DEFINE s   == Owner[f.at]
           fr  == sent[f.id]
           v   == IngressVlan(f.at, f.tag)
           t   == Learn(table[s], v, fr.src, f.at)
           out == IF v = 0 THEN {} ELSE OutPorts(t, f.at, v, fr.dst)
           hit == [st \in Stations |-> seen[f.id][st] + IF Home[st] \in out THEN 1 ELSE 0]
           New(q) == [id |-> f.id, at |-> Far[q], tag |-> IF Access[q] = 0 THEN v ELSE 0]
<1>1. /\ table' = IF v = 0 THEN table ELSE [table EXCEPT ![s] = t]
      /\ wire' = (wire \ {f}) \cup Outbound(f.id, v, out)
      /\ seen' = [seen EXCEPT ![f.id] = hit]
      /\ sent' = sent
  BY DEF Receive
<1>2. Outbound(f.id, v, out) = {New(q) : q \in {r \in out : Far[r] \in Ports}}
  BY DEF Outbound
<1>3. /\ sent \in Seq(Frame) /\ seen \in Seq([Stations -> Nat]) /\ Len(seen) = Len(sent)
      /\ Len(sent) \in Nat /\ table \in [Switches -> SUBSET Entry]
  BY LenProperties DEF SwitchInv, Histories
<1>4. f.id \in 1 .. Len(sent) /\ f.id \in Nat /\ f.at \in Ports /\ f \in Copy
  BY DEF SwitchInv, CopyOK, Copy
<1>5. fr \in Frame /\ seen[f.id] \in [Stations -> Nat]
  BY <1>3, <1>4, ElementOfSeq
<1>6. /\ fr.src \in Stations /\ fr.vlan \in Vlans \cup {0} /\ v = fr.vlan
      /\ fr.src \in Behind[f.at]
  BY <1>5 DEF Frame, SwitchInv, CopyOK
<1>7. s \in Switches
  BY <1>4, TreeAssumption
<1> HIDE DEF fr, v
<1>8. v # 0 => TableOK(s, t)
  BY <1>4, <1>6, <1>7, LearnOK DEF SwitchInv
<1> HIDE DEF t
<1>9. ASSUME NEW q \in out
      PROVE  q \in Others(f.at) /\ q \in Ports /\ AllowsVlan(q, v) /\ v # 0
  <2>1. v # 0 /\ q \in OutPorts(t, f.at, v, fr.dst)
    OBVIOUS
  <2>2. q \in Others(f.at) /\ AllowsVlan(q, v)
    BY <1>4, <1>7, <1>8, <2>1, OutPortsOK
  <2>. QED BY <2>1, <2>2 DEF Others
<1>10. ASSUME NEW st \in Stations, NEW q \in Others(f.at), st \in Behind[q],
              AllowsVlan(q, v), v # 0, fr.dst \in {st, Broadcast}
       PROVE  q \in out
  BY <1>4, <1>7, <1>8, <1>10, OutPortsReach
<1> HIDE DEF out, s
<1>11. ASSUME NEW q \in out, Far[q] \in Ports
       PROVE  /\ New(q) \in Copy /\ New(q).id = f.id /\ New(q).at = Far[q] /\ New(q).tag = v
              /\ Ahead(Far[q]) = Behind[q] /\ Access[Far[q]] = 0
              /\ fr.src \in Behind[Far[q]]
  <2>1. /\ Access[q] = 0 /\ Access[Far[q]] = 0 /\ Ahead(Far[q]) = Behind[q]
        /\ Behind[Far[q]] = Ahead(q)
    BY <1>9, <1>11, AcrossLink
  <2>2. f.at \in Others(q)
    BY <1>4, <1>9 DEF Others
  <2>3. fr.src \in Ahead(q)
    BY <1>6, <2>2 DEF Ahead
  <2>. QED BY <1>4, <1>6, <1>11, <2>1, <2>3 DEF Copy
<1> HIDE DEF New
<1>12. hit \in [Stations -> Nat]
  <2>1. \A st \in Stations : seen[f.id][st] \in Nat
    BY <1>5
  <2>. QED BY <2>1
<1>13. /\ seen' \in Seq([Stations -> Nat]) /\ Len(seen') = Len(sent)
       /\ seen'[f.id] = hit
       /\ \A i \in 1 .. Len(sent) : i # f.id => seen'[i] = seen[i]
  <2> HIDE DEF hit
  <2>. QED BY <1>1, <1>3, <1>4, <1>12, ExceptSeq
<1>14. \A st \in Stations : hit[st] = IF Home[st] \in out THEN seen[f.id][st] + 1
                                      ELSE seen[f.id][st]
  <2>1. \A st \in Stations : seen[f.id][st] \in Nat
    BY <1>5
  <2>. QED BY <2>1
<1> HIDE DEF hit
<1>15. Histories' /\ (\A x \in Switches : TableOK(x, table[x]))'
  <2>1. CASE v = 0
    <3>1. table' = table
      BY <1>1, <2>1
    <3>. QED BY <1>1, <1>3, <1>13, <3>1, ZenonT(30) DEF Histories, SwitchInv, TableOK
  <2>2. CASE v # 0
    <3>1. table' = [table EXCEPT ![s] = t]
      BY <1>1, <2>2
    <3>2. t \in SUBSET Entry
      BY <1>8, <2>2 DEF TableOK
    <3>3. /\ table' \in [Switches -> SUBSET Entry]
          /\ table'[s] = t /\ \A x \in Switches \ {s} : table'[x] = table[x]
      BY <1>3, <1>7, <3>1, <3>2
    <3>4. ASSUME NEW x \in Switches PROVE TableOK(x, table'[x])
      <4>1. CASE x = s
        BY <1>8, <2>2, <3>3, <4>1
      <4>2. CASE x # s
        BY <3>3, <4>2 DEF SwitchInv
      <4>. QED BY <4>1, <4>2
    <3>5. (\A x \in Switches : TableOK(x, table[x]))'
      BY <3>4 DEF TableOK
    <3>. QED BY <1>1, <1>3, <1>13, <3>3, <3>5 DEF Histories
  <2>. QED BY <2>1, <2>2
<1>16. ASSUME NEW g \in wire'
       PROVE  \/ g \in wire \ {f}
              \/ \E q \in out : Far[q] \in Ports /\ g = New(q)
  BY <1>1, <1>2
<1>17. ASSUME NEW q \in out, Far[q] \in Ports
       PROVE  New(q) \in wire'
  BY <1>1, <1>2, <1>17
<1>18. \A g \in wire' : CopyOK(g)'
  <2>. SUFFICES ASSUME NEW g \in wire' PROVE CopyOK(g)'
    OBVIOUS
  <2>1. CASE g \in wire
    BY <1>1, <2>1 DEF SwitchInv, CopyOK
  <2>2. ASSUME NEW q \in out, Far[q] \in Ports, g = New(q) PROVE CopyOK(g)'
    <3>1. IngressVlan(g.at, g.tag) = v
      BY <1>11, <2>2 DEF IngressVlan
    <3>. QED BY <1>1, <1>4, <1>6, <1>11, <2>2, <3>1 DEF CopyOK, fr
  <2>. QED BY <1>16, <2>1, <2>2
<1>19. ASSUME NEW i \in 1 .. Len(sent), NEW st \in Stations
       PROVE  Isolated(i, st)' /\ OnePath(i, st)'
  <2> DEFINE coming == {g \in wire : g.id = i /\ st \in Ahead(g.at)}
             still == {g \in wire' : g.id = i /\ st \in Ahead(g.at)}
  <2>1. Isolated(i, st) /\ OnePath(i, st)
    BY DEF SwitchInv
  <2>2. CASE i # f.id
    <3>1. still = coming
      <4>1. \A g \in wire' : g.id = i => g \in wire
        BY <1>11, <1>16, <2>2
      <4>2. \A g \in wire : g.id = i => g \in wire'
        BY <1>1, <2>2
      <4>. QED BY <4>1, <4>2
    <3>2. seen'[i] = seen[i]
      BY <1>13, <2>2
    <3>. QED BY <1>1, <2>1, <3>1, <3>2 DEF Isolated, OnePath, Meant
  <2>3. CASE i = f.id
    <3>1. /\ seen'[i][st] = IF Home[st] \in out THEN seen[i][st] + 1 ELSE seen[i][st]
          /\ seen[i][st] \in Nat
      BY <1>5, <1>13, <1>14, <2>3
    <3>2. /\ Home[st] \in Ports /\ Behind[Home[st]] = {st} /\ Far[Home[st]] = st
          /\ st \notin Ports
      BY HomePort, TreeAssumption
    <3>3. \A q \in out : st \in Behind[q] => st \in Ahead(f.at) /\ f \in coming
      BY <1>9, <2>3 DEF Ahead
    <3>4. \A q, r \in out : st \in Behind[q] /\ st \in Behind[r] => q = r
      <4>1. \A q \in out : q \in Ports /\ Owner[q] = Owner[f.at]
        BY <1>9 DEF Others
      <4>. QED BY <4>1, OneWay
    <3>5. \A g \in still : \/ g \in coming \ {f}
                           \/ \E q \in out : Far[q] \in Ports /\ g = New(q) /\ st \in Behind[q]
      BY <1>11, <1>16
    <3>6. Isolated(i, st)'
      <4>1. CASE Home[st] \in out
        <5>1. v # 0 /\ Access[Home[st]] \in {0, v}
          BY <1>9, <4>1 DEF AllowsVlan
        <5>2. fr.src # st
          <6>1. Home[st] \in Others(f.at) /\ Home[st] \in Ports
            BY <1>9, <4>1
          <6>2. Owner[Home[st]] = Owner[f.at] /\ Home[st] # f.at
            BY <6>1 DEF Others
          <6>. QED BY <1>4, <1>6, <3>2, <6>1, <6>2, OneWay
        <5>. QED BY <1>1, <1>6, <2>3, <5>1, <5>2 DEF Isolated, fr
      <4>2. CASE Home[st] \notin out
        BY <1>1, <2>1, <3>1, <4>2 DEF Isolated
      <4>. QED BY <4>1, <4>2
    <3>7. OnePath(i, st)'
      <4>1. CASE Home[st] \in out
        <5>1. f \in coming
          BY <3>2, <3>3, <4>1
        <5>2. seen[i][st] = 0 /\ \A g \in coming : g = f
          BY <2>1, <5>1 DEF OnePath
        <5>3. still = {}
          <6>1. \A q \in out : st \in Behind[q] => Far[q] \notin Ports
            BY <3>2, <3>4, <4>1
          <6>. QED BY <3>5, <5>2, <6>1
        <5>4. seen'[i][st] = 1
          BY <3>1, <4>1, <5>2
        <5>. QED BY <5>3, <5>4 DEF OnePath
      <4>2. CASE Home[st] \notin out /\ f \notin coming
        <5>1. still = coming
          <6>1. \A g \in still : g \in coming
            BY <3>3, <3>5, <4>2
          <6>2. \A g \in coming : g \in still
            BY <1>1, <4>2
          <6>. QED BY <6>1, <6>2
        <5>2. seen'[i][st] = seen[i][st]
          BY <3>1, <4>2
        <5>. QED BY <1>1, <2>1, <5>1, <5>2 DEF OnePath, Meant
      <4>3. CASE Home[st] \notin out /\ f \in coming
        <5>1. seen[i][st] = 0 /\ \A g \in coming : g = f
          BY <2>1, <4>3 DEF OnePath
        <5>2. seen'[i][st] = 0
          BY <3>1, <4>3, <5>1
        <5>3. \A g, h \in still : g = h
          <6>1. \A g \in still : \E q \in out : g = New(q) /\ st \in Behind[q]
            BY <3>5, <5>1
          <6>. QED BY <3>4, <6>1
        <5>4. ASSUME Meant(i, st) PROVE still # {}
          <6>1. PICK q \in Others(f.at) : st \in Behind[q]
            BY <4>3 DEF Ahead
          <6>2. q \in Ports
            BY DEF Others
          <6>3. v # 0 /\ fr.dst \in {st, Broadcast} /\ Access[Home[st]] \in {0, v}
            BY <1>6, <2>3, <5>4 DEF Meant, fr
          <6>4. Far[q] \in Ports \/ q = Home[st]
            BY <6>1, <6>2, LinkedPort
          <6>5. AllowsVlan(q, v)
            BY <6>2, <6>3, <6>4, AcrossLink DEF AllowsVlan
          <6>6. q \in out
            BY <1>10, <6>1, <6>3, <6>5
          <6>7. Far[q] \in Ports
            BY <4>3, <6>4, <6>6
          <6>8. New(q) \in still
            BY <1>11, <1>17, <2>3, <6>1, <6>6, <6>7
          <6>. QED BY <6>8
        <5>5. Meant(i, st)' <=> Meant(i, st)
          BY <1>1 DEF Meant
        <5>. QED BY <5>2, <5>3, <5>4, <5>5 DEF OnePath
      <4>. QED BY <4>1, <4>2, <4>3
    <3>. QED BY <3>6, <3>7
  <2>. QED BY <2>2, <2>3
<1>. QED BY <1>1, <1>15, <1>18, <1>19 DEF SwitchInv

-----------------------------------------------------------------------------
LEMMA SwitchInit == Init => SwitchInv
<1>. SUFFICES ASSUME Init PROVE SwitchInv
  OBVIOUS
<1>1. Histories
  BY DEF Init, Histories
<1>2. \A s \in Switches : TableOK(s, table[s])
  BY FS_EmptySet, TreeAssumption DEF Init, TableOK
<1>3. Len(sent) = 0 /\ wire = {}
  BY DEF Init
<1>. QED BY <1>1, <1>2, <1>3 DEF SwitchInv

LEMMA SwitchStep == SwitchInv /\ [Next]_vars => SwitchInv'
<1>. SUFFICES ASSUME SwitchInv, [Next]_vars PROVE SwitchInv'
  OBVIOUS
<1>1. CASE UNCHANGED vars
  BY <1>1 DEF vars, SwitchInv, Histories, TableOK, CopyOK, Isolated, OnePath, Meant
<1>. QED BY <1>1, SendStep, ReceiveStep DEF Next

LEMMA SwitchInvariant == Spec => []SwitchInv
BY SwitchInit, SwitchStep, PTL DEF Spec

\* A host gets only frames of the VLAN of its access port, on every tree of
\* switches: what switch_determine_ingress_vlan reads from a copy is the VLAN
\* in which the frame was sent.
THEOREM VlansIsolated == Spec => []VlanIsolation
<1>1. SwitchInv => VlanIsolation
  BY DEF SwitchInv, Isolated, VlanIsolation
<1>. QED BY <1>1, SwitchInvariant, PTL

\* switch_mac_table_set records each station at the one port that leads to it,
\* within SWITCH_MAC_TABLE_MAX_ENTRIES entries.
THEOREM TablesPointHome == Spec => []LearnedTowards
<1>1. SwitchInv => LearnedTowards
  <2>. SUFFICES ASSUME SwitchInv PROVE LearnedTowards
    OBVIOUS
  <2>1. TypeOK
    BY DEF SwitchInv, Histories, TableOK, CopyOK, TypeOK
  <2>. QED BY <2>1 DEF SwitchInv, TableOK, LearnedTowards
<1>. QED BY <1>1, SwitchInvariant, PTL

\* Every frame reaches each station for which it is meant exactly once, and no
\* station twice, whether it is forwarded or flooded.
THEOREM FramesDelivered == Spec => []Delivered
<1>1. SwitchInv => Delivered
  <2>. SUFFICES ASSUME SwitchInv, NEW i \in 1 .. Len(sent), NEW st \in Stations
                PROVE  /\ seen[i][st] <= 1
                       /\ (\A f \in wire : f.id # i) /\ Meant(i, st) => seen[i][st] = 1
    BY DEF Delivered, Meant
  <2>. QED BY DEF SwitchInv, OnePath
<1>. QED BY <1>1, SwitchInvariant, PTL
=============================================================================
