---------------------------- MODULE SimulatorProofs ----------------------------
(***************************************************************************)
(* The array of links and the pointers into it, for any number of nodes,    *)
(* ports and links.  Pointers go stale, but an interface finds itself in    *)
(* the element it points to only when that element is its present link.     *)
(***************************************************************************)
EXTENDS Simulator, FiniteSetTheorems, WellFoundedInduction, TLAPS

Topologies == [link : [Interfaces -> 0 .. MaxLinks], slot : [1 .. MaxLinks -> Links],
               count : 0 .. MaxLinks, shifted : BOOLEAN]

\* Interface i has a link in topology t.
Linked(t, i) == \E k \in 1 .. t.count : i \in Ends(t.slot[k])

\* An interface has one link at most, and links are between nodes of L.
Disjoint(t, L) ==
  \A k \in 1 .. t.count : \A i \in Ends(t.slot[k]) :
    /\ t.slot[k] # Null
    /\ i \in Interfaces /\ NodeOf(i) \in L
    /\ \A m \in 1 .. t.count : i \in Ends(t.slot[m]) => k = m

\* The pointer of an interface tells whether it has a link; and where the
\* element that it points to has the interface, this is one of the present
\* links, be it in its place or the copy that a shift has left behind.
PointersRight(t, L) ==
  \A i \in Interfaces : NodeOf(i) \in L =>
    /\ t.link[i] # None <=> Linked(t, i)
    /\ t.link[i] # None /\ i \in Ends(t.slot[t.link[i]]) =>
         \E k \in 1 .. t.count : Ends(t.slot[k]) = Ends(t.slot[t.link[i]])

\* Before the first shift pointers are exact.
Exact(t) == ~t.shifted => \A k \in 1 .. t.count : /\ t.slot[k] # Null
                                                  /\ \A i \in Ends(t.slot[k]) : t.link[i] = k

TopologyOK(t, L) == /\ t \in Topologies
                    /\ Disjoint(t, L) /\ PointersRight(t, L) /\ Exact(t)

SimulatorInv == live \subseteq Blocks /\ TopologyOK(topo, live)

-----------------------------------------------------------------------------
LEMMA SimulatorNumbers == Ports \in Nat \ {0} /\ MaxLinks \in Nat \ {0}
BY TopologyAssumption

LEMMA LeastIndex ==
  ASSUME NEW S \in SUBSET Nat, S # {}
  PROVE  \E m \in S : \A n \in S : m <= n
<1>1. PICK R : R = OpToRel(<, Nat)
  OBVIOUS
<1>2. IsWellFoundedOn(R, Nat)
  BY <1>1, NatLessThanWellFounded
<1>3. PICK m \in S : \A n \in S : ~(<<n, m>> \in R)
  BY <1>2, WFMin
<1>4. \A n \in S : ~(n < m)
  BY <1>1, <1>3 DEF OpToRel
<1>. QED BY <1>4

\* The ends of a link.
LEMMA EndsOf ==
  /\ Ends(Null) = {}
  /\ \A l \in Interfaces \X Interfaces :
       l # Null /\ Ends(l) = {l[1], l[2]} /\ l[1] \in Interfaces /\ l[2] \in Interfaces
  /\ \A a, b : <<a, b>> # Null /\ Ends(<<a, b>>) = {a, b}
<1>1. Ends(Null) = {}
  BY DEF Ends, ToSet, Null
<1>2. ASSUME NEW a, NEW b PROVE <<a, b>> # Null /\ Ends(<<a, b>>) = {a, b}
  <2>1. DOMAIN <<a, b>> = {1, 2} /\ DOMAIN <<>> = {}
    OBVIOUS
  <2>2. <<a, b>>[1] = a /\ <<a, b>>[2] = b
    OBVIOUS
  <2>. QED BY <2>1, <2>2 DEF Ends, ToSet, Null
<1>3. ASSUME NEW l \in Interfaces \X Interfaces
      PROVE  l # Null /\ Ends(l) = {l[1], l[2]} /\ l[1] \in Interfaces /\ l[2] \in Interfaces
  <2>1. l = <<l[1], l[2]>> /\ l[1] \in Interfaces /\ l[2] \in Interfaces
    OBVIOUS
  <2>. QED BY <1>2, <2>1
<1>. QED BY <1>1, <1>2, <1>3

\* The first of a set of elements of the array.
LEMMA FirstOfType ==
  ASSUME NEW K \in SUBSET Nat, K # {}
  PROVE  FirstOf(K) \in K
BY LeastIndex DEF FirstOf

\* The parts of a topology.
LEMMA TopologyTypes ==
  ASSUME NEW t \in Topologies
  PROVE  /\ t.count \in Nat /\ t.count <= MaxLinks /\ t.shifted \in BOOLEAN
         /\ DOMAIN t.link = Interfaces /\ \A i \in Interfaces : t.link[i] \in 0 .. MaxLinks
         /\ DOMAIN t.slot = 1 .. MaxLinks /\ \A k \in 1 .. MaxLinks : t.slot[k] \in Links
         /\ \A k \in 1 .. MaxLinks : Ends(t.slot[k]) \subseteq Interfaces
<1>1. \A l \in Links : Ends(l) \subseteq Interfaces
  BY EndsOf DEF Links
<1>. QED BY <1>1, SimulatorNumbers DEF Topologies

\* What link_unlink and the shift make of a topology.
LEMMA RemoveLinkParts ==
  ASSUME NEW t \in Topologies, NEW k \in 1 .. t.count
  PROVE  LET u == RemoveLink(t, k)
         IN /\ u \in Topologies
            /\ u.count = t.count - 1
            /\ u.shifted = (t.shifted \/ k < t.count)
            /\ \A i \in Interfaces : u.link[i] = IF i \in Ends(t.slot[k]) THEN None ELSE t.link[i]
            /\ \A j \in 1 .. MaxLinks :
                 u.slot[j] = IF j \in k .. t.count - 1 THEN t.slot[j + 1]
                             ELSE IF j = k THEN Null ELSE t.slot[j]
<1> DEFINE u == RemoveLink(t, k)
<1>1. PICK c, E : c = t.count /\ E = Ends(t.slot[k])
  OBVIOUS
<1>2. /\ c \in Nat /\ c <= MaxLinks /\ k \in 1 .. c /\ k \in 1 .. MaxLinks
      /\ t = [link |-> t.link, slot |-> t.slot, count |-> t.count, shifted |-> t.shifted]
      /\ t.shifted \in BOOLEAN /\ DOMAIN t.slot = 1 .. MaxLinks
      /\ \A i \in Interfaces : t.link[i] \in 0 .. MaxLinks
      /\ \A j \in 1 .. MaxLinks : t.slot[j] \in Links
  BY <1>1, TopologyTypes, SimulatorNumbers DEF Topologies
<1>3. PICK nulled : nulled = [t.slot EXCEPT ![k] = Null]
  OBVIOUS
<1>4. PICK link, slot :
        /\ link = [i \in Interfaces |-> IF i \in E THEN None ELSE t.link[i]]
        /\ slot = [j \in 1 .. MaxLinks |-> IF j \in k .. c - 1 THEN nulled[j + 1] ELSE nulled[j]]
  OBVIOUS
<1>5. u = [link |-> link, slot |-> slot, count |-> c - 1, shifted |-> t.shifted \/ k < c]
  <2>1. PICK v : v = [link |-> link, slot |-> nulled, count |-> c, shifted |-> t.shifted]
    OBVIOUS
  <2>2. LinkUnlink(t, k) = v
    <3>1. LinkUnlink(t, k) = [t EXCEPT !.link = link, !.slot = nulled]
      BY <1>1, <1>3, <1>4 DEF LinkUnlink
    <3>. QED BY <1>1, <1>2, <2>1, <3>1
  <2>3. u = [v EXCEPT !.slot = slot, !.count = c - 1, !.shifted = (t.shifted \/ k < c)]
    BY <1>1, <1>4, <2>1, <2>2 DEF RemoveLink
  <2>. QED BY <2>1, <2>3
<1>6. \A j \in 1 .. MaxLinks :
        slot[j] = IF j \in k .. c - 1 THEN t.slot[j + 1] ELSE IF j = k THEN Null ELSE t.slot[j]
  <2> TAKE j \in 1 .. MaxLinks
  <2>1. CASE j \in k .. c - 1
    <3>1. j + 1 \in 1 .. MaxLinks /\ j + 1 # k
      BY <1>2, <2>1, SimulatorNumbers
    <3>. QED BY <1>2, <1>3, <1>4, <2>1, <3>1
  <2>2. CASE j \notin k .. c - 1
    BY <1>2, <1>3, <1>4, <2>2
  <2>. QED BY <2>1, <2>2
<1>7. \A j \in 1 .. MaxLinks : slot[j] \in Links
  <2>1. \A j \in k .. c - 1 : j + 1 \in 1 .. MaxLinks
    BY <1>2, SimulatorNumbers
  <2>. QED BY <1>2, <1>6, <2>1 DEF Links
<1>8. link \in [Interfaces -> 0 .. MaxLinks]
  BY <1>2, <1>4, SimulatorNumbers DEF None
<1>9. slot \in [1 .. MaxLinks -> Links] /\ c - 1 \in 0 .. MaxLinks
  BY <1>2, <1>4, <1>7, SimulatorNumbers
<1>10. u \in Topologies
  BY <1>2, <1>5, <1>8, <1>9 DEF Topologies
<1>. QED BY <1>1, <1>4, <1>5, <1>6, <1>10

-----------------------------------------------------------------------------
\* Removing a link of the array keeps the pointers right, and only the ends of
\* that link lose their link.
LEMMA RemoveLinkOK ==
  ASSUME NEW t, NEW L, TopologyOK(t, L), NEW k \in 1 .. t.count
  PROVE  /\ TopologyOK(RemoveLink(t, k), L)
         /\ \A i : Linked(RemoveLink(t, k), i) <=> Linked(t, i) /\ i \notin Ends(t.slot[k])
<1>1. PICK u, c, E : u = RemoveLink(t, k) /\ c = t.count /\ E = Ends(t.slot[k])
  OBVIOUS
<1>2. /\ t \in Topologies /\ c \in Nat /\ c <= MaxLinks /\ k \in 1 .. c
      /\ \A i \in Interfaces : t.link[i] \in 0 .. MaxLinks
  BY <1>1, TopologyTypes DEF TopologyOK
<1>3. /\ u \in Topologies /\ u.count = c - 1 /\ u.shifted = (t.shifted \/ k < c)
      /\ \A i \in Interfaces : u.link[i] = IF i \in E THEN None ELSE t.link[i]
      /\ \A j \in 1 .. MaxLinks :
           u.slot[j] = IF j \in k .. c - 1 THEN t.slot[j + 1]
                       ELSE IF j = k THEN Null ELSE t.slot[j]
  BY <1>1, <1>2, RemoveLinkParts
<1> DEFINE old(j) == IF j < k THEN j ELSE j + 1
<1>4. \A j \in 1 .. c - 1 : old(j) \in 1 .. c /\ old(j) # k /\ u.slot[j] = t.slot[old(j)]
  BY <1>2, <1>3, SimulatorNumbers
<1>5. \A m \in 1 .. c : m # k => \E j \in 1 .. c - 1 : u.slot[j] = t.slot[m]
  <2> SUFFICES ASSUME NEW m \in 1 .. c, m # k PROVE \E j \in 1 .. c - 1 : u.slot[j] = t.slot[m]
    OBVIOUS
  <2>1. CASE m < k
    <3>1. m \in 1 .. c - 1 /\ old(m) = m
      BY <1>2, <2>1
    <3>. QED BY <1>4, <3>1
  <2>2. CASE m > k
    <3>1. m - 1 \in 1 .. c - 1 /\ old(m - 1) = m
      BY <1>2, <2>2
    <3>. QED BY <1>4, <3>1
  <2>. QED BY <1>2, <2>1, <2>2
<1>6. \A j, n \in 1 .. c - 1 : old(j) = old(n) => j = n
  BY <1>2
<1> HIDE DEF old
<1>7. \A m \in 1 .. c : \A i \in Ends(t.slot[m]) :
        /\ t.slot[m] # Null /\ i \in Interfaces /\ NodeOf(i) \in L
        /\ \A n \in 1 .. c : i \in Ends(t.slot[n]) => m = n
  BY <1>1 DEF TopologyOK, Disjoint
<1>8. Disjoint(u, L)
  BY <1>3, <1>4, <1>6, <1>7 DEF Disjoint
<1>9. \A i : Linked(u, i) <=> Linked(t, i) /\ i \notin E
  <2>1. ASSUME NEW i, Linked(u, i) PROVE Linked(t, i) /\ i \notin E
    <3>1. PICK j \in 1 .. c - 1 : i \in Ends(u.slot[j])
      BY <1>3, <2>1 DEF Linked
    <3>2. old(j) \in 1 .. c /\ old(j) # k /\ i \in Ends(t.slot[old(j)])
      BY <1>4, <3>1
    <3>. QED BY <1>1, <1>2, <1>7, <3>2 DEF Linked
  <2>2. ASSUME NEW i, Linked(t, i), i \notin E PROVE Linked(u, i)
    <3>1. PICK m \in 1 .. c : i \in Ends(t.slot[m])
      BY <1>1, <2>2 DEF Linked
    <3>2. m # k
      BY <1>1, <2>2, <3>1
    <3>. QED BY <1>3, <1>5, <3>1, <3>2 DEF Linked
  <2>. QED BY <2>1, <2>2
<1>10. PointersRight(u, L)
  <2> SUFFICES ASSUME NEW i \in Interfaces, NodeOf(i) \in L
               PROVE  /\ u.link[i] # None <=> Linked(u, i)
                      /\ u.link[i] # None /\ i \in Ends(u.slot[u.link[i]]) =>
                           \E j \in 1 .. c - 1 : Ends(u.slot[j]) = Ends(u.slot[u.link[i]])
    BY <1>3 DEF PointersRight
  <2>1. /\ t.link[i] # None <=> Linked(t, i)
        /\ t.link[i] # None /\ i \in Ends(t.slot[t.link[i]]) =>
             \E j \in 1 .. c : Ends(t.slot[j]) = Ends(t.slot[t.link[i]])
    BY <1>1 DEF TopologyOK, PointersRight
  <2>2. u.link[i] # None <=> Linked(u, i)
    BY <1>3, <1>9, <2>1
  <2>3. ASSUME u.link[i] # None, i \in Ends(u.slot[u.link[i]])
        PROVE  \E j \in 1 .. c - 1 : Ends(u.slot[j]) = Ends(u.slot[u.link[i]])
    <3>1. PICK m : m = u.link[i]
      OBVIOUS
    <3>2. i \notin E /\ m = t.link[i] /\ m \in 1 .. MaxLinks
      BY <1>2, <1>3, <2>3, <3>1, SimulatorNumbers DEF None
    <3>3. \/ \E n \in 1 .. c : n # k /\ u.slot[m] = t.slot[n]
          \/ u.slot[m] = Null
          \/ u.slot[m] = t.slot[m]
      <4>1. CASE m \in k .. c - 1
        <5>1. m + 1 \in 1 .. c /\ m + 1 # k
          BY <1>2, <4>1
        <5>. QED BY <1>3, <3>2, <4>1, <5>1
      <4>2. CASE m \notin k .. c - 1
        BY <1>3, <3>2, <4>2
      <4>. QED BY <4>1, <4>2
    <3>4. \E n \in 1 .. c : n # k /\ Ends(t.slot[n]) = Ends(u.slot[m])
      <4>1. u.slot[m] # Null
        BY <2>3, <3>1, EndsOf
      <4>2. CASE u.slot[m] = t.slot[m]
        <5>1. PICK n \in 1 .. c : Ends(t.slot[n]) = Ends(t.slot[m])
          BY <2>1, <2>3, <3>1, <3>2, <4>2
        <5>2. n # k
          BY <1>1, <2>3, <3>1, <3>2, <4>2, <5>1
        <5>. QED BY <4>2, <5>1, <5>2
      <4>. QED BY <3>3, <4>1, <4>2
    <3>. QED BY <1>5, <3>1, <3>4
  <2>. QED BY <2>2, <2>3
<1>11. Exact(u)
  <2> SUFFICES ASSUME ~u.shifted, NEW j \in 1 .. c - 1
               PROVE  u.slot[j] # Null /\ \A i \in Ends(u.slot[j]) : u.link[i] = j
    BY <1>3 DEF Exact
  <2>1. ~t.shifted /\ k = c
    <3>1. ~t.shifted /\ ~(k < c)
      BY <1>3, Zenon
    <3>2. k = c
      BY <1>2, <3>1
    <3>. QED BY <3>1, <3>2
  <2>2. j < k /\ j \in 1 .. c
    BY <1>2, <2>1
  <2>3. u.slot[j] = t.slot[j]
    BY <1>4, <2>2 DEF old
  <2>4. t.slot[j] # Null /\ \A i \in Ends(t.slot[j]) : t.link[i] = j
    BY <1>1, <2>1, <2>2 DEF TopologyOK, Exact
  <2>5. \A i \in Ends(t.slot[j]) : i \in Interfaces /\ i \notin E
    BY <1>1, <1>2, <1>7, <2>2
  <2>. QED BY <1>3, <2>3, <2>4, <2>5
<1>. QED BY <1>1, <1>3, <1>8, <1>9, <1>10, <1>11 DEF TopologyOK

\* One round of simulator_remove_node.
LEMMA DropLinkOK ==
  ASSUME NEW t, NEW L, TopologyOK(t, L), NEW i \in Interfaces, NodeOf(i) \in L
  PROVE  /\ TopologyOK(DropLinkOf(t, i), L)
         /\ ~Linked(DropLinkOf(t, i), i)
         /\ \A x : Linked(DropLinkOf(t, i), x) => Linked(t, x)
<1>1. t.link[i] # None <=> Linked(t, i)
  BY DEF TopologyOK, PointersRight
<1>2. Holds(t, i) # {} <=> Linked(t, i)
  BY DEF Holds, Linked
<1>3. CASE Linked(t, i)
  <2>1. t.count \in Nat
    BY TopologyTypes DEF TopologyOK
  <2>2. Holds(t, i) \in SUBSET Nat
    BY <2>1 DEF Holds
  <2>3. PICK k : k = FirstOf(Holds(t, i))
    OBVIOUS
  <2>4. k \in 1 .. t.count /\ i \in Ends(t.slot[k])
    <3>1. k \in Holds(t, i)
      BY <1>2, <1>3, <2>2, <2>3, FirstOfType
    <3>. QED BY <3>1 DEF Holds
  <2>5. DropLinkOf(t, i) = RemoveLink(t, k)
    BY <1>1, <1>2, <1>3, <2>3 DEF DropLinkOf
  <2>. QED BY <2>4, <2>5, RemoveLinkOK
<1>4. CASE ~Linked(t, i)
  <2>1. DropLinkOf(t, i) = t
    BY <1>2, <1>4 DEF DropLinkOf
  <2>. QED BY <1>4, <2>1
<1>. QED BY <1>3, <1>4

-----------------------------------------------------------------------------
(***************************************************************************)
(* The loop of simulator_remove_node, which the module writes as a          *)
(* recursive function of the port.                                          *)
(***************************************************************************)
IsLoop(t, b, m, f) ==
  f = [p \in 0 .. m |-> IF p = 0 THEN t ELSE DropLinkOf(f[p - 1], <<b, p>>)]

LEMMA LoopExists ==
  ASSUME NEW t, NEW b, NEW len \in Nat
  PROVE  \E f : IsLoop(t, b, len, f)
<1> DEFINE S == {m \in Nat : \A f : ~IsLoop(t, b, m, f)}
<1>1. SUFFICES ASSUME S # {} PROVE FALSE
  OBVIOUS
<1>2. PICK m \in S : \A n \in S : m <= n
  <2>1. S \in SUBSET Nat
    OBVIOUS
  <2> HIDE DEF S
  <2>. QED BY <1>1, <2>1, LeastIndex
<1>3. m \in Nat /\ \A f : ~IsLoop(t, b, m, f)
  OBVIOUS
<1>4. CASE m = 0
  <2>1. PICK f : f = [p \in 0 .. 0 |-> t]
    OBVIOUS
  <2>2. \A p \in 0 .. 0 : p = 0
    OBVIOUS
  <2>3. IsLoop(t, b, 0, f)
    BY <2>1, <2>2 DEF IsLoop
  <2>. QED BY <1>3, <1>4, <2>3
<1>5. CASE m # 0
  <2>1. m - 1 \in Nat /\ m - 1 \notin S
    BY <1>2, <1>3, <1>5
  <2>2. PICK f : IsLoop(t, b, m - 1, f)
    BY <2>1
  <2>3. PICK g : g = [p \in 0 .. m |-> IF p = m THEN DropLinkOf(f[m - 1], <<b, m>>) ELSE f[p]]
    OBVIOUS
  <2>4. \A p \in 0 .. m - 1 : g[p] = f[p]
    BY <1>3, <2>3
  <2>5. ASSUME NEW p \in 0 .. m
        PROVE  g[p] = IF p = 0 THEN t ELSE DropLinkOf(g[p - 1], <<b, p>>)
    <3>1. CASE p = m
      <4>1. p # 0 /\ g[p] = DropLinkOf(f[p - 1], <<b, p>>) /\ p - 1 \in 0 .. m - 1
        BY <1>3, <1>5, <2>3, <3>1
      <4>. QED BY <2>4, <4>1
    <3>2. CASE p # m
      <4>1. p \in 0 .. m - 1 /\ (p # 0 => p - 1 \in 0 .. m - 1)
        BY <1>3, <3>2
      <4>2. f[p] = IF p = 0 THEN t ELSE DropLinkOf(f[p - 1], <<b, p>>)
        BY <2>2, <4>1 DEF IsLoop
      <4>. QED BY <2>4, <4>1, <4>2
    <3>. QED BY <3>1, <3>2
  <2>6. g = [p \in 0 .. m |-> g[p]]
    BY <2>3
  <2>7. IsLoop(t, b, m, g)
    BY <2>5, <2>6 DEF IsLoop
  <2>. QED BY <1>3, <2>7
<1>. QED BY <1>4, <1>5

\* After n rounds the first n interfaces of the node have no link.
LEMMA LoopOK ==
  ASSUME NEW t, NEW L, TopologyOK(t, L), NEW b \in Blocks, b \in L,
         NEW f, IsLoop(t, b, Ports, f)
  PROVE  /\ TopologyOK(f[Ports], L)
         /\ \A p \in 1 .. Ports : ~Linked(f[Ports], <<b, p>>)
<1> DEFINE Fine(n) == /\ TopologyOK(f[n], L)
                      /\ \A p \in 1 .. n : ~Linked(f[n], <<b, p>>)
           S == {n \in 0 .. Ports : ~Fine(n)}
<1>1. Ports \in Nat /\ f[0] = t
      /\ \A n \in 1 .. Ports : f[n] = DropLinkOf(f[n - 1], <<b, n>>)
  BY SimulatorNumbers DEF IsLoop
<1>2. S = {}
  <2>1. SUFFICES ASSUME S # {} PROVE FALSE
    OBVIOUS
  <2>2. PICK n \in S : \A k \in S : n <= k
    <3>1. S \in SUBSET Nat
      BY <1>1
    <3> HIDE DEF S
    <3>. QED BY <2>1, <3>1, LeastIndex
  <2>3. n \in 0 .. Ports /\ ~Fine(n)
    OBVIOUS
  <2>4. Fine(0)
    BY <1>1
  <2>5. n # 0
    BY <2>3, <2>4
  <2>6. n - 1 \in 0 .. Ports /\ n \in 1 .. Ports /\ n - 1 \notin S
    BY <1>1, <2>2, <2>3, <2>5
  <2>7. Fine(n - 1)
    BY <2>6
  <2> HIDE DEF S
  <2>8. <<b, n>> \in Interfaces /\ NodeOf(<<b, n>>) \in L
    BY <2>6 DEF Interfaces, NodeOf
  <2>9. f[n] = DropLinkOf(f[n - 1], <<b, n>>)
    BY <1>1, <2>6
  <2>10. /\ TopologyOK(f[n], L) /\ ~Linked(f[n], <<b, n>>)
         /\ \A x : Linked(f[n], x) => Linked(f[n - 1], x)
    BY <2>7, <2>8, <2>9, DropLinkOK
  <2>11. \A p \in 1 .. n : p = n \/ p \in 1 .. n - 1
    BY <2>6
  <2>12. Fine(n)
    BY <2>7, <2>10, <2>11
  <2>. QED BY <2>3, <2>12
<1>. QED BY <1>1, <1>2

\* A node without links can be freed.
LEMMA FreeOK ==
  ASSUME NEW t, NEW L, TopologyOK(t, L), NEW b,
         \A p \in 1 .. Ports : ~Linked(t, <<b, p>>)
  PROVE  TopologyOK(t, L \ {b})
<1>1. ASSUME NEW k \in 1 .. t.count, NEW i \in Ends(t.slot[k]) PROVE NodeOf(i) # b
  <2>1. i \in Interfaces /\ Linked(t, i)
    BY <1>1 DEF TopologyOK, Disjoint, Linked
  <2>2. PICK d \in Blocks, p \in 1 .. Ports : i = <<d, p>>
    BY <2>1 DEF Interfaces
  <2>. QED BY <2>1, <2>2 DEF NodeOf
<1>2. Disjoint(t, L \ {b})
  BY <1>1 DEF TopologyOK, Disjoint
<1>. QED BY <1>2 DEF TopologyOK, PointersRight

-----------------------------------------------------------------------------
LEMMA SimulatorInit == Init => SimulatorInv
<1> SUFFICES ASSUME Init PROVE SimulatorInv
  OBVIOUS
<1>1. /\ topo.count = 0 /\ topo.link = [i \in Interfaces |-> None] /\ topo.shifted = FALSE
      /\ topo.slot = [k \in 1 .. MaxLinks |-> Null] /\ live = {}
      /\ topo = [link |-> topo.link, slot |-> topo.slot, count |-> topo.count,
                 shifted |-> topo.shifted]
  BY DEF Init
<1>2. /\ topo.link \in [Interfaces -> 0 .. MaxLinks] /\ topo.slot \in [1 .. MaxLinks -> Links]
      /\ topo.count \in 0 .. MaxLinks /\ topo.shifted \in BOOLEAN
  <2>1. None \in 0 .. MaxLinks /\ 0 \in 0 .. MaxLinks
    BY SimulatorNumbers DEF None
  <2>2. Null \in Links
    BY DEF Links
  <2>3. topo.shifted \in BOOLEAN
    BY <1>1
  <2>4. topo.count \in 0 .. MaxLinks
    BY <1>1, <2>1
  <2>5. [i \in Interfaces |-> None] \in [Interfaces -> 0 .. MaxLinks]
    BY <2>1
  <2>6. [k \in 1 .. MaxLinks |-> Null] \in [1 .. MaxLinks -> Links]
    BY <2>2
  <2>. QED BY <1>1, <2>3, <2>4, <2>5, <2>6
<1>3. topo \in Topologies
  BY <1>1, <1>2 DEF Topologies
<1>4. 1 .. topo.count = {}
  BY <1>1
<1>. QED BY <1>1, <1>3, <1>4
     DEF SimulatorInv, TopologyOK, Disjoint, PointersRight, Exact

\* simulator_create_node
LEMMA CreateNodeStep ==
  ASSUME SimulatorInv, NEW b \in Blocks, CreateNode(b)
  PROVE  SimulatorInv'
<1>1. PICK t, u, L : t = topo /\ u = topo' /\ L = live
  OBVIOUS
<1>2. t \in Topologies /\ Disjoint(t, L) /\ PointersRight(t, L) /\ Exact(t)
      /\ L \subseteq Blocks /\ b \notin L /\ live' = L \cup {b}
  BY <1>1 DEF SimulatorInv, TopologyOK, CreateNode
<1>3. PICK link : link = [i \in Interfaces |-> IF NodeOf(i) = b THEN None ELSE t.link[i]]
  OBVIOUS
<1>4. u = [t EXCEPT !.link = link]
  BY <1>1, <1>3 DEF CreateNode
<1>5. link \in [Interfaces -> 0 .. MaxLinks]
  BY <1>2, <1>3, TopologyTypes, SimulatorNumbers DEF None
<1>6. /\ u \in Topologies /\ u.link = link /\ u.slot = t.slot /\ u.count = t.count
      /\ u.shifted = t.shifted
  BY <1>2, <1>4, <1>5 DEF Topologies
<1>7. \A k \in 1 .. u.count : \A i \in Ends(u.slot[k]) :
        /\ i \in Interfaces /\ NodeOf(i) \in L /\ NodeOf(i) # b /\ link[i] = t.link[i]
  BY <1>2, <1>3, <1>6 DEF Disjoint
<1>8. Disjoint(u, L \cup {b})
  BY <1>2, <1>6 DEF Disjoint
<1>9. PointersRight(u, L \cup {b})
  <2> SUFFICES ASSUME NEW i \in Interfaces, NodeOf(i) \in L \cup {b}
               PROVE  /\ u.link[i] # None <=> Linked(u, i)
                      /\ u.link[i] # None /\ i \in Ends(u.slot[u.link[i]]) =>
                           \E k \in 1 .. u.count : Ends(u.slot[k]) = Ends(u.slot[u.link[i]])
    BY DEF PointersRight
  <2>1. CASE NodeOf(i) = b
    BY <1>3, <1>6, <1>7, <2>1 DEF Linked
  <2>2. CASE NodeOf(i) # b
    <3>1. u.link[i] = t.link[i] /\ NodeOf(i) \in L
      BY <1>3, <1>6, <2>2
    <3>2. Linked(u, i) <=> Linked(t, i)
      BY <1>6 DEF Linked
    <3>. QED BY <1>2, <1>6, <3>1, <3>2 DEF PointersRight
  <2>. QED BY <2>1, <2>2
<1>10. Exact(u)
  BY <1>2, <1>6, <1>7 DEF Exact
<1>. QED BY <1>1, <1>2, <1>6, <1>8, <1>9, <1>10 DEF SimulatorInv, TopologyOK

\* simulator_link puts the new link behind the others.
LEMMA LinkStep ==
  ASSUME SimulatorInv, NEW a \in LiveInterfaces, NEW b \in LiveInterfaces, Link(a, b)
  PROVE  SimulatorInv'
<1>1. PICK t, u, L, k : t = topo /\ u = topo' /\ L = live /\ k = topo.count + 1
  OBVIOUS
<1>2. /\ t \in Topologies /\ Disjoint(t, L) /\ PointersRight(t, L) /\ Exact(t)
      /\ L \subseteq Blocks /\ live' = L
      /\ a \in Interfaces /\ NodeOf(a) \in L /\ b \in Interfaces /\ NodeOf(b) \in L
      /\ t.link[a] = None /\ t.link[b] = None /\ t.count < MaxLinks
  BY <1>1 DEF SimulatorInv, TopologyOK, Link, LiveInterfaces
<1>3. /\ t.count \in Nat /\ k \in 1 .. MaxLinks /\ k = t.count + 1 /\ DOMAIN t.slot = 1 .. MaxLinks
      /\ DOMAIN t.link = Interfaces /\ \A i \in Interfaces : t.link[i] \in 0 .. MaxLinks
      /\ \A j \in 1 .. MaxLinks : t.slot[j] \in Links
  BY <1>1, <1>2, TopologyTypes, SimulatorNumbers
<1>4. PICK slot, link : /\ slot = [t.slot EXCEPT ![k] = <<a, b>>]
                        /\ link = [t.link EXCEPT ![a] = k, ![b] = k]
  OBVIOUS
<1>5. /\ slot[k] = <<a, b>> /\ \A j \in 1 .. MaxLinks : j # k => slot[j] = t.slot[j]
      /\ slot \in [1 .. MaxLinks -> Links]
  <2>1. <<a, b>> \in Links
    BY <1>2 DEF Links
  <2>2. t.slot \in [1 .. MaxLinks -> Links]
    BY <1>2 DEF Topologies
  <2>. QED BY <1>3, <1>4, <2>1, <2>2
<1>6. /\ link \in [Interfaces -> 0 .. MaxLinks]
      /\ \A i \in Interfaces : link[i] = IF i \in {a, b} THEN k ELSE t.link[i]
  <2>1. t.link \in [Interfaces -> 0 .. MaxLinks] /\ k \in 0 .. MaxLinks
    BY <1>2, <1>3, SimulatorNumbers DEF Topologies
  <2>. QED BY <1>2, <1>4, <2>1
<1>7. /\ u \in Topologies /\ u.link = link /\ u.slot = slot /\ u.count = k
      /\ u.shifted = t.shifted
  <2>1. u = [t EXCEPT !.slot = slot, !.link = link, !.count = k]
    BY <1>1, <1>4 DEF Link
  <2>2. k \in 0 .. MaxLinks
    BY <1>3, SimulatorNumbers
  <2>. QED BY <1>2, <1>5, <1>6, <2>1, <2>2 DEF Topologies
<1>8. /\ Ends(slot[k]) = {a, b} /\ slot[k] # Null
      /\ \A j \in 1 .. t.count : j # k /\ j \in 1 .. MaxLinks /\ slot[j] = t.slot[j]
  <2>1. Ends(slot[k]) = {a, b} /\ slot[k] # Null
    <3>1. Ends(<<a, b>>) = {a, b} /\ <<a, b>> # Null
      BY <1>2, EndsOf DEF Null
    <3>. QED BY <1>5, <3>1
  <2>2. \A j \in 1 .. t.count : j # k /\ j \in 1 .. MaxLinks
    BY <1>3, SimulatorNumbers
  <2>. QED BY <1>5, <2>1, <2>2
<1>9. \A j \in 1 .. k : j = k \/ j \in 1 .. t.count
  BY <1>3
<1>10. ~Linked(t, a) /\ ~Linked(t, b)
  BY <1>2 DEF PointersRight
<1>11. \A j \in 1 .. t.count : a \notin Ends(t.slot[j]) /\ b \notin Ends(t.slot[j])
  BY <1>10 DEF Linked
<1>12. Disjoint(u, L)
  <2> SUFFICES ASSUME NEW j \in 1 .. k, NEW i \in Ends(slot[j])
               PROVE  /\ slot[j] # Null /\ i \in Interfaces /\ NodeOf(i) \in L
                      /\ \A m \in 1 .. k : i \in Ends(slot[m]) => j = m
    BY <1>7 DEF Disjoint
  <2>1. CASE j = k
    BY <1>2, <1>8, <1>9, <1>11, <2>1
  <2>2. CASE j \in 1 .. t.count
    <3>1. /\ t.slot[j] # Null /\ i \in Interfaces /\ NodeOf(i) \in L
          /\ \A m \in 1 .. t.count : i \in Ends(t.slot[m]) => j = m
      BY <1>2, <1>8, <2>2 DEF Disjoint
    <3>2. i \notin {a, b}
      BY <1>8, <1>11, <2>2
    <3>. QED BY <1>8, <1>9, <2>2, <3>1, <3>2
  <2>. QED BY <1>9, <2>1, <2>2
<1>13. \A i : Linked(u, i) <=> Linked(t, i) \/ i \in {a, b}
  <2>1. k \in 1 .. k /\ \A j \in 1 .. t.count : j \in 1 .. k
    BY <1>3
  <2>. QED BY <1>7, <1>8, <1>9, <2>1 DEF Linked
<1>14. PointersRight(u, L)
  <2> SUFFICES ASSUME NEW i \in Interfaces, NodeOf(i) \in L
               PROVE  /\ link[i] # None <=> Linked(u, i)
                      /\ link[i] # None /\ i \in Ends(slot[link[i]]) =>
                           \E j \in 1 .. k : Ends(slot[j]) = Ends(slot[link[i]])
    BY <1>7 DEF PointersRight
  <2>1. k # None /\ k \in 1 .. k /\ \A j \in 1 .. t.count : j \in 1 .. k
    BY <1>3 DEF None
  <2>2. CASE i \in {a, b}
    BY <1>6, <1>13, <2>1, <2>2
  <2>3. CASE i \notin {a, b}
    <3>1. PICK m : m = t.link[i]
      OBVIOUS
    <3>2. link[i] = m /\ (m # None <=> Linked(t, i))
          /\ (m # None /\ i \in Ends(t.slot[m]) =>
                \E j \in 1 .. t.count : Ends(t.slot[j]) = Ends(t.slot[m]))
      BY <1>2, <1>6, <2>3, <3>1 DEF PointersRight
    <3>3. m # None /\ i \in Ends(slot[m]) => m # k /\ m \in 1 .. MaxLinks
      BY <1>3, <1>8, <2>3, <3>1 DEF None
    <3>. QED BY <1>5, <1>8, <1>13, <2>1, <2>3, <3>2, <3>3
  <2>. QED BY <2>2, <2>3
<1>15. Exact(u)
  <2> SUFFICES ASSUME ~t.shifted, NEW j \in 1 .. k
               PROVE  slot[j] # Null /\ \A i \in Ends(slot[j]) : link[i] = j
    BY <1>7 DEF Exact
  <2>1. CASE j = k
    BY <1>2, <1>6, <1>8, <2>1
  <2>2. CASE j \in 1 .. t.count
    <3>1. t.slot[j] # Null /\ \A i \in Ends(t.slot[j]) : t.link[i] = j /\ i \in Interfaces
      BY <1>2, <2>2 DEF Exact, Disjoint
    <3>. QED BY <1>6, <1>8, <1>11, <2>2, <3>1
  <2>. QED BY <1>9, <2>1, <2>2
<1>. QED BY <1>1, <1>2, <1>7, <1>12, <1>14, <1>15 DEF SimulatorInv, TopologyOK

\* simulator_unlink
LEMMA UnlinkStep ==
  ASSUME SimulatorInv, NEW a, NEW b, Unlink(a, b)
  PROVE  SimulatorInv'
<1>1. PICK t, L, K : t = topo /\ L = live /\ K = Connects(topo, {a, b})
  OBVIOUS
<1>2. TopologyOK(t, L) /\ L \subseteq Blocks /\ t.count \in Nat
  BY <1>1, TopologyTypes DEF SimulatorInv, TopologyOK
<1>3. PICK k : k = FirstOf(K)
  OBVIOUS
<1>4. K \in SUBSET Nat /\ K # {} /\ K \subseteq 1 .. t.count
  BY <1>1, <1>2 DEF Unlink, Connects
<1>5. k \in 1 .. t.count
  BY <1>3, <1>4, FirstOfType
<1>6. topo' = RemoveLink(t, k) /\ live' = L
  BY <1>1, <1>3 DEF Unlink
<1>7. TopologyOK(RemoveLink(t, k), L)
  BY <1>2, <1>5, RemoveLinkOK
<1>. QED BY <1>2, <1>6, <1>7 DEF SimulatorInv

\* simulator_remove_node
LEMMA RemoveNodeStep ==
  ASSUME SimulatorInv, NEW b \in Blocks, RemoveNode(b)
  PROVE  SimulatorInv'
<1>1. PICK t, L : t = topo /\ L = live
  OBVIOUS
<1>2. TopologyOK(t, L) /\ L \subseteq Blocks /\ b \in L /\ live' = L \ {b} /\ Ports \in Nat
  BY <1>1, SimulatorNumbers DEF SimulatorInv, RemoveNode
<1> DEFINE after == CHOOSE f : IsLoop(t, b, Ports, f)
<1>3. topo' = after[Ports]
  BY <1>1 DEF RemoveNode, IsLoop
<1>4. PICK f : f = after
  OBVIOUS
<1>5. IsLoop(t, b, Ports, f)
  BY <1>2, <1>4, LoopExists
<1>6. PICK u : u = f[Ports]
  OBVIOUS
<1>7. TopologyOK(u, L) /\ \A p \in 1 .. Ports : ~Linked(u, <<b, p>>)
  BY <1>2, <1>5, <1>6, LoopOK
<1>8. TopologyOK(u, L \ {b})
  BY <1>7, FreeOK
<1>9. topo' = u
  BY <1>3, <1>4, <1>6
<1>. QED BY <1>2, <1>8, <1>9 DEF SimulatorInv

\* simulator_clear
LEMMA ClearStep ==
  ASSUME SimulatorInv, Clear
  PROVE  SimulatorInv'
<1>1. PICK t, u : t = topo /\ u = topo'
  OBVIOUS
<1>2. /\ t.count \in Nat /\ \A i \in Interfaces : t.link[i] \in 0 .. MaxLinks
      /\ \A k \in 1 .. MaxLinks : t.slot[k] \in Links
  BY <1>1, TopologyTypes DEF SimulatorInv, TopologyOK
<1>3. PICK link, slot :
        /\ link = [i \in Interfaces |-> IF Holds(t, i) # {} THEN None ELSE t.link[i]]
        /\ slot = [k \in 1 .. MaxLinks |-> IF k <= t.count THEN Null ELSE t.slot[k]]
  OBVIOUS
<1>4. u = [link |-> link, slot |-> slot, count |-> 0, shifted |-> FALSE] /\ live' = {}
  BY <1>1, <1>3 DEF Clear
<1>5. link \in [Interfaces -> 0 .. MaxLinks] /\ slot \in [1 .. MaxLinks -> Links]
      /\ 0 \in 0 .. MaxLinks
  BY <1>2, <1>3, SimulatorNumbers DEF None, Links
<1>6. u \in Topologies /\ u.count = 0
  BY <1>4, <1>5 DEF Topologies
<1>7. 1 .. u.count = {}
  BY <1>6
<1>. QED BY <1>1, <1>4, <1>6, <1>7
     DEF SimulatorInv, TopologyOK, Disjoint, PointersRight, Exact

\* The invariant that all three properties need: where the pointers of the
\* interfaces lead, through any history of simulator.c.
THEOREM SimulatorInvariant == Spec => []SimulatorInv
<1>1. SimulatorInv /\ [Next]_vars => SimulatorInv'
  BY CreateNodeStep, RemoveNodeStep, LinkStep, UnlinkStep, ClearStep
  DEF Next, vars, SimulatorInv
<1>. QED BY <1>1, SimulatorInit, PTL DEF Spec

\* simulator_link and simulator_remove_node may conclude from iface->link
\* whether an interface is linked, however often the array was shifted.
THEOREM PointerTellsLink == Spec => []LinkedIff
<1>1. SimulatorInv => LinkedIff
  <2> SUFFICES ASSUME SimulatorInv PROVE LinkedIff
    OBVIOUS
  <2>1. TypeOK
    BY DEF SimulatorInv, TopologyOK, Topologies, TypeOK
  <2>2. ASSUME NEW i \in LiveInterfaces,
               NEW has, has = {k \in 1 .. topo.count : i \in Ends(topo.slot[k])}
        PROVE  (topo.link[i] # None <=> has # {}) /\ Cardinality(has) <= 1
    <3>1. topo.link[i] # None <=> has # {}
      BY <2>2 DEF SimulatorInv, TopologyOK, PointersRight, Linked, LiveInterfaces
    <3>2. \A k, m \in has : k = m
      BY <2>2 DEF SimulatorInv, TopologyOK, Disjoint
    <3>3. CASE has = {}
      BY <3>1, <3>3, FS_EmptySet
    <3>4. CASE has # {}
      <4>1. PICK k : has = {k}
        BY <3>2, <3>4
      <4>2. Cardinality({k}) = 1
        BY FS_Singleton
      <4>. QED BY <3>1, <3>4, <4>1, <4>2
    <3>. QED BY <3>3, <3>4
  <2>. QED BY <2>1, <2>2 DEF LinkedIff
<1>. QED BY <1>1, SimulatorInvariant, PTL

\* transmit never hands a frame to an interface to which the sender is not
\* linked, and no link leads to freed memory.
THEOREM NeverMisdelivered == Spec => []NoMisdelivery
<1>1. SimulatorInv => NoMisdelivery
  <2> SUFFICES ASSUME SimulatorInv PROVE NoMisdelivery
    OBVIOUS
  <2>1. ASSUME NEW i \in LiveInterfaces, NEW r \in Receiver(i)
        PROVE  {i, r} \in Current
    <3>1. PICK m : m = topo.link[i]
      OBVIOUS
    <3>2. m # None
      <4>1. CASE m = None
        BY <2>1, <3>1, <4>1, EndsOf DEF Receiver
      <4>. QED BY <4>1
    <3>3. PICK l : l = topo.slot[m]
      OBVIOUS
    <3>4. i \in Ends(l) /\ r = IF i = l[1] THEN l[2] ELSE l[1]
      BY <2>1, <3>1, <3>2, <3>3 DEF Receiver
    <3>5. l \in Links
      <4>1. i \in Interfaces /\ topo \in Topologies
        BY DEF LiveInterfaces, SimulatorInv, TopologyOK
      <4>2. m \in 1 .. MaxLinks
        BY <3>1, <3>2, <4>1, TopologyTypes, SimulatorNumbers DEF None
      <4>. QED BY <3>3, <4>1, <4>2, TopologyTypes
    <3>6. Ends(l) = {l[1], l[2]}
      BY <3>4, <3>5, EndsOf DEF Links
    <3>7. {i, r} = Ends(l)
      BY <3>4, <3>6
    <3>8. \E k \in 1 .. topo.count : Ends(topo.slot[k]) = Ends(l)
      BY <3>1, <3>2, <3>3, <3>4 DEF SimulatorInv, TopologyOK, PointersRight, LiveInterfaces
    <3>. QED BY <3>7, <3>8 DEF Current
  <2>2. \A k \in 1 .. topo.count : Ends(topo.slot[k]) \subseteq LiveInterfaces
    BY DEF SimulatorInv, TopologyOK, Disjoint, LiveInterfaces
  <2>. QED BY <2>1, <2>2 DEF NoMisdelivery
<1>. QED BY <1>1, SimulatorInvariant, PTL

\* Until a link before the end of the array is removed, transmit finds the
\* other end of every link.
THEOREM LinksCarry == Spec => []EveryLinkCarries
<1>1. SimulatorInv => EveryLinkCarries
  <2> SUFFICES ASSUME SimulatorInv, ~topo.shifted, NEW k \in 1 .. topo.count,
                      NEW l, l = topo.slot[k]
               PROVE  l[2] \in Receiver(l[1]) /\ l[1] \in Receiver(l[2])
    BY DEF EveryLinkCarries
  <2>1. topo \in Topologies /\ k \in 1 .. MaxLinks
    BY TopologyTypes, SimulatorNumbers DEF SimulatorInv, TopologyOK
  <2>2. l \in Interfaces \X Interfaces
    <3>1. l \in Links /\ l # Null
      BY <2>1, TopologyTypes DEF SimulatorInv, TopologyOK, Exact
    <3>. QED BY <3>1 DEF Links
  <2>3. Ends(l) = {l[1], l[2]}
    BY <2>2, EndsOf
  <2>4. topo.link[l[1]] = k /\ topo.link[l[2]] = k /\ k # None
    BY <2>1, <2>3 DEF SimulatorInv, TopologyOK, Exact, None
  <2>. QED BY <2>3, <2>4 DEF Receiver
<1>. QED BY <1>1, SimulatorInvariant, PTL
=============================================================================
