------------------------------ MODULE Simulator ------------------------------
(***************************************************************************)
(* The topology that simulator.c and core/link.c keep: the nodes, and an    *)
(* array of Link structures to which interfaces point.                      *)
(*                                                                         *)
(* Removing a link shifts the rest of the array by value, and the pointers  *)
(* of the interfaces stay where they were.  So an interface's pointer is an *)
(* index into the array, and the elements beyond link_count keep what they  *)
(* last held.  A node is the block of memory it was allocated in: a block   *)
(* that was freed can be handed out again.                                  *)
(***************************************************************************)
EXTENDS Integers, FiniteSets, Sequences, SequencesExt

CONSTANTS
  Blocks,      \* memory blocks in which nodes are allocated
  Ports,       \* ports of a node
  MaxNodes,    \* SIMULATOR_MAX_NODES
  MaxLinks     \* SIMULATOR_MAX_LINKS

ASSUME TopologyAssumption == {Ports, MaxNodes, MaxLinks} \subseteq Nat \ {0}

Interfaces == Blocks \X (1 .. Ports)
NodeOf(i) == i[1]
Null == <<>>                         \* a Link with both interfaces NULL
Links == (Interfaces \X Interfaces) \cup {Null}
None == 0                            \* the link pointer of a free interface

VARIABLES
  live,    \* the blocks that hold a node
  topo     \* [link: interface -> index, slot: the array links, count, and
           \* shifted: links have moved in the array since the last clear (history)]

vars == <<live, topo>>

Init == /\ live = {}
        /\ topo = [link |-> [i \in Interfaces |-> None],
                   slot |-> [k \in 1 .. MaxLinks |-> Null],
                   count |-> 0,
                   shifted |-> FALSE]

LiveInterfaces == {i \in Interfaces : NodeOf(i) \in live}

-----------------------------------------------------------------------------
Ends(l) == ToSet(l)

\* The first element of the array, within link_count, that connects exactly
\* the interfaces S, or that has the interface i.
Connects(t, S) == {k \in 1 .. t.count : Ends(t.slot[k]) = S}
Holds(t, i) == {k \in 1 .. t.count : i \in Ends(t.slot[k])}
FirstOf(K) == CHOOSE k \in K : \A m \in K : k <= m

\* Mutant: only the first interface forgets the link.
LinkUnlinkHalf(t, k) ==
  [t EXCEPT !.link = [i \in Interfaces |->
                        IF t.slot[k] # Null /\ i = t.slot[k][1] THEN None ELSE @[i]],
            !.slot[k] = Null]

\* link_unlink on element k: both interfaces and the link forget each other.
LinkUnlink(t, k) ==
  [t EXCEPT !.link = [i \in Interfaces |-> IF i \in Ends(t.slot[k]) THEN None ELSE @[i]],
            !.slot = [t.slot EXCEPT ![k] = Null]]

\* link_unlink, then the elements after k move down by one.
RemoveLink(t, k) ==
  LET u == LinkUnlink(t, k)
  IN [u EXCEPT !.slot = [j \in 1 .. MaxLinks |->
                           IF j \in k .. t.count - 1 THEN @[j + 1] ELSE @[j]],
               !.count = @ - 1,
               !.shifted = @ \/ k < t.count]

\* simulator_create_node: a fresh block, or one that was freed; its
\* interfaces are unlinked.
CreateNode(b) ==
  /\ b \notin live
  /\ Cardinality(live) < MaxNodes
  /\ live' = live \cup {b}
  /\ topo' = [topo EXCEPT !.link = [i \in Interfaces |->
                                      IF NodeOf(i) = b THEN None ELSE @[i]]]

\* Mutant: the second interface gets the pointer to the element before.
LinkOffByOne(a, b) ==
  /\ topo.count < MaxLinks
  /\ a # b
  /\ topo.link[a] = None /\ topo.link[b] = None
  /\ LET k == topo.count + 1
     IN topo' = [topo EXCEPT !.slot[k] = <<a, b>>,
                             !.link[a] = k, !.link[b] = topo.count,
                             !.count = k]
  /\ UNCHANGED live

\* simulator_link, with the checks it makes.
Link(a, b) ==
  /\ topo.count < MaxLinks
  /\ a # b
  /\ topo.link[a] = None /\ topo.link[b] = None
  /\ Connects(topo, {a, b}) = {}
  /\ LET k == topo.count + 1
     IN topo' = [topo EXCEPT !.slot = [topo.slot EXCEPT ![k] = <<a, b>>],
                             !.link = [topo.link EXCEPT ![a] = k, ![b] = k],
                             !.count = k]
  /\ UNCHANGED live

\* simulator_unlink
Unlink(a, b) ==
  /\ Connects(topo, {a, b}) # {}
  /\ topo' = RemoveLink(topo, FirstOf(Connects(topo, {a, b})))
  /\ UNCHANGED live

\* Mutant: the node is freed with its links in place.
RemoveNodeOnly(b) ==
  /\ b \in live
  /\ live' = live \ {b}
  /\ UNCHANGED topo

\* One round of the loop of simulator_remove_node: if the interface is linked,
\* the first link that has it goes.
DropLinkOf(t, i) == IF t.link[i] # None /\ Holds(t, i) # {}
                    THEN RemoveLink(t, FirstOf(Holds(t, i))) ELSE t

\* simulator_remove_node: each port in turn; then the block is freed.
RemoveNode(b) ==
  LET after[p \in 0 .. Ports] == IF p = 0 THEN topo ELSE DropLinkOf(after[p - 1], <<b, p>>)
  IN /\ b \in live
     /\ topo' = after[Ports]
     /\ live' = live \ {b}

\* simulator_clear, which also precedes every load: link_unlink on every link
\* of the array, then all nodes are freed.
Clear ==
  /\ topo' = [link |-> [i \in Interfaces |-> IF Holds(topo, i) # {} THEN None
                                             ELSE topo.link[i]],
              slot |-> [k \in 1 .. MaxLinks |-> IF k <= topo.count THEN Null
                                                ELSE topo.slot[k]],
              count |-> 0,
              shifted |-> FALSE]
  /\ live' = {}

Next ==
  \/ \E b \in Blocks : CreateNode(b) \/ RemoveNode(b)
  \/ \E a, b \in LiveInterfaces : Link(a, b) \/ Unlink(a, b)
  \/ Clear

Spec == Init /\ [][Next]_vars

-----------------------------------------------------------------------------
\* transmit: the interface that gets a frame sent from i, if any does.
Receiver(i) ==
  LET l == IF topo.link[i] = None THEN Null ELSE topo.slot[topo.link[i]]
  IN IF i \in Ends(l) THEN {IF i = l[1] THEN l[2] ELSE l[1]} ELSE {}

Current == {Ends(topo.slot[k]) : k \in 1 .. topo.count}

\* The nodes, the array and the pointers have their types.
TypeOK == /\ live \subseteq Blocks
          /\ topo \in [link : [Interfaces -> 0 .. MaxLinks],
                       slot : [1 .. MaxLinks -> Links],
                       count : 0 .. MaxLinks,
                       shifted : BOOLEAN]

\* An interface of a node has a link pointer exactly when the topology has a
\* link for it, and never two: what simulator_link and simulator_remove_node
\* conclude from the pointer is right although the array was shifted.  (And
\* the state has its types.)
LinkedIff ==
  /\ TypeOK
  /\ \A i \in LiveInterfaces :
       LET has == {k \in 1 .. topo.count : i \in Ends(topo.slot[k])}
       IN /\ topo.link[i] # None <=> has # {}
          /\ Cardinality(has) <= 1

\* Whatever stale element its pointer leads to, an interface never hands a
\* frame to an interface to which it is not linked now, and no link leads to
\* a freed node.
NoMisdelivery ==
  /\ \A i \in LiveInterfaces : \A r \in Receiver(i) : {i, r} \in Current
  /\ \A k \in 1 .. topo.count : Ends(topo.slot[k]) \subseteq LiveInterfaces

\* As long as only last links were removed since the last clear, every link
\* carries frames both ways, through the reuse of blocks and elements.  (A
\* removal before the end of the array leaves the pointers of the links after
\* it one element behind.)
EveryLinkCarries ==
  ~topo.shifted =>
    \A k \in 1 .. topo.count :
      LET l == topo.slot[k] IN l[2] \in Receiver(l[1]) /\ l[1] \in Receiver(l[2])
=============================================================================
