------------------------------ MODULE MCHostArp ------------------------------
(***************************************************************************)
(* HostArp on a small segment.  Every run starts with every combination of  *)
(* configured and unconfigured hosts among those of Unconfigured.           *)
(***************************************************************************)
EXTENDS HostArp

\* h1 and h2 send, h3 only answers; it is the gateway.
MCQuota == [h \in Hosts |-> CASE h = "h1" -> MaxPackets [] h = "h2" -> 1 [] OTHER -> 0]
MCTargets == [h \in Hosts |-> IF h = "h1" THEN {"h2", Outside} ELSE {"h1", Broadcast}]
=============================================================================
