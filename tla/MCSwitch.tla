------------------------------- MODULE MCSwitch -------------------------------
(***************************************************************************)
(* Two switches joined by a trunk, and two VLANs.  The hosts a and b are in *)
(* VLAN 1, c is in VLAN 2, the router r is on a trunk port, and one port,   *)
(* 2x, has no link.                                                         *)
(*                                                                         *)
(*          a - s1 - s2 - b                                                 *)
(*              |     |                                                     *)
(*              c     r                                                     *)
(***************************************************************************)
EXTENDS Switch, TLC

MCPorts == {"1a", "1c", "12", "21", "2b", "2r", "2x"}
MCOwner == "1a" :> "s1" @@ "1c" :> "s1" @@ "12" :> "s1" @@
           "21" :> "s2" @@ "2b" :> "s2" @@ "2r" :> "s2" @@ "2x" :> "s2"
MCFar == "1a" :> "a" @@ "1c" :> "c" @@ "12" :> "21" @@
         "21" :> "12" @@ "2b" :> "b" @@ "2r" :> "r" @@ "2x" :> NoLink
MCAccess == [p \in Ports |-> CASE p \in {"1a", "2b", "2x"} -> 1
                               [] p = "1c" -> 2
                               [] OTHER -> 0]
MCBehind == [p \in Ports |-> CASE Far[p] \in Stations -> {Far[p]}
                               [] p = "12" -> {"b", "r"}
                               [] p = "21" -> {"a", "c"}
                               [] OTHER -> {}]
=============================================================================
