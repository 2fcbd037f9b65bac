---------------------------- MODULE MCDhcpServer ----------------------------
(***************************************************************************)
(* DhcpServer with a configured host, which can be the server, and hosts    *)
(* without an address.  The pool is smaller than the clients' demand and    *)
(* larger than the table of clients.                                        *)
(***************************************************************************)
EXTENDS DhcpServer

\* The configured address lies outside the pool.
MCStatic == [h \in Hosts |-> IF h = "s" THEN 1 ELSE 0]
=============================================================================
