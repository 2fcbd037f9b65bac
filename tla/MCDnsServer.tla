----------------------------- MODULE MCDnsServer -----------------------------
(***************************************************************************)
(* DnsServer with two configured hosts and one without an address.  With a  *)
(* buffer of 6 bytes, "aa.a" is the longest name that can be asked and      *)
(* "aaaaa" the longest the table holds.                                     *)
(***************************************************************************)
EXTENDS DnsServer

a == 97
A == <<<<a>>>>
Longest == <<<<a, a>>, <<a>>>>
TooLong == <<<<a, a, a, a, a>>>>

MCNames == {A, Longest, TooLong}
MCDefaults == <<[name |-> A, ip |-> "ip1"]>>
=============================================================================
