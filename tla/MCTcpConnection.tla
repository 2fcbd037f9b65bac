--------------------------- MODULE MCTcpConnection ---------------------------
(***************************************************************************)
(* TcpConnection on a small instance.  Initial sequence numbers are apart   *)
(* by more than the streams, as 1000 and 2000 + port are.                   *)
(***************************************************************************)
EXTENDS TcpConnection

CONSTANTS ClientStream, ServerStream   \* the bounds of the two streams

MCISN == [h \in Hosts |-> IF h = Client THEN 10 ELSE 20]
MCMaxStream == [h \in Hosts |-> IF h = Client THEN ClientStream ELSE ServerStream]
=============================================================================
