------------------------------ MODULE MCTcpFifo ------------------------------
(***************************************************************************)
(* TcpFifo on a small instance.                                             *)
(***************************************************************************)
EXTENDS TcpFifo

CONSTANTS ClientStream, ServerStream   \* the bounds of the two streams

MCISN == [h \in Hosts |-> IF h = Client THEN 10 ELSE 20]
MCMaxStream == [h \in Hosts |-> IF h = Client THEN ClientStream ELSE ServerStream]
=============================================================================
