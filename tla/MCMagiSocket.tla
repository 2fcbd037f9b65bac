---------------------------- MODULE MCMagiSocket ----------------------------
(***************************************************************************)
(* MagiSocket with two hosts whose users connect, and send and close by     *)
(* both sets of commands; the second one's also listens and runs the HTTP   *)
(* server.                                                                  *)
(***************************************************************************)
EXTENDS MagiSocket

\* With delays, the only data are the requests of http_get and their answers of
\* one segment.  Two units from the users and an answer of two segments fill
\* the buffer of an end, and more.
MCMaxSends == [d \in BOOLEAN |-> IF d THEN 0 ELSE 2]
MCAnswerSizes == [d \in BOOLEAN |-> IF d THEN {1} ELSE {2}]
=============================================================================
