----------------------------- MODULE MCSimClock ------------------------------
(***************************************************************************)
(* SimClock with a link without delay, a fast and a slow one.               *)
(***************************************************************************)
EXTENDS SimClock

MCLinks == {"wire", "fast", "slow"}
MCDelay == [l \in Links |-> CASE l = "wire" -> 0 [] l = "fast" -> 2 [] l = "slow" -> 4]
=============================================================================
