----------------------------- MODULE MCSimulator -----------------------------
(***************************************************************************)
(* Simulator with blocks that are interchangeable.                          *)
(***************************************************************************)
EXTENDS Simulator, TLC

BlockSymmetry == Permutations(Blocks)
=============================================================================
