---------------------------- MODULE MCTurnRunner ----------------------------
(* TurnRunner for TLC: call ids are interchangeable.                       *)
EXTENDS TurnRunner, TLC

CallSymmetry == Permutations(Calls)
=============================================================================
