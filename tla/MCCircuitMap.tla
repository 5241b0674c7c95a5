---------------------------- MODULE MCCircuitMap ----------------------------
(* Instances of CircuitMap for TLC. *)
EXTENDS CircuitMap, TLC

Symmetry == Permutations(InKey)
=============================================================================
