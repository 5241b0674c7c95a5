-------------------------- MODULE MCHtlcForwarding --------------------------
(* Instances of HtlcForwarding for TLC. *)
EXTENDS HtlcForwarding, TLC

Symmetry == Permutations(InKey)
=============================================================================
