--------------------------- MODULE MCCommitChains ---------------------------
(* An instance of CommitChains for TLC: the parties are interchangeable. *)
EXTENDS CommitChains, TLC

Symmetry == Permutations(Party)
=============================================================================
