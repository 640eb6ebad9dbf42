-------------------------- MODULE MCAccountRegistry --------------------------
(* Instances of AccountRegistry for TLC. *)
EXTENDS AccountRegistry, TLC

\* Addresses other than the old mapping account are interchangeable.
Symmetry == Permutations(Accts \ {Root})
=============================================================================
