---------------------------- MODULE MCPriceBatch ----------------------------
(* PriceBatch for TLC: the prices are interchangeable. *)
EXTENDS PriceBatch, TLC

Symmetry == Permutations(Prices)
=============================================================================
