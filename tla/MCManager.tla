------------------------------ MODULE MCManager ------------------------------
(* Instances of Manager for TLC: one mapping account, a product p1 that has *)
(* a price a1 from the start, or none, and accounts that can be added on    *)
(* chain.                                                                   *)
EXTENDS Manager

CONSTANTS p1, a1

NoSymbol == [a \in Accts |-> {}]

OneSymbol ==
    [a \in Accts |-> IF a = Root THEN {p1} ELSE IF a = p1 THEN {a1} ELSE {}]
=============================================================================
