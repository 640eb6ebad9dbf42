----------------------------- MODULE MachineInt -----------------------------
(***************************************************************************)
(* The 64-bit integers of the program, with their width as a parameter so  *)
(* that the boundary cases are within reach of small instances.            *)
(***************************************************************************)
EXTENDS Integers

CONSTANT I64_MAX \* the largest signed integer: 2^63 - 1 in the code

ASSUME I64Assumption == I64_MAX \in Nat

I64_MIN == -(I64_MAX + 1)

Int64 == I64_MIN .. I64_MAX

\* Conversion to the unsigned and to the signed type: two's complement.
U64(x) == x % (2 * (I64_MAX + 1))

I64(x) == ((x + I64_MAX + 1) % (2 * (I64_MAX + 1))) - (I64_MAX + 1)

\* saturating_sub of the unsigned types.
SaturatingSub(x, y) == IF x < y THEN 0 ELSE x - y
=============================================================================
