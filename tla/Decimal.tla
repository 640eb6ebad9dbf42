------------------------------- MODULE Decimal -------------------------------
(***************************************************************************)
(* The decimal arithmetic of pd.h, with which the exponential moving       *)
(* averages are kept: a mantissa and an exponent, normalised by pd_scale   *)
(* so that the next product still fits 64 bits.  The widths are parameters *)
(* that keep the code's proportions:                                       *)
(*     MANT < 10^DIGITS,   MANT * 10 * 10^DIGITS <= I64_MAX,   MANT^2 <= I64_MAX  *)
(* All divisions truncate towards zero.                                    *)
(***************************************************************************)
EXTENDS MachineInt, FiniteSets, FiniteSetsExt

CONSTANTS
    MANT,            \* 1 << 28: the bound of a normalised mantissa
    DIGITS,          \* 9: the digits gained by PD_SCALE9
    PC_FACTOR_SIZE,  \* 18: the powers of ten in the factor table
    STORE_MAX,       \* 1 << 58: the bound of a stored mantissa
    EXP_MAX          \* 1 << (EXP_BITS - 1): the bound of a stored exponent

ASSUME DecimalAssumption ==
    /\ MANT \in Nat \ {0} /\ DIGITS \in Nat /\ PC_FACTOR_SIZE \in Nat
    /\ STORE_MAX \in Nat /\ EXP_MAX \in Nat
    /\ MANT < 10^DIGITS /\ MANT * 10 * 10^DIGITS <= I64_MAX /\ MANT * MANT <= I64_MAX

Abs(x) == IF x < 0 THEN -x ELSE x

\* C's division.
Quot(x, y) == IF (x < 0) = (y < 0) THEN Abs(x) \div Abs(y) ELSE -(Abs(x) \div Abs(y))

PD(v, e) == [v |-> v, e |-> e]

\* How often v is divided by ten before it is below bound.
Shrinks(v, bound) == Min({k \in 0 .. 9 : Abs(v) \div 10^k < bound})

\* Mutant: one division is taken to be enough.
pd_scale_once(n) ==
    IF Abs(n.v) < MANT THEN n ELSE PD(Quot(n.v, 10), n.e + 1)

pd_scale(n) ==
    LET k == Shrinks(n.v, MANT)
    IN  PD(Quot(n.v, 10^k), n.e + k)

\* An operation yields its normalised result, and whether every number it
\* computed on the way fits 64 bits.
Out(n, steps) == [n |-> pd_scale(n), fits |-> \A x \in steps : x \in Int64]

pd_mul(n1, n2) == Out(PD(n1.v * n2.v, n1.e + n2.e), {n1.v * n2.v})

\* The dividend is widened to at least MANT, then by DIGITS more digits.
pd_div(n1, n2) ==
    IF n1.v = 0 THEN [n |-> n1, fits |-> TRUE]
    ELSE LET m == Min({k \in 0 .. DIGITS : Abs(n1.v) * 10^k >= MANT})
             w == n1.v * 10^m * 10^DIGITS
         IN  Out(PD(Quot(w, n2.v), n1.e - n2.e - m - DIGITS), {w})

\* The operand with the larger exponent is brought down to the other's, by at
\* most DIGITS digits; what is then still out of line is shifted out of the
\* other operand, which is dropped altogether beyond the factor table.
pd_add(n1, n2) ==
    LET hi == IF n1.e >= n2.e THEN n1 ELSE n2
        lo == IF n1.e >= n2.e THEN n2 ELSE n1
        d == hi.e - lo.e
        wide == hi.v * 10^DIGITS
    IN  CASE d < DIGITS -> Out(PD(hi.v * 10^d + lo.v, lo.e), {hi.v * 10^d, hi.v * 10^d + lo.v})
          [] d >= DIGITS /\ d < PC_FACTOR_SIZE + DIGITS ->
                LET v == wide + Quot(lo.v, 10^(d - DIGITS))
                IN  Out(PD(v, hi.e - DIGITS), {wide, v})
          [] OTHER -> [n |-> pd_scale(hi), fits |-> TRUE]

\* pd_sub has the branches of pd_add, with the sign of its second operand
\* changed in each of them.
pd_sub(n1, n2) == pd_add(n1, PD(-n2.v, n2.e))

pd_lt(n1, n2) == pd_sub(n1, n2).n.v < 0

pd_gt(n1, n2) == pd_sub(n1, n2).n.v > 0

\* To exponent e, by a power of ten from the table.
pd_adjust(n, e) ==
    LET d == n.e - e
    IN  [v |-> IF d > 0 THEN n.v * 10^d ELSE Quot(n.v, 10^(-d)),
         fits |-> Abs(d) < PC_FACTOR_SIZE /\ (d > 0 => n.v * 10^d \in Int64)]

\* The two fields of the stored 64-bit integer.
Stored(v, e) == [ok |-> TRUE, v |-> v, e |-> e]

\* Mutant: an exponent below the field's is raised without dividing for it.
pd_store_low(n) ==
    IF n.e < -EXP_MAX THEN Stored(n.v, -EXP_MAX) ELSE Stored(n.v, n.e)

\* To mantissa and exponent fields: divided until both fit, multiplied while
\* the exponent is too large, which fails when the mantissa leaves its field.
pd_store(n) ==
    LET k == Min({j \in 0 .. 9 : /\ Quot(n.v, 10^j) >= -STORE_MAX
                                  /\ Quot(n.v, 10^j) < STORE_MAX})
        v == Quot(n.v, 10^k)
        e == n.e + k
    IN  CASE e < -EXP_MAX -> Stored(Quot(v, 10^(-EXP_MAX - e)), -EXP_MAX)
          [] e >= EXP_MAX ->
                LET w == v * 10^(e - EXP_MAX + 1)
                IN  IF w >= -STORE_MAX /\ w < STORE_MAX THEN Stored(w, EXP_MAX - 1)
                    ELSE [ok |-> FALSE]
          [] OTHER -> Stored(v, e)

pd_load(s) == pd_scale(PD(s.v, s.e))
=============================================================================
