-------------------------------- MODULE Codecs --------------------------------
(***************************************************************************)
(* The conversions of misc.cpp: keys to base 58 and back, transactions to  *)
(* base 64 and back, numbers to decimal text and back, and the price a     *)
(* user types to an integer of the symbol's exponent.  Characters are      *)
(* their values in the alphabet; those outside it are negative numbers.    *)
(***************************************************************************)
EXTENDS MachineInt, Sequences, SequencesExt

CONSTANTS
    BYTE,    \* 256: the values of a byte in base 58 conversions
    ALPHA,   \* 58: the size of the alphabet
    FACTOR   \* 10000 times the logarithm of BYTE to base ALPHA, rounded up

EQUALS == -1
MINUS == -2
POINT == -3
OTHER_CHAR == -4

Count(n) == [i \in 1 .. n |-> i]

Zeros(n) == <<>> \o [i \in 1 .. n |-> 0]

TakeWhile(s, Test(_)) ==
    LET k == SelectInSeq(s, LAMBDA c : ~Test(c))
    IN  IF k = 0 THEN s ELSE SubSeq(s, 1, k - 1)

\* The number of elements at the front of s that are x.
LeadingRun(s, x) == Len(TakeWhile(s, LAMBDA c : c = x))

-----------------------------------------------------------------------------
(* Base 58.                                                                *)

\* Mutant: the working digits have no room for the rounding of the factor.
b58_room_tight(n) == (FACTOR * n) \div 10000

b58_room(n) == 1 + (FACTOR * n) \div 10000

\* One byte into the digits d, of which the last len are in use.
b58_byte(d, len, byte) ==
    FoldLeft(LAMBDA s, it :
                 IF s.carry = 0 /\ s.i >= len THEN s
                 ELSE LET c == s.carry + BYTE * s.d[it]
                      IN  [d |-> [s.d EXCEPT ![it] = c % ALPHA],
                           carry |-> c \div ALPHA, i |-> s.i + 1],
             [d |-> d, carry |-> byte, i |-> 0], Reverse(Count(Len(d))))

\* The empty text when the digits do not fit.
enc_base58(source) ==
    LET zeros == LeadingRun(source, 0)
        rest == SubSeq(source, zeros + 1, Len(source))
        end == FoldLeft(LAMBDA s, byte : LET t == b58_byte(s.d, s.i, byte)
                                         IN  [t EXCEPT !.carry = s.carry + t.carry],
                        [d |-> Zeros(b58_room(Len(rest))), carry |-> 0, i |-> 0],
                        rest)
        digits == SubSeq(end.d, Len(end.d) - end.i + 1, Len(end.d))
    IN  IF end.carry # 0 THEN <<>>
        ELSE Zeros(zeros)
               \o SubSeq(digits, LeadingRun(digits, 0) + 1, Len(digits))

\* One digit into the little-endian bytes r.
b58_digit(r, digit) ==
    LET s == FoldLeft(LAMBDA t, j : LET c == t.carry + t.r[j] * ALPHA
                                    IN  [r |-> [t.r EXCEPT ![j] = c % BYTE], carry |-> c \div BYTE],
                      [r |-> r, carry |-> digit], Count(Len(r)))
    IN  IF s.carry > 0 THEN Append(s.r, s.carry) ELSE s.r

\* Decoding stops at the first character outside the alphabet; a zero byte is
\* added for every leading zero digit, then the bytes are reversed by swaps.
dec_base58(text) ==
    LET valid == TakeWhile(text, LAMBDA c : c \in 0 .. ALPHA - 1)
        bytes == FoldLeft(b58_digit, <<0>>, valid)
        all == bytes \o Zeros(LeadingRun(text, 0))
        n == Len(all)
        half == (n \div 2) + (n % 2)
    IN  [i \in 1 .. n |-> IF i > half \/ i <= n - half THEN all[n + 1 - i] ELSE all[i]]

-----------------------------------------------------------------------------
(* Base 64, with the code's masks and shifts as arithmetic on bytes.       *)

a3_to_a4(a) ==
    <<a[1] \div 4, ((a[1] % 4) * 16) + (a[2] \div 16), ((a[2] % 16) * 4) + (a[3] \div 64), a[3] % 64>>

a4_to_a3(a) ==
    <<((a[1] * 4) + ((a[2] \div 16) % 4)) % 256, ((a[2] % 16) * 16 + ((a[3] \div 4) % 16)) % 256,
      ((a[3] % 4) * 64 + a[4]) % 256>>

\* Mutant: a group of one byte is written with one character less.
enc_base64_short(inp) ==
    LET n == Len(inp)
        pad == (3 - (n % 3)) % 3
        full == inp \o Zeros(pad)
        chars == FlattenSeq([g \in 1 .. Len(full) \div 3 |->
                                a3_to_a4(SubSeq(full, 3 * g - 2, 3 * g))])
    IN  SubSeq(chars, 1, Len(chars) - pad - (pad \div 2)) \o [i \in 1 .. pad |-> EQUALS]

\* Whole groups of three bytes, then the rest filled up with zeros, of which
\* one character more than there are bytes is kept and "=" fills the group.
enc_base64(inp) ==
    LET n == Len(inp)
        pad == (3 - (n % 3)) % 3
        full == inp \o Zeros(pad)
        chars == FlattenSeq([g \in 1 .. Len(full) \div 3 |->
                                a3_to_a4(SubSeq(full, 3 * g - 2, 3 * g))])
    IN  SubSeq(chars, 1, Len(chars) - pad) \o [i \in 1 .. pad |-> EQUALS]

enc_base64_len(n) == ((n + 2 - ((n + 2) % 3)) \div 3) * 4

\* Up to the first "="; in a last group of i characters the missing ones are
\* looked up as '\0', which is 255, and i - 1 bytes are kept.
dec_base64(text) ==
    LET chars == TakeWhile(text, LAMBDA c : c # EQUALS)
        groups == Len(chars) \div 4
        rest == Len(chars) % 4
        group(g) == SubSeq(chars, 4 * g - 3, 4 * g)
        last == SubSeq(chars, 4 * groups + 1, Len(chars)) \o [i \in 1 .. 4 - rest |-> 255]
    IN  FlattenSeq([g \in 1 .. groups |-> a4_to_a3(group(g))])
          \o (IF rest = 0 THEN <<>> ELSE SubSeq(a4_to_a3(last), 1, rest - 1))

-----------------------------------------------------------------------------
(* Numbers.  A digit character is its value; int_to_str computes digits    *)
(* with C's remainder, which is negative for a negative dividend.          *)

Digits(n) == IF n = 0 THEN <<>> ELSE Reverse([i \in 1 .. 10 |-> (n \div 10^(i - 1)) % 10])

\* Without the zeros in front.
Significant(s) == SubSeq(s, LeadingRun(s, 0) + 1, Len(s))

uint_to_str(val) == IF val = 0 THEN <<0>> ELSE Significant(Digits(val))

\* Mutant: the sign is written before the digits are known to be positive.
int_to_str_signless(val) ==
    IF val = 0 THEN <<0>> ELSE Significant(Digits(IF val < 0 THEN U64(-val) ELSE val))

\* -val wraps for the smallest integer, whose digits then are no digits.
int_to_str(val) ==
    IF val = 0 THEN <<0>>
    ELSE IF val > 0 THEN Significant(Digits(val))
    ELSE IF I64(-val) > 0 THEN <<MINUS>> \o Significant(Digits(-val))
    ELSE <<MINUS>> \o [i \in DOMAIN Significant(Digits(-val)) |-> OTHER_CHAR]

\* Any character that is neither a digit nor a sign makes the number zero;
\* a sign is taken wherever it stands.
str_to_int(text) ==
    LET sign == \E i \in DOMAIN text : text[i] = MINUS
        good == \A i \in DOMAIN text : text[i] \in (0 .. 9) \cup {MINUS}
        res == FoldLeft(LAMBDA r, c : IF c = MINUS THEN r ELSE I64(r * 10 + c), 0, text)
    IN  IF ~good THEN 0 ELSE IF sign THEN I64(-res) ELSE res

\* Mutant: digits beyond the exponent are rounded up.
Truncate_up(m, k) == (m + 10^k - 1) \div 10^k

Truncate(m, k) == m \div 10^k

\* A price typed as text to an integer with exponent texpo.  After the point
\* zeros at the end are stripped; digits beyond the exponent are cut off; a
\* character that belongs to no number makes it zero.
str_to_dec(text, texpo) ==
    LET neg == text # <<>> /\ text[1] = MINUS
        body == IF neg THEN Tail(text) ELSE text
        point == SelectLastInSeq(body, LAMBDA c : c = POINT)
        frac == IF point = 0 THEN <<>> ELSE SubSeq(body, point + 1, Len(body))
        kept == SubSeq(frac, 1, Len(frac) - LeadingRun(Reverse(frac), 0))
        whole == SelectSeq(SubSeq(body, 1, Len(body) - Len(frac)), LAMBDA c : c # POINT)
        mant == FoldLeft(LAMBDA m, c : m * 10 + c, 0, whole \o kept)
        expo == -Len(kept)
        val == IF expo >= texpo THEN mant * 10^(expo - texpo) ELSE Truncate(mant, texpo - expo)
    IN  IF \E i \in DOMAIN body : body[i] \in {MINUS, OTHER_CHAR} THEN 0
        ELSE IF neg THEN -val ELSE val
=============================================================================
