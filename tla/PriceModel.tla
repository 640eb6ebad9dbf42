----------------------------- MODULE PriceModel -----------------------------
(***************************************************************************)
(* The pricing model: from the valid quotes of a slot to the quartiles of  *)
(* their price - conf, price and price + conf points.  The points reach    *)
(* the model only through int64_sort_ascending_stable, which SortStable    *)
(* models; MCPriceModel checks it against the sorted sequence used here.   *)
(***************************************************************************)
EXTENDS MachineInt, Sequences, FiniteSets, FiniteSetsExt, TLC

\* Mutant: the sum of the two is not protected against overflow.
avg_2_int64_naive(x, y) == I64(x + y) \div 2

\* The average rounded down, in the code's own unsigned operations: z is the
\* wrapped sum and b tells whether the borrow of the sign bits is owed.
avg_2_int64(x, y) ==
    LET t == U64(x)
        z == U64(t + U64(y))
        b == IF z >= U64(t + I64_MAX + 1) THEN I64_MAX + 1 ELSE 0
    IN  I64((z \div 2) - b)

\* The three points of every quote of q, a function from publishers to quotes.
QuotePoints(q) ==
    FoldSet(LAMBDA p, points :
                points \o <<q[p].price_ - q[p].conf_, q[p].price_, q[p].price_ + q[p].conf_>>,
            <<>>, DOMAIN q)

\* Mutant: the scratch array is read before it is sorted.
price_model_core_unsorted(quote) ==
    LET cnt == Len(quote)
        right == cnt \div 2
    IN  [p25 |-> quote[cnt \div 4 + 1],
         p50 |-> IF cnt % 2 = 1 THEN quote[right + 1]
                 ELSE avg_2_int64(quote[right], quote[right + 1]),
         p75 |-> quote[cnt - cnt \div 4]]

\* Mutant: the inside quote is taken for p25 and p75.
price_model_core_inside(quote) ==
    LET cnt == Len(quote)
        sorted == SortSeq(quote, <)
        p25_idx == (cnt + 1) \div 4
        right == cnt \div 2
    IN  [p25 |-> sorted[p25_idx + 1],
         p50 |-> IF cnt % 2 = 1 THEN sorted[right + 1]
                 ELSE avg_2_int64(sorted[right], sorted[right + 1]),
         p75 |-> sorted[cnt - p25_idx]]

\* Quartiles of cnt points: p25 at index cnt / 4 of the sorted array (counted
\* from zero), p75 at its mirror image, p50 the middle point or the average
\* of the two middle points.
price_model_core(quote) ==
    LET cnt == Len(quote)
        sorted == SortSeq(quote, <)
        At(i) == sorted[i + 1]
        p25_idx == cnt \div 4
        right == cnt \div 2
    IN  [p25 |-> At(p25_idx),
         p50 |-> IF cnt % 2 = 1 THEN At(right) ELSE avg_2_int64(At(right - 1), At(right)),
         p75 |-> At(cnt - 1 - p25_idx)]

\* Mutant: the upper half-interval is not compared with the lower one.
AggregateRight(q) ==
    LET m == price_model_core(QuotePoints(q))
    IN  [price |-> m.p50, conf |-> I64(m.p75 - m.p50)]

\* The median, and the larger of the two half-intervals around it.  Both are
\* differences in 64 bits: they wrap where the C code overflows.
Aggregate(q) ==
    LET m == price_model_core(QuotePoints(q))
        agg_conf_left == I64(m.p50 - m.p25)
        agg_conf_right == I64(m.p75 - m.p50)
    IN  [price |-> m.p50,
         conf |-> IF agg_conf_right > agg_conf_left THEN agg_conf_right ELSE agg_conf_left]
=============================================================================
