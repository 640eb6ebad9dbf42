--------------------------- MODULE PriceBatchProofs ---------------------------
(***************************************************************************)
(* Proofs about PriceBatch, for every set of prices, every batch size,     *)
(* every limit of unacknowledged transactions and any number of slots and  *)
(* failures.                                                               *)
(***************************************************************************)
EXTENDS PriceBatch, BoundedInduction, FiniteSetTheorems, TLAPS

-----------------------------------------------------------------------------
(* Sequences *)

\* Erasing one entry of a list makes it no longer.
LEMMA EraseShorter ==
    ASSUME NEW X, NEW s \in Seq(X), NEW e
    PROVE  RemoveFirst(s, e) \in Seq(X) /\ Len(RemoveFirst(s, e)) <= Len(s)
  <1>1. CASE \E i \in 1 .. Len(s) : s[i] = e
    <2> DEFINE I == {i \in 1 .. Len(s) : s[i] = e}
    <2>1. I # {} /\ I \subseteq Nat
      BY <1>1
    <2>2. RemoveFirst(s, e) = RemoveAt(s, Min(I))
      BY <1>1, <2>1 DEF RemoveFirst, SelectInSeq
    <2>3. Min(I) \in I
      <3>1. \E x \in I : \A y \in I : x <= y
        BY <2>1, Least
      <3> HIDE DEF I
      <3> QED
        BY <3>1 DEF Min
    <2>4. Min(I) \in 1 .. Len(s)
      BY <2>3
    <2> HIDE DEF I
    <2> QED
      BY <2>2, <2>4 DEF RemoveAt
  <1>2. CASE ~ \E i \in 1 .. Len(s) : s[i] = e
    BY <1>2 DEF RemoveFirst
  <1> QED
    BY <1>1, <1>2

\* The list of a set with at most one element.
LEMMA SmallSetToSeq ==
    ASSUME NEW S, \A x, y \in S : x = y
    PROVE  /\ SetToSeq(S) \in Seq(S)
           /\ Len(SetToSeq(S)) = IF S = {} THEN 0 ELSE 1
  <1> DEFINE n == IF S = {} THEN 0 ELSE 1
  <1>1. Cardinality(S) = n
    <2>1. CASE S = {}
      BY <2>1, FS_EmptySet
    <2>2. CASE S # {}
      <3>1. PICK x : S = {x}
        BY <2>2
      <3> QED
        BY <2>2, <3>1, FS_Singleton
    <2> QED
      BY <2>1, <2>2
  <1>2. \E f \in [1 .. n -> S] : IsInjective(f)
    <2>1. CASE S = {}
      <3> DEFINE f == [i \in 1 .. n |-> i]
      <3>1. f \in [1 .. n -> S] /\ IsInjective(f)
        BY <2>1 DEF IsInjective
      <3> HIDE DEF f
      <3> QED
        BY <3>1
    <2>2. CASE S # {}
      <3>1. PICK x : x \in S
        BY <2>2
      <3> DEFINE f == [i \in 1 .. n |-> x]
      <3>2. f \in [1 .. n -> S] /\ IsInjective(f)
        BY <2>2, <3>1 DEF IsInjective
      <3> HIDE DEF f
      <3> QED
        BY <3>2
    <2> QED
      BY <2>1, <2>2
  <1>3. SetToSeq(S) \in [1 .. n -> S]
    BY <1>1, <1>2 DEF SetToSeq
  <1>4. n \in Nat
    OBVIOUS
  <1> HIDE DEF n
  <1>5. SetToSeq(S) \in Seq(S) /\ Len(SetToSeq(S)) = n
    BY <1>3, <1>4
  <1> QED
    BY <1>5 DEF n

-----------------------------------------------------------------------------
(* The loops are defined: each turn follows from the one before *)

TxRec == [prices : Seq(Prices), first : Nat, last : Nat]
Acc == [upds : Seq(Prices), from : Nat, txs : Seq(TxRec)]
Acc0 == [upds |-> <<>>, from |-> 1, txs |-> <<>>]

\* What price::send has at hand, before the first turn and after any.
LEMMA StepTyped ==
    /\ Acc0 \in Acc
    /\ \A q \in Seq(Prices) : \A x \in Acc, i \in 1 .. Len(q) : BatchStep(q, x, i) \in Acc
  <1>1. Acc0 \in Acc
    <2>1. <<>> \in Seq(Prices) /\ <<>> \in Seq(TxRec)
      OBVIOUS
    <2> QED
      BY <2>1 DEF Acc0, Acc
  <1>2. ASSUME NEW q \in Seq(Prices), NEW x \in Acc, NEW i \in 1 .. Len(q)
        PROVE  BatchStep(q, x, i) \in Acc
    <2> DEFINE u == Append(x.upds, q[i])
               r == [prices |-> u, first |-> x.from, last |-> i]
               t == Append(x.txs, r)
    <2>1. x.upds \in Seq(Prices) /\ x.from \in Nat /\ x.txs \in Seq(TxRec) /\ q[i] \in Prices
      BY DEF Acc
    <2>2. u \in Seq(Prices) /\ i \in Nat /\ i + 1 \in Nat
      BY <2>1
    <2> HIDE DEF u
    <2>3. r \in TxRec
      BY <2>1, <2>2 DEF TxRec
    <2> HIDE DEF r
    <2>4. t \in Seq(TxRec)
      BY <2>1, <2>3
    <2> HIDE DEF t
    <2>5. <<>> \in Seq(Prices)
      OBVIOUS
    <2>6. [upds |-> <<>>, from |-> i + 1, txs |-> t] \in Acc
      BY <2>2, <2>4, <2>5 DEF Acc
    <2>7. [x EXCEPT !.upds = u] \in Acc
      BY <2>2 DEF Acc
    <2>8. BatchStep(q, x, i) \in {x, [upds |-> <<>>, from |-> i + 1, txs |-> t], [x EXCEPT !.upds = u]}
      BY DEF BatchStep, t, r, u
    <2> QED
      BY <2>6, <2>7, <2>8
  <1> QED
    BY <1>1, <1>2

\* price::send's loop.
LEMMA SendLoopIs ==
    ASSUME NEW q \in Seq(Prices)
    PROVE  /\ SendLoop(q)[0] = Acc0
           /\ \A i \in 1 .. Len(q) : SendLoop(q)[i] = BatchStep(q, SendLoop(q)[i - 1], i)
  <1> DEFINE N == Len(q)
             G == [x \in Acc \X (1 .. N) |-> BatchStep(q, x[1], x[2])]
             Is(f) == f = [i \in 0 .. N |-> IF i = 0 THEN [upds |-> <<>>, from |-> 1, txs |-> <<>>]
                                            ELSE BatchStep(q, f[i - 1], i)]
  <1>1. N \in Nat
    OBVIOUS
  <1>2. G \in [Acc \X (1 .. N) -> Acc]
    BY StepTyped
  <1>3. PICK f \in [0 .. N -> Acc] : Loops(f, N, Acc0, G)
    <2> HIDE DEF G, N
    <2> QED
      BY <1>1, <1>2, StepTyped, LoopDefined
  <1>4. \A i \in 1 .. N : f[i] = BatchStep(q, f[i - 1], i)
    <2> TAKE i \in 1 .. N
    <2>1. i - 1 \in 0 .. N
      BY <1>1
    <2>2. f[i - 1] \in Acc
      BY <1>3, <2>1
    <2>3. <<f[i - 1], i>> \in Acc \X (1 .. N)
      BY <2>2
    <2>4. G[<<f[i - 1], i>>] = BatchStep(q, f[i - 1], i)
      BY <2>3
    <2> QED
      BY <1>3, <2>4 DEF Loops
  <1>5. Is(f)
    <2> DEFINE g == [i \in 0 .. N |-> IF i = 0 THEN Acc0 ELSE BatchStep(q, f[i - 1], i)]
    <2>1. \A i \in 0 .. N : f[i] = g[i]
      BY <1>1, <1>3, <1>4 DEF Loops
    <2>2. f = g
      BY <1>3, <2>1
    <2> QED
      BY <2>2 DEF Acc0
  <1>6. SendLoop(q) = CHOOSE g : Is(g)
    BY DEF SendLoop
  <1>7. Is(CHOOSE g : Is(g))
    <2> HIDE DEF Is
    <2> QED
      BY <1>5
  <1>8. Is(SendLoop(q))
    BY <1>6, <1>7
  <1> HIDE DEF G
  <1>9. \A i \in 0 .. N : SendLoop(q)[i] = IF i = 0 THEN Acc0 ELSE BatchStep(q, SendLoop(q)[i - 1], i)
    BY <1>8 DEF Acc0
  <1> QED
    BY <1>1, <1>9

\* The prices that can be published.
LEMMA PublishableIs ==
    ASSUME NEW q \in Seq(Prices)
    PROVE  /\ PublishableUpTo(q)[0] = <<>>
           /\ \A i \in 1 .. Len(q) :
                 PublishableUpTo(q)[i] = IF CanPublish(q[i]) THEN Append(PublishableUpTo(q)[i - 1], q[i])
                                         ELSE PublishableUpTo(q)[i - 1]
  <1> DEFINE N == Len(q)
             D == Seq(Prices)
             Turn(x, i) == IF CanPublish(q[i]) THEN Append(x, q[i]) ELSE x
             G == [x \in D \X (1 .. N) |-> Turn(x[1], x[2])]
             Is(f) == f = [i \in 0 .. N |-> IF i = 0 THEN <<>>
                                            ELSE IF CanPublish(q[i]) THEN Append(f[i - 1], q[i])
                                            ELSE f[i - 1]]
  <1>1. N \in Nat
    OBVIOUS
  <1>2. G \in [D \X (1 .. N) -> D]
    <2>1. \A x \in D, i \in 1 .. N : Turn(x, i) \in D
      OBVIOUS
    <2> HIDE DEF D, Turn
    <2> QED
      BY <2>1
  <1>3. PICK f \in [0 .. N -> D] : Loops(f, N, <<>>, G)
    <2>1. <<>> \in D
      OBVIOUS
    <2> HIDE DEF G, N, D
    <2> QED
      BY <1>1, <1>2, <2>1, LoopDefined
  <1>4. \A i \in 1 .. N : f[i] = Turn(f[i - 1], i)
    <2> TAKE i \in 1 .. N
    <2> HIDE DEF Turn, D
    <2>1. i - 1 \in 0 .. N
      BY <1>1
    <2>2. f[i - 1] \in D
      BY <1>3, <2>1
    <2>3. <<f[i - 1], i>> \in D \X (1 .. N)
      BY <2>2
    <2>4. G[<<f[i - 1], i>>] = Turn(f[i - 1], i)
      BY <2>3
    <2> QED
      BY <1>3, <2>4 DEF Loops
  <1>5. Is(f)
    <2> DEFINE g == [i \in 0 .. N |-> IF i = 0 THEN <<>> ELSE Turn(f[i - 1], i)]
    <2>1. \A i \in 0 .. N : f[i] = g[i]
      <3> HIDE DEF Turn
      <3> QED
        BY <1>1, <1>3, <1>4 DEF Loops
    <2>2. f = g
      <3> HIDE DEF Turn, D
      <3> QED
        BY <1>3, <2>1
    <2> QED
      BY <2>2
  <1>6. PublishableUpTo(q) = CHOOSE g : Is(g)
    BY DEF PublishableUpTo
  <1>7. Is(CHOOSE g : Is(g))
    <2> HIDE DEF Is
    <2> QED
      BY <1>5
  <1>8. Is(PublishableUpTo(q))
    BY <1>6, <1>7
  <1> HIDE DEF G
  <1>9. \A i \in 0 .. N :
          PublishableUpTo(q)[i] = IF i = 0 THEN <<>>
                                  ELSE IF CanPublish(q[i]) THEN Append(PublishableUpTo(q)[i - 1], q[i])
                                  ELSE PublishableUpTo(q)[i - 1]
    BY <1>8
  <1> QED
    BY <1>1, <1>9

\* The prices of a list of transactions.
LEMMA ConcatIs ==
    ASSUME NEW txs \in Seq(TxRec)
    PROVE  /\ ConcatUpTo(txs)[0] = <<>>
           /\ \A t \in 1 .. Len(txs) : ConcatUpTo(txs)[t] = ConcatUpTo(txs)[t - 1] \o txs[t].prices
           /\ \A t \in 0 .. Len(txs) : ConcatUpTo(txs)[t] \in Seq(Prices)
  <1> DEFINE N == Len(txs)
             D == Seq(Prices)
             Turn(x, t) == x \o txs[t].prices
             G == [x \in D \X (1 .. N) |-> Turn(x[1], x[2])]
             Is(f) == f = [t \in 0 .. N |-> IF t = 0 THEN <<>> ELSE f[t - 1] \o txs[t].prices]
             c == ConcatUpTo(txs)
  <1>1. N \in Nat
    OBVIOUS
  <1>2. \A x \in D, t \in 1 .. N : Turn(x, t) \in D
    <2> TAKE x \in D, t \in 1 .. N
    <2>1. txs[t] \in TxRec
      OBVIOUS
    <2>2. txs[t].prices \in Seq(Prices)
      BY <2>1 DEF TxRec
    <2> QED
      BY <2>2
  <1>3. G \in [D \X (1 .. N) -> D]
    <2> HIDE DEF D, Turn
    <2> QED
      BY <1>2
  <1>4. PICK f \in [0 .. N -> D] : Loops(f, N, <<>>, G)
    <2>1. <<>> \in D
      OBVIOUS
    <2> HIDE DEF G, N, D
    <2> QED
      BY <1>1, <1>3, <2>1, LoopDefined
  <1>5. \A t \in 1 .. N : f[t] = Turn(f[t - 1], t)
    <2> TAKE t \in 1 .. N
    <2> HIDE DEF Turn, D
    <2>1. t - 1 \in 0 .. N
      BY <1>1
    <2>2. f[t - 1] \in D
      BY <1>4, <2>1
    <2>3. <<f[t - 1], t>> \in D \X (1 .. N)
      BY <2>2
    <2>4. G[<<f[t - 1], t>>] = Turn(f[t - 1], t)
      BY <2>3
    <2> QED
      BY <1>4, <2>4 DEF Loops
  <1>6. Is(f)
    <2> DEFINE g == [t \in 0 .. N |-> IF t = 0 THEN <<>> ELSE Turn(f[t - 1], t)]
    <2>1. \A t \in 0 .. N : f[t] = g[t]
      <3> HIDE DEF Turn
      <3> QED
        BY <1>1, <1>4, <1>5 DEF Loops
    <2>2. f = g
      <3> HIDE DEF Turn, D
      <3> QED
        BY <1>4, <2>1
    <2> QED
      BY <2>2
  <1>7. c = CHOOSE g : Is(g)
    BY DEF ConcatUpTo
  <1>8. Is(CHOOSE g : Is(g))
    <2> HIDE DEF Is
    <2> QED
      BY <1>6
  <1>9. Is(c)
    BY <1>7, <1>8
  <1> HIDE DEF G, c
  <1>10. /\ c[0] = <<>>
         /\ \A t \in 1 .. N : c[t] = Turn(c[t - 1], t)
    <2>1. \A t \in 0 .. N : c[t] = IF t = 0 THEN <<>> ELSE Turn(c[t - 1], t)
      BY <1>9
    <2> HIDE DEF Turn
    <2> QED
      BY <1>1, <2>1
  <1>11. 0 .. N \subseteq {t \in 0 .. N : c[t] \in D}
    <2> DEFINE S == {t \in 0 .. N : c[t] \in D}
    <2>1. 0 \in S
      <3>1. <<>> \in D /\ 0 \in 0 .. N
        BY <1>1
      <3> QED
        BY <1>10, <3>1
    <2>2. ASSUME NEW n \in 0 .. N - 1, n \in S PROVE n + 1 \in S
      <3>1. n + 1 \in 1 .. N /\ n + 1 \in 0 .. N /\ (n + 1) - 1 = n
        BY <1>1
      <3>2. c[n + 1] = Turn(c[n], n + 1) /\ c[n] \in D
        BY <1>10, <2>2, <3>1
      <3> HIDE DEF D, Turn
      <3> QED
        BY <1>2, <3>1, <3>2
    <2>3. 0 .. N \subseteq S
      <3> HIDE DEF S
      <3> QED
        BY <1>1, <2>1, <2>2, UpTo
    <2> QED
      BY <2>3
  <1> QED
    BY <1>10, <1>11 DEF c

\* One more transaction.
LEMMA ConcatAppend ==
    ASSUME NEW txs \in Seq(TxRec), NEW x \in TxRec
    PROVE  /\ Concat(<<>>) = <<>> /\ Concat(txs) \in Seq(Prices)
           /\ Concat(Append(txs, x)) = Concat(txs) \o x.prices
  <1> DEFINE N == Len(txs)
             more == Append(txs, x)
             c == ConcatUpTo(txs)
             d == ConcatUpTo(more)
  <1>1. N \in Nat /\ more \in Seq(TxRec) /\ Len(more) = N + 1 /\ more[N + 1] = x
        /\ \A t \in 1 .. N : more[t] = txs[t]
    OBVIOUS
  <1>2. Concat(<<>>) = <<>>
    <2>1. <<>> \in Seq(TxRec) /\ Len(<<>>) = 0
      OBVIOUS
    <2> QED
      BY <2>1, ConcatIs DEF Concat
  <1>3. Concat(txs) = c[N] /\ Concat(more) = d[N + 1]
    BY <1>1 DEF Concat
  <1>4. /\ c[0] = <<>> /\ c[N] \in Seq(Prices)
        /\ \A t \in 1 .. N : c[t] = c[t - 1] \o txs[t].prices
    <2>1. N \in 0 .. N
      BY <1>1
    <2> QED
      BY <2>1, ConcatIs
  <1>5. /\ d[0] = <<>>
        /\ \A t \in 1 .. N + 1 : d[t] = d[t - 1] \o more[t].prices
    <2> HIDE DEF more
    <2> QED
      BY <1>1, ConcatIs
  <1> HIDE DEF c, d, more
  <1>6. 0 .. N \subseteq {t \in 0 .. N : c[t] = d[t]}
    <2> DEFINE S == {t \in 0 .. N : c[t] = d[t]}
    <2>1. 0 \in S
      BY <1>1, <1>4, <1>5
    <2>2. ASSUME NEW n \in 0 .. N - 1, n \in S PROVE n + 1 \in S
      <3>1. n + 1 \in 1 .. N /\ n + 1 \in 1 .. N + 1 /\ n + 1 \in 0 .. N /\ (n + 1) - 1 = n
        BY <1>1
      <3>2. c[n + 1] = c[n] \o txs[n + 1].prices
        BY <1>4, <3>1
      <3>3. d[n + 1] = d[n] \o more[n + 1].prices
        BY <1>5, <3>1
      <3>4. more[n + 1] = txs[n + 1] /\ c[n] = d[n]
        BY <1>1, <2>2, <3>1
      <3> QED
        BY <3>1, <3>2, <3>3, <3>4
    <2>3. 0 .. N \subseteq S
      <3> HIDE DEF S
      <3> QED
        BY <1>1, <2>1, <2>2, UpTo
    <2> QED
      BY <2>3
  <1>7. d[N + 1] = d[N] \o x.prices
    <2>1. N + 1 \in 1 .. N + 1 /\ (N + 1) - 1 = N
      BY <1>1
    <2> QED
      BY <1>1, <1>5, <2>1
  <1>8. c[N] = d[N]
    BY <1>1, <1>6
  <1> QED
    BY <1>2, <1>3, <1>4, <1>7, <1>8 DEF more

-----------------------------------------------------------------------------
(* What price::send's loop keeps true *)

\* Prices of the call that can be published.
Good(q) == {q[k] : k \in {j \in 1 .. Len(q) : CanPublish(q[j])}}

\* Only those are taken.
TakesGood(q, i) ==
    LET x == SendLoop(q)[i]
    IN  /\ x \in Acc /\ x.upds \in Seq(Good(q)) /\ PublishableUpTo(q)[i] \in Seq(Good(q))
        /\ \A t \in DOMAIN x.txs : x.txs[t].prices \in Seq(Good(q))

\* The transactions and upds_ hold, in order, what can be published of the
\* prices seen so far; the transactions are full.
TakesAll(q, i) ==
    LET x == SendLoop(q)[i]
    IN  /\ Concat(x.txs) \o x.upds = PublishableUpTo(q)[i]
        /\ Len(x.upds) < max_batch_
        /\ i = Len(q) /\ i # 0 /\ CanPublish(q[i]) => x.upds = <<>>
        /\ \A t \in DOMAIN x.txs :
              /\ Len(x.txs[t].prices) \in 1 .. max_batch_
              /\ i < Len(q) \/ t # Len(x.txs) => Len(x.txs[t].prices) = max_batch_

\* Each transaction ends with the price at its last position, and no two end
\* at the same.
EndsApart(q, i) ==
    LET x == SendLoop(q)[i]
    IN  /\ x.from \in 1 .. i + 1
        /\ \A t \in DOMAIN x.txs :
              /\ x.txs[t].first >= 1 /\ x.txs[t].first <= x.txs[t].last /\ x.txs[t].last <= i
              /\ x.txs[t].prices # <<>> /\ Last(x.txs[t].prices) = q[x.txs[t].last]
        /\ \A t, u \in DOMAIN x.txs : x.txs[t].last = x.txs[u].last => t = u

\* What a turn does: the price is skipped, taken, or taken and the batch sent.
Skipped(q, i, x, y) ==
    ~ CanPublish(q[i]) /\ y = x /\ PublishableUpTo(q)[i] = PublishableUpTo(q)[i - 1]

Taken(q, i, x, y) ==
    /\ CanPublish(q[i]) /\ PublishableUpTo(q)[i] = Append(PublishableUpTo(q)[i - 1], q[i])
    /\ Len(x.upds) + 1 < max_batch_ /\ i # Len(q)
    /\ y.upds = Append(x.upds, q[i]) /\ y.from = x.from /\ y.txs = x.txs

BatchOf(q, i, x) == [prices |-> Append(x.upds, q[i]), first |-> x.from, last |-> i]

BatchSent(q, i, x, y) ==
    /\ CanPublish(q[i]) /\ PublishableUpTo(q)[i] = Append(PublishableUpTo(q)[i - 1], q[i])
    /\ Len(x.upds) + 1 >= max_batch_ \/ i = Len(q)
    /\ y.upds = <<>> /\ y.from = i + 1 /\ y.txs = Append(x.txs, BatchOf(q, i, x))

\* These are all there are.
LEMMA TurnCases ==
    ASSUME NEW q \in Seq(Prices), NEW i \in 1 .. Len(q), NEW x, NEW y,
           x = SendLoop(q)[i - 1], y = SendLoop(q)[i], x \in Acc
    PROVE  /\ Skipped(q, i, x, y) \/ Taken(q, i, x, y) \/ BatchSent(q, i, x, y)
           /\ y \in Acc
  <1> DEFINE u == Append(x.upds, q[i])
             sel == PublishableUpTo(q)
  <1>1. y = BatchStep(q, x, i)
    BY SendLoopIs
  <1>2. sel[i] = IF CanPublish(q[i]) THEN Append(sel[i - 1], q[i]) ELSE sel[i - 1]
    BY PublishableIs
  <1>3. y \in Acc
    BY <1>1, StepTyped
  <1>4. Len(u) = Len(x.upds) + 1 /\ Len(u) \in Nat /\ max_batch_ \in Nat
    <2>1. x.upds \in Seq(Prices) /\ q[i] \in Prices
      BY DEF Acc
    <2> QED
      BY <2>1, BatchAssumption
  <1>5. CASE ~ CanPublish(q[i])
    <2>1. y = x
      BY <1>1, <1>5 DEF BatchStep
    <2> QED
      BY <1>2, <1>3, <1>5, <2>1 DEF Skipped
  <1>6. CASE CanPublish(q[i]) /\ (Len(u) >= max_batch_ \/ i = Len(q))
    <2>1. y = [upds |-> <<>>, from |-> i + 1, txs |-> Append(x.txs, BatchOf(q, i, x))]
      BY <1>1, <1>6 DEF BatchStep, BatchOf
    <2>2. y.upds = <<>> /\ y.from = i + 1 /\ y.txs = Append(x.txs, BatchOf(q, i, x))
      BY <2>1
    <2> HIDE DEF u
    <2> QED
      BY <1>2, <1>3, <1>4, <1>6, <2>2 DEF BatchSent
  <1>7. CASE CanPublish(q[i]) /\ ~ (Len(u) >= max_batch_ \/ i = Len(q))
    <2>1. y = [x EXCEPT !.upds = u]
      BY <1>1, <1>7 DEF BatchStep
    <2>2. Len(x.upds) + 1 < max_batch_ /\ i # Len(q)
      BY <1>4, <1>7
    <2> HIDE DEF u
    <2>3. y.upds = u /\ y.from = x.from /\ y.txs = x.txs
      BY <2>1 DEF Acc
    <2> QED
      BY <1>2, <1>3, <1>7, <2>2, <2>3 DEF u, Taken
  <1> QED
    BY <1>5, <1>6, <1>7

\* A turn takes a price that can be published, or none.
LEMMA TurnTakesGood ==
    ASSUME NEW q \in Seq(Prices), NEW i \in 1 .. Len(q), TakesGood(q, i - 1)
    PROVE  TakesGood(q, i)
  <1> DEFINE x == SendLoop(q)[i - 1]
             y == SendLoop(q)[i]
             sel == PublishableUpTo(q)
             G == Good(q)
             r == BatchOf(q, i, x)
  <1>1. /\ x \in Acc /\ x.upds \in Seq(G) /\ sel[i - 1] \in Seq(G)
        /\ \A t \in DOMAIN x.txs : x.txs[t].prices \in Seq(G)
    BY DEF TakesGood
  <1>2. CanPublish(q[i]) => q[i] \in G
    BY DEF Good
  <1>3. x.txs \in Seq(TxRec)
    BY <1>1 DEF Acc
  <1>4. (Skipped(q, i, x, y) \/ Taken(q, i, x, y) \/ BatchSent(q, i, x, y)) /\ y \in Acc
    BY <1>1, TurnCases
  <1> SUFFICES /\ y.upds \in Seq(G) /\ sel[i] \in Seq(G)
               /\ \A t \in DOMAIN y.txs : y.txs[t].prices \in Seq(G)
    BY <1>4 DEF TakesGood
  <1> HIDE DEF x, y, G
  <1>5. CASE Skipped(q, i, x, y)
    BY <1>1, <1>5 DEF Skipped
  <1>6. CASE Taken(q, i, x, y)
    <2>1. Append(x.upds, q[i]) \in Seq(G) /\ Append(sel[i - 1], q[i]) \in Seq(G)
      BY <1>1, <1>2, <1>6 DEF Taken
    <2> QED
      BY <1>1, <1>6, <2>1 DEF Taken
  <1>7. CASE BatchSent(q, i, x, y)
    <2>1. Append(x.upds, q[i]) \in Seq(G) /\ Append(sel[i - 1], q[i]) \in Seq(G)
      BY <1>1, <1>2, <1>7 DEF BatchSent
    <2>2. r.prices = Append(x.upds, q[i])
      BY DEF BatchOf
    <2>3. y.upds = <<>> /\ sel[i] = Append(sel[i - 1], q[i]) /\ y.txs = Append(x.txs, r)
      BY <1>7 DEF BatchSent
    <2> HIDE DEF r
    <2>4. ASSUME NEW t \in DOMAIN Append(x.txs, r) PROVE Append(x.txs, r)[t].prices \in Seq(G)
      <3>1. Append(x.txs, r)[t] = r \/ (t \in DOMAIN x.txs /\ Append(x.txs, r)[t] = x.txs[t])
        BY <1>3
      <3> QED
        BY <1>1, <2>1, <2>2, <3>1
    <2>5. <<>> \in Seq(G)
      OBVIOUS
    <2> QED
      BY <2>1, <2>3, <2>4, <2>5
  <1> QED
    BY <1>4, <1>5, <1>6, <1>7

\* Sequences put together in two orders.
LEMMA ConcatSeqs ==
    ASSUME NEW X, NEW s \in Seq(X), NEW t \in Seq(X), NEW e \in X
    PROVE  /\ s \o Append(t, e) = Append(s \o t, e)
           /\ s \o <<>> = s /\ <<>> \o s = s
           /\ s \o t \in Seq(X) /\ Len(s \o t) = Len(s) + Len(t)
  OBVIOUS

\* A turn keeps the order, and loses nothing that can be published.
LEMMA TurnTakesAll ==
    ASSUME NEW q \in Seq(Prices), NEW i \in 1 .. Len(q), TakesGood(q, i - 1), TakesAll(q, i - 1)
    PROVE  TakesAll(q, i)
  <1> DEFINE x == SendLoop(q)[i - 1]
             y == SendLoop(q)[i]
             sel == PublishableUpTo(q)
             r == BatchOf(q, i, x)
             Full(z, j) == \A t \in DOMAIN z.txs :
                              /\ Len(z.txs[t].prices) \in 1 .. max_batch_
                              /\ j < Len(q) \/ t # Len(z.txs) => Len(z.txs[t].prices) = max_batch_
  <1>1. x \in Acc /\ x.upds \in Seq(Prices) /\ x.txs \in Seq(TxRec) /\ q[i] \in Prices
    BY DEF TakesGood, Acc
  <1>2. /\ Concat(x.txs) \o x.upds = sel[i - 1] /\ Len(x.upds) < max_batch_
        /\ \A t \in DOMAIN x.txs : Len(x.txs[t].prices) = max_batch_
    <2>1. i - 1 < Len(q)
      OBVIOUS
    <2> QED
      BY <2>1 DEF TakesAll
  <1>3. max_batch_ \in Nat \ {0} /\ Len(x.upds) \in Nat /\ i \in Nat /\ Len(q) \in Nat
    BY <1>1, BatchAssumption
  <1>4. Skipped(q, i, x, y) \/ Taken(q, i, x, y) \/ BatchSent(q, i, x, y)
    BY <1>1, TurnCases
  <1>5. Concat(x.txs) \in Seq(Prices)
    <2>1. PICK z \in TxRec : TRUE
      <3>1. [prices |-> <<>>, first |-> 0, last |-> 0] \in TxRec
        BY DEF TxRec
      <3> QED
        BY <3>1
    <2> QED
      BY <1>1, ConcatAppend
  <1>6. Concat(x.txs) \o Append(x.upds, q[i]) = Append(sel[i - 1], q[i])
    <2> DEFINE c == Concat(x.txs)
               u == x.upds
    <2>1. c \in Seq(Prices) /\ u \in Seq(Prices)
      BY <1>1, <1>5
    <2> HIDE DEF c, u
    <2>2. c \o Append(u, q[i]) = Append(c \o u, q[i])
      BY <1>1, <2>1, ConcatSeqs
    <2> QED
      BY <1>2, <2>2 DEF c, u
  <1> SUFFICES /\ Concat(y.txs) \o y.upds = sel[i] /\ Len(y.upds) < max_batch_
               /\ i = Len(q) /\ CanPublish(q[i]) => y.upds = <<>>
               /\ Full(y, i)
    BY DEF TakesAll
  <1> HIDE DEF x, y
  <1>7. CASE Skipped(q, i, x, y)
    <2>1. y = x /\ ~ CanPublish(q[i]) /\ sel[i] = sel[i - 1]
      BY <1>7 DEF Skipped
    <2>2. Full(x, i)
      BY <1>2, <1>3
    <2> HIDE DEF Full
    <2> QED
      BY <1>2, <2>1, <2>2
  <1>8. CASE Taken(q, i, x, y)
    <2>1. /\ y.upds = Append(x.upds, q[i]) /\ y.txs = x.txs /\ i # Len(q)
          /\ sel[i] = Append(sel[i - 1], q[i]) /\ Len(x.upds) + 1 < max_batch_
      BY <1>8 DEF Taken
    <2>2. Full(y, i)
      BY <1>2, <1>3, <2>1
    <2>3. Len(Append(x.upds, q[i])) = Len(x.upds) + 1
      BY <1>1
    <2> HIDE DEF Full
    <2> QED
      BY <1>6, <2>1, <2>2, <2>3
  <1>9. CASE BatchSent(q, i, x, y)
    <2>1. /\ y.upds = <<>> /\ y.txs = Append(x.txs, r)
          /\ sel[i] = Append(sel[i - 1], q[i]) /\ (Len(x.upds) + 1 >= max_batch_ \/ i = Len(q))
      BY <1>9 DEF BatchSent
    <2>2. r \in TxRec /\ r.prices = Append(x.upds, q[i])
      <3>1. Append(x.upds, q[i]) \in Seq(Prices) /\ x.from \in Nat
        BY <1>1 DEF Acc
      <3> QED
        BY <1>3, <3>1 DEF BatchOf, TxRec
    <2>3. Len(r.prices) = Len(x.upds) + 1
      BY <1>1, <2>2
    <2> HIDE DEF r
    <2>4. Full(y, i)
      <3> SUFFICES ASSUME NEW t \in DOMAIN Append(x.txs, r)
                   PROVE  /\ Len(Append(x.txs, r)[t].prices) \in 1 .. max_batch_
                          /\ i < Len(q) \/ t # Len(Append(x.txs, r)) =>
                                Len(Append(x.txs, r)[t].prices) = max_batch_
        BY <2>1
      <3>1. CASE t = Len(Append(x.txs, r))
        <4>1. Append(x.txs, r)[t] = r
          BY <1>1, <2>2, <3>1
        <4>2. Len(r.prices) \in 1 .. max_batch_ /\ (i < Len(q) => Len(r.prices) = max_batch_)
          BY <1>2, <1>3, <2>1, <2>3
        <4> QED
          BY <3>1, <4>1, <4>2
      <3>2. CASE t # Len(Append(x.txs, r))
        <4>1. t \in DOMAIN x.txs /\ Append(x.txs, r)[t] = x.txs[t]
          BY <1>1, <2>2, <3>2
        <4> QED
          BY <1>2, <1>3, <4>1
      <3> QED
        BY <3>1, <3>2
    <2>5. Concat(y.txs) \o y.upds = sel[i]
      <3>1. Concat(y.txs) = Concat(x.txs) \o Append(x.upds, q[i])
        BY <1>1, <2>1, <2>2, ConcatAppend
      <3>2. Append(x.upds, q[i]) \in Seq(Prices)
        BY <1>1
      <3>3. Concat(x.txs) \o Append(x.upds, q[i]) \in Seq(Prices)
        BY <1>1, <1>5, <3>2, ConcatSeqs
      <3>4. Concat(y.txs) \o <<>> = Concat(y.txs)
        BY <1>1, <3>1, <3>3, ConcatSeqs
      <3> QED
        BY <1>6, <2>1, <3>1, <3>4
    <2>6. Len(<<>>) = 0
      OBVIOUS
    <2> HIDE DEF Full
    <2> QED
      BY <1>3, <2>1, <2>4, <2>5, <2>6
  <1> QED
    BY <1>4, <1>7, <1>8, <1>9

\* A turn that sends ends its transaction at the price it takes.
LEMMA TurnEndsApart ==
    ASSUME NEW q \in Seq(Prices), NEW i \in 1 .. Len(q), TakesGood(q, i - 1), EndsApart(q, i - 1)
    PROVE  EndsApart(q, i)
  <1> DEFINE x == SendLoop(q)[i - 1]
             y == SendLoop(q)[i]
             r == BatchOf(q, i, x)
             Ends(z, j) == /\ z.first >= 1 /\ z.first <= z.last /\ z.last <= j
                           /\ z.prices # <<>> /\ Last(z.prices) = q[z.last]
  <1>1. x \in Acc /\ x.upds \in Seq(Prices) /\ x.txs \in Seq(TxRec) /\ q[i] \in Prices
    BY DEF TakesGood, Acc
  <1>2. /\ x.from \in 1 .. i
        /\ \A t \in DOMAIN x.txs : Ends(x.txs[t], i - 1)
        /\ \A t, u \in DOMAIN x.txs : x.txs[t].last = x.txs[u].last => t = u
    <2>1. (i - 1) + 1 = i
      OBVIOUS
    <2> QED
      BY <2>1 DEF EndsApart
  <1>3. \A t \in DOMAIN x.txs : Ends(x.txs[t], i) /\ x.txs[t].last # i
    <2> TAKE t \in DOMAIN x.txs
    <2>1. x.txs[t] \in TxRec
      BY <1>1
    <2>2. x.txs[t].last \in Nat
      BY <2>1 DEF TxRec
    <2> QED
      BY <1>2, <2>2
  <1>4. Skipped(q, i, x, y) \/ Taken(q, i, x, y) \/ BatchSent(q, i, x, y)
    BY <1>1, TurnCases
  <1> SUFFICES /\ y.from \in 1 .. i + 1
               /\ \A t \in DOMAIN y.txs : Ends(y.txs[t], i)
               /\ \A t, u \in DOMAIN y.txs : y.txs[t].last = y.txs[u].last => t = u
    BY DEF EndsApart
  <1> HIDE DEF x, y
  <1>5. CASE y.from = x.from /\ y.txs = x.txs
    <2>1. y.from \in 1 .. i + 1
      BY <1>2, <1>5
    <2> HIDE DEF Ends
    <2> QED
      BY <1>2, <1>3, <1>5, <2>1
  <1>6. CASE BatchSent(q, i, x, y)
    <2>1. y.from = i + 1 /\ y.txs = Append(x.txs, r)
      BY <1>6 DEF BatchSent
    <2>2. r \in TxRec /\ r.prices = Append(x.upds, q[i]) /\ r.first = x.from /\ r.last = i
      <3>1. Append(x.upds, q[i]) \in Seq(Prices) /\ x.from \in Nat
        BY <1>1 DEF Acc
      <3> QED
        BY <3>1 DEF BatchOf, TxRec
    <2>3. Append(x.upds, q[i]) # <<>> /\ Last(Append(x.upds, q[i])) = q[i]
      BY <1>1 DEF Last
    <2> HIDE DEF r
    <2>4. Ends(r, i)
      BY <1>2, <2>2, <2>3
    <2>5. \A t \in DOMAIN y.txs :
             \/ t = Len(x.txs) + 1 /\ y.txs[t] = r
             \/ t \in DOMAIN x.txs /\ y.txs[t] = x.txs[t]
      BY <1>1, <2>1, <2>2
    <2> HIDE DEF Ends
    <2>6. \A t \in DOMAIN y.txs : Ends(y.txs[t], i)
      BY <1>3, <2>4, <2>5
    <2>7. \A t, u \in DOMAIN y.txs : y.txs[t].last = y.txs[u].last => t = u
      BY <1>2, <1>3, <2>2, <2>5
    <2> QED
      BY <2>1, <2>6, <2>7
  <1> QED
    BY <1>4, <1>5, <1>6 DEF Skipped, Taken

\* The loop keeps all of these to its end.
LEMMA LoopSound ==
    ASSUME NEW q \in Seq(Prices)
    PROVE  TakesGood(q, Len(q)) /\ TakesAll(q, Len(q)) /\ EndsApart(q, Len(q))
  <1> DEFINE N == Len(q)
             S == {i \in 0 .. N : TakesGood(q, i) /\ TakesAll(q, i) /\ EndsApart(q, i)}
             a == SendLoop(q)[0]
  <1>1. N \in Nat
    OBVIOUS
  <1>2. 0 \in S
    <2>1. SendLoop(q)[0] = Acc0 /\ PublishableUpTo(q)[0] = <<>>
      BY SendLoopIs, PublishableIs
    <2>2. a.upds = <<>> /\ a.from = 1 /\ a.txs = <<>> /\ a \in Acc
      BY <2>1, StepTyped DEF Acc0
    <2>3. Concat(<<>>) = <<>>
      <3>1. <<>> \in Seq(TxRec) /\ [prices |-> <<>>, first |-> 0, last |-> 0] \in TxRec
        BY DEF TxRec
      <3> QED
        BY <3>1, ConcatAppend
    <2>4. /\ DOMAIN <<>> = {} /\ Len(<<>>) = 0 /\ <<>> \o <<>> = <<>>
          /\ <<>> \in Seq(Good(q))
      OBVIOUS
    <2> HIDE DEF a
    <2>5. TakesGood(q, 0)
      BY <2>1, <2>2, <2>4 DEF TakesGood, a
    <2>6. TakesAll(q, 0)
      BY <2>1, <2>2, <2>3, <2>4, BatchAssumption DEF TakesAll, a
    <2>7. EndsApart(q, 0)
      BY <2>2, <2>4 DEF EndsApart, a
    <2> QED
      BY <1>1, <2>5, <2>6, <2>7
  <1>3. ASSUME NEW n \in 0 .. N - 1, n \in S PROVE n + 1 \in S
    <2>1. n + 1 \in 1 .. Len(q) /\ n + 1 \in 0 .. N /\ (n + 1) - 1 = n
      BY <1>1
    <2>2. TakesGood(q, (n + 1) - 1) /\ TakesAll(q, (n + 1) - 1) /\ EndsApart(q, (n + 1) - 1)
      BY <1>3, <2>1
    <2> QED
      BY <2>1, <2>2, TurnTakesGood, TurnTakesAll, TurnEndsApart
  <1>4. N \in S
    <2> HIDE DEF S
    <2>1. 0 .. N \subseteq S
      BY <1>1, <1>2, <1>3, UpTo
    <2> QED
      BY <1>1, <2>1
  <1> QED
    BY <1>4

\* What a call of price::send comes to.
LEMMA BatchesFacts ==
    ASSUME NEW q \in Seq(Prices), q # <<>>
    PROVE  LET txs == Batches(q)
               can == Publishable(q)
           IN  /\ txs \in Seq(TxRec) /\ can \in Seq(Good(q)) /\ Concat(txs) \in Seq(Good(q))
               /\ IsPrefix(Concat(txs), can)
               /\ Len(can) - Len(Concat(txs)) < max_batch_
               /\ CanPublish(Last(q)) => Concat(txs) = can
               /\ \A t \in DOMAIN txs :
                     /\ Len(txs[t].prices) \in (IF t = Len(txs) THEN 1 .. max_batch_ ELSE {max_batch_})
                     /\ txs[t].prices \in Seq(Good(q))
                     /\ txs[t].last \in txs[t].first .. txs[t].last /\ txs[t].last \in 1 .. Len(q)
                     /\ Last(txs[t].prices) = q[txs[t].last]
               /\ \A t, u \in DOMAIN txs : txs[t].last = txs[u].last => t = u
  <1> DEFINE N == Len(q)
             x == SendLoop(q)[N]
             txs == Batches(q)
             can == Publishable(q)
             cat == Concat(txs)
             G == Good(q)
  <1>1. txs = x.txs /\ can = PublishableUpTo(q)[N]
    BY DEF Batches, Publishable
  <1>2. /\ x \in Acc /\ x.upds \in Seq(G) /\ can \in Seq(G)
        /\ \A t \in DOMAIN txs : txs[t].prices \in Seq(G)
    BY <1>1, LoopSound DEF TakesGood
  <1>3. /\ cat \o x.upds = can /\ Len(x.upds) < max_batch_
        /\ CanPublish(q[N]) => x.upds = <<>>
        /\ \A t \in DOMAIN txs :
              /\ Len(txs[t].prices) \in 1 .. max_batch_
              /\ t # Len(txs) => Len(txs[t].prices) = max_batch_
    <2>1. N # 0
      OBVIOUS
    <2> QED
      BY <1>1, <2>1, LoopSound DEF TakesAll
  <1>4. /\ \A t \in DOMAIN txs :
              /\ txs[t].first >= 1 /\ txs[t].first <= txs[t].last /\ txs[t].last <= N
              /\ Last(txs[t].prices) = q[txs[t].last]
        /\ \A t, u \in DOMAIN txs : txs[t].last = txs[u].last => t = u
    BY <1>1, LoopSound DEF EndsApart
  <1>5. txs \in Seq(TxRec) /\ N \in Nat
    BY <1>1, <1>2 DEF Acc
  <1>6. cat \in Seq(Prices)
    <2>1. [prices |-> <<>>, first |-> 0, last |-> 0] \in TxRec
      BY DEF TxRec
    <2> HIDE DEF txs
    <2> QED
      BY <1>5, <2>1, ConcatAppend
  <1>7. G \subseteq Prices
    BY DEF Good
  <1>8. \A t \in DOMAIN txs :
           /\ txs[t].first \in Nat /\ txs[t].last \in Nat
           /\ txs[t].last \in txs[t].first .. txs[t].last /\ txs[t].last \in 1 .. N
    <2> TAKE t \in DOMAIN txs
    <2> HIDE DEF txs
    <2>1. txs[t] \in TxRec
      BY <1>5
    <2>2. txs[t].first \in Nat /\ txs[t].last \in Nat
      BY <2>1 DEF TxRec
    <2> QED
      BY <1>4, <1>5, <2>2
  <1>9. Last(q) = q[N]
    BY DEF Last
  <1>10. /\ IsPrefix(cat, can) /\ cat \in Seq(G)
         /\ Len(can) - Len(cat) = Len(x.upds)
         /\ x.upds = <<>> => cat = can
    <2> DEFINE u == x.upds
    <2>1. u \in Seq(Prices) /\ u \in Seq(G) /\ can \in Seq(G) /\ cat \o u = can
      BY <1>2, <1>3, <1>7
    <2> HIDE DEF u, cat, can, G, txs
    <2>2. Len(can) = Len(cat) + Len(u) /\ \A j \in 1 .. Len(cat) : can[j] = cat[j]
      BY <1>6, <2>1
    <2>3. Len(can) \in Nat /\ Len(cat) \in Nat /\ Len(u) \in Nat
      BY <1>6, <2>1
    <2>4. cat \in Seq(G)
      <3>1. \A j \in 1 .. Len(cat) : j \in 1 .. Len(can) /\ can[j] \in G
        BY <2>1, <2>2, <2>3
      <3>2. \A j \in 1 .. Len(cat) : cat[j] \in G
        BY <2>2, <3>1
      <3> QED
        BY <1>6, <3>2
    <2>5. IsPrefix(cat, can)
      BY <1>6, <2>1, <2>2, <2>3 DEF IsPrefix
    <2>6. u = <<>> => cat = can
      BY <1>6, <2>1
    <2> QED
      BY <2>2, <2>3, <2>4, <2>5, <2>6 DEF u
  <1> HIDE DEF txs, can, cat, G, x
  <1>11. \A t \in DOMAIN txs :
            Len(txs[t].prices) \in (IF t = Len(txs) THEN 1 .. max_batch_ ELSE {max_batch_})
    BY <1>3
  <1>12. /\ Len(can) - Len(cat) < max_batch_
         /\ CanPublish(Last(q)) => cat = can
    BY <1>3, <1>9, <1>10
  <1>13. /\ txs \in Seq(TxRec) /\ can \in Seq(G) /\ cat \in Seq(G)
         /\ IsPrefix(cat, can)
         /\ Len(can) - Len(cat) < max_batch_
         /\ CanPublish(Last(q)) => cat = can
         /\ \A t \in DOMAIN txs :
               /\ Len(txs[t].prices) \in (IF t = Len(txs) THEN 1 .. max_batch_ ELSE {max_batch_})
               /\ txs[t].prices \in Seq(G)
               /\ txs[t].last \in txs[t].first .. txs[t].last /\ txs[t].last \in 1 .. Len(q)
               /\ Last(txs[t].prices) = q[txs[t].last]
         /\ \A t, u \in DOMAIN txs : txs[t].last = txs[u].last => t = u
    BY <1>2, <1>4, <1>5, <1>8, <1>10, <1>11, <1>12
  <1> QED
    BY <1>13 DEF txs, can, cat, G

-----------------------------------------------------------------------------
(* The inductive invariant *)

TxIds == Nat \X Seq(Prices)

Typed ==
    /\ cslot \in Nat /\ slot_ \in Nat /\ slot_ <= cslot
    /\ publishing \subseteq Prices
    /\ pending_upds_ \in Seq(Prices)
    /\ pub_slot \in [Prices -> Nat] /\ attempted \in [Prices -> Nat]
    /\ last_sent \in [Prices -> Int] /\ tvec_ \in [Prices -> Seq(TxIds)]

\* A price is in the queue at most once.
QueueOnce == \A i, j \in DOMAIN pending_upds_ : pending_upds_[i] = pending_upds_[j] => i = j

\* Prices are published only with a block hash of this connection.
HashKnown ==
    /\ has_hash => connected
    /\ connected /\ publishing # {} => has_hash

\* Once the connection's first slot is known no quote is ahead of it; a quote
\* sent for the current slot was attempted in it.
SlotsBehind ==
    \A p \in Prices :
        /\ pub_slot[p] <= cslot /\ (has_hash => pub_slot[p] <= slot_)
        /\ last_sent[p] <= slot_ /\ (last_sent[p] = slot_ => attempted[p] = slot_)

\* What is in the queue is newer than what was sent, and may be sent now.
QueueAhead ==
    \A i \in DOMAIN pending_upds_ :
        /\ last_sent[pending_upds_[i]] < pub_slot[pending_upds_[i]]
        /\ last_sent[pending_upds_[i]] < slot_

IInv == Typed /\ QueueOnce /\ HashKnown /\ SlotsBehind /\ QueueAhead /\ UnackedBounded

\* At the start there is nothing in the queue and nothing was sent.
LEMMA InitInv == Init => IInv
  <1> SUFFICES ASSUME Init PROVE IInv
    OBVIOUS
  <1>1. <<>> \in Seq(Prices) /\ <<>> \in Seq(TxIds) /\ DOMAIN <<>> = {} /\ Len(<<>>) = 0
    OBVIOUS
  <1>2. /\ \A p \in Prices : /\ pub_slot[p] = 0 /\ attempted[p] = 0 /\ last_sent[p] = -1
                             /\ tvec_[p] = <<>>
        /\ pending_upds_ = <<>> /\ cslot = 1 /\ slot_ = 0
    BY DEF Init
  <1>3. Typed
    BY <1>1 DEF Init, Typed
  <1>4. QueueOnce /\ QueueAhead
    BY <1>1, <1>2 DEF QueueOnce, QueueAhead
  <1>5. HashKnown
    BY DEF Init, HashKnown
  <1>6. SlotsBehind
    BY <1>2 DEF SlotsBehind
  <1>7. UnackedBounded
    BY <1>1, <1>2, BatchAssumption DEF UnackedBounded
  <1> QED
    BY <1>3, <1>4, <1>5, <1>6, <1>7 DEF IInv

\* A step that changes the chain, the connections or the permissions.
LEMMA ConnectionSteps ==
    ASSUME IInv,
           \/ NextSlot \/ OnSlot \/ Disconnect \/ TxConnect \/ TxDisconnect \/ UNCHANGED vars
           \/ \E p \in Prices : InitSubscribe(p) \/ UpdatePub(p)
    PROVE  IInv'
  <1>1. UNCHANGED <<pending_upds_, pub_slot, attempted, tvec_, last_sent>>
    BY DEF NextSlot, OnSlot, Disconnect, TxConnect, TxDisconnect, InitSubscribe, UpdatePub, vars,
           sendVars
  <1>2. /\ cslot' \in Nat /\ cslot' >= cslot /\ slot_' \in Nat /\ slot_' >= slot_ /\ slot_' <= cslot'
        /\ slot_' = slot_ \/ slot_' = cslot
    BY DEF IInv, Typed, NextSlot, OnSlot, Disconnect, TxConnect, TxDisconnect, InitSubscribe,
           UpdatePub, vars
  <1>3. /\ publishing' \subseteq Prices
        /\ has_hash' => connected'
        /\ connected' /\ publishing' # {} => has_hash'
        /\ has_hash' => has_hash \/ slot_' = cslot
    BY DEF IInv, Typed, HashKnown, NextSlot, OnSlot, Disconnect, TxConnect, TxDisconnect,
           InitSubscribe, UpdatePub, vars, connVars
  <1>4. Typed'
    BY <1>1, <1>2, <1>3 DEF IInv, Typed
  <1>5. HashKnown'
    BY <1>3 DEF HashKnown
  <1>6. SlotsBehind'
    <2> SUFFICES ASSUME NEW p \in Prices
                 PROVE  /\ pub_slot[p] <= cslot' /\ (has_hash' => pub_slot[p] <= slot_')
                        /\ last_sent[p] <= slot_' /\ (last_sent[p] = slot_' => attempted[p] = slot_')
      BY <1>1 DEF SlotsBehind
    <2>1. pub_slot[p] \in Nat /\ last_sent[p] \in Int /\ cslot \in Nat /\ slot_ \in Nat
      BY DEF IInv, Typed
    <2>2. /\ pub_slot[p] <= cslot /\ (has_hash => pub_slot[p] <= slot_)
          /\ last_sent[p] <= slot_ /\ (last_sent[p] = slot_ => attempted[p] = slot_)
      BY DEF IInv, SlotsBehind
    <2> QED
      BY <1>2, <1>3, <2>1, <2>2
  <1>7. QueueAhead'
    <2> SUFFICES ASSUME NEW i \in DOMAIN pending_upds_
                 PROVE  /\ last_sent[pending_upds_[i]] < pub_slot[pending_upds_[i]]
                        /\ last_sent[pending_upds_[i]] < slot_'
      BY <1>1 DEF QueueAhead
    <2>1. last_sent[pending_upds_[i]] \in Int /\ slot_ \in Nat
      BY DEF IInv, Typed
    <2> QED
      BY <1>2, <2>1 DEF IInv, QueueAhead
  <1>8. QueueOnce' /\ UnackedBounded'
    BY <1>1 DEF IInv, QueueOnce, UnackedBounded
  <1> QED
    BY <1>4, <1>5, <1>6, <1>7, <1>8 DEF IInv

\* reconnect_rpc: the slot starts again, and so do the quotes sent.
LEMMA ReconnectStep == ASSUME IInv, Reconnect PROVE IInv'
  <1>1. /\ UNCHANGED <<cslot, pending_upds_, pub_slot, attempted, tvec_, has_hash>>
        /\ slot_' = 0 /\ publishing' = {} /\ ~ connected /\ connected'
        /\ last_sent' = [p \in Prices |-> -1]
    BY DEF Reconnect
  <1>2. ~ has_hash
    BY <1>1 DEF IInv, HashKnown
  <1>3. \A p \in Prices : last_sent'[p] = -1
    BY <1>1
  <1>4. Typed'
    BY <1>1 DEF IInv, Typed
  <1>5. HashKnown' /\ QueueOnce' /\ UnackedBounded'
    BY <1>1, <1>2 DEF IInv, HashKnown, QueueOnce, UnackedBounded
  <1>6. SlotsBehind'
    BY <1>1, <1>2, <1>3 DEF IInv, SlotsBehind
  <1>7. QueueAhead'
    <2> SUFFICES ASSUME NEW i \in DOMAIN pending_upds_
                 PROVE  /\ last_sent'[pending_upds_[i]] < pub_slot[pending_upds_[i]]
                        /\ last_sent'[pending_upds_[i]] < 0
      BY <1>1 DEF QueueAhead
    <2>1. pending_upds_[i] \in Prices /\ pub_slot[pending_upds_[i]] \in Nat
      BY DEF IInv, Typed
    <2> QED
      BY <1>3, <2>1
  <1> QED
    BY <1>4, <1>5, <1>6, <1>7 DEF IInv

\* A user's update: the price is queued once, and not again in a slot in which
\* it was sent.
LEMMA UpdPriceStep == ASSUME IInv, NEW p \in Prices, UpdPrice(p) PROVE IInv'
  <1>1. /\ UNCHANGED <<cslot, slot_, publishing, has_hash, connected, attempted, tvec_, last_sent>>
        /\ pub_slot' = [pub_slot EXCEPT ![p] = slot_]
        /\ \/ pending_upds_' = pending_upds_ /\ (attempted[p] = slot_ \/ p \in ToSet(pending_upds_))
           \/ /\ attempted[p] # slot_ /\ p \notin ToSet(pending_upds_)
              /\ pending_upds_' = Append(pending_upds_, p)
    BY DEF UpdPrice, AddDirtyPrice, connVars
  <1>2. /\ pending_upds_ \in Seq(Prices) /\ slot_ \in Nat /\ cslot \in Nat /\ slot_ <= cslot
        /\ pub_slot'[p] = slot_ /\ \A r \in Prices : r # p => pub_slot'[r] = pub_slot[r]
        /\ \A r \in Prices : last_sent[r] \in Int /\ pub_slot[r] \in Nat
    BY <1>1 DEF IInv, Typed
  <1>3. Typed'
    <2>1. pending_upds_' \in Seq(Prices)
      BY <1>1, <1>2
    <2> QED
      BY <1>1, <2>1 DEF IInv, Typed
  <1>4. HashKnown' /\ UnackedBounded'
    BY <1>1 DEF IInv, HashKnown, UnackedBounded
  <1>5. SlotsBehind'
    <2> SUFFICES ASSUME NEW r \in Prices
                 PROVE  /\ pub_slot'[r] <= cslot /\ (has_hash => pub_slot'[r] <= slot_)
                        /\ last_sent[r] <= slot_ /\ (last_sent[r] = slot_ => attempted[r] = slot_)
      BY <1>1 DEF SlotsBehind
    <2> QED
      BY <1>2 DEF IInv, SlotsBehind
  <1>6. CASE pending_upds_' = pending_upds_
    <2>1. QueueOnce'
      BY <1>6 DEF IInv, QueueOnce
    <2>2. QueueAhead'
      <3> SUFFICES ASSUME NEW i \in DOMAIN pending_upds_
                   PROVE  /\ last_sent[pending_upds_[i]] < pub_slot'[pending_upds_[i]]
                          /\ last_sent[pending_upds_[i]] < slot_
        BY <1>1, <1>6 DEF QueueAhead
      <3>1. pending_upds_[i] \in Prices
        BY <1>2
      <3> QED
        BY <1>2, <3>1 DEF IInv, QueueAhead
    <2> QED
      BY <1>3, <1>4, <1>5, <2>1, <2>2 DEF IInv
  <1>7. CASE /\ attempted[p] # slot_ /\ p \notin ToSet(pending_upds_)
             /\ pending_upds_' = Append(pending_upds_, p)
    <2>1. \A i \in DOMAIN pending_upds_' :
             \/ i = Len(pending_upds_) + 1 /\ pending_upds_'[i] = p
             \/ /\ i \in DOMAIN pending_upds_ /\ pending_upds_'[i] = pending_upds_[i]
                /\ pending_upds_[i] # p /\ pending_upds_[i] \in Prices
      BY <1>2, <1>7 DEF ToSet
    <2>2. QueueOnce'
      BY <2>1 DEF IInv, QueueOnce
    <2>3. last_sent[p] < slot_
      BY <1>2, <1>7 DEF IInv, SlotsBehind
    <2>4. QueueAhead'
      <3> SUFFICES ASSUME NEW i \in DOMAIN pending_upds_'
                   PROVE  /\ last_sent[pending_upds_'[i]] < pub_slot'[pending_upds_'[i]]
                          /\ last_sent[pending_upds_'[i]] < slot_
        BY <1>1 DEF QueueAhead
      <3> QED
        BY <1>2, <2>1, <2>3 DEF IInv, QueueAhead
    <2> QED
      BY <1>3, <1>4, <1>5, <2>2, <2>4 DEF IInv
  <1> QED
    BY <1>1, <1>6, <1>7

\* An acknowledgement erases at most one entry of a price's list.
LEMMA AckStep == ASSUME IInv, NEW tx, Ack(tx) PROVE IInv'
  <1>1. /\ UNCHANGED <<cslot, slot_, publishing, has_hash, connected, attempted, last_sent,
                       pending_upds_, pub_slot>>
        /\ tvec_' = [p \in Prices |-> IF p \in ToSet(tx[2]) THEN RemoveFirst(tvec_[p], tx) ELSE tvec_[p]]
    BY DEF Ack, connVars
  <1>2. \A p \in Prices : tvec_'[p] \in Seq(TxIds) /\ Len(tvec_'[p]) <= Len(tvec_[p])
    <2> TAKE p \in Prices
    <2>1. tvec_[p] \in Seq(TxIds) /\ Len(tvec_[p]) \in Nat
      BY DEF IInv, Typed
    <2>2. RemoveFirst(tvec_[p], tx) \in Seq(TxIds) /\ Len(RemoveFirst(tvec_[p], tx)) <= Len(tvec_[p])
      BY <2>1, EraseShorter
    <2> QED
      BY <1>1, <2>1, <2>2
  <1>3. Typed'
    <2>1. tvec_' \in [Prices -> Seq(TxIds)]
      BY <1>1, <1>2
    <2> QED
      BY <1>1, <2>1 DEF IInv, Typed
  <1>4. QueueOnce' /\ HashKnown' /\ SlotsBehind' /\ QueueAhead'
    BY <1>1 DEF IInv, QueueOnce, HashKnown, SlotsBehind, QueueAhead
  <1>5. UnackedBounded'
    <2> SUFFICES ASSUME NEW p \in Prices PROVE Len(tvec_'[p]) < MaxUnacked
      BY DEF UnackedBounded
    <2>1. Len(tvec_[p]) < MaxUnacked /\ tvec_[p] \in Seq(TxIds) /\ MaxUnacked \in Nat
      BY BatchAssumption DEF IInv, UnackedBounded, Typed
    <2>2. Len(tvec_'[p]) <= Len(tvec_[p]) /\ tvec_'[p] \in Seq(TxIds)
      BY <1>2
    <2>3. Len(tvec_[p]) \in Nat /\ Len(tvec_'[p]) \in Nat
      BY <2>1, <2>2
    <2> QED
      BY <2>1, <2>2, <2>3
  <1> QED
    BY <1>3, <1>4, <1>5 DEF IInv

\* What a price keeps of a call: at most one transaction more, and none more
\* when the list would become too long.
LEMMA UnackedAfter ==
    ASSUME IInv, NEW q \in Seq(Prices), q # <<>>, NEW p \in Prices,
           \A i, j \in DOMAIN q : q[i] = q[j] => i = j
    PROVE  LET v == Unacked(q, Batches(q), p)
           IN  v \in Seq(TxIds) /\ Len(v) < MaxUnacked
  <1> DEFINE txs == Batches(q)
             T == {u \in DOMAIN txs : Last(txs[u].prices) = p}
             S == {TxId(txs[t]) : t \in T}
             new == NewUnacked(txs, p)
             old == tvec_[p]
             kept == old \o new
             v == Unacked(q, txs, p)
  <1>1. /\ txs \in Seq(TxRec)
        /\ \A t \in DOMAIN txs :
              /\ txs[t].last \in txs[t].first .. txs[t].last /\ txs[t].last \in 1 .. Len(q)
              /\ Last(txs[t].prices) = q[txs[t].last]
        /\ \A t, u \in DOMAIN txs : txs[t].last = txs[u].last => t = u
    BY BatchesFacts
  <1>2. /\ old \in Seq(TxIds) /\ Len(old) \in Nat /\ Len(old) < MaxUnacked
        /\ MaxUnacked \in Nat /\ DropUnacked \in 1 .. MaxUnacked
    BY BatchAssumption DEF IInv, Typed, UnackedBounded
  <1>3. \A t, u \in T : t = u
    BY <1>1
  <1>4. T # {} => SeenIn(q, txs, p) # {}
    <2> SUFFICES ASSUME NEW t \in T PROVE t \in SeenIn(q, txs, p)
      OBVIOUS
    <2> QED
      BY <1>1 DEF SeenIn
  <1>5. S \subseteq TxIds
    <2> SUFFICES ASSUME NEW t \in T PROVE TxId(txs[t]) \in TxIds
      OBVIOUS
    <2>1. txs[t] \in TxRec
      BY <1>1
    <2>2. txs[t].prices \in Seq(Prices) /\ slot_ \in Nat
      BY <2>1 DEF TxRec, IInv, Typed
    <2> QED
      BY <2>2 DEF TxId, TxIds
  <1> HIDE DEF txs, T
  <1>6. new = SetToSeq(S)
    BY DEF NewUnacked, T
  <1>7. (\A x, y \in S : x = y) /\ (S # {} <=> T # {})
    BY <1>3
  <1> HIDE DEF S
  <1>8. new \in Seq(TxIds) /\ Len(new) = IF T = {} THEN 0 ELSE 1
    <2>1. new \in Seq(S) /\ Len(new) = IF S = {} THEN 0 ELSE 1
      BY <1>6, <1>7, SmallSetToSeq
    <2>2. new \in Seq(TxIds)
      BY <1>5, <2>1
    <2> QED
      BY <1>7, <2>1, <2>2
  <1> HIDE DEF new, old
  <1>9. kept \in Seq(TxIds) /\ Len(kept) = Len(old) + Len(new) /\ Len(new) \in {0, 1}
    <2>1. old \in Seq(TxIds) /\ new \in Seq(TxIds)
      BY <1>2, <1>8
    <2>2. kept \in Seq(TxIds) /\ Len(kept) = Len(old) + Len(new)
      BY <2>1
    <2> QED
      BY <1>8, <2>2
  <1>10. v = IF do_tx_ THEN old
             ELSE IF SeenIn(q, txs, p) # {} /\ Len(kept) >= MaxUnacked
             THEN SubSeq(kept, DropUnacked + 1, Len(kept)) ELSE kept
    BY DEF Unacked, new, old
  <1> HIDE DEF kept, v
  <1>11. v \in Seq(TxIds) /\ Len(v) < MaxUnacked
    <2>1. CASE do_tx_
      BY <1>2, <1>10, <2>1
    <2>2. CASE ~ do_tx_ /\ SeenIn(q, txs, p) # {} /\ Len(kept) >= MaxUnacked
      <3>1. v = SubSeq(kept, DropUnacked + 1, Len(kept))
        BY <1>10, <2>2
      <3>2. Len(kept) = MaxUnacked
        <4>1. Len(kept) >= MaxUnacked
          BY <2>2
        <4>2. Len(old) \in Nat /\ Len(old) < MaxUnacked /\ MaxUnacked \in Nat
          BY <1>2
        <4>3. Len(kept) = Len(old) \/ Len(kept) = Len(old) + 1
          <5>1. CASE Len(new) = 0
            BY <1>9, <4>2, <5>1
          <5>2. CASE Len(new) = 1
            BY <1>9, <4>2, <5>2
          <5> QED
            BY <1>9, <5>1, <5>2
        <4> QED
          BY <4>1, <4>2, <4>3
      <3>3. v \in Seq(TxIds) /\ Len(v) = MaxUnacked - DropUnacked
        <4>1. DropUnacked + 1 \in 1 .. MaxUnacked + 1 /\ DropUnacked \in Nat /\ MaxUnacked \in Nat
          BY <1>2
        <4>2. v = SubSeq(kept, DropUnacked + 1, MaxUnacked)
          BY <3>1, <3>2
        <4> QED
          BY <1>9, <3>2, <4>1, <4>2
      <3> QED
        BY <1>2, <3>3
    <2>3. CASE ~ do_tx_ /\ ~ (SeenIn(q, txs, p) # {} /\ Len(kept) >= MaxUnacked)
      <3>1. v = kept
        BY <1>10, <2>3
      <3>2. Len(kept) < MaxUnacked
        <4>1. CASE T = {}
          BY <1>2, <1>8, <1>9, <4>1
        <4>2. CASE T # {}
          BY <1>2, <1>4, <1>8, <1>9, <2>3, <4>2
        <4> QED
          BY <4>1, <4>2
      <3> QED
        BY <1>9, <3>1, <3>2
    <2> QED
      BY <2>1, <2>2, <2>3
  <1> QED
    BY <1>11 DEF v, txs

\* The prices that are sent leave the queue; they are attempted now, and what
\* is sent of them is of the current slot or older.
LEMMA SendStep == ASSUME IInv, NEW e \in BOOLEAN, SendPendingUps(e) PROVE IInv'
  <1> DEFINE n == NumToSend(e)
             q == SubSeq(pending_upds_, 1, n)
             txs == Batches(q)
  <1>1. /\ UNCHANGED <<cslot, slot_, publishing, has_hash, connected, pub_slot>>
        /\ connected /\ n # 0 /\ Send(q)
        /\ pending_upds_' = SubSeq(pending_upds_, n + 1, Len(pending_upds_))
    BY DEF SendPendingUps, connVars
  <1>2. /\ pending_upds_ \in Seq(Prices) /\ slot_ \in Nat /\ Len(pending_upds_) \in Nat
        /\ n \in 1 .. Len(pending_upds_)
    <2>1. pending_upds_ \in Seq(Prices) /\ slot_ \in Nat
      BY DEF IInv, Typed
    <2>2. Len(pending_upds_) \in Nat
      BY <2>1
    <2> QED
      BY <1>1, <2>1, <2>2, BatchAssumption DEF NumToSend
  <1> HIDE DEF n
  <1>3. /\ q \in Seq(Prices) /\ q # <<>> /\ Len(q) = n /\ DOMAIN q = 1 .. n
        /\ \A i \in 1 .. n : q[i] = pending_upds_[i] /\ i \in DOMAIN pending_upds_
    BY <1>2
  <1>4. /\ pending_upds_' \in Seq(Prices)
        /\ \A i \in DOMAIN pending_upds_' :
              /\ i \in Nat /\ i >= 1 /\ i + n \in DOMAIN pending_upds_
              /\ pending_upds_'[i] = pending_upds_[i + n]
    BY <1>1, <1>2
  <1> HIDE DEF q
  <1>5. \A i, j \in DOMAIN q : q[i] = q[j] => i = j
    BY <1>3 DEF IInv, QueueOnce
  <1>6. \A i \in DOMAIN pending_upds_' : pending_upds_'[i] \notin ToSet(q)
    <2> SUFFICES ASSUME NEW i \in DOMAIN pending_upds_', NEW j \in 1 .. n, pending_upds_'[i] = q[j]
                 PROVE  FALSE
      BY <1>3 DEF ToSet
    <2>1. i + n = j
      BY <1>3, <1>4 DEF IInv, QueueOnce
    <2> QED
      BY <1>2, <1>4, <2>1
  <1>7. \A p \in Prices : SentIn(txs, p) # {} => p \in ToSet(q) /\ CanPublish(p)
    <2> SUFFICES ASSUME NEW p \in Prices, NEW t \in SentIn(txs, p)
                 PROVE  p \in ToSet(q) /\ CanPublish(p)
      OBVIOUS
    <2>1. t \in DOMAIN txs /\ p \in ToSet(txs[t].prices)
      BY DEF SentIn
    <2>2. txs[t].prices \in Seq(Good(q))
      BY <1>3, <2>1, BatchesFacts
    <2>3. p \in Good(q)
      BY <2>1, <2>2 DEF ToSet
    <2> QED
      BY <1>3, <2>3 DEF Good, ToSet
  <1> HIDE DEF txs
  <1>8. /\ attempted' = [p \in Prices |-> IF p \in ToSet(q) THEN slot_ ELSE attempted[p]]
        /\ tvec_' = [p \in Prices |-> Unacked(q, Batches(q), p)]
        /\ last_sent' = [p \in Prices |-> IF SentIn(txs, p) # {} THEN pub_slot[p] ELSE last_sent[p]]
    BY <1>1 DEF Send, txs
  <1>9. \A p \in Prices : tvec_'[p] \in Seq(TxIds) /\ Len(tvec_'[p]) < MaxUnacked
    <2> TAKE p \in Prices
    <2>1. tvec_'[p] = Unacked(q, Batches(q), p)
      BY <1>8
    <2> QED
      BY <1>3, <1>5, <2>1, UnackedAfter
  <1>10. Typed'
    <2>1. tvec_' \in [Prices -> Seq(TxIds)]
      BY <1>8, <1>9
    <2>2. attempted' \in [Prices -> Nat] /\ last_sent' \in [Prices -> Int]
      BY <1>8 DEF IInv, Typed
    <2> QED
      BY <1>1, <1>4, <2>1, <2>2 DEF IInv, Typed
  <1>11. QueueOnce'
    <2> SUFFICES ASSUME NEW i \in DOMAIN pending_upds_', NEW j \in DOMAIN pending_upds_',
                        pending_upds_'[i] = pending_upds_'[j]
                 PROVE  i = j
      BY DEF QueueOnce
    <2>1. i + n = j + n
      BY <1>4 DEF IInv, QueueOnce
    <2> QED
      BY <1>2, <1>4, <2>1
  <1>12. HashKnown' /\ UnackedBounded'
    BY <1>1, <1>9 DEF IInv, HashKnown, UnackedBounded
  <1>13. SlotsBehind'
    <2> SUFFICES ASSUME NEW p \in Prices
                 PROVE  /\ pub_slot[p] <= cslot /\ (has_hash => pub_slot[p] <= slot_)
                        /\ last_sent'[p] <= slot_ /\ (last_sent'[p] = slot_ => attempted'[p] = slot_)
      BY <1>1 DEF SlotsBehind
    <2>1. /\ pub_slot[p] <= cslot /\ (has_hash => pub_slot[p] <= slot_)
          /\ last_sent[p] <= slot_ /\ (last_sent[p] = slot_ => attempted[p] = slot_)
      BY DEF IInv, SlotsBehind
    <2>2. CASE SentIn(txs, p) # {}
      <3>1. p \in ToSet(q) /\ has_hash
        BY <1>1, <1>7, <2>2 DEF CanPublish, IInv, HashKnown
      <3>2. last_sent'[p] = pub_slot[p] /\ attempted'[p] = slot_
        BY <1>8, <2>2, <3>1
      <3> QED
        BY <2>1, <3>1, <3>2
    <2>3. CASE SentIn(txs, p) = {}
      <3>1. last_sent'[p] = last_sent[p] /\ attempted'[p] \in {slot_, attempted[p]}
        BY <1>8, <2>3
      <3> QED
        BY <2>1, <3>1
    <2> QED
      BY <2>2, <2>3
  <1>14. QueueAhead'
    <2> SUFFICES ASSUME NEW i \in DOMAIN pending_upds_'
                 PROVE  /\ last_sent'[pending_upds_'[i]] < pub_slot[pending_upds_'[i]]
                        /\ last_sent'[pending_upds_'[i]] < slot_
      BY <1>1 DEF QueueAhead
    <2>1. pending_upds_'[i] \in Prices /\ pending_upds_'[i] \notin ToSet(q)
      BY <1>4, <1>6
    <2>2. last_sent'[pending_upds_'[i]] = last_sent[pending_upds_'[i]]
      BY <1>7, <1>8, <2>1
    <2> QED
      BY <1>4, <2>2 DEF IInv, QueueAhead
  <1> QED
    BY <1>10, <1>11, <1>12, <1>13, <1>14 DEF IInv

\* Every step keeps the invariant.
LEMMA NextInv == IInv /\ [Next]_vars => IInv'
  <1> SUFFICES ASSUME IInv, [Next]_vars PROVE IInv'
    OBVIOUS
  <1>1. ASSUME NEW p \in Prices, InitSubscribe(p) \/ UpdatePub(p) PROVE IInv'
    BY <1>1, ConnectionSteps
  <1>2. ASSUME NEW p \in Prices, UpdPrice(p) PROVE IInv'
    BY <1>2, UpdPriceStep
  <1>3. ASSUME NEW e \in BOOLEAN, SendPendingUps(e) PROVE IInv'
    BY <1>3, SendStep
  <1>4. ASSUME NEW tx \in in_flight, Ack(tx) PROVE IInv'
    BY <1>4, AckStep
  <1> QED
    BY <1>1, <1>2, <1>3, <1>4, ConnectionSteps, ReconnectStep DEF Next

-----------------------------------------------------------------------------
(* The invariant holds, and what follows from it *)

\* The inductive invariant of the queue and of what was sent from it.
THEOREM Invariance == Spec => []IInv
  BY InitInv, NextInv, PTL DEF Spec

\* The list of unacknowledged transactions of a price never reaches its limit,
\* though acknowledgements may be lost for ever.
THEOREM UnackedStaysBounded == Spec => []UnackedBounded
  <1>1. IInv => UnackedBounded
    BY DEF IInv
  <1> QED
    BY <1>1, Invariance, PTL

\* The prices of a call are a nonempty part of the queue.
LEMMA SentPart ==
    ASSUME Typed, Typed', Sends
    PROVE  /\ SentPrices \in Seq(Prices) /\ SentPrices # <<>>
           /\ \A i \in 1 .. Len(SentPrices) :
                 i \in DOMAIN pending_upds_ /\ SentPrices[i] = pending_upds_[i]
  <1>1. /\ pending_upds_ \in Seq(Prices) /\ pending_upds_' \in Seq(Prices)
        /\ Len(pending_upds_') < Len(pending_upds_)
    BY DEF Typed, Sends
  <1> DEFINE n == Len(pending_upds_) - Len(pending_upds_')
  <1>2. n \in 1 .. Len(pending_upds_)
    BY <1>1
  <1> HIDE DEF n
  <1>3. SentPrices = SubSeq(pending_upds_, 1, n)
    BY DEF SentPrices, n
  <1> QED
    BY <1>1, <1>2, <1>3

\* The transactions of a call of price::send hold what can be published of the
\* prices it was given, in order and full but for the last; only when the
\* last price can not be published are fewer than a batch left out.
THEOREM BatchesAreExact == Spec => BatchesExact
  <1> DEFINE Exact == LET txs == Batches(SentPrices)
                          can == Publishable(SentPrices)
                      IN  /\ IsPrefix(Concat(txs), can)
                          /\ Len(can) - Len(Concat(txs)) < max_batch_
                          /\ CanPublish(Last(SentPrices)) => Concat(txs) = can
                          /\ \A t \in DOMAIN txs :
                                Len(txs[t].prices) \in (IF t = Len(txs) THEN 1 .. max_batch_
                                                        ELSE {max_batch_})
  <1>1. IInv /\ IInv' => [Sends => Exact]_vars
    <2> SUFFICES ASSUME Typed, Typed', Sends PROVE Exact
      BY DEF IInv
    <2> QED
      BY SentPart, BatchesFacts
  <1> QED
    BY <1>1, Invariance, PTL DEF BatchesExact

\* Within a connection the quotes sent for a price have increasing slots, as
\* the program demands: the queue holds no price twice and none whose quote is
\* not newer than the last one sent.
THEOREM SentSlotsAlwaysIncrease == Spec => SentSlotsIncrease
  <1> DEFINE Newer == \A p \in ToSet(Concat(Batches(SentPrices))) : last_sent[p] < pub_slot[p]
  <1>1. IInv /\ IInv' => [Sends => Newer]_vars
    <2> SUFFICES ASSUME IInv, Typed', Sends, NEW p \in ToSet(Concat(Batches(SentPrices)))
                 PROVE  last_sent[p] < pub_slot[p]
      BY DEF IInv
    <2> DEFINE q == SentPrices
    <2>1. /\ q \in Seq(Prices) /\ q # <<>>
          /\ \A i \in 1 .. Len(q) : i \in DOMAIN pending_upds_ /\ q[i] = pending_upds_[i]
      BY SentPart DEF IInv
    <2> HIDE DEF q
    <2>2. Concat(Batches(q)) \in Seq(Good(q))
      BY <2>1, BatchesFacts
    <2>3. p \in Good(q)
      BY <2>2 DEF ToSet, q
    <2>4. PICK i \in 1 .. Len(q) : p = q[i]
      BY <2>3 DEF Good
    <2> QED
      BY <2>1, <2>4 DEF IInv, QueueAhead
  <1> QED
    BY <1>1, Invariance, PTL DEF SentSlotsIncrease
=============================================================================
