---------------------------- MODULE MCAlgorithms ----------------------------
(***************************************************************************)
(* The algorithms and data structures of the program and of the client,    *)
(* each against a reference definition.  One behaviour works on one of     *)
(* them, kind: the component list (PublisherList, with its own variables)  *)
(* or one whose input or state is in work.                                 *)
(***************************************************************************)
EXTENDS PublisherList, SortStable, Ema, Transactions, Attrs

CONSTANTS
    WIDTH,            \* the 64-bit width of the pricing model and of the codecs
    BYTE, ALPHA, FACTOR, hsize_,
    MaxQuotes,        \* bound: quotes in a list
    MaxText,          \* bound: bytes, characters or lexemes of a text
    MaxUpdates,       \* bound: updates of an average
    MaxAccounts       \* bound: accounts the stake caps are computed from

VARIABLES kind, work

PM == INSTANCE PriceModel WITH I64_MAX <- WIDTH
X == INSTANCE Codecs WITH I64_MAX <- WIDTH
H == INSTANCE HashMap
L == INSTANCE DblList WITH Elements <- 1 .. 3, Null <- 0
J == INSTANCE Jtree
V == INSTANCE StakeCaps WITH U64_MAX <- WIDTH

allVars == <<num_, comp_, done, kind, work>>

-----------------------------------------------------------------------------
(* Inputs *)

DecayRate == -117
DecayExpo == -4
PriceExpo == -2

Quote(price, conf) == [price_ |-> price, conf_ |-> conf]

\* Quotes that pass the conf / price ratio of upd_price: prices of both
\* signs, middle points with odd sums and with sums that leave 64 bits, and
\* no two points further apart than a 64-bit integer.
NearQuotes ==
    {Quote(-3, 1), Quote(3, 1), Quote(4, 1), Quote(6, 2), Quote(8, 2), Quote(10, 1)}

Mantissas == {0, 1, -1, 7, 268, 2683, -2683}

Exponents == {-EXP_MAX - 2, -6, -4, 0, 3, EXP_MAX, EXP_MAX + 4}

Operands == {PD(v, e) : v \in Mantissas, e \in Exponents}

Keywords == {<<1>>, <<2, 1>>}

Values == {<<>>, <<2>>, <<1, 1>>, <<1, 2, 1>>}

\* What one more lexeme may be in the text whose nodes are in j.
Lexemes(j) ==
    LET val == {[lex |-> x, name |-> 0] : x \in {"obj", "arr", "val"}}
        key == {[lex |-> "key", name |-> n] : n \in 1 .. 2}
        end == {[lex |-> "end", name |-> 0]}
    IN  CASE j.st = <<>> -> IF Len(j.nv) = 1 THEN val \ {[lex |-> "val", name |-> 0]} ELSE {}
          [] j.st # <<>> /\ j.nv[Last(j.st) + 1].type = "arr" -> val \cup end
          [] OTHER -> IF j.key = 0 THEN key \cup end ELSE val

Txs ==
    AdminTxs \cup {create_account} \cup {upd_product(attrs) : attrs \in {100, 464}}
      \cup {build_tx(n, units, price) : n \in 1 .. 15, units \in {0, 1}, price \in {0, 1}}

NewEma ==
    [twap |-> EmptyEma, twac |-> EmptyEma, low |-> 0, high |-> 0, updates |-> 0, fits |-> TRUE]

-----------------------------------------------------------------------------
(* Behaviours *)

AlgInit ==
    \/ kind = "publishers" /\ work = <<>> /\ ListInit
    \/ /\ num_ = 0 /\ done = <<>> /\ comp_ = [i \in 0 .. Capacity - 1 |-> NoComp]
       /\ \/ kind \in {"quotes", "bytes", "typed", "attrs", "json"} /\ work = <<>>
          \/ kind = "number" /\ work \in -(WIDTH + 1) .. WIDTH
          \/ kind = "decimal" /\ work \in Operands \X Operands
          \/ kind = "tx" /\ work \in Txs
          \/ kind = "ema" /\ work = NewEma
          \/ kind = "caps" /\ \E m \in {7, 12}, z \in {0, 2} : work = [accounts |-> <<>>, m |-> m, z |-> z]
          \/ kind = "hash" /\ work = [m |-> H!hash_map, ghost |-> <<>>]
          \/ kind = "list" /\ work = [s |-> L!EmptyLists @@ ("link" :> L!Unlinked), ghost |-> <<>>]

Publishers == kind = "publishers" /\ ListNext /\ UNCHANGED work

AddQuote(q) ==
    /\ kind = "quotes" /\ Len(work) < MaxQuotes
    /\ work' = Append(work, q)

Requote(i, q) == kind = "quotes" /\ i <= Len(work) /\ work' = [work EXCEPT ![i] = q]

AddByte(b) == kind = "bytes" /\ Len(work) < MaxText /\ work' = Append(work, b)

TypeChar(c) == kind = "typed" /\ Len(work) < MaxText /\ work' = Append(work, c)

AddAttr(key, val) ==
    /\ kind = "attrs" /\ Len(work) < 3
    /\ work' = Append(work, [key |-> key, val |-> val])

AddLexeme ==
    /\ kind = "json" /\ Len(work) < 2 * MaxText
    /\ \E x \in Lexemes(J!parse(work)) : work' = Append(work, x)

\* An aggregate, nslots slots after the last.
UpdTwap(price, conf, nslots) ==
    LET u == upd_twap(work.twap, work.twac, price, conf, nslots)
        fresh == nslots > PD_EMA_MAX_DIFF
    IN  /\ kind = "ema" /\ work.updates < MaxUpdates
        /\ work.updates = 0 => fresh
        /\ work' = [twap |-> u.twap.ema, twac |-> u.twac.ema,
                    low |-> IF fresh \/ price < work.low THEN price ELSE work.low,
                    high |-> IF fresh \/ price > work.high THEN price ELSE work.high,
                    updates |-> IF fresh THEN 1 ELSE work.updates + 1,
                    fits |-> work.fits /\ u.twap.fits /\ u.twac.fits]

AddAccount(pubs, loads) ==
    /\ kind = "caps" /\ Len(work.accounts) < MaxAccounts
    /\ work' = [work EXCEPT !.accounts = Append(@, [pubs |-> pubs, loads |-> loads])]

Put(k, v) ==
    LET found == H!find(work.m, k)
        m == IF found = <<>> THEN H!add(work.m, k) ELSE work.m
    IN  /\ kind = "hash"
        /\ work' = [m |-> H!Assign(m, H!find(m, k)[1], v), ghost |-> (k :> v) @@ work.ghost]

Erase(k) ==
    /\ kind = "hash" /\ H!find(work.m, k) # <<>>
    /\ work' = [m |-> H!del(work.m, H!find(work.m, k)[1]),
                ghost |-> [j \in DOMAIN work.ghost \ {k} |-> work.ghost[j]]]

ListAdd(n) ==
    /\ kind = "list" /\ n \notin ToSet(work.ghost)
    /\ work' = [s |-> L!list_add(work.s, n), ghost |-> Append(work.ghost, n)]

ListDel(n) ==
    /\ kind = "list" /\ n \in ToSet(work.ghost)
    /\ work' = [s |-> L!list_del(work.s, n), ghost |-> SelectSeq(work.ghost, LAMBDA e : e # n)]

Work ==
    /\ \/ \E q \in NearQuotes : AddQuote(q) \/ \E i \in 1 .. MaxQuotes : Requote(i, q)
       \/ \E b \in {0, 1, 58, 255} : AddByte(b)
       \/ \E c \in {0, 5, X!POINT, X!MINUS, X!OTHER_CHAR} : TypeChar(c)
       \/ \E key \in Keywords, val \in Values : AddAttr(key, val)
       \/ AddLexeme
       \/ \E price \in {1000, 99999}, conf \in {7, 3000}, nslots \in {1, 41, 42} :
             UpdTwap(price, conf, nslots)
       \/ AddAccount({}, FALSE) \/ \E pubs \in SUBSET (1 .. 3) : AddAccount(pubs, TRUE)
       \/ \E k \in 1 .. 3 : Erase(k) \/ \E v \in 1 .. 2 : Put(k, v)
       \/ \E n \in 1 .. 3 : ListAdd(n) \/ ListDel(n)
    /\ UNCHANGED <<num_, comp_, done>>

AlgNext == (Publishers \/ Work) /\ UNCHANGED kind

AlgSpec == AlgInit /\ [][AlgNext]_allVars

-----------------------------------------------------------------------------
(* The pricing model and its sort *)

Quoted == kind = "quotes" /\ work # <<>>

Points == PM!QuotePoints(work)

Quartiles == PM!price_model_core(Points)

CountOf(Test(_)) == Cardinality({i \in DOMAIN Points : Test(Points[i])})

\* The sort's result is a permutation of the points, in order, and equal
\* points keep the order they came in, although the merges overwrite the array
\* the right half is in ("yr might overlap ... but this will still work").
SortsStably ==
    Quoted =>
        LET key == [i \in DOMAIN Points |-> [val |-> Points[i], tag |-> i]]
            y == Stable(key)
        IN  /\ ToSet(y) = ToSet(key) /\ Len(y) = Len(key)
            /\ \A i, j \in DOMAIN y :
                  i < j => y[i].val < y[j].val \/ (y[i].val = y[j].val /\ y[i].tag < y[j].tag)

\* p25 and p75 are the points of rank cnt / 4 from either end, and p50 halves
\* the points: the quartiles of price_model.c said without sorting.
QuartileRanks ==
    Quoted =>
        LET cnt == Len(Points)
            m == Quartiles
        IN  /\ CountOf(LAMBDA x : x < m.p25) <= cnt \div 4
            /\ CountOf(LAMBDA x : x <= m.p25) > cnt \div 4
            /\ CountOf(LAMBDA x : x > m.p75) <= cnt \div 4
            /\ CountOf(LAMBDA x : x >= m.p75) > cnt \div 4
            /\ 2 * CountOf(LAMBDA x : x < m.p50) <= cnt
            /\ 2 * CountOf(LAMBDA x : x > m.p50) <= cnt
            /\ m.p25 <= m.p50 /\ m.p50 <= m.p75

\* No minority of the publishers can move the aggregate price outside the
\* intervals of the majority, whatever it quotes (upd_aggregate's three votes
\* per publisher and the median of price_model_core).
MedianRobust ==
    Quoted =>
        \A S \in SUBSET DOMAIN work :
            2 * Cardinality(S) > Len(work) =>
                /\ \E i \in S : work[i].price_ - work[i].conf_ <= Quartiles.p50
                /\ \E i \in S : Quartiles.p50 <= work[i].price_ + work[i].conf_

\* upd_aggregate: a zero confidence "is currently not possible when nprcs>2
\* and positive confidences given the current pricing model".
ConfidencePositive == Quoted => PM!Aggregate(work).conf > 0

\* upd_aggregate.h: "as valid quotes have positive prices currently and
\* agg_p25, agg_price, agg_p75 are ordered, this calculation can't overflow":
\* the confidence is the larger half-interval, computed without a wrap.
ConfidenceExact ==
    (Quoted /\ \A i \in DOMAIN work : work[i].price_ > 0) =>
        LET m == Quartiles
            c == PM!Aggregate(work).conf
        IN  /\ c \in {m.p75 - m.p50, m.p50 - m.p25}
            /\ c >= m.p75 - m.p50 /\ c >= m.p50 - m.p25

\* When a publisher moves its whole interval up, no quartile moves down:
\* price_model_core with its rounded average of the middle points is monotone.
Monotone ==
    [][(/\ Quoted /\ Len(work') = Len(work)
        /\ \A i \in DOMAIN work :
              /\ work[i].price_ - work[i].conf_ <= work'[i].price_ - work'[i].conf_
              /\ work[i].price_ <= work'[i].price_
              /\ work[i].price_ + work[i].conf_ <= work'[i].price_ + work'[i].conf_)
       => /\ Quartiles.p25 <= Quartiles'.p25
          /\ Quartiles.p50 <= Quartiles'.p50
          /\ Quartiles.p75 <= Quartiles'.p75]_allVars

-----------------------------------------------------------------------------
(* Decimals and averages *)

\* x and y differ by less than tol, all with the exponents ex, ey and et.
Near(x, ex, y, ey, tol, et) ==
    LET e == Min({ex, ey, et})
    IN  Abs(x * 10^(ex - e) - y * 10^(ey - e)) < tol * 10^(et - e)

\* Whatever two normalised numbers pd_mul, pd_div and pd_add are given, every
\* number computed fits 64 bits, the result is normalised again, and it is the
\* exact one up to the last digit (two of them for a sum); a quotient has all the
\* digits there is room for.
DecimalExact ==
    kind = "decimal" =>
        LET a == work[1]
            b == work[2]
            mul == pd_mul(a, b)
            div == pd_div(a, b)
            sum == pd_add(a, b)
            normal(n) == Abs(n.v) < MANT
        IN  /\ mul.fits /\ normal(mul.n)
            /\ Near(a.v * b.v, a.e + b.e, mul.n.v, mul.n.e, 1, mul.n.e)
            /\ b.v # 0 =>
                 /\ div.fits /\ normal(div.n) /\ (a.v # 0 => Abs(div.n.v) >= MANT \div 10)
                 /\ a.v # 0 =>
                      LET r == div.n
                          k == r.e - (a.e - b.e)
                      IN  IF k >= 0 THEN /\ Abs(r.v * b.v) * 10^k <= Abs(a.v)
                                         /\ (Abs(r.v) + 1) * Abs(b.v) * 10^k > Abs(a.v)
                          ELSE /\ Abs(r.v * b.v) <= Abs(a.v) * 10^(-k)
                               /\ (Abs(r.v) + 1) * Abs(b.v) > Abs(a.v) * 10^(-k)
            /\ sum.fits /\ normal(sum.n)
            /\ IF Abs(a.e - b.e) <= DIGITS + 1
               THEN LET e == Min({a.e, b.e})
                        exact == a.v * 10^(a.e - e) + b.v * 10^(b.e - e)
                    IN  /\ Near(exact, e, sum.n.v, sum.n.e, 2, sum.n.e)
                        /\ Abs(a.e - b.e) < DIGITS => (pd_lt(a, b) = (exact - 2 * b.v * 10^(b.e - e) < 0))
               ELSE LET big == IF a.e > b.e THEN a ELSE b
                    IN  Near(big.v, big.e, sum.n.v, sum.n.e, 2, big.e)

\* A number read back from its 64-bit field is the one pd_store was given, up
\* to the last digit of the field; it is refused only when it is too large.
DecimalStores ==
    kind = "decimal" =>
        LET n == work[1]
            s == pd_store(n)
            r == pd_load(s)
        IN  IF s.ok THEN /\ Near(n.v, n.e, r.v, r.e, 1, s.e)
                         /\ s.e \in -EXP_MAX .. EXP_MAX - 1
                         /\ s.v \in -STORE_MAX .. STORE_MAX - 1
            ELSE n.e >= EXP_MAX /\ Abs(n.v) * 10^(n.e - EXP_MAX + 1) >= STORE_MAX

\* upd_ema's average stays between the lowest and the highest price since it
\* started anew, but for the digits lost in at most four operations of each
\* update, and nothing it computes leaves 64 bits.
EmaWithinPrices ==
    (kind = "ema" /\ work.updates > 0) =>
        LET lost == ((4 * work.updates + 2) * 10 * work.high) \div MANT + 1
        IN  /\ work.fits
            /\ work.low - lost <= work.twap.val /\ work.twap.val <= work.high + lost
            /\ work.twap.denom.v > 0

-----------------------------------------------------------------------------
(* Stake caps *)

\* "m is the cap per symbol, it gets split among all publishers of the symbol"
\* (compute_publisher_stake_caps): the publishers of all symbols get no more
\* than m for each, one of a symbol with few publishers no more than m / z, and
\* each the sum over its symbols, whatever their order, up to the largest u64.
CapsShareOut ==
    kind = "caps" =>
        LET caps == V!compute_publisher_stake_caps(work.accounts, work.m, work.z)
            prices == {i \in DOMAIN work.accounts : work.accounts[i].loads}
            Of(p) == {i \in prices : p \in work.accounts[i].pubs}
        IN  /\ DOMAIN caps = UNION {work.accounts[i].pubs : i \in prices}
            /\ FoldSet(LAMBDA p, sum : sum + caps[p], 0, DOMAIN caps) <= work.m * Cardinality(prices)
            /\ \A p \in DOMAIN caps :
                  /\ work.z # 0 => caps[p] * work.z <= work.m * Cardinality(Of(p))
                  /\ caps[p] = V!saturating_add(0,
                        FoldSet(LAMBDA i, sum : sum + V!Cap(work.accounts[i], work.m, work.z), 0, Of(p)))

-----------------------------------------------------------------------------
(* Conversions *)

AllZero(s) == \A i \in DOMAIN s : s[i] = 0

\* A key read from its base 58 text is the key that was written, zero bytes in
\* front included.  Only a source of zeros comes back with one zero more, as
\* the text of Pubkey::default() does (hash::init_from_text reads into 32 bytes).
Base58RoundTrip ==
    kind = "bytes" =>
        X!dec_base58(X!enc_base58(work)) = IF AllZero(work) THEN work \o <<0>> ELSE work

\* Base 64, in which transactions travel: the length announced by
\* enc_base64_len is the one written, and decoding returns the bytes.
Base64RoundTrip ==
    kind = "bytes" =>
        /\ X!dec_base64(X!enc_base64(work)) = work
        /\ Len(X!enc_base64(work)) = X!enc_base64_len(Len(work))

\* int_to_str and str_to_int are inverse but for the smallest integer, whose
\* text is not a number and which comes back as zero.
NumbersRoundTrip ==
    kind = "number" =>
        /\ X!str_to_int(X!int_to_str(work)) = IF work = -(WIDTH + 1) THEN 0 ELSE work
        /\ work >= 0 => X!str_to_int(X!uint_to_str(work)) = work

\* The integer str_to_dec makes of a typed number is the number itself cut off
\* at the exponent: stripping zeros after the point never changes it.
DecimalTextTruncates ==
    LET digits == SelectSeq(work, LAMBDA c : c \in 0 .. 9)
        point == SelectInSeq(work, LAMBDA c : c = X!POINT)
        places == IF point = 0 THEN 0 ELSE Len(work) - point
        mant == FoldLeft(LAMBDA m, c : 10 * m + c, 0, digits)
    IN  (kind = "typed" /\ Len(digits) >= Len(work) - 1 /\ (point > 0 \/ digits = work)) =>
            \A texpo \in -3 .. 1 :
                X!str_to_dec(work, texpo) =
                    IF places + texpo <= 0 THEN mant * 10^(-texpo - places)
                    ELSE mant \div 10^(places + texpo)

-----------------------------------------------------------------------------
(* Attributes, JSON, containers *)

Lasts(pairs, key) ==
    LET p == SelectLastInSeq(pairs, LAMBDA pair : pair.key = key)
    IN  IF p = 0 THEN <<>> ELSE pairs[p].val

\* Attributes whose strings are at most SCHAR_MAX long, and only those, are
\* read back by the client: each key has the last value written for it, in a
\* process that has numbered other keys before, and writing the dictionary and
\* reading it once more gives the same values.
AttrsRoundTrip ==
    kind = "attrs" =>
        LET bytes == FlattenSeq([i \in DOMAIN work |-> Str(work[i].key) \o Str(work[i].val)])
            read == init_from_account(<<<<2, 1>>>>, bytes)
            again == init_from_account(read.ids, write_account(read.ids, read.dict))
            short == \A i \in DOMAIN work : Len(work[i].val) <= SCHAR_MAX
        IN  /\ read.ok = short
            /\ short => \A aid \in DOMAIN read.ids :
                  /\ get_attr(read.dict, aid) = Lasts(work, read.ids[aid])
                  /\ again.ok /\ again.ids = read.ids
                  /\ get_attr(again.dict, aid) = get_attr(read.dict, aid)

\* The depth of each lexeme, counted without building nodes.
DepthBefore(text, p) ==
    Cardinality({i \in 1 .. p - 1 : text[i].lex \in {"obj", "arr"}})
      - Cardinality({i \in 1 .. p - 1 : text[i].lex = "end"})

\* find_val finds in a complete object the value that follows the first
\* occurrence of the key at its own level, whatever objects and arrays stand
\* before it, and nothing for a key that only occurs deeper.
JsonFindsMembers ==
    (kind = "json" /\ work # <<>> /\ work[1].lex = "obj") =>
        LET j == J!parse(work)
            at(name) == SelectInSeq([p \in DOMAIN work |->
                            work[p].lex = "key" /\ work[p].name = name
                              /\ DepthBefore(work, p) = 1], LAMBDA hit : hit)
        IN  J!is_valid(j) =>
                \A name \in 1 .. 2 :
                    LET found == J!find_val(j, work, 1, name)
                        p == at(name)
                    IN  IF p = 0 THEN found = 0
                        ELSE /\ found # 0 /\ j.nv[found + 1].type = work[p + 1].lex
                             /\ work[p + 1].lex = "val" => j.nv[found + 1].h = p + 1

\* The table holds exactly the keys put and not erased, each with its last
\* value, and every node is in one bucket's chain or in the free chain.
HashMapIsMap ==
    kind = "hash" =>
        LET free[n \in 0 .. Len(work.m.nvec)] ==
                IF n = 0 THEN {work.m.rhd} \ {0}
                ELSE free[n - 1] \cup ({work.m.nvec[i].nxt : i \in free[n - 1]} \ {0})
            freed == free[Len(work.m.nvec)]
        IN  /\ \A k \in 1 .. 3 :
                  LET it == H!find(work.m, k)
                  IN  IF k \in DOMAIN work.ghost
                      THEN it # <<>> /\ H!obj(work.m, it[1]) = work.ghost[k]
                      ELSE it = <<>>
            /\ work.m.nval = Cardinality(DOMAIN work.ghost)
            /\ freed \cap H!Used(work.m) = {}
            /\ freed \cup H!Used(work.m) = DOMAIN work.m.nvec

\* Walked in either direction, the list has the elements added and not
\* deleted, in the order they were added, also when an element comes back.
ListIsSequence ==
    kind = "list" =>
        LET n == Len(work.ghost)
            s == work.s
        IN  /\ s.hd = IF n = 0 THEN 0 ELSE work.ghost[1]
            /\ s.tl = IF n = 0 THEN 0 ELSE work.ghost[n]
            /\ \A i \in 1 .. n :
                  /\ s.link[work.ghost[i]].next = IF i = n THEN 0 ELSE work.ghost[i + 1]
                  /\ s.link[work.ghost[i]].prev = IF i = 1 THEN 0 ELSE work.ghost[i - 1]

-----------------------------------------------------------------------------
(* Transactions *)

\* Every transaction names its keys once, carries a signature in its slot for
\* each signing key, and its instructions refer to accounts by the places they
\* have: the program that is meant, a signing account that pays, and accounts
\* the program writes that the header does not make read-only.
TxWellFormed ==
    kind = "tx" =>
        /\ Cardinality(ToSet(work.keys)) = Len(work.keys)
        /\ work.signed = SubSeq(work.keys, 1, work.signatures)
        /\ \A i \in ToSet(work.instrs) :
              /\ work.keys[i.program + 1][1] =
                    CASE i.cmd = "CreateAccount" -> "system"
                      [] i.cmd \in {"ComputeLimit", "ComputePrice"} -> "budget"
                      [] OTHER -> "program"
              /\ ~Writable(work, i.program)
              /\ \A p \in DOMAIN i.accts :
                    /\ i.accts[p] < Len(work.keys) - work.roUnsigned
                    /\ p < FirstReadOnly(i) => Writable(work, i.accts[p])
              /\ i.accts # <<>> => i.accts[1] = 0 /\ Signs(work, 0)
              /\ i.cmd = "UpdPriceNoFailOnError" => work.keys[i.accts[3] + 1][1] = "clock"

\* What build_tx writes fits the buffer it is written to (net_buf::len) for up
\* to 13 prices, PC_MAX_BATCH among them and larger batch sizes of pythd not;
\* product attributes fit up to the size of a product account.
FitsBuffer ==
    kind = "tx" =>
        LET prices == Cardinality({i \in DOMAIN work.instrs :
                                      work.instrs[i].cmd = "UpdPriceNoFailOnError"})
        IN  (Size(work) <= 1270) = (prices <= 13)

-----------------------------------------------------------------------------
(* What each group promises together *)

\* price_model_core and upd_aggregate: quartiles by rank, a median no minority
\* can move away, a confidence that is positive and exact.
PriceModelSound == QuartileRanks /\ MedianRobust /\ ConfidencePositive /\ ConfidenceExact

\* pd.h and upd_ema: no operation overflows or loses more than its last
\* digits, so the averages stay within the prices they are averages of; and
\* the stake caps of validator.rs share out no more than they may.
ArithmeticSound == DecimalExact /\ DecimalStores /\ EmaWithinPrices /\ CapsShareOut

\* misc.cpp and attr_id.cpp: what is written as text, or in an account, is read
\* back as it was.
ConversionsInvert ==
    Base58RoundTrip /\ Base64RoundTrip /\ NumbersRoundTrip /\ DecimalTextTruncates /\ AttrsRoundTrip

\* The component list, hash_map, dbl_list and jtree hold what was put in them,
\* where it is looked for, through any additions and deletions.
ContainersSound ==
    OneComponentEach /\ FindsExactly /\ HashMapIsMap /\ ListIsSequence /\ JsonFindsMembers

\* The transactions of the client: built as the chain reads them, within the
\* buffer they are built in.
TxSound == TxWellFormed /\ FitsBuffer
=============================================================================
