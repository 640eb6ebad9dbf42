------------------------- MODULE PriceAccountProofs -------------------------
(***************************************************************************)
(* Proofs about PriceAccount, for every set of publishers and quotes, every*)
(* pricing model that returns 64-bit integers, every width of the integers *)
(* and every value of the bounds.                                          *)
(*                                                                         *)
(* The second part proves that the component array of the account, with    *)
(* its heap sort and its searches (PublisherList), implements the set of   *)
(* publishers that PriceAccount has in its place (PublisherSet).           *)
(***************************************************************************)
EXTENDS PriceAccount, PublisherList, BoundedInduction, FiniteSetTheorems, TLAPS

\* The number of valid quotes is a number.
LEMMA ValidPublishersFinite ==
    ASSUME NEW a \in Account, NEW s \in Nat
    PROVE  Cardinality(ValidPublishers(a, s)) \in Nat
  <1>1. ValidPublishers(a, s) \subseteq Publishers
    BY DEF ValidPublishers, Account
  <1> QED
    BY <1>1, FS_Subset, FS_CardinalityType, ConstantsAssumption

\* What the model returns for the valid quotes fits the account's fields.
LEMMA AggregateType ==
    ASSUME NEW a \in Account, NEW s \in Nat, ValidPublishers(a, s) # {}
    PROVE  /\ AggregateOf(a, s).price \in Int64
           /\ AggregateOf(a, s).conf \in Int64
  <1> DEFINE V == ValidPublishers(a, s)
             q == [p \in V |-> [price_ |-> a.comp_[p].latest_.price_,
                                conf_ |-> a.comp_[p].latest_.conf_]]
             F == {x \in [price_: QuotePrices, conf_: QuoteConfs] : Fits(x)}
  <1>1. V \in (SUBSET Publishers) \ {{}}
    BY DEF ValidPublishers, Account
  <1>2. ASSUME NEW p \in V
        PROVE  [price_ |-> a.comp_[p].latest_.price_,
                conf_ |-> a.comp_[p].latest_.conf_] \in F
    <2>1. p \in Publishers /\ Fits(a.comp_[p].latest_)
      BY <1>1 DEF ValidPublishers, ValidQuote
    <2>2. a.comp_[p].latest_.price_ \in QuotePrices /\ a.comp_[p].latest_.conf_ \in QuoteConfs
      BY <2>1 DEF Account, PriceComponent, PriceInfo
    <2> QED
      BY <2>1, <2>2 DEF Fits
  <1>3. q \in [V -> F]
    BY <1>2
  <1>4. AggregateModel(q) \in [price: Int64, conf: Int64]
    BY <1>1, <1>3, PriceModelAssumption
  <1>5. AggregateOf(a, s) = AggregateModel(q)
    BY Zenon DEF AggregateOf
  <1> HIDE DEF q
  <1> QED
    BY <1>4, <1>5

\* The invariant of an account at slot s and time t.
Sound(a, s, t) ==
    /\ a \in Account
    /\ SlotsOrdered(a, s, t)
    /\ QuotesUpTo(a, s)
    /\ a.twap_ = a.last_slot_
    /\ SumsBounded(a.price_cumulative)

\* The prologue of upd_aggregate keeps the types of the account's fields.
LEMMA OpenAggregateType ==
    ASSUME NEW a \in Account, NEW s \in Nat, NEW t \in Nat
    PROVE  OpenAggregate(a, s, t) \in Account
  <1> DEFINE w == a.agg_.status_ = "TRADING"
             v1 == IF w THEN a.agg_.pub_slot_ ELSE a.prev_slot_
             v2 == IF w THEN a.agg_.price_ ELSE a.prev_price_
             v3 == IF w THEN a.agg_.conf_ ELSE a.prev_conf_
             v4 == IF w THEN a.timestamp_ ELSE a.prev_timestamp_
             v5 == a.agg_.pub_slot_
             v6 == [a.agg_ EXCEPT !.pub_slot_ = s]
             v7 == [p \in Publishers |->
                       IF p \in a.pubs
                       THEN [agg_ |-> a.comp_[p].latest_, latest_ |-> a.comp_[p].latest_]
                       ELSE a.comp_[p]]
  <1>1. v1 \in Nat /\ v2 \in Int64 /\ v3 \in Nat /\ v4 \in Nat /\ v5 \in Nat
    BY DEF Account, PriceInfo
  <1>2. v6 \in PriceInfo(Int64, Nat)
    BY DEF Account, PriceInfo
  <1>3. v7 \in [Publishers -> PriceComponent]
    BY DEF Account, PriceComponent
  <1>4. OpenAggregate(a, s, t) =
          [a EXCEPT !.prev_slot_ = v1, !.prev_price_ = v2, !.prev_conf_ = v3,
                    !.prev_timestamp_ = v4, !.valid_slot_ = v5, !.agg_ = v6,
                    !.timestamp_ = t, !.comp_ = v7]
    BY Zenon DEF OpenAggregate
  <1> HIDE DEF v1, v2, v3, v4, v5, v6, v7
  <1>5. [a EXCEPT !.prev_slot_ = v1, !.prev_price_ = v2, !.prev_conf_ = v3,
                  !.prev_timestamp_ = v4, !.valid_slot_ = v5, !.agg_ = v6,
                  !.timestamp_ = t, !.comp_ = v7] \in Account
    BY <1>1, <1>2, <1>3 DEF Account
  <1> QED
    BY <1>4, <1>5, Zenon

\* upd_aggregate keeps everything but the EMAs in order: those are behind by
\* the slots of the aggregate that was just made.
LEMMA UpdAggregateSound ==
    ASSUME NEW a, NEW s \in Nat, NEW t \in Nat, NEW b,
           Sound(a, s, t), a.agg_.pub_slot_ < s,
           b = upd_aggregate(a, s, t)
    PROVE  /\ b \in Account
           /\ SlotsOrdered(b, s, t)
           /\ QuotesUpTo(b, s)
           /\ b.price_cumulative = a.price_cumulative
           /\ b.twap_ = a.last_slot_
           /\ b.prev_slot_ = a.last_slot_
           /\ b.flags = a.flags
           /\ b.timestamp_ = t /\ b.prev_timestamp_ = PublishTime(a)
           /\ b.agg_.pub_slot_ = s /\ b.message_sent_ = a.message_sent_
           /\ \A p \in Publishers : b.comp_[p].latest_ = a.comp_[p].latest_
           /\ Aggregates(a, s) => /\ b.agg_.status_ = "TRADING"
                                  /\ b.agg_.conf_ <= I64_MAX
                                  /\ b.last_slot_ = s
           /\ ~Aggregates(a, s) => /\ b.last_slot_ = a.last_slot_
                                   /\ b.agg_.status_ = "UNKNOWN"
  <1> DEFINE o == OpenAggregate(a, s, t)
             n == Cardinality(ValidPublishers(a, s))
             m == AggregateOf(a, s)
  <1>1. a \in Account /\ SlotsOrdered(a, s, t) /\ QuotesUpTo(a, s)
    BY DEF Sound
  <1>2. n \in Nat
    BY <1>1, ValidPublishersFinite
  <1>3. o \in Account
    BY <1>1, OpenAggregateType
  <1>4. /\ o.prev_slot_ = a.last_slot_
        /\ o.last_slot_ = a.last_slot_ /\ o.twap_ = a.twap_
        /\ o.price_cumulative = a.price_cumulative
        /\ o.valid_slot_ = a.agg_.pub_slot_
        /\ o.agg_.pub_slot_ = s
        /\ o.timestamp_ = t /\ o.flags = a.flags /\ o.message_sent_ = a.message_sent_
        /\ o.prev_timestamp_ = PublishTime(a) /\ o.prev_timestamp_ <= t
    BY <1>1 DEF OpenAggregate, SlotsOrdered, Account, PriceInfo, PublishTime
  <1>5. QuotesUpTo(o, s)
    BY <1>1 DEF OpenAggregate, QuotesUpTo, Account, PriceInfo, PriceComponent
  <1>8. \A p \in Publishers : o.comp_[p].latest_ = a.comp_[p].latest_
    BY <1>1 DEF OpenAggregate, Account, PriceComponent
  <1>6. CASE Aggregates(a, s)
    <2>1. m.price \in Int64 /\ m.conf \in Nat /\ m.conf <= I64_MAX
      BY <1>1, <1>6, AggregateType, I64Assumption DEF Aggregates, Int64, I64_MIN
    <2> DEFINE g == [price_ |-> m.price, conf_ |-> m.conf,
                     status_ |-> "TRADING", pub_slot_ |-> s]
    <2>2. b = [o EXCEPT !.num_qt_ = n, !.agg_ = g, !.last_slot_ = s]
      BY <1>6, <1>3 DEF upd_aggregate, Account
    <2>g. g \in PriceInfo(Int64, Nat)
      BY <2>1 DEF PriceInfo, Status
    <2>h. g.status_ = "TRADING" /\ g.pub_slot_ = s /\ g.conf_ = m.conf
      OBVIOUS
    <2> HIDE DEF o, n, m, g
    <2>3. b \in Account
      BY <2>2, <2>g, <1>2, <1>3 DEF Account
    <2>4. SlotsOrdered(b, s, t)
      BY <1>1, <2>2, <2>h, <1>3, <1>4 DEF SlotsOrdered, Account, PriceInfo
    <2>5. QuotesUpTo(b, s)
      BY <2>2, <1>3, <1>5 DEF QuotesUpTo, Account
    <2> QED
      BY <2>1, <2>2, <2>h, <2>3, <2>4, <2>5, <1>3, <1>4, <1>6, <1>8 DEF Account, Sound
  <1>7. CASE ~Aggregates(a, s)
    <2> DEFINE g == [o.agg_ EXCEPT !.status_ = "UNKNOWN"]
    <2>2. b = [o EXCEPT !.num_qt_ = n, !.agg_ = g]
      BY <1>7, <1>3 DEF upd_aggregate, Account
    <2>g. g \in PriceInfo(Int64, Nat)
      BY <1>3 DEF Account, PriceInfo, Status
    <2>h. g.status_ = "UNKNOWN" /\ g.pub_slot_ = s
      BY <1>3, <1>4 DEF Account, PriceInfo
    <2> HIDE DEF o, n, m, g
    <2>3. b \in Account
      BY <2>2, <2>g, <1>2, <1>3 DEF Account
    <2>4. SlotsOrdered(b, s, t)
      BY <1>1, <2>2, <2>h, <1>3, <1>4 DEF SlotsOrdered, Account, PriceInfo
    <2>5. QuotesUpTo(b, s)
      BY <2>2, <1>3, <1>5 DEF QuotesUpTo, Account
    <2> QED
      BY <2>2, <2>h, <2>3, <2>4, <2>5, <1>3, <1>4, <1>7, <1>8 DEF Account, Sound
  <1> QED
    BY <1>6, <1>7

\* PriceCumulative::update keeps the sums within their bounds.
LEMMA CumulativeUpdateBounded ==
    ASSUME NEW c \in PriceCumulative, SumsBounded(c),
           NEW price \in Int64, NEW conf \in Nat, conf <= I64_MAX,
           NEW gap \in Nat, NEW latency \in Nat
    PROVE  /\ CumulativeUpdate(c, price, conf, gap, latency) \in PriceCumulative
           /\ SumsBounded(CumulativeUpdate(c, price, conf, gap, latency))
           /\ CumulativeUpdate(c, price, conf, gap, latency).sum_slotgap = c.sum_slotgap + gap
  <1> DEFINE M == I64_MAX + 1
             u == CumulativeUpdate(c, price, conf, gap, latency)
             d == SaturatingSub(gap, latency)
  <1>1. M \in Nat /\ price \in Int /\ price <= M /\ -price <= M
    BY I64Assumption DEF Int64, I64_MIN
  <1>2. price * gap \in Int /\ conf * gap \in Nat
    BY <1>1
  <1>3. price * gap <= M * gap /\ -(price * gap) <= M * gap /\ conf * gap <= I64_MAX * gap
    <2> HIDE DEF M
    <2>1. ASSUME NEW x \in Int, NEW y \in Int, NEW g \in Nat, x <= y PROVE x * g <= y * g
      BY <2>1
    <2>2. price * gap <= M * gap
      BY <1>1, <2>1
    <2>3. (-price) * gap <= M * gap /\ (-price) * gap = -(price * gap)
      BY <1>1, <2>1
    <2>4. conf * gap <= I64_MAX * gap
      BY <2>1, I64Assumption
    <2> QED
      BY <2>2, <2>3, <2>4
  <1>4. d \in Nat /\ d <= gap
    BY DEF SaturatingSub
  <1>5. u = [price |-> c.price + price * gap, conf |-> c.conf + conf * gap,
             num_down_slots |-> c.num_down_slots + d,
             sum_slotgap |-> c.sum_slotgap + gap]
    BY DEF CumulativeUpdate
  <1>6. u \in PriceCumulative
    BY <1>2, <1>4, <1>5 DEF PriceCumulative
  <1>7. /\ M * (c.sum_slotgap + gap) = M * c.sum_slotgap + M * gap
        /\ I64_MAX * (c.sum_slotgap + gap) = I64_MAX * c.sum_slotgap + I64_MAX * gap
    BY <1>1, I64Assumption DEF PriceCumulative
  <1>8. /\ u.price = c.price + price * gap
        /\ u.conf = c.conf + conf * gap
        /\ u.num_down_slots = c.num_down_slots + d
        /\ u.sum_slotgap = c.sum_slotgap + gap
    BY <1>5
  <1> DEFINE pg == price * gap
             cg == conf * gap
             mg == M * gap
             ig == I64_MAX * gap
             ms == M * c.sum_slotgap
             is == I64_MAX * c.sum_slotgap
  <1>9. pg \in Int /\ cg \in Int /\ mg \in Int /\ ig \in Int /\ ms \in Int /\ is \in Int
    BY <1>1, <1>2, I64Assumption DEF PriceCumulative
  <1>10. /\ c.price \in Int /\ c.conf \in Int /\ c.num_down_slots \in Int /\ c.sum_slotgap \in Int
         /\ c.price <= ms /\ -c.price <= ms /\ c.conf <= is /\ c.num_down_slots <= c.sum_slotgap
    BY DEF SumsBounded, PriceCumulative
  <1>11. pg <= mg /\ -pg <= mg /\ cg <= ig
    BY <1>3
  <1>12. /\ u.price = c.price + pg /\ u.conf = c.conf + cg
         /\ M * u.sum_slotgap = ms + mg /\ I64_MAX * u.sum_slotgap = is + ig
    BY <1>7, <1>8
  <1> HIDE DEF u, d, pg, cg, mg, ig, ms, is
  <1>13. /\ u.price <= ms + mg /\ -u.price <= ms + mg /\ u.conf <= is + ig
         /\ u.num_down_slots <= u.sum_slotgap
    BY <1>4, <1>8, <1>9, <1>10, <1>11, <1>12
  <1>14. SumsBounded(u)
    BY <1>12, <1>13 DEF SumsBounded, M
  <1> QED
    BY <1>6, <1>8, <1>14 DEF u

\* A refresh of the aggregate keeps the account sound, and accounts for
\* exactly the slots since the last success.
LEMMA UpdateAggregateSound ==
    ASSUME NEW a, NEW s \in Nat, NEW t \in Nat,
           Sound(a, s, t), a.agg_.pub_slot_ < s
    PROVE  /\ Sound(update_aggregate(a, s, t), s, t)
           /\ update_aggregate(a, s, t).price_cumulative.sum_slotgap
                - a.price_cumulative.sum_slotgap
                = update_aggregate(a, s, t).last_slot_ - a.last_slot_
           /\ update_aggregate(a, s, t).flags = a.flags
           /\ update_aggregate(a, s, t).agg_.pub_slot_ = s
           /\ update_aggregate(a, s, t).prev_timestamp_ = PublishTime(a)
           /\ \A p \in Publishers :
                 update_aggregate(a, s, t).comp_[p].latest_ = a.comp_[p].latest_
           /\ \/ /\ Aggregates(a, s)
                 /\ PublishTime(update_aggregate(a, s, t)) = t
                 /\ update_aggregate(a, s, t).message_sent_ = 0
              \/ /\ ~Aggregates(a, s)
                 /\ PublishTime(update_aggregate(a, s, t)) = PublishTime(a)
                 /\ update_aggregate(a, s, t).last_slot_ = a.last_slot_
                 /\ update_aggregate(a, s, t).price_cumulative = a.price_cumulative
                 /\ update_aggregate(a, s, t).message_sent_ = a.message_sent_
  <1> DEFINE b == upd_aggregate(a, s, t)
             d == [upd_twap(b, s - b.prev_slot_) EXCEPT !.message_sent_ = 0]
             r == update_aggregate(a, s, t)
             c == a.price_cumulative
  <1>1. /\ b \in Account /\ SlotsOrdered(b, s, t) /\ QuotesUpTo(b, s)
        /\ b.price_cumulative = c
        /\ b.twap_ = a.last_slot_ /\ b.prev_slot_ = a.last_slot_
        /\ b.flags = a.flags /\ b.agg_.pub_slot_ = s /\ b.message_sent_ = a.message_sent_
        /\ b.timestamp_ = t /\ b.prev_timestamp_ = PublishTime(a)
        /\ \A p \in Publishers : b.comp_[p].latest_ = a.comp_[p].latest_
    BY UpdAggregateSound
  <1>2. c \in PriceCumulative /\ SumsBounded(c) /\ a.last_slot_ \in Nat /\ a \in Account
    BY DEF Sound, Account
  <1>3. CASE ~Aggregates(a, s)
    <2>1. r = b
      BY <1>3, Zenon DEF update_aggregate
    <2>2. b.last_slot_ = a.last_slot_ /\ b.agg_.status_ = "UNKNOWN"
      BY <1>3, UpdAggregateSound
    <2> HIDE DEF b, r
    <2>3. Sound(r, s, t) /\ r.flags = a.flags
      BY <1>1, <1>2, <2>1, <2>2 DEF Sound
    <2>4. r.price_cumulative = c /\ r.last_slot_ = a.last_slot_
      BY <1>1, <2>1, <2>2
    <2>5. r.price_cumulative.sum_slotgap - c.sum_slotgap = r.last_slot_ - a.last_slot_
      BY <1>2, <2>4 DEF PriceCumulative
    <2>6. PublishTime(r) = PublishTime(a)
      BY <1>1, <2>1, <2>2, Zenon DEF PublishTime
    <2>7. r.agg_.pub_slot_ = s /\ r.prev_timestamp_ = PublishTime(a)
          /\ r.message_sent_ = a.message_sent_
          /\ \A p \in Publishers : r.comp_[p].latest_ = a.comp_[p].latest_
      BY <1>1, <2>1, Zenon
    <2> QED
      BY <1>3, <2>3, <2>4, <2>5, <2>6, <2>7, Zenon DEF r, c
  <1>4. CASE Aggregates(a, s)
    <2>1. /\ b.agg_.status_ = "TRADING" /\ b.agg_.pub_slot_ = s
          /\ b.agg_.conf_ <= I64_MAX /\ b.last_slot_ = s
      BY <1>4, UpdAggregateSound
    <2>2. r = update_price_cumulative(d)
      BY <1>4, Zenon DEF update_aggregate
    <2>3. s - b.prev_slot_ \in Int /\ b.twap_ + (s - b.prev_slot_) = s
      BY <1>1, <1>2
    <2> DEFINE w == b.twap_ + (s - b.prev_slot_)
    <2>4. d = [b EXCEPT !.twap_ = w, !.message_sent_ = 0]
      BY <1>1 DEF upd_twap, Account
    <2> HIDE DEF b, d, r, w
    <2>5. w = s /\ w \in Int
      BY <2>3 DEF w
    <2>6. d \in Account
      <3>1. b \in Account /\ w \in Int /\ 0 \in {0, 1}
        BY <1>1, <2>5
      <3>2. [b EXCEPT !.twap_ = w, !.message_sent_ = 0] \in Account
        BY <3>1 DEF Account
      <3> QED
        BY <2>4, <3>2, Zenon
    <2>7. /\ d.agg_ = b.agg_ /\ d.prev_slot_ = b.prev_slot_ /\ d.last_slot_ = b.last_slot_
          /\ d.price_cumulative = c /\ d.twap_ = s
          /\ d.max_latency_ = b.max_latency_ /\ d.comp_ = b.comp_
          /\ d.timestamp_ = b.timestamp_ /\ d.prev_timestamp_ = b.prev_timestamp_
          /\ d.valid_slot_ = b.valid_slot_ /\ d.flags = b.flags /\ d.message_sent_ = 0
      BY <1>1, <2>4, <2>5 DEF Account
    <2> DEFINE gap == SaturatingSub(d.agg_.pub_slot_, d.prev_slot_)
               price == d.agg_.price_
               conf == d.agg_.conf_
               latency == MaxLatency(d)
               u == CumulativeUpdate(c, price, conf, gap, latency)
    <2>8. gap \in Nat /\ gap = s - a.last_slot_
      <3>1. a.last_slot_ <= s
        BY <1>1, <2>1 DEF SlotsOrdered, Account
      <3> QED
        BY <1>1, <1>2, <2>1, <2>7, <3>1 DEF SaturatingSub
    <2>9. latency \in Nat
      BY <2>6, ConstantsAssumption DEF MaxLatency, Account
    <2>10. price \in Int64 /\ conf \in Nat /\ conf <= I64_MAX
      BY <2>1, <2>6, <2>7 DEF Account, PriceInfo
    <2> HIDE DEF c, gap, price, conf, latency
    <2>11. /\ u \in PriceCumulative /\ SumsBounded(u) /\ u.sum_slotgap = c.sum_slotgap + gap
      <3>1. c \in PriceCumulative /\ SumsBounded(c) /\ gap \in Nat
        BY <1>2, <2>8 DEF c
      <3> QED
        BY <3>1, <2>9, <2>10, CumulativeUpdateBounded, SMT
    <2>12. r = [d EXCEPT !.price_cumulative = u]
      BY <2>1, <2>2, <2>7 DEF update_price_cumulative, gap, price, conf, latency
    <2> HIDE DEF u
    <2>13. r \in Account
      BY <2>6, <2>11, <2>12 DEF Account
    <2>14. /\ r.agg_ = d.agg_ /\ r.prev_slot_ = d.prev_slot_ /\ r.last_slot_ = d.last_slot_
           /\ r.price_cumulative = u /\ r.twap_ = d.twap_ /\ r.comp_ = d.comp_
           /\ r.timestamp_ = d.timestamp_ /\ r.prev_timestamp_ = d.prev_timestamp_
           /\ r.valid_slot_ = d.valid_slot_ /\ r.flags = d.flags
           /\ r.message_sent_ = d.message_sent_
      BY <2>6, <2>12 DEF Account
    <2>15. SlotsOrdered(r, s, t)
      BY <1>1, <2>7, <2>14, Zenon DEF SlotsOrdered
    <2>16. QuotesUpTo(r, s)
      BY <1>1, <2>7, <2>14, Zenon DEF QuotesUpTo
    <2>17. r.last_slot_ = s /\ r.twap_ = s
      BY <2>1, <2>7, <2>14
    <2>18. r.price_cumulative.sum_slotgap - c.sum_slotgap = r.last_slot_ - a.last_slot_
      BY <1>2, <2>8, <2>11, <2>14, <2>17 DEF PriceCumulative
    <2>19. Sound(r, s, t)
      BY <2>11, <2>13, <2>14, <2>15, <2>16, <2>17, Zenon DEF Sound
    <2>20. /\ r.flags = a.flags /\ r.agg_.pub_slot_ = s
           /\ r.prev_timestamp_ = PublishTime(a) /\ r.message_sent_ = 0
           /\ \A p \in Publishers : r.comp_[p].latest_ = a.comp_[p].latest_
      <3>1. r.flags = a.flags /\ r.agg_.pub_slot_ = s
        BY <1>1, <2>7, <2>14, Zenon
      <3>2. r.prev_timestamp_ = PublishTime(a) /\ r.message_sent_ = 0
        BY <1>1, <2>7, <2>14, Zenon
      <3>3. \A p \in Publishers : r.comp_[p].latest_ = a.comp_[p].latest_
        BY <1>1, <2>7, <2>14, Zenon
      <3> QED
        BY <3>1, <3>2, <3>3
    <2>21. PublishTime(r) = t
      BY <1>1, <2>1, <2>7, <2>14, Zenon DEF PublishTime
    <2> QED
      BY <1>4, <2>18, <2>19, <2>20, <2>21, Zenon DEF r, c
  <1> QED
    BY <1>3, <1>4

\* Soundness reads only some fields of an account.
LEMMA SoundFrame ==
    ASSUME NEW a, NEW b \in Account, NEW s, NEW t, Sound(a, s, t),
           b.agg_ = a.agg_, b.comp_ = a.comp_, b.twap_ = a.twap_,
           b.last_slot_ = a.last_slot_, b.valid_slot_ = a.valid_slot_,
           b.prev_slot_ = a.prev_slot_, b.timestamp_ = a.timestamp_,
           b.prev_timestamp_ = a.prev_timestamp_,
           b.price_cumulative = a.price_cumulative
    PROVE  Sound(b, s, t)
  <1>1. SlotsOrdered(b, s, t)
    BY Zenon DEF Sound, SlotsOrdered
  <1>2. QuotesUpTo(b, s)
    BY Zenon DEF Sound, QuotesUpTo
  <1> QED
    BY <1>1, <1>2, Zenon DEF Sound

\* Two accounts that publish the same.
SamePublished(a, b) ==
    /\ b.agg_ = a.agg_ /\ b.timestamp_ = a.timestamp_
    /\ b.prev_price_ = a.prev_price_ /\ b.prev_conf_ = a.prev_conf_
    /\ b.prev_timestamp_ = a.prev_timestamp_
    /\ b.price_cumulative = a.price_cumulative
    /\ b.last_slot_ = a.last_slot_

\* Sending a message only touches message_sent_ and the flags.
LEMMA AfterPutAllSound ==
    ASSUME NEW a, NEW s, NEW t, NEW ba, Sound(a, s, t)
    PROVE  /\ Sound(AfterPutAll(a, ba), s, t)
           /\ SamePublished(a, AfterPutAll(a, ba))
           /\ AfterPutAll(a, ba).pubs = a.pubs /\ AfterPutAll(a, ba).comp_ = a.comp_
  <1> DEFINE b == AfterPutAll(a, ba)
             f == IF V2(a) THEN a.flags \union {"MESSAGE_BUFFER_CLEARED"} ELSE a.flags
  <1>1. a \in Account
    BY DEF Sound
  <1>2. f \in SUBSET Flag
    BY <1>1 DEF Account, Flag
  <1>3. b = a \/ b = [a EXCEPT !.message_sent_ = 1, !.flags = f]
    BY <1>1 DEF AfterPutAll, Account
  <1> HIDE DEF f, b
  <1>4. [a EXCEPT !.message_sent_ = 1, !.flags = f] \in Account
    BY <1>1, <1>2 DEF Account
  <1>5. b \in Account
    BY <1>1, <1>3, <1>4, Zenon
  <1>6. /\ SamePublished(a, b) /\ b.pubs = a.pubs /\ b.comp_ = a.comp_
        /\ b.twap_ = a.twap_ /\ b.valid_slot_ = a.valid_slot_ /\ b.prev_slot_ = a.prev_slot_
    <2>1. CASE b = a
      BY <2>1 DEF SamePublished
    <2>2. CASE b = [a EXCEPT !.message_sent_ = 1, !.flags = f]
      BY <1>1, <2>2 DEF Account, SamePublished
    <2> QED
      BY <1>3, <2>1, <2>2
  <1> QED
    BY <1>5, <1>6, SoundFrame DEF b, SamePublished

\* Writing a publisher's quote, once the checks of upd_price are passed.
LEMMA WriteLatestSound ==
    ASSUME NEW a, NEW s \in Nat, NEW t, Sound(a, s, t),
           NEW p \in Publishers, NEW arg \in QuoteArgs, NEW ps \in Nat,
           ps > a.comp_[p].latest_.pub_slot_, ps <= s
    PROVE  /\ Sound(WriteLatest(a, p, arg, ps), s, t)
           /\ SamePublished(a, WriteLatest(a, p, arg, ps))
           /\ WriteLatest(a, p, arg, ps).flags = a.flags
           /\ WriteLatest(a, p, arg, ps).message_sent_ = a.message_sent_
  <1> DEFINE b == WriteLatest(a, p, arg, ps)
             q == [price_ |-> arg.price, conf_ |-> arg.conf,
                   status_ |-> StatusForConfPriceRatio(arg), pub_slot_ |-> ps]
             k == [a.comp_ EXCEPT ![p] = [a.comp_[p] EXCEPT !.latest_ = q]]
  <1>1. a \in Account /\ QuotesUpTo(a, s) /\ SlotsOrdered(a, s, t)
    BY DEF Sound
  <1>2. q \in PriceInfo(QuotePrices, QuoteConfs)
    <2>1. arg.price \in QuotePrices /\ arg.conf \in QuoteConfs
      BY DEF QuotePrices, QuoteConfs
    <2>2. StatusForConfPriceRatio(arg) \in Status
      BY ConstantsAssumption DEF StatusForConfPriceRatio, Status
    <2> QED
      BY <2>1, <2>2 DEF PriceInfo
  <1>3. q.pub_slot_ = ps
    OBVIOUS
  <1>4. b = [a EXCEPT !.comp_ = k]
    BY <1>1 DEF WriteLatest, Account
  <1> HIDE DEF q
  <1>5. k \in [Publishers -> PriceComponent]
    BY <1>1, <1>2 DEF Account, PriceComponent
  <1>6. \A x \in Publishers :
            /\ k[x].agg_.pub_slot_ <= k[x].latest_.pub_slot_
            /\ k[x].latest_.pub_slot_ <= s
    <2> SUFFICES ASSUME NEW x \in Publishers
                 PROVE  /\ k[x].agg_.pub_slot_ <= k[x].latest_.pub_slot_
                        /\ k[x].latest_.pub_slot_ <= s
      OBVIOUS
    <2>1. CASE x # p
      BY <1>1, <2>1 DEF QuotesUpTo, Account
    <2>2. CASE x = p
      <3>1. /\ a.comp_[p].agg_.pub_slot_ <= a.comp_[p].latest_.pub_slot_
            /\ a.comp_[p].agg_.pub_slot_ \in Nat /\ a.comp_[p].latest_.pub_slot_ \in Nat
        BY <1>1 DEF QuotesUpTo, Account, PriceComponent, PriceInfo
      <3>2. k[x].agg_ = a.comp_[p].agg_ /\ k[x].latest_ = q
        BY <1>1, <2>2 DEF Account, PriceComponent
      <3> QED
        BY <1>3, <3>1, <3>2
    <2> QED
      BY <2>1, <2>2
  <1> HIDE DEF k, b
  <1>7. b \in Account
    <2>1. [a EXCEPT !.comp_ = k] \in Account
      BY <1>1, <1>5 DEF Account
    <2> QED
      BY <1>4, <2>1, Zenon
  <1>8. /\ b.comp_ = k /\ SamePublished(a, b) /\ b.flags = a.flags
        /\ b.message_sent_ = a.message_sent_
        /\ b.twap_ = a.twap_ /\ b.valid_slot_ = a.valid_slot_ /\ b.prev_slot_ = a.prev_slot_
    BY <1>1, <1>4 DEF Account, SamePublished
  <1>9. QuotesUpTo(b, s)
    BY <1>6, <1>8 DEF QuotesUpTo
  <1>10. SlotsOrdered(b, s, t)
    BY <1>1, <1>8, Zenon DEF SlotsOrdered, SamePublished
  <1>11. Sound(b, s, t)
    BY <1>7, <1>8, <1>9, <1>10, Zenon DEF Sound, SamePublished
  <1> QED
    BY <1>8, <1>11, Zenon DEF b

\* What a step other than init_price does to the published part of an account.
Continues(a, b, s) ==
    /\ b.price_cumulative.sum_slotgap - a.price_cumulative.sum_slotgap
         = b.last_slot_ - a.last_slot_
    /\ \/ Message(b) = Message(a)
       \/ /\ b.agg_.pub_slot_ = s
          /\ Message(b).prev_publish_time = Message(a).publish_time
          /\ Message(b).publish_time >= Message(a).publish_time

\* Accounts that publish the same have the same message.
LEMMA SameMessage ==
    ASSUME NEW a, NEW b, SamePublished(a, b)
    PROVE  Message(b) = Message(a) /\ PublishTime(b) = PublishTime(a)
  BY Zenon DEF SamePublished, Message, PublishTime

\* What continues an account still does after changes that publish nothing.
LEMMA ContinuesSame ==
    ASSUME NEW a, NEW b, NEW c, NEW s, Continues(a, b, s), SamePublished(b, c)
    PROVE  Continues(a, c, s)
  <1>1. Message(c) = Message(b)
    BY SameMessage
  <1> QED
    BY <1>1, Zenon DEF Continues, SamePublished

\* An account that publishes the same continues it.
LEMMA ContinuesRefl ==
    ASSUME NEW a \in Account, NEW b, NEW s, SamePublished(a, b)
    PROVE  Continues(a, b, s)
  <1>1. Message(b) = Message(a)
    BY SameMessage
  <1>2. /\ a.price_cumulative.sum_slotgap \in Int /\ a.last_slot_ \in Int
        /\ b.price_cumulative.sum_slotgap = a.price_cumulative.sum_slotgap
        /\ b.last_slot_ = a.last_slot_
    BY DEF Account, PriceCumulative, SamePublished
  <1> QED
    BY <1>1, <1>2 DEF Continues

\* The messages: the flags form a ladder, the buffer is empty once v2 may
\* aggregate, and a message that is not owed is up to date.
MsgInv(a, buf) ==
    /\ a.flags \in {{}, {"ACCUMULATOR_V2"}, Flag}
    /\ a.flags = Flag => buf = NoMessage
    /\ (a.message_sent_ = 1 /\ a.last_slot_ # 0 /\ buf # NoMessage) =>
          /\ buf.publish_slot = a.last_slot_
          /\ buf.publish_time = PublishTime(a)
          /\ buf.cumulative = a.price_cumulative

\* The message invariant reads only what is published, the flags and message_sent_.
LEMMA MsgInvFrame ==
    ASSUME NEW a, NEW b, NEW buf, MsgInv(a, buf), SamePublished(a, b),
           b.flags = a.flags, b.message_sent_ = a.message_sent_
    PROVE  MsgInv(b, buf)
  <1>1. PublishTime(b) = PublishTime(a)
    BY SameMessage
  <1> QED
    BY <1>1, Zenon DEF MsgInv, SamePublished

\* Sending, or clearing, keeps the message invariant.
LEMMA PutAllMsg ==
    ASSUME NEW a \in Account, NEW ba, MsgInv(a, buffer)
    PROVE  MsgInv(AfterPutAll(a, ba), BufferAfterPutAll(a, ba))
  <1> DEFINE b == AfterPutAll(a, ba)
             f == IF V2(a) THEN a.flags \union {"MESSAGE_BUFFER_CLEARED"} ELSE a.flags
  <1>1. CASE ~(NeedMessageBufferUpdate(a) /\ ba = "ok")
    BY <1>1, Zenon DEF AfterPutAll, BufferAfterPutAll
  <1>2. CASE NeedMessageBufferUpdate(a) /\ ba = "ok"
    <2>1. b = [a EXCEPT !.message_sent_ = 1, !.flags = f]
      BY <1>2 DEF AfterPutAll, Account
    <2>2. /\ b.flags = f /\ SamePublished(a, b)
      BY <2>1 DEF SamePublished, Account
    <2>3. CASE V2(a)
      <3>1. BufferAfterPutAll(a, ba) = NoMessage
        BY <1>2, <2>3, Zenon DEF BufferAfterPutAll
      <3>2. f = Flag
        BY <2>3 DEF MsgInv, V2, Flag
      <3> QED
        BY <2>2, <3>1, <3>2, Zenon DEF MsgInv, b
    <2>4. CASE ~V2(a)
      <3>1. BufferAfterPutAll(a, ba) = Message(a)
        BY <1>2, <2>4, Zenon DEF BufferAfterPutAll
      <3>2. f = {} /\ {} # Flag
        BY <2>4 DEF MsgInv, V2, Flag
      <3>3. /\ Message(a).publish_slot = a.last_slot_
            /\ Message(a).publish_time = PublishTime(a)
            /\ Message(a).cumulative = a.price_cumulative
        BY DEF Message
      <3>4. PublishTime(b) = PublishTime(a) /\ b.last_slot_ = a.last_slot_
            /\ b.price_cumulative = a.price_cumulative
        BY <2>2, SameMessage DEF SamePublished
      <3> QED
        BY <2>2, <3>1, <3>2, <3>3, <3>4, Zenon DEF MsgInv, b
    <2> QED
      BY <2>3, <2>4
  <1> QED
    BY <1>1, <1>2

\* A refresh continues what was published and keeps the invariants.
LEMMA UpdateAggregateContinues ==
    ASSUME NEW a, NEW s \in Nat, NEW t \in Nat, Sound(a, s, t), a.agg_.pub_slot_ < s
    PROVE  /\ Continues(a, update_aggregate(a, s, t), s)
           /\ \A buf : MsgInv(a, buf) => MsgInv(update_aggregate(a, s, t), buf)
  <1> DEFINE r == update_aggregate(a, s, t)
  <1>1. /\ r.price_cumulative.sum_slotgap - a.price_cumulative.sum_slotgap
             = r.last_slot_ - a.last_slot_
        /\ r.flags = a.flags /\ r.agg_.pub_slot_ = s /\ r.prev_timestamp_ = PublishTime(a)
        /\ \/ PublishTime(r) = t /\ r.message_sent_ = 0
           \/ /\ PublishTime(r) = PublishTime(a)
              /\ r.last_slot_ = a.last_slot_ /\ r.price_cumulative = a.price_cumulative
              /\ r.message_sent_ = a.message_sent_
    BY UpdateAggregateSound, SMT
  <1>2. PublishTime(a) \in Nat /\ PublishTime(a) <= t
    BY DEF Sound, SlotsOrdered, Account, PublishTime
  <1> HIDE DEF r
  <1>3. PublishTime(r) >= PublishTime(a)
    BY <1>1, <1>2
  <1>4. Continues(a, r, s)
    <2>1. Message(r).prev_publish_time = r.prev_timestamp_
          /\ Message(a).publish_time = PublishTime(a)
          /\ Message(r).publish_time = PublishTime(r)
      BY DEF Message
    <2> QED
      BY <1>1, <1>3, <2>1, Zenon DEF Continues
  <1>5. ASSUME NEW buf, MsgInv(a, buf) PROVE MsgInv(r, buf)
    <2>1. 0 # 1
      OBVIOUS
    <2> QED
      BY <1>1, <1>5, <2>1, Zenon DEF MsgInv
  <1> QED
    BY <1>4, <1>5 DEF r

\* The refresh inside upd_price and agg_price, done or not.
LEMMA RefreshedSound ==
    ASSUME slot \in Nat, now \in Nat, Sound(acc, slot, now), MsgInv(acc, buffer)
    PROVE  /\ Sound(Refreshed(acc), slot, now)
           /\ Continues(acc, Refreshed(acc), slot)
           /\ MsgInv(Refreshed(acc), buffer)
           /\ \A p \in Publishers : Refreshed(acc).comp_[p].latest_ = acc.comp_[p].latest_
  <1>1. CASE ~V2(acc) /\ slot > acc.agg_.pub_slot_
    <2>1. Refreshed(acc) = update_aggregate(acc, slot, now)
      BY <1>1, Zenon DEF Refreshed
    <2>2. acc.agg_.pub_slot_ < slot
      BY <1>1
    <2>3. /\ Sound(update_aggregate(acc, slot, now), slot, now)
          /\ \A p \in Publishers :
                update_aggregate(acc, slot, now).comp_[p].latest_ = acc.comp_[p].latest_
      BY <2>2, UpdateAggregateSound, SMT
    <2>4. /\ Continues(acc, update_aggregate(acc, slot, now), slot)
          /\ MsgInv(update_aggregate(acc, slot, now), buffer)
      BY <2>2, UpdateAggregateContinues, SMT
    <2> QED
      BY <2>1, <2>3, <2>4, Zenon
  <1>2. CASE ~(~V2(acc) /\ slot > acc.agg_.pub_slot_)
    <2>1. Refreshed(acc) = acc
      BY <1>2, Zenon DEF Refreshed
    <2>2. Continues(acc, acc, slot)
      BY ContinuesRefl, Zenon DEF Sound, SamePublished
    <2> QED
      BY <2>1, <2>2, Zenon
  <1> QED
    BY <1>1, <1>2

\* The part upd_price and agg_price share, up to the message buffer.
LEMMA PutAllRefreshed ==
    ASSUME slot \in Nat, now \in Nat, Sound(acc, slot, now), MsgInv(acc, buffer), NEW ba
    PROVE  /\ Sound(AfterPutAll(Refreshed(acc), ba), slot, now)
           /\ Continues(acc, AfterPutAll(Refreshed(acc), ba), slot)
           /\ MsgInv(AfterPutAll(Refreshed(acc), ba), BufferAfterPutAll(Refreshed(acc), ba))
           /\ \A p \in Publishers :
                 AfterPutAll(Refreshed(acc), ba).comp_[p].latest_ = acc.comp_[p].latest_
  <1> DEFINE a == Refreshed(acc)
             b == AfterPutAll(a, ba)
  <1>1. /\ Sound(a, slot, now) /\ Continues(acc, a, slot) /\ MsgInv(a, buffer)
        /\ \A p \in Publishers : a.comp_[p].latest_ = acc.comp_[p].latest_
    BY RefreshedSound
  <1>2. a \in Account
    BY <1>1 DEF Sound
  <1> HIDE DEF a
  <1>3. Sound(b, slot, now) /\ SamePublished(a, b) /\ b.comp_ = a.comp_
    BY <1>1, AfterPutAllSound, SMT
  <1>4. MsgInv(b, BufferAfterPutAll(a, ba))
    BY <1>1, <1>2, PutAllMsg, SMT
  <1> HIDE DEF b
  <1>5. Continues(acc, b, slot)
    BY <1>1, <1>3, ContinuesSame, SMT
  <1> QED
    BY <1>1, <1>3, <1>4, <1>5, Zenon DEF a, b

-----------------------------------------------------------------------------
\* The inductive invariant.
IInv ==
    /\ slot \in Nat /\ now \in Nat /\ admin \in Nat
    /\ Sound(acc, slot, now)
    /\ MsgInv(acc, buffer)

\* What every step but init_price does to what the account publishes.
Step == InitPrice \/ Continues(acc, acc', slot)

\* upd_price, run to its end.
LEMMA UpdPriceStep ==
    ASSUME IInv, NEW p \in Publishers, NEW arg \in QuoteArgs, NEW s \in Nat, NEW ba,
           UpdPrice(p, arg, s, ba)
    PROVE  IInv' /\ Step
  <1> DEFINE b == AfterPutAll(Refreshed(acc), ba)
             w == WriteLatest(b, p, arg, s)
             f == BufferAfterPutAll(Refreshed(acc), ba)
  <1>1. /\ slot \in Nat /\ now \in Nat /\ admin \in Nat
        /\ Sound(acc, slot, now) /\ MsgInv(acc, buffer)
    BY DEF IInv
  <1>2. /\ Sound(b, slot, now) /\ Continues(acc, b, slot) /\ MsgInv(b, f)
        /\ b.comp_[p].latest_ = acc.comp_[p].latest_
    BY <1>1, PutAllRefreshed
  <1>3. /\ acc' = w /\ buffer' = f
        /\ slot' = slot /\ now' = now /\ admin' = admin
        /\ s > acc.comp_[p].latest_.pub_slot_ /\ s <= slot
    BY Zenon DEF UpdPrice, MayPublish
  <1> HIDE DEF b, f
  <1>4. s > b.comp_[p].latest_.pub_slot_
    BY <1>2, <1>3
  <1>5. /\ Sound(w, slot, now) /\ SamePublished(b, w)
        /\ w.flags = b.flags /\ w.message_sent_ = b.message_sent_
    BY <1>1, <1>2, <1>3, <1>4, WriteLatestSound, SMT
  <1> HIDE DEF w
  <1>6. MsgInv(w, f)
    BY <1>2, <1>5, MsgInvFrame, SMT
  <1>7. Continues(acc, w, slot)
    BY <1>2, <1>5, ContinuesSame, SMT
  <1> QED
    BY <1>1, <1>3, <1>5, <1>6, <1>7, Zenon DEF IInv, Step

\* upd_price_no_fail_on_error where upd_price stops half way.
LEMMA UpdPriceNoFailOnErrorStep ==
    ASSUME IInv, NEW p \in Publishers, NEW arg \in QuoteArgs, NEW s \in Nat, NEW ba,
           UpdPriceNoFailOnError(p, arg, s, ba)
    PROVE  IInv' /\ Step
  <1> DEFINE a == Refreshed(acc)
             b == AfterPutAll(a, ba)
             f == BufferAfterPutAll(a, ba)
  <1>1. /\ slot \in Nat /\ now \in Nat /\ admin \in Nat
        /\ Sound(acc, slot, now) /\ MsgInv(acc, buffer)
    BY DEF IInv
  <1>2. /\ Sound(a, slot, now) /\ Continues(acc, a, slot) /\ MsgInv(a, buffer)
    BY <1>1, RefreshedSound
  <1>3. /\ Sound(b, slot, now) /\ Continues(acc, b, slot) /\ MsgInv(b, f)
    BY <1>1, PutAllRefreshed
  <1>4. /\ \/ acc' = a /\ buffer' = buffer
           \/ acc' = b /\ buffer' = f
        /\ slot' = slot /\ now' = now /\ admin' = admin
    BY Zenon DEF UpdPriceNoFailOnError
  <1> HIDE DEF a, b, f
  <1> QED
    BY <1>1, <1>2, <1>3, <1>4, Zenon DEF IInv, Step

\* agg_price.
LEMMA AggPriceStep ==
    ASSUME IInv, NEW p \in Publishers, NEW ba, AggPrice(p, ba)
    PROVE  IInv' /\ Step
  <1> DEFINE b == AfterPutAll(Refreshed(acc), ba)
             f == BufferAfterPutAll(Refreshed(acc), ba)
  <1>1. /\ slot \in Nat /\ now \in Nat /\ admin \in Nat
        /\ Sound(acc, slot, now) /\ MsgInv(acc, buffer)
    BY DEF IInv
  <1>2. /\ Sound(b, slot, now) /\ Continues(acc, b, slot) /\ MsgInv(b, f)
    BY <1>1, PutAllRefreshed
  <1>3. /\ acc' = b /\ buffer' = f
        /\ slot' = slot /\ now' = now /\ admin' = admin
    BY Zenon DEF AggPrice
  <1> HIDE DEF b, f
  <1> QED
    BY <1>1, <1>2, <1>3, Zenon DEF IInv, Step

\* The validator's aggregate_price.
LEMMA AggregatePriceStep ==
    ASSUME IInv, AggregatePrice
    PROVE  IInv' /\ Step
  <1> DEFINE b == update_aggregate(acc, slot, now)
  <1>1. /\ slot \in Nat /\ now \in Nat /\ admin \in Nat
        /\ Sound(acc, slot, now) /\ MsgInv(acc, buffer)
    BY DEF IInv
  <1>2. /\ acc' = b /\ buffer' = buffer
        /\ slot' = slot /\ now' = now /\ admin' = admin
        /\ acc.agg_.pub_slot_ # slot
    BY Zenon DEF AggregatePrice
  <1>3. acc.agg_.pub_slot_ < slot
    BY <1>1, <1>2 DEF Sound, SlotsOrdered, Account, PriceInfo
  <1>4. Sound(b, slot, now)
    BY <1>1, <1>3, UpdateAggregateSound, SMT
  <1>5. Continues(acc, b, slot) /\ MsgInv(b, buffer)
    BY <1>1, <1>3, UpdateAggregateContinues, SMT
  <1> HIDE DEF b
  <1> QED
    BY <1>1, <1>2, <1>4, <1>5, Zenon DEF IInv, Step

\* A later slot keeps everything below the clock.
LEMMA NextSlotStep ==
    ASSUME IInv, NextSlot
    PROVE  IInv' /\ Step
  <1>1. /\ slot \in Nat /\ now \in Nat /\ admin \in Nat
        /\ Sound(acc, slot, now) /\ MsgInv(acc, buffer)
    BY DEF IInv
  <1>2. /\ acc' = acc /\ buffer' = buffer /\ admin' = admin
        /\ slot' = slot + 1 /\ now' \in {now, now + 1}
    BY Zenon DEF NextSlot
  <1>3. slot' \in Nat /\ now' \in Nat /\ slot <= slot' /\ now <= now'
    BY <1>1, <1>2
  <1>4. acc \in Account /\ SlotsOrdered(acc, slot, now) /\ QuotesUpTo(acc, slot)
    BY <1>1 DEF Sound
  <1>5. SlotsOrdered(acc, slot', now')
    BY <1>1, <1>3, <1>4 DEF SlotsOrdered, Account, PriceInfo
  <1>6. QuotesUpTo(acc, slot')
    BY <1>1, <1>3, <1>4 DEF QuotesUpTo, Account, PriceInfo, PriceComponent
  <1>7. Sound(acc, slot', now')
    BY <1>1, <1>5, <1>6 DEF Sound
  <1>8. Continues(acc, acc, slot)
    BY <1>4, ContinuesRefl, Zenon DEF SamePublished
  <1> QED
    BY <1>1, <1>2, <1>3, <1>7, <1>8, Zenon DEF IInv, Step

\* An administrative instruction that leaves the published part, the quotes,
\* the flags and message_sent_ alone.
LEMMA AdministerFrame ==
    ASSUME IInv, NEW a \in Account, Administer(a),
           QuotesUpTo(a, slot), SamePublished(acc, a),
           a.twap_ = acc.twap_, a.valid_slot_ = acc.valid_slot_,
           a.prev_slot_ = acc.prev_slot_, a.message_sent_ = acc.message_sent_,
           a.flags = acc.flags
    PROVE  IInv' /\ Step
  <1>1. /\ slot \in Nat /\ now \in Nat /\ admin \in Nat
        /\ Sound(acc, slot, now) /\ MsgInv(acc, buffer)
    BY DEF IInv
  <1>2. /\ acc' = a /\ buffer' = buffer /\ slot' = slot /\ now' = now /\ admin' = admin + 1
    BY Zenon DEF Administer
  <1>3. SlotsOrdered(a, slot, now)
    BY <1>1, Zenon DEF Sound, SlotsOrdered, SamePublished
  <1>4. Sound(a, slot, now)
    BY <1>1, <1>3, Zenon DEF Sound, SamePublished
  <1>5. MsgInv(a, buffer)
    BY <1>1, MsgInvFrame, SMT
  <1>6. Continues(acc, a, slot)
    BY <1>1, ContinuesRefl, Zenon DEF Sound
  <1>7. admin' \in Nat
    BY <1>1, <1>2
  <1> QED
    BY <1>1, <1>2, <1>4, <1>5, <1>6, <1>7, Zenon DEF IInv, Step

\* add_publisher and del_publisher zero one component.
LEMMA PublisherStep ==
    ASSUME IInv, NEW p \in Publishers, AddPublisher(p) \/ DelPublisher(p)
    PROVE  IInv' /\ Step
  <1>1. acc \in Account /\ QuotesUpTo(acc, slot) /\ slot \in Nat
    BY DEF IInv, Sound
  <1>2. PICK P \in SUBSET Publishers :
            Administer([acc EXCEPT !.pubs = P, !.comp_[p] = NoComponent])
    <2>1. acc.pubs \in SUBSET Publishers
      BY <1>1 DEF Account
    <2>2. CASE AddPublisher(p)
      <3>1. Administer([acc EXCEPT !.pubs = acc.pubs \union {p}, !.comp_[p] = NoComponent])
        BY <2>2, Zenon DEF AddPublisher
      <3> QED
        BY <2>1, <3>1
    <2>3. CASE DelPublisher(p)
      <3>1. Administer([acc EXCEPT !.pubs = acc.pubs \ {p}, !.comp_[p] = NoComponent])
        BY <2>3, Zenon DEF DelPublisher
      <3> QED
        BY <2>1, <3>1
    <2> QED
      BY <2>2, <2>3
  <1> DEFINE c == [acc.comp_ EXCEPT ![p] = NoComponent]
             a == [acc EXCEPT !.pubs = P, !.comp_ = c]
  <1>3. NoPrice \in PriceInfo(QuotePrices, QuoteConfs)
    BY DEF NoPrice, PriceInfo, Status, QuotePrices, QuoteConfs
  <1>3a. NoComponent \in PriceComponent
    BY <1>3 DEF NoComponent, PriceComponent
  <1>4. c \in [Publishers -> PriceComponent]
    BY <1>1, <1>3a DEF Account
  <1>5. \A q \in Publishers : c[q] = IF q = p THEN NoComponent ELSE acc.comp_[q]
    BY <1>1 DEF Account
  <1>6. Administer(a)
    BY <1>2, Zenon
  <1> HIDE DEF c
  <1>7. a \in Account
    BY <1>1, <1>4 DEF Account
  <1>8. /\ a.comp_ = c /\ SamePublished(acc, a)
        /\ a.twap_ = acc.twap_ /\ a.valid_slot_ = acc.valid_slot_
        /\ a.prev_slot_ = acc.prev_slot_ /\ a.message_sent_ = acc.message_sent_
        /\ a.flags = acc.flags
    BY <1>1 DEF Account, SamePublished
  <1>9. QuotesUpTo(a, slot)
    <2> SUFFICES ASSUME NEW q \in Publishers
                 PROVE  /\ a.comp_[q].agg_.pub_slot_ <= a.comp_[q].latest_.pub_slot_
                        /\ a.comp_[q].latest_.pub_slot_ <= slot
      BY DEF QuotesUpTo
    <2>1. CASE q = p
      <3>1. a.comp_[q] = NoComponent
        BY <1>5, <1>8, <2>1, Zenon
      <3>2. NoComponent.agg_.pub_slot_ = 0 /\ NoComponent.latest_.pub_slot_ = 0
        BY DEF NoComponent, NoPrice
      <3> QED
        BY <1>1, <3>1, <3>2
    <2>2. CASE q # p
      BY <1>1, <1>5, <1>8, <2>2, Zenon DEF QuotesUpTo
    <2> QED
      BY <2>1, <2>2
  <1> HIDE DEF a
  <1> QED
    BY <1>6, <1>7, <1>8, <1>9, AdministerFrame, SMT

\* set_min_pub and set_max_latency.
LEMMA SettingStep ==
    ASSUME IInv, NEW n \in Nat, SetMinPub(n) \/ SetMaxLatency(n)
    PROVE  IInv' /\ Step
  <1>1. acc \in Account /\ QuotesUpTo(acc, slot)
    BY DEF IInv, Sound
  <1>2. ASSUME NEW a, a = [acc EXCEPT !.min_pub_ = n] \/ a = [acc EXCEPT !.max_latency_ = n],
               Administer(a)
        PROVE  IInv' /\ Step
    <2>1. a \in Account
      BY <1>1, <1>2 DEF Account
    <2>2. /\ a.comp_ = acc.comp_ /\ SamePublished(acc, a)
          /\ a.twap_ = acc.twap_ /\ a.valid_slot_ = acc.valid_slot_
          /\ a.prev_slot_ = acc.prev_slot_ /\ a.message_sent_ = acc.message_sent_
          /\ a.flags = acc.flags
      BY <1>1, <1>2 DEF Account, SamePublished
    <2>3. QuotesUpTo(a, slot)
      BY <1>1, <2>2, Zenon DEF QuotesUpTo
    <2> QED
      BY <1>2, <2>1, <2>2, <2>3, AdministerFrame, SMT
  <1> QED
    BY <1>2, Zenon DEF SetMinPub, SetMaxLatency

\* The two reserved keys of add_publisher move the account between regimes.
LEMMA RegimeStep ==
    ASSUME IInv, EnableAccumulatorV2 \/ DisableAccumulatorV2
    PROVE  IInv' /\ Step
  <1>1. /\ slot \in Nat /\ now \in Nat /\ admin \in Nat
        /\ Sound(acc, slot, now) /\ MsgInv(acc, buffer) /\ acc \in Account
    BY DEF IInv, Sound
  <1>2. PICK f \in {{}, {"ACCUMULATOR_V2"}} : Administer([acc EXCEPT !.flags = f])
    <2>1. CASE EnableAccumulatorV2
      <3>1. acc.flags = {}
        BY <1>1, <2>1 DEF EnableAccumulatorV2, V2, MsgInv, Flag
      <3>2. Administer([acc EXCEPT !.flags = acc.flags \union {"ACCUMULATOR_V2"}])
        BY <2>1, Zenon DEF EnableAccumulatorV2
      <3>3. acc.flags \union {"ACCUMULATOR_V2"} = {"ACCUMULATOR_V2"}
        BY <3>1
      <3>4. Administer([acc EXCEPT !.flags = {"ACCUMULATOR_V2"}])
        BY <3>2, <3>3, Zenon
      <3> QED
        BY <3>4
    <2>2. CASE DisableAccumulatorV2
      <3>1. Administer([acc EXCEPT !.flags = {}])
        BY <2>2, Zenon DEF DisableAccumulatorV2
      <3> QED
        BY <3>1
    <2> QED
      BY <2>1, <2>2
  <1> DEFINE a == [acc EXCEPT !.flags = f]
  <1>3. a \in Account
    BY <1>1 DEF Account, Flag
  <1>4. /\ SamePublished(acc, a) /\ a.flags = f /\ a.comp_ = acc.comp_
        /\ a.twap_ = acc.twap_ /\ a.valid_slot_ = acc.valid_slot_
        /\ a.prev_slot_ = acc.prev_slot_ /\ a.message_sent_ = acc.message_sent_
    BY <1>1 DEF Account, SamePublished
  <1>5. /\ acc' = a /\ buffer' = buffer /\ slot' = slot /\ now' = now /\ admin' = admin + 1
    BY <1>2, Zenon DEF Administer
  <1> HIDE DEF a
  <1>6. Sound(a, slot, now)
    BY <1>1, <1>3, <1>4, SoundFrame, SMT DEF SamePublished
  <1>7. MsgInv(a, buffer)
    <2>1. f # Flag
      BY DEF Flag
    <2>2. PublishTime(a) = PublishTime(acc)
      BY <1>4, SameMessage
    <2> QED
      BY <1>1, <1>2, <1>4, <2>1, <2>2, Zenon DEF MsgInv, SamePublished
  <1>8. Continues(acc, a, slot)
    BY <1>1, <1>4, ContinuesRefl, SMT
  <1>9. admin' \in Nat
    BY <1>1, <1>5
  <1> QED
    BY <1>1, <1>5, <1>6, <1>7, <1>8, <1>9, Zenon DEF IInv, Step

\* init_price starts a new history, on sums that go on.
LEMMA InitPriceStep ==
    ASSUME IInv, InitPrice
    PROVE  IInv' /\ Step
  <1>1. /\ slot \in Nat /\ now \in Nat /\ admin \in Nat
        /\ Sound(acc, slot, now) /\ MsgInv(acc, buffer) /\ acc \in Account
    BY DEF IInv, Sound
  <1> DEFINE g == NoPrice
             c == [p \in Publishers |-> NoComponent]
             a == [acc EXCEPT
                     !.last_slot_ = 0, !.valid_slot_ = 0, !.prev_slot_ = 0, !.prev_price_ = 0,
                     !.prev_conf_ = 0, !.prev_timestamp_ = 0, !.twap_ = 0, !.agg_ = g,
                     !.comp_ = c]
  <1>2. /\ acc' = a /\ buffer' = buffer /\ slot' = slot /\ now' = now /\ admin' = admin + 1
    BY Zenon DEF InitPrice, Administer
  <1>3. 0 \in Int64 /\ 0 \in Nat /\ 0 \in Int
    BY I64Assumption DEF Int64, I64_MIN
  <1>4. g \in PriceInfo(Int64, Nat) /\ g \in PriceInfo(QuotePrices, QuoteConfs)
    BY <1>3 DEF NoPrice, PriceInfo, Status, QuotePrices, QuoteConfs
  <1>5. g.status_ = "UNKNOWN" /\ g.pub_slot_ = 0
    BY DEF NoPrice
  <1>6. c \in [Publishers -> PriceComponent]
    BY <1>4 DEF NoComponent, PriceComponent
  <1>7. \A p \in Publishers : c[p].agg_.pub_slot_ = 0 /\ c[p].latest_.pub_slot_ = 0
    BY DEF NoComponent, NoPrice
  <1> HIDE DEF g, c
  <1>8. a \in Account
    BY <1>1, <1>3, <1>4, <1>6 DEF Account
  <1>9. /\ a.agg_ = g /\ a.comp_ = c /\ a.last_slot_ = 0 /\ a.valid_slot_ = 0
        /\ a.prev_slot_ = 0 /\ a.prev_timestamp_ = 0 /\ a.twap_ = 0
        /\ a.timestamp_ = acc.timestamp_ /\ a.flags = acc.flags
        /\ a.price_cumulative = acc.price_cumulative
    BY <1>1 DEF Account
  <1> HIDE DEF a
  <1>10. SlotsOrdered(a, slot, now)
    <2>1. acc.timestamp_ \in Nat /\ acc.timestamp_ <= now
      BY <1>1 DEF Sound, SlotsOrdered, Account
    <2> QED
      BY <1>1, <1>5, <1>9, <2>1 DEF SlotsOrdered
  <1>11. QuotesUpTo(a, slot)
    BY <1>1, <1>7, <1>9 DEF QuotesUpTo
  <1>12. Sound(a, slot, now)
    BY <1>1, <1>8, <1>9, <1>10, <1>11, Zenon DEF Sound
  <1>13. MsgInv(a, buffer)
    BY <1>1, <1>9, Zenon DEF MsgInv
  <1>14. admin' \in Nat
    BY <1>1, <1>2
  <1> QED
    BY <1>1, <1>2, <1>12, <1>13, <1>14, Zenon DEF IInv, Step

\* A step that changes nothing.
LEMMA StutterStep ==
    ASSUME IInv, UNCHANGED vars
    PROVE  IInv' /\ Continues(acc, acc', slot)
  <1>1. /\ acc' = acc /\ buffer' = buffer /\ slot' = slot /\ now' = now /\ admin' = admin
    BY DEF vars
  <1>2. Continues(acc, acc, slot)
    BY ContinuesRefl, Zenon DEF IInv, Sound, SamePublished
  <1> QED
    BY <1>1, <1>2, Zenon DEF IInv

\* Every step of the program keeps the invariant.
LEMMA NextKeeps ==
    ASSUME IInv, [Next]_vars
    PROVE  IInv' /\ Step
  <1>1. CASE Publish
    <2>1. PICK p \in Publishers, arg \in QuoteArgs, s \in 1 .. MaxSlot, b \in BufferAccounts :
              UpdPrice(p, arg, s, b) \/ UpdPriceNoFailOnError(p, arg, s, b)
      BY <1>1, Zenon DEF Publish
    <2>2. s \in Nat
      OBVIOUS
    <2> QED
      BY <2>1, <2>2, UpdPriceStep, UpdPriceNoFailOnErrorStep
  <1>2. CASE Refresh
    BY <1>2, AggPriceStep, Zenon DEF Refresh
  <1>3. CASE AggregatePrice
    BY <1>3, AggregatePriceStep
  <1>4. CASE NextSlot
    BY <1>4, NextSlotStep
  <1>5. CASE Reconfigure
    <2>1. CASE \E p \in Publishers : AddPublisher(p) \/ DelPublisher(p)
      BY <2>1, PublisherStep
    <2>2. CASE EnableAccumulatorV2 \/ DisableAccumulatorV2
      BY <2>2, RegimeStep
    <2>3. CASE InitPrice
      BY <2>3, InitPriceStep
    <2>4. CASE \/ \E n \in MinPubs : SetMinPub(n)
               \/ \E n \in Latencies : SetMaxLatency(n)
      BY <2>4, SettingStep, ConstantsAssumption
    <2> QED
      BY <1>5, <2>1, <2>2, <2>3, <2>4, Zenon DEF Reconfigure
  <1>6. CASE UNCHANGED vars
    BY <1>6, StutterStep DEF Step
  <1> QED
    BY <1>1, <1>2, <1>3, <1>4, <1>5, <1>6, Zenon DEF Next

\* A fresh account satisfies the invariant.
LEMMA InitKeeps == Init => IInv
  <1> SUFFICES ASSUME Init PROVE IInv
    OBVIOUS
  <1>1. PICK f \in InitFlags : acc = FreshAccount(f)
    BY Zenon DEF Init
  <1>2. slot = StartSlot /\ now = StartSlot /\ buffer = NoMessage /\ admin = 0
    BY Zenon DEF Init
  <1>3. slot \in Nat /\ now \in Nat /\ admin \in Nat
    BY <1>2, ConstantsAssumption
  <1>4. f \in {{}, Flag}
    BY ConstantsAssumption
  <1>5. 0 \in Int64
    BY I64Assumption DEF Int64, I64_MIN
  <1> DEFINE g == NoPrice
             c == [p \in Publishers |-> NoComponent]
             u == [price |-> 0, conf |-> 0, num_down_slots |-> 0, sum_slotgap |-> 0]
  <1>6. g \in PriceInfo(Int64, Nat) /\ g \in PriceInfo(QuotePrices, QuoteConfs)
    BY <1>5 DEF NoPrice, PriceInfo, Status, QuotePrices, QuoteConfs
  <1>7. g.status_ = "UNKNOWN" /\ g.pub_slot_ = 0
    BY DEF NoPrice
  <1>8. c \in [Publishers -> PriceComponent]
    BY <1>6 DEF NoComponent, PriceComponent
  <1>9. \A p \in Publishers : c[p].agg_.pub_slot_ = 0 /\ c[p].latest_.pub_slot_ = 0
    BY DEF NoComponent, NoPrice
  <1>10. u \in PriceCumulative /\ SumsBounded(u)
    BY I64Assumption DEF PriceCumulative, SumsBounded
  <1>11. acc =
          [pubs |-> InitPubs, comp_ |-> c,
           agg_ |-> g, num_qt_ |-> 0, last_slot_ |-> 0, valid_slot_ |-> 0,
           timestamp_ |-> 0, prev_slot_ |-> 0, prev_price_ |-> 0, prev_conf_ |-> 0,
           prev_timestamp_ |-> 0, twap_ |-> 0, price_cumulative |-> u,
           min_pub_ |-> InitMinPub, max_latency_ |-> 0, message_sent_ |-> 0, flags |-> f]
    BY <1>1, Zenon DEF FreshAccount
  <1> HIDE DEF g, c, u
  <1>12. acc \in Account
    BY <1>4, <1>5, <1>6, <1>8, <1>10, <1>11, ConstantsAssumption DEF Account, Flag
  <1>13. /\ acc.agg_ = g /\ acc.comp_ = c /\ acc.last_slot_ = 0 /\ acc.valid_slot_ = 0
         /\ acc.prev_slot_ = 0 /\ acc.prev_timestamp_ = 0 /\ acc.twap_ = 0
         /\ acc.timestamp_ = 0 /\ acc.flags = f
         /\ acc.price_cumulative = u
    BY <1>11
  <1>14. SlotsOrdered(acc, slot, now)
    BY <1>3, <1>7, <1>13 DEF SlotsOrdered
  <1>15. QuotesUpTo(acc, slot)
    BY <1>3, <1>9, <1>13 DEF QuotesUpTo
  <1>16. Sound(acc, slot, now)
    BY <1>10, <1>12, <1>13, <1>14, <1>15, Zenon DEF Sound
  <1>17. MsgInv(acc, buffer)
    BY <1>2, <1>4, <1>13, Zenon DEF MsgInv
  <1> QED
    BY <1>3, <1>16, <1>17 DEF IInv

-----------------------------------------------------------------------------
(* The theorems *)

\* The inductive invariant holds in every reachable state.
THEOREM Invariance == Spec => []IInv
  <1>1. IInv /\ [Next]_vars => IInv'
    BY NextKeeps
  <1> QED
    BY <1>1, InitKeeps, PTL DEF Spec

\* Every field keeps its type: 64-bit aggregates for any quotes and any
\* pricing model, and message_sent_ a flag.
THEOREM TypeCorrect == Spec => []TypeOK
  <1>1. IInv => TypeOK
    BY DEF IInv, TypeOK, Sound
  <1> QED
    BY <1>1, Invariance, PTL

\* The slots and timestamps of the account are ordered as SlotOrder says,
\* for any number of publishers, slots and reconfigurations.
THEOREM SlotsInOrder == Spec => []SlotOrder
  <1>1. IInv => SlotOrder
    BY DEF IInv, SlotOrder, Sound
  <1> QED
    BY <1>1, Invariance, PTL

\* slot_diff of upd_aggregate is never negative.
THEOREM NoFutureQuote == Spec => []QuotesNotFromFuture
  <1>1. IInv => QuotesNotFromFuture
    BY DEF IInv, QuotesNotFromFuture, Sound
  <1> QED
    BY <1>1, Invariance, PTL

\* The EMAs decay over every slot once.
THEOREM EmaDecaysOnce == Spec => []EmaSpan
  <1>1. IInv => EmaSpan
    BY DEF IInv, EmaSpan, Sound
  <1> QED
    BY <1>1, Invariance, PTL

\* The cumulative sums stay within the bounds their comment derives.
THEOREM CumulativeWithinBounds == Spec => []CumulativeBounded
  <1>1. IInv => CumulativeBounded
    BY DEF IInv, CumulativeBounded, Sound
  <1> QED
    BY <1>1, Invariance, PTL

\* aggregate_price never runs with a v1 message in the buffer.
THEOREM BufferClearUnderV2 == Spec => []NoV1MessageUnderV2
  <1>1. IInv => NoV1MessageUnderV2
    BY DEF IInv, NoV1MessageUnderV2, MsgInv
  <1> QED
    BY <1>1, Invariance, PTL

\* A message that is not owed is up to date.
THEOREM SentIsCurrent == Spec => []SentMessageIsCurrent
  <1>1. IInv => SentMessageIsCurrent
    BY Zenon DEF IInv, SentMessageIsCurrent, MsgInv
  <1> QED
    BY <1>1, Invariance, PTL

\* The slot gaps in the sums telescope, whatever the steps between.
THEOREM GapsTelescope == Spec => CumulativeTelescopes
  <1> DEFINE A == InitPrice \/ acc'.price_cumulative.sum_slotgap
                                 - acc.price_cumulative.sum_slotgap
                               = acc'.last_slot_ - acc.last_slot_
  <1>1. IInv /\ [Next]_vars => A
    BY NextKeeps DEF Step, Continues
  <1>2. IInv /\ [Next]_vars => [A]_vars
    BY <1>1
  <1> QED
    BY <1>2, Invariance, PTL DEF Spec, CumulativeTelescopes

\* The messages of an account form a chain, whatever the steps between.
THEOREM MessagesChain == Spec => MessageChain
  <1> DEFINE A == InitPrice \/ Message(acc') = Message(acc) \/
                     /\ acc'.agg_.pub_slot_ = slot
                     /\ Message(acc').prev_publish_time = Message(acc).publish_time
                     /\ Message(acc').publish_time >= Message(acc).publish_time
  <1>1. IInv /\ [Next]_vars => A
    BY NextKeeps, Zenon DEF Step, Continues
  <1>2. IInv /\ [Next]_vars => [A]_vars
    BY <1>1
  <1> QED
    BY <1>2, Invariance, PTL DEF Spec, MessageChain

-----------------------------------------------------------------------------
(* The component array *)

\* There is room for some number of publishers.
LEMMA CapacityNat == Capacity \in Nat
  BY ListAssumption

\* Publishers can be compared.
LEMMA KeysAreNumbers == \A x \in Component : x.pub_ \in Nat
  <1> SUFFICES ASSUME NEW x \in Component PROVE x.pub_ \in Nat
    OBVIOUS
  <1>1. x.pub_ \in Keys \/ x.pub_ = 0
    BY DEF Component
  <1>2. Keys \subseteq Nat /\ 0 \in Nat
    BY ListAssumption
  <1> QED
    BY <1>1, <1>2, Zenon

\* A key with the place it was taken from, and arrays of N of them.
Tagged == [key : Nat, index : Nat]
Arrays(N) == [0 .. N - 1 -> Tagged]

\* v is u with its first len elements in another order.
Apart(v, N) == \A i, j \in 0 .. N - 1 : v[i].index = v[j].index => i = j
Shuffled(u, v, len, N) ==
    /\ v \in Arrays(N)
    /\ \A i \in 0 .. len - 1 : \E j \in 0 .. len - 1 : v[i] = u[j]
    /\ \A j \in 0 .. len - 1 : \E i \in 0 .. len - 1 : v[i] = u[j]
    /\ \A i \in len .. N - 1 : v[i] = u[i]
    /\ Apart(u, N) => Apart(v, N)

\* Leaving an array alone is shuffling it,
LEMMA ShuffledSelf ==
    ASSUME NEW N \in Nat, NEW len \in 0 .. N, NEW v \in Arrays(N)
    PROVE  Shuffled(v, v, len, N)
  BY DEF Shuffled

\* and shuffling it twice is shuffling it.
LEMMA ShuffledTwice ==
    ASSUME NEW N \in Nat, NEW len \in 0 .. N, NEW u, NEW v, NEW w,
           Shuffled(u, v, len, N), Shuffled(v, w, len, N)
    PROVE  Shuffled(u, w, len, N)
  BY DEF Shuffled

\* Shuffling fewer elements is shuffling more.
LEMMA ShuffledMore ==
    ASSUME NEW N \in Nat, NEW len \in 0 .. N, NEW m \in 0 .. len, NEW u, NEW v,
           Shuffled(u, v, m, N)
    PROVE  Shuffled(u, v, len, N)
  <1>1. ASSUME NEW i \in 0 .. len - 1 PROVE i \in 0 .. m - 1 \/ i \in m .. N - 1
    OBVIOUS
  <1>2. ASSUME NEW i \in 0 .. m - 1 PROVE i \in 0 .. len - 1
    OBVIOUS
  <1>3. ASSUME NEW i \in len .. N - 1 PROVE i \in m .. N - 1
    OBVIOUS
  <1>4. ASSUME NEW i \in 0 .. len - 1 PROVE \E j \in 0 .. len - 1 : v[i] = u[j]
    BY <1>1, <1>2 DEF Shuffled
  <1>5. ASSUME NEW j \in 0 .. len - 1 PROVE \E i \in 0 .. len - 1 : v[i] = u[j]
    BY <1>1, <1>2 DEF Shuffled
  <1> QED
    BY <1>3, <1>4, <1>5 DEF Shuffled

\* A swap of two of the first len elements shuffles them.
LEMMA SwapShuffles ==
    ASSUME NEW N \in Nat, NEW len \in 0 .. N, NEW v \in Arrays(N),
           NEW i \in 0 .. len - 1, NEW j \in 0 .. len - 1
    PROVE  Shuffled(v, Swap(v, i, j), len, N)
  <1> DEFINE w == Swap(v, i, j)
  <1>1. i \in 0 .. N - 1 /\ j \in 0 .. N - 1
    OBVIOUS
  <1>2. /\ w \in Arrays(N) /\ w[i] = v[j] /\ w[j] = v[i]
        /\ \A k \in 0 .. N - 1 : k # i /\ k # j => w[k] = v[k]
    BY <1>1 DEF Arrays, Swap
  <1> HIDE DEF w
  <1>3. ASSUME NEW k \in 0 .. len - 1 PROVE k \in 0 .. N - 1
    OBVIOUS
  <1>4. ASSUME NEW k \in len .. N - 1 PROVE k \in 0 .. N - 1 /\ k # i /\ k # j
    OBVIOUS
  <1>5. ASSUME NEW k \in 0 .. len - 1 PROVE \E l \in 0 .. len - 1 : w[k] = v[l]
    BY <1>2, <1>3
  <1>6. ASSUME NEW k \in 0 .. len - 1 PROVE \E l \in 0 .. len - 1 : w[l] = v[k]
    BY <1>2, <1>3
  <1>7. ASSUME Apart(v, N) PROVE Apart(w, N)
    BY <1>1, <1>2, <1>7 DEF Apart
  <1>8. Shuffled(v, w, len, N)
    BY <1>2, <1>4, <1>5, <1>6, <1>7 DEF Shuffled
  <1> QED
    BY <1>8 DEF w

\* A turn of sift_down.
SiftStates(N) == [v : Arrays(N), node : Nat]

\* It leaves an array, and a place in it.
LEMMA SiftStepTyped ==
    ASSUME NEW N \in Nat, NEW len \in 0 .. N, NEW s \in SiftStates(N)
    PROVE  SiftStep(s, len) \in SiftStates(N)
  <1> DEFINE left == 2 * s.node + 1
             child == IF left + 1 < len /\ s.v[left].key < s.v[left + 1].key THEN left + 1 ELSE left
  <1>1. s.v \in Arrays(N) /\ s.node \in Nat
    BY DEF SiftStates
  <1>2. CASE left < len /\ ~ (s.v[s.node].key >= s.v[child].key)
    <2>1. s.node \in 0 .. N - 1 /\ child \in 0 .. N - 1
      BY <1>1, <1>2
    <2>2. Swap(s.v, s.node, child) \in Arrays(N) /\ child \in Nat
      <3> HIDE DEF child
      <3> QED
        BY <1>1, <2>1 DEF Arrays, Swap
    <2>3. SiftStep(s, len) = [v |-> Swap(s.v, s.node, child), node |-> child]
      BY <1>1, <1>2 DEF SiftStep
    <2> QED
      BY <2>2, <2>3 DEF SiftStates
  <1>3. CASE ~ (left < len /\ ~ (s.v[s.node].key >= s.v[child].key))
    <2>1. SiftStep(s, len) = s
      BY <1>1, <1>3 DEF SiftStep
    <2> QED
      BY <2>1
  <1> QED
    BY <1>2, <1>3

\* sift_down is its turns, one after the other.
LEMMA SiftLoop ==
    ASSUME NEW N \in Nat, NEW len \in 0 .. N, NEW v \in Arrays(N), NEW node \in Nat
    PROVE  \E s : /\ s[0] = [v |-> v, node |-> node]
                  /\ \A t \in 1 .. len : s[t] = SiftStep(s[t - 1], len)
                  /\ SiftDown(v, len, node) = s[len].v
  <1> DEFINE e == [v |-> v, node |-> node]
             D == SiftStates(N)
             G == [x \in D \X (1 .. len) |-> SiftStep(x[1], len)]
             Is(f) == f = [t \in 0 .. len |-> IF t = 0 THEN e ELSE SiftStep(f[t - 1], len)]
  <1>1. len \in Nat /\ e \in D
    BY DEF SiftStates
  <1>2. G \in [D \X (1 .. len) -> D]
    BY SiftStepTyped
  <1>3. PICK f \in [0 .. len -> D] : Loops(f, len, e, G)
    <2> HIDE DEF G, D, e
    <2> QED
      BY <1>1, <1>2, LoopDefined
  <1>4. \A t \in 1 .. len : f[t] = SiftStep(f[t - 1], len)
    <2> TAKE t \in 1 .. len
    <2>1. t - 1 \in 0 .. len
      OBVIOUS
    <2>2. <<f[t - 1], t>> \in D \X (1 .. len)
      BY <1>3, <2>1
    <2>3. G[<<f[t - 1], t>>] = SiftStep(f[t - 1], len)
      BY <2>2
    <2> QED
      BY <1>3, <2>3 DEF Loops
  <1>5. Is(f)
    <2> DEFINE g == [t \in 0 .. len |-> IF t = 0 THEN e ELSE SiftStep(f[t - 1], len)]
    <2>1. \A t \in 0 .. len : f[t] = g[t]
      <3> TAKE t \in 0 .. len
      <3>1. t = 0 \/ t \in 1 .. len
        OBVIOUS
      <3>2. f[0] = e
        BY <1>3 DEF Loops
      <3>3. t \in 1 .. len => t # 0 /\ f[t] = SiftStep(f[t - 1], len)
        BY <1>4
      <3> QED
        BY <3>1, <3>2, <3>3, Zenon
    <2>2. f = g
      BY <1>3, <2>1
    <2> QED
      BY <2>2
  <1> DEFINE s == CHOOSE g : Is(g)
  <1>6. Is(s)
    <2> HIDE DEF Is
    <2> QED
      BY <1>5
  <1>7. SiftDown(v, len, node) = s[len].v
    BY DEF SiftDown
  <1> HIDE DEF s
  <1>8. s[0] = e /\ \A t \in 1 .. len : s[t] = SiftStep(s[t - 1], len)
    <2>1. \A t \in 0 .. len : s[t] = IF t = 0 THEN e ELSE SiftStep(s[t - 1], len)
      BY <1>6, Zenon
    <2>2. 0 \in 0 .. len /\ \A t \in 1 .. len : t \in 0 .. len /\ t # 0
      OBVIOUS
    <2> QED
      BY <2>1, <2>2, Zenon
  <1> QED
    BY <1>7, <1>8

\* No element from place from on is less than its children, which are the
\* elements at 2 i + 1 and 2 i + 2.
ChildOf(c, i) == c = 2 * i + 1 \/ c = 2 * i + 2
InOrderAt(v, i, len) == \A c \in 0 .. len - 1 : ChildOf(c, i) => v[i].key >= v[c].key
Heap(v, from, len) == \A i \in from .. len - 1 : InOrderAt(v, i, len)

\* While an element goes down, the heap is in order but at its place, and the
\* element above its place is not less than those below it.
SiftInv(s, u, start, len, N) ==
    /\ s \in SiftStates(N) /\ s.node \in start .. len - 1
    /\ Shuffled(u, s.v, len, N)
    /\ \A i \in start .. len - 1 : i # s.node => InOrderAt(s.v, i, len)
    /\ \A i \in start .. len - 1 : ChildOf(s.node, i) =>
          \A c \in 0 .. len - 1 : ChildOf(c, s.node) => s.v[i].key >= s.v[c].key

\* A turn keeps what sift_down maintains; it is the last one when the heap is
\* in order at node, and goes down to a child otherwise.
LEMMA SiftTurn ==
    ASSUME NEW N \in Nat, NEW len \in 0 .. N, NEW start \in Nat, NEW u, NEW s,
           SiftInv(s, u, start, len, N)
    PROVE  /\ SiftInv(SiftStep(s, len), u, start, len, N)
           /\ \/ InOrderAt(s.v, s.node, len) /\ SiftStep(s, len) = s
              \/ ~ InOrderAt(s.v, s.node, len) /\ SiftStep(s, len).node > s.node
  <1> DEFINE n == s.node
             v == s.v
             left == 2 * n + 1
             child == IF left + 1 < len /\ v[left].key < v[left + 1].key THEN left + 1 ELSE left
             w == Swap(v, n, child)
             r == [v |-> w, node |-> child]
  <1>1. v \in Arrays(N) /\ n \in Nat /\ n \in start .. len - 1 /\ Shuffled(u, v, len, N)
    BY DEF SiftInv, SiftStates
  <1>2. \A i \in 0 .. len - 1 : v[i].key \in Nat
    BY <1>1 DEF Arrays, Tagged
  <1>3. ASSUME left < len, NEW c \in 0 .. len - 1, ChildOf(c, n) PROVE v[child].key >= v[c].key
    <2>1. left \in 0 .. len - 1 /\ (left + 1 < len => left + 1 \in 0 .. len - 1)
      BY <1>1, <1>3
    <2>2. c = left \/ c = left + 1
      BY <1>1, <1>3 DEF ChildOf
    <2> QED
      BY <1>2, <2>1, <2>2
  <1>4. CASE left >= len
    <2>1. SiftStep(s, len) = s
      BY <1>4 DEF SiftStep
    <2>2. InOrderAt(v, n, len)
      BY <1>1, <1>4 DEF InOrderAt, ChildOf
    <2> QED
      BY <2>1, <2>2
  <1>5. CASE left < len /\ v[n].key >= v[child].key
    <2>1. SiftStep(s, len) = s
      BY <1>1, <1>5 DEF SiftStep
    <2>2. child \in 0 .. len - 1 /\ n \in 0 .. len - 1
      BY <1>1, <1>5
    <2>3. InOrderAt(v, n, len)
      <3> HIDE DEF child
      <3> QED
        BY <1>2, <1>3, <1>5, <2>2 DEF InOrderAt
    <2> QED
      BY <2>1, <2>3
  <1>6. CASE left < len /\ ~ (v[n].key >= v[child].key)
    <2>1. SiftStep(s, len) = r
      BY <1>1, <1>6 DEF SiftStep
    <2>2. /\ child \in 0 .. len - 1 /\ n \in 0 .. len - 1 /\ child > n /\ ChildOf(child, n)
          /\ v[n].key < v[child].key
      <3>1. child \in 0 .. len - 1 /\ n \in 0 .. len - 1 /\ child > n /\ ChildOf(child, n)
        BY <1>1, <1>6 DEF ChildOf
      <3> HIDE DEF child
      <3> QED
        BY <1>2, <1>6, <3>1
    <2> HIDE DEF child
    <2>3. /\ w \in Arrays(N) /\ w[n] = v[child] /\ w[child] = v[n]
          /\ \A k \in 0 .. len - 1 : k # n /\ k # child => w[k] = v[k]
      <3>1. n \in 0 .. N - 1 /\ child \in 0 .. N - 1 /\ n # child
        BY <2>2
      <3>2. 0 .. len - 1 \subseteq 0 .. N - 1
        OBVIOUS
      <3>3. v \in [0 .. N - 1 -> Tagged]
        BY <1>1 DEF Arrays
      <3> HIDE DEF n, v
      <3>4. /\ w \in [0 .. N - 1 -> Tagged] /\ w[n] = v[child] /\ w[child] = v[n]
            /\ \A k \in 0 .. N - 1 : k # n /\ k # child => w[k] = v[k]
        BY <3>1, <3>3 DEF Swap
      <3> HIDE DEF w
      <3> QED
        BY <3>2, <3>4 DEF Arrays
    <2>4. Shuffled(u, w, len, N)
      BY <1>1, <2>2, SwapShuffles, ShuffledTwice
    <2>5. r.v = w /\ r.node = child
      OBVIOUS
    <2>6. r \in SiftStates(N) /\ r.node \in start .. len - 1 /\ r.node > n
      BY <1>1, <2>2, <2>3 DEF SiftStates
    <2> HIDE DEF w, r
    <2>7. \A i \in start .. len - 1 : i # n => InOrderAt(v, i, len)
      BY DEF SiftInv
    <2>8. ASSUME NEW i \in start .. len - 1, i # child PROVE InOrderAt(w, i, len)
      <3> SUFFICES ASSUME NEW c \in 0 .. len - 1, ChildOf(c, i) PROVE w[i].key >= w[c].key
        BY DEF InOrderAt
      <3>1. CASE i = n
        <4>1. c # n
          BY <2>2, <3>1 DEF ChildOf
        <4> QED
          BY <1>2, <1>3, <1>6, <2>2, <2>3, <3>1, <4>1
      <3>2. CASE i # n
        <4>1. c # child
          BY <2>2, <3>2 DEF ChildOf
        <4>2. i \in 0 .. len - 1 /\ w[i] = v[i]
          BY <2>3, <2>8, <3>2
        <4>3. CASE c = n
          <5>1. v[i].key >= v[child].key
            BY <2>2, <4>3 DEF SiftInv
          <5> QED
            BY <2>3, <4>2, <4>3, <5>1
        <4>4. CASE c # n
          <5>1. w[c] = v[c] /\ v[i].key >= v[c].key
            BY <2>3, <2>7, <3>2, <4>1, <4>4 DEF InOrderAt
          <5> QED
            BY <4>2, <5>1
        <4> QED
          BY <4>3, <4>4
      <3> QED
        BY <3>1, <3>2
    <2>9. ASSUME NEW i \in start .. len - 1, ChildOf(child, i),
                  NEW c \in 0 .. len - 1, ChildOf(c, child)
           PROVE  w[i].key >= w[c].key
      <3>1. i = n
        <4>1. i \in Nat /\ n \in Nat
          BY <1>1
        <4>2. (child = 2 * i + 1 \/ child = 2 * i + 2) /\ (child = 2 * n + 1 \/ child = 2 * n + 2)
          BY <2>2, <2>9 DEF ChildOf
        <4> HIDE DEF n
        <4> QED
          BY <4>1, <4>2
      <3>2. c # n /\ c # child
        BY <2>2, <2>9 DEF ChildOf
      <3>3. child \in start .. len - 1 /\ child # n
        BY <1>1, <2>2
      <3>4. v[child].key >= v[c].key
        BY <2>7, <2>9, <3>3 DEF InOrderAt
      <3> QED
        BY <2>3, <3>1, <3>2, <3>4
    <2>10. SiftInv(r, u, start, len, N)
      BY <2>4, <2>5, <2>6, <2>8, <2>9 DEF SiftInv
    <2>11. ~ InOrderAt(v, n, len)
      BY <1>2, <2>2 DEF InOrderAt
    <2> QED
      BY <2>1, <2>6, <2>10, <2>11
  <1>7. left < len \/ left >= len
    BY <1>1
  <1> QED
    BY <1>4, <1>5, <1>6, <1>7

\* sift_down makes a heap from start on of one from the place after it on.
LEMMA SiftDownIs ==
    ASSUME NEW N \in Nat, NEW len \in 0 .. N, NEW start \in 0 .. len - 1, NEW u \in Arrays(N),
           Heap(u, start + 1, len)
    PROVE  /\ Heap(SiftDown(u, len, start), start, len)
           /\ Shuffled(u, SiftDown(u, len, start), len, N)
  <1>1. PICK s : /\ s[0] = [v |-> u, node |-> start]
                 /\ \A t \in 1 .. len : s[t] = SiftStep(s[t - 1], len)
                 /\ SiftDown(u, len, start) = s[len].v
    BY SiftLoop
  <1> DEFINE Good(t) == /\ SiftInv(s[t], u, start, len, N)
                        /\ InOrderAt(s[t].v, s[t].node, len) \/ s[t].node >= t
             S == {t \in Nat : Good(t)}
  <1>2. 0 \in S
    <2>1. s[0].v = u /\ s[0].node = start /\ s[0] \in SiftStates(N)
      BY <1>1 DEF SiftStates
    <2>2. Shuffled(u, s[0].v, len, N)
      BY <2>1, ShuffledSelf
    <2>3. ASSUME NEW i \in start .. len - 1, i # start PROVE InOrderAt(u, i, len)
      <3>1. i \in start + 1 .. len - 1
        BY <2>3
      <3> QED
        BY <3>1 DEF Heap
    <2>4. ASSUME NEW i \in start .. len - 1 PROVE ~ ChildOf(start, i)
      BY DEF ChildOf
    <2>5. SiftInv(s[0], u, start, len, N)
      BY <2>1, <2>2, <2>3, <2>4 DEF SiftInv
    <2> QED
      BY <2>1, <2>5
  <1>3. ASSUME NEW t \in 0 .. len - 1, t \in S PROVE t + 1 \in S
    <2>1. Good(t)
      BY <1>3
    <2>2. s[t + 1] = SiftStep(s[t], len)
      <3>1. t + 1 \in 1 .. len /\ (t + 1) - 1 = t
        OBVIOUS
      <3> QED
        BY <1>1, <3>1
    <2>3. /\ SiftInv(s[t + 1], u, start, len, N)
          /\ \/ InOrderAt(s[t].v, s[t].node, len) /\ s[t + 1] = s[t]
             \/ ~ InOrderAt(s[t].v, s[t].node, len) /\ s[t + 1].node > s[t].node
      BY <2>1, <2>2, SiftTurn
    <2>4. s[t].node \in Nat /\ s[t + 1].node \in Nat
      BY <2>1, <2>3 DEF SiftInv, SiftStates
    <2>5. InOrderAt(s[t + 1].v, s[t + 1].node, len) \/ s[t + 1].node >= t + 1
      BY <2>1, <2>3, <2>4
    <2> QED
      BY <2>3, <2>5
  <1>4. len \in S
    <2> HIDE DEF S
    <2>1. 0 .. len \subseteq S
      BY <1>2, <1>3, UpTo
    <2> QED
      BY <2>1
  <1>5. /\ SiftInv(s[len], u, start, len, N)
        /\ InOrderAt(s[len].v, s[len].node, len)
    <2>1. Good(len)
      BY <1>4
    <2>2. s[len].node \in start .. len - 1
      BY <2>1 DEF SiftInv
    <2> QED
      BY <2>1, <2>2
  <1> QED
    BY <1>1, <1>5 DEF SiftInv, Heap

\* It returns an array whatever it is given.
LEMMA SiftDownTyped ==
    ASSUME NEW N \in Nat, NEW len \in 0 .. N, NEW start \in Nat, NEW u \in Arrays(N)
    PROVE  SiftDown(u, len, start) \in Arrays(N)
  <1>1. PICK s : /\ s[0] = [v |-> u, node |-> start]
                 /\ \A t \in 1 .. len : s[t] = SiftStep(s[t - 1], len)
                 /\ SiftDown(u, len, start) = s[len].v
    BY SiftLoop
  <1> DEFINE S == {t \in Nat : s[t] \in SiftStates(N)}
  <1>2. 0 \in S
    BY <1>1 DEF SiftStates
  <1>3. ASSUME NEW t \in 0 .. len - 1, t \in S PROVE t + 1 \in S
    <2>1. t + 1 \in 1 .. len /\ (t + 1) - 1 = t
      OBVIOUS
    <2>2. s[t + 1] = SiftStep(s[t], len)
      BY <1>1, <2>1
    <2> QED
      BY <1>3, <2>2, SiftStepTyped
  <1>4. len \in S
    <2> HIDE DEF S
    <2>1. 0 .. len \subseteq S
      BY <1>2, <1>3, UpTo
    <2> QED
      BY <2>1
  <1> QED
    BY <1>1, <1>4 DEF SiftStates

\* The loop that builds the heap.
LEMMA BuildLoop ==
    ASSUME NEW N \in Nat, NEW len \in 0 .. N, NEW v \in Arrays(N)
    PROVE  \E w : /\ w[0] = v
                  /\ \A t \in 1 .. len \div 2 : w[t] = SiftDown(w[t - 1], len, len \div 2 - t)
                  /\ Build(v, len) = w[len \div 2]
  <1> DEFINE h == len \div 2
             D == Arrays(N)
             G == [x \in D \X (1 .. h) |-> SiftDown(x[1], len, h - x[2])]
             Is(f) == f = [t \in 0 .. h |-> IF t = 0 THEN v ELSE SiftDown(f[t - 1], len, h - t)]
  <1>1. h \in Nat /\ v \in D
    OBVIOUS
  <1>2. G \in [D \X (1 .. h) -> D]
    <2>1. ASSUME NEW x \in D, NEW t \in 1 .. h PROVE SiftDown(x, len, h - t) \in D
      <3>1. h - t \in Nat
        BY <1>1
      <3> QED
        BY <3>1, SiftDownTyped
    <2> HIDE DEF D
    <2> QED
      BY <2>1
  <1>3. PICK f \in [0 .. h -> D] : Loops(f, h, v, G)
    <2> HIDE DEF G, D, h
    <2> QED
      BY <1>1, <1>2, LoopDefined
  <1>4. \A t \in 1 .. h : f[t] = SiftDown(f[t - 1], len, h - t)
    <2> TAKE t \in 1 .. h
    <2>1. t - 1 \in 0 .. h
      BY <1>1
    <2>2. <<f[t - 1], t>> \in D \X (1 .. h)
      BY <1>3, <2>1
    <2>3. G[<<f[t - 1], t>>] = SiftDown(f[t - 1], len, h - t)
      BY <2>2
    <2> QED
      BY <1>3, <2>3 DEF Loops
  <1>5. Is(f)
    <2> DEFINE g == [t \in 0 .. h |-> IF t = 0 THEN v ELSE SiftDown(f[t - 1], len, h - t)]
    <2>1. \A t \in 0 .. h : f[t] = g[t]
      <3> TAKE t \in 0 .. h
      <3>1. t = 0 \/ t \in 1 .. h
        BY <1>1
      <3>2. f[0] = v
        BY <1>3 DEF Loops
      <3>3. t \in 1 .. h => t # 0 /\ f[t] = SiftDown(f[t - 1], len, h - t)
        BY <1>4
      <3> QED
        BY <3>1, <3>2, <3>3, Zenon
    <2>2. f = g
      BY <1>3, <2>1
    <2> QED
      BY <2>2
  <1> DEFINE w == CHOOSE g : Is(g)
  <1>6. Is(w)
    <2> HIDE DEF Is
    <2> QED
      BY <1>5
  <1>7. Build(v, len) = w[h]
    BY DEF Build
  <1> HIDE DEF w
  <1>8. w[0] = v /\ \A t \in 1 .. h : w[t] = SiftDown(w[t - 1], len, h - t)
    <2>1. \A t \in 0 .. h : w[t] = IF t = 0 THEN v ELSE SiftDown(w[t - 1], len, h - t)
      BY <1>6, Zenon
    <2>2. 0 \in 0 .. h /\ \A t \in 1 .. h : t \in 0 .. h /\ t # 0
      BY <1>1
    <2> QED
      BY <2>1, <2>2, Zenon
  <1> QED
    BY <1>7, <1>8

\* It builds a heap.
LEMMA BuildIs ==
    ASSUME NEW N \in Nat, NEW len \in 0 .. N, NEW v \in Arrays(N)
    PROVE  Heap(Build(v, len), 0, len) /\ Shuffled(v, Build(v, len), len, N)
  <1> DEFINE h == len \div 2
  <1>1. PICK w : /\ w[0] = v
                 /\ \A t \in 1 .. h : w[t] = SiftDown(w[t - 1], len, h - t)
                 /\ Build(v, len) = w[h]
    BY BuildLoop
  <1>2. h \in Nat /\ 2 * h <= len /\ len <= 2 * h + 1
    OBVIOUS
  <1> HIDE DEF h
  <1> DEFINE S == {t \in Nat : Heap(w[t], h - t, len) /\ Shuffled(v, w[t], len, N)}
  <1>3. 0 \in S
    <2>1. ASSUME NEW i \in h .. len - 1, NEW c \in 0 .. len - 1 PROVE ~ ChildOf(c, i)
      BY <1>2 DEF ChildOf
    <2>2. Heap(v, h - 0, len)
      <3>1. h - 0 = h
        BY <1>2
      <3> QED
        BY <2>1, <3>1 DEF Heap, InOrderAt
    <2> QED
      BY <1>1, <2>2, ShuffledSelf
  <1>4. ASSUME NEW t \in 0 .. h - 1, t \in S PROVE t + 1 \in S
    <2> DEFINE x == w[t]
               m == h - (t + 1)
    <2>1. Heap(x, h - t, len) /\ Shuffled(v, x, len, N)
      BY <1>4
    <2>2. m \in 0 .. len - 1 /\ m + 1 = h - t /\ t + 1 \in 1 .. h /\ (t + 1) - 1 = t
      BY <1>2
    <2>3. w[t + 1] = SiftDown(x, len, m)
      BY <1>1, <2>2
    <2>4. x \in Arrays(N)
      BY <2>1 DEF Shuffled
    <2> HIDE DEF x, m
    <2>5. Heap(x, m + 1, len)
      BY <2>1, <2>2
    <2>6. Heap(w[t + 1], m, len) /\ Shuffled(x, w[t + 1], len, N)
      BY <2>2, <2>3, <2>4, <2>5, SiftDownIs
    <2>7. Shuffled(v, w[t + 1], len, N)
      BY <2>1, <2>6, ShuffledTwice
    <2> QED
      BY <2>6, <2>7 DEF m
  <1>5. h \in S
    <2> HIDE DEF S
    <2>1. 0 .. h \subseteq S
      BY <1>2, <1>3, <1>4, UpTo
    <2> QED
      BY <1>2, <2>1
  <1>6. h - h = 0
    BY <1>2
  <1> QED
    BY <1>1, <1>5, <1>6

\* The first element of a heap is its largest.
LEMMA FirstIsLargest ==
    ASSUME NEW N \in Nat, NEW len \in 1 .. N, NEW v \in Arrays(N), Heap(v, 0, len)
    PROVE  \A i \in 0 .. len - 1 : v[i].key <= v[0].key
  <1> DEFINE T == {i \in 0 .. len - 1 : ~ (v[i].key <= v[0].key)}
  <1> SUFFICES ASSUME T # {} PROVE FALSE
    OBVIOUS
  <1>1. T \subseteq Nat
    OBVIOUS
  <1>2. PICK x \in T : \A y \in T : x <= y
    BY <1>1, Least
  <1>3. \A i \in 0 .. len - 1 : v[i].key \in Nat
    BY DEF Arrays, Tagged
  <1>4. x \in 0 .. len - 1 /\ x # 0
    BY <1>2, <1>3
  <1>5. PICK p \in 0 .. len - 1 : ChildOf(x, p) /\ p < x
    <2> DEFINE q == (x - 1) \div 2
    <2>1. q \in 0 .. len - 1 /\ (x = 2 * q + 1 \/ x = 2 * q + 2) /\ q < x
      BY <1>4
    <2> QED
      BY <2>1 DEF ChildOf
  <1>6. v[p].key >= v[x].key
    BY <1>4, <1>5 DEF Heap, InOrderAt
  <1>7. p \notin T
    BY <1>2, <1>5
  <1> QED
    BY <1>2, <1>3, <1>4, <1>6, <1>7

\* The places from m on hold the largest elements, in order, and the first m
\* are a heap.
Popped(w, m, len) ==
    /\ Heap(w, 0, m)
    /\ \A i \in 0 .. len - 1, j \in m .. len - 1 : i < j => w[i].key <= w[j].key

\* Popping an element leaves an array,
LEMMA PopTyped ==
    ASSUME NEW N \in Nat, NEW m \in 0 .. N - 1, NEW w \in Arrays(N)
    PROVE  Pop(w, m) \in Arrays(N)
  <1>1. Swap(w, 0, m) \in Arrays(N)
    BY DEF Swap, Arrays
  <1> QED
    BY <1>1, SiftDownTyped DEF Pop

\* and one more of the largest elements in its place behind a smaller heap.
LEMMA PopIs ==
    ASSUME NEW N \in Nat, NEW len \in 1 .. N, NEW m \in 1 .. len - 1, NEW w \in Arrays(N),
           Popped(w, m + 1, len)
    PROVE  Popped(Pop(w, m), m, len) /\ Shuffled(w, Pop(w, m), len, N)
  <1> DEFINE x == Swap(w, 0, m)
             y == SiftDown(x, m, 0)
  <1>1. m + 1 \in 1 .. N /\ m + 1 \in 0 .. N /\ m \in 0 .. N /\ 0 \in 0 .. m /\ m \in 0 .. m
    OBVIOUS
  <1>2. /\ x \in Arrays(N) /\ x[0] = w[m] /\ x[m] = w[0]
        /\ \A k \in 0 .. N - 1 : k # 0 /\ k # m => x[k] = w[k]
    BY DEF Arrays, Swap
  <1>3. Shuffled(w, x, m + 1, N)
    <2>1. m = (m + 1) - 1
      OBVIOUS
    <2> QED
      BY <1>1, <2>1, SwapShuffles
  <1> HIDE DEF x
  <1>4. Heap(x, 1, m)
    <2> SUFFICES ASSUME NEW i \in 1 .. m - 1, NEW c \in 0 .. m - 1, ChildOf(c, i)
                 PROVE  x[i].key >= x[c].key
      BY DEF Heap, InOrderAt
    <2>1. i \in 0 .. m + 1 - 1 /\ c \in 0 .. m + 1 - 1 /\ i \in 0 .. N - 1 /\ c \in 0 .. N - 1
      OBVIOUS
    <2>2. i # 0 /\ i # m /\ c # 0 /\ c # m
      BY DEF ChildOf
    <2>3. w[i].key >= w[c].key
      BY <2>1 DEF Popped, Heap, InOrderAt
    <2> QED
      BY <1>2, <2>1, <2>2, <2>3
  <1>5. Heap(y, 0, m) /\ Shuffled(x, y, m, N)
    <2>1. 0 \in 0 .. m - 1 /\ 0 + 1 = 1
      OBVIOUS
    <2> QED
      BY <1>1, <1>2, <1>4, <2>1, SiftDownIs
  <1> HIDE DEF y
  <1>6. Shuffled(w, y, m + 1, N)
    <2>1. Shuffled(x, y, m + 1, N)
      BY <1>1, <1>5, ShuffledMore
    <2> QED
      BY <1>1, <1>3, <2>1, ShuffledTwice
  <1>7. \A i \in 0 .. m : w[i].key <= w[0].key
    BY <1>1, FirstIsLargest DEF Popped
  <1>8. y[m] = w[0]
    <2>1. m \in m .. N - 1
      OBVIOUS
    <2> QED
      BY <1>2, <1>5, <2>1 DEF Shuffled
  <1>9. ASSUME NEW i \in 0 .. m PROVE \E k \in 0 .. m : y[i] = w[k]
    <2>1. 0 .. (m + 1) - 1 = 0 .. m
      OBVIOUS
    <2> QED
      BY <1>6, <2>1 DEF Shuffled
  <1>10. ASSUME NEW i \in m + 1 .. len - 1 PROVE y[i] = w[i]
    <2>1. i \in m + 1 .. N - 1
      OBVIOUS
    <2> QED
      BY <1>6, <2>1 DEF Shuffled
  <1>11. ASSUME NEW i \in 0 .. len - 1, NEW j \in m .. len - 1, i < j PROVE y[i].key <= y[j].key
    <2>1. CASE j = m
      <3>1. i \in 0 .. m
        BY <1>11, <2>1
      <3>2. PICK k \in 0 .. m : y[i] = w[k]
        BY <1>9, <3>1
      <3> QED
        BY <1>7, <1>8, <2>1, <3>2
    <2>2. CASE j # m
      <3>1. j \in m + 1 .. len - 1
        BY <2>2
      <3>2. y[j] = w[j]
        BY <1>10, <3>1
      <3>3. CASE i \in 0 .. m
        <4>1. PICK k \in 0 .. m : y[i] = w[k]
          BY <1>9, <3>3
        <4>2. k \in 0 .. len - 1 /\ k < j
          BY <3>1
        <4> QED
          BY <3>1, <3>2, <4>1, <4>2 DEF Popped
      <3>4. CASE i \in m + 1 .. len - 1
        BY <1>10, <1>11, <3>1, <3>2, <3>4 DEF Popped
      <3> QED
        BY <3>3, <3>4
    <2> QED
      BY <2>1, <2>2
  <1>12. Shuffled(w, y, len, N)
    <2>1. len \in 0 .. N /\ m + 1 \in 0 .. len
      OBVIOUS
    <2> QED
      BY <1>6, <2>1, ShuffledMore
  <1>13. Pop(w, m) = y
    BY DEF Pop, x, y
  <1> QED
    BY <1>5, <1>11, <1>12, <1>13 DEF Popped

\* heapsort is the loop that builds the heap and the one that empties it.
LEMMA HeapsortLoop ==
    ASSUME NEW N \in Nat, NEW len \in 1 .. N, NEW v \in Arrays(N)
    PROVE  \E w : /\ w[0] = Build(v, len)
                  /\ \A t \in 1 .. len - 1 : w[t] = Pop(w[t - 1], len - t)
                  /\ heapsort(v, len) = w[len - 1]
  <1> DEFINE h == len - 1
             e == Build(v, len)
             D == Arrays(N)
             G == [x \in D \X (1 .. h) |-> Pop(x[1], len - x[2])]
             Is(f) == f = [t \in 0 .. h |-> IF t = 0 THEN e ELSE Pop(f[t - 1], len - t)]
  <1>1. h \in Nat /\ e \in D
    BY BuildIs DEF Shuffled
  <1>2. G \in [D \X (1 .. h) -> D]
    <2>1. ASSUME NEW x \in D, NEW t \in 1 .. h PROVE Pop(x, len - t) \in D
      <3>1. len - t \in 0 .. N - 1
        OBVIOUS
      <3> QED
        BY <3>1, PopTyped
    <2> HIDE DEF D
    <2> QED
      BY <2>1
  <1>3. PICK f \in [0 .. h -> D] : Loops(f, h, e, G)
    <2> HIDE DEF G, D, h, e
    <2> QED
      BY <1>1, <1>2, LoopDefined
  <1>4. \A t \in 1 .. h : f[t] = Pop(f[t - 1], len - t)
    <2> TAKE t \in 1 .. h
    <2>1. t - 1 \in 0 .. h
      BY <1>1
    <2>2. <<f[t - 1], t>> \in D \X (1 .. h)
      BY <1>3, <2>1
    <2>3. G[<<f[t - 1], t>>] = Pop(f[t - 1], len - t)
      BY <2>2
    <2> QED
      BY <1>3, <2>3 DEF Loops
  <1>5. Is(f)
    <2> DEFINE g == [t \in 0 .. h |-> IF t = 0 THEN e ELSE Pop(f[t - 1], len - t)]
    <2>1. \A t \in 0 .. h : f[t] = g[t]
      <3> TAKE t \in 0 .. h
      <3>1. t = 0 \/ t \in 1 .. h
        BY <1>1
      <3>2. f[0] = e
        BY <1>3 DEF Loops
      <3>3. t \in 1 .. h => t # 0 /\ f[t] = Pop(f[t - 1], len - t)
        BY <1>4
      <3> QED
        BY <3>1, <3>2, <3>3, Zenon
    <2>2. f = g
      BY <1>3, <2>1
    <2> QED
      BY <2>2
  <1> DEFINE w == CHOOSE g : Is(g)
  <1>6. Is(w)
    <2> HIDE DEF Is
    <2> QED
      BY <1>5
  <1>7. heapsort(v, len) = w[h]
    BY DEF heapsort
  <1> HIDE DEF w
  <1>8. w[0] = e /\ \A t \in 1 .. h : w[t] = Pop(w[t - 1], len - t)
    <2>1. \A t \in 0 .. h : w[t] = IF t = 0 THEN e ELSE Pop(w[t - 1], len - t)
      BY <1>6, Zenon
    <2>2. 0 \in 0 .. h /\ \A t \in 1 .. h : t \in 0 .. h /\ t # 0
      BY <1>1
    <2> QED
      BY <2>1, <2>2, Zenon
  <1> QED
    BY <1>7, <1>8

\* heapsort sorts.
LEMMA HeapsortIs ==
    ASSUME NEW N \in Nat, NEW len \in 1 .. N, NEW v \in Arrays(N)
    PROVE  /\ Shuffled(v, heapsort(v, len), len, N)
           /\ \A i, j \in 0 .. len - 1 :
                 i < j => heapsort(v, len)[i].key <= heapsort(v, len)[j].key
  <1>1. PICK w : /\ w[0] = Build(v, len)
                 /\ \A t \in 1 .. len - 1 : w[t] = Pop(w[t - 1], len - t)
                 /\ heapsort(v, len) = w[len - 1]
    BY HeapsortLoop
  <1> DEFINE S == {t \in Nat : Popped(w[t], len - t, len) /\ Shuffled(v, w[t], len, N)}
  <1>2. 0 \in S
    <2>1. Heap(w[0], 0, len) /\ Shuffled(v, w[0], len, N)
      BY <1>1, BuildIs
    <2>2. len - 0 = len /\ len .. len - 1 = {}
      OBVIOUS
    <2>3. Popped(w[0], len - 0, len)
      BY <2>1, <2>2 DEF Popped
    <2> QED
      BY <2>1, <2>3
  <1>3. ASSUME NEW t \in 0 .. (len - 1) - 1, t \in S PROVE t + 1 \in S
    <2> DEFINE m == len - (t + 1)
               x == w[t]
    <2>1. m \in 1 .. len - 1 /\ len - t = m + 1 /\ t + 1 \in 1 .. len - 1 /\ (t + 1) - 1 = t
      OBVIOUS
    <2>2. Popped(x, m + 1, len) /\ Shuffled(v, x, len, N)
      BY <1>3, <2>1
    <2>3. w[t + 1] = Pop(x, m)
      BY <1>1, <2>1
    <2>4. x \in Arrays(N)
      BY <2>2 DEF Shuffled
    <2> HIDE DEF m, x
    <2>5. Popped(w[t + 1], m, len) /\ Shuffled(x, w[t + 1], len, N)
      BY <2>1, <2>2, <2>3, <2>4, PopIs
    <2>6. Shuffled(v, w[t + 1], len, N)
      BY <2>2, <2>5, ShuffledTwice
    <2> QED
      BY <2>5, <2>6 DEF m
  <1>4. len - 1 \in S
    <2> HIDE DEF S
    <2>1. 0 .. len - 1 \subseteq S
      BY <1>2, <1>3, UpTo
    <2> QED
      BY <2>1
  <1>5. Popped(w[len - 1], 1, len) /\ Shuffled(v, w[len - 1], len, N)
    <2>1. len - (len - 1) = 1
      OBVIOUS
    <2> QED
      BY <1>4, <2>1
  <1>6. ASSUME NEW i \in 0 .. len - 1, NEW j \in 0 .. len - 1, i < j
        PROVE  w[len - 1][i].key <= w[len - 1][j].key
    <2>1. j \in 1 .. len - 1
      BY <1>6
    <2> QED
      BY <1>5, <1>6, <2>1 DEF Popped
  <1> QED
    BY <1>1, <1>5, <1>6

\* Keys whose places are places of the array.
Links(n) == {k \in Arrays(n) : \A j \in 0 .. n - 1 : k[j].index \in 0 .. n - 1}

\* From x the swaps lead, through places before i, to y.
Path(keys, i, x, y, n) ==
    \E t \in 0 .. i : \E p \in [0 .. t -> 0 .. n - 1] :
        /\ p[0] = x /\ p[t] = y /\ y >= i
        /\ \A s \in 0 .. t - 1 : p[s] < i /\ p[s + 1] = keys[p[s]].index

\* at holds the places the loop that follows the swaps visits.
FollowRuns(at, keys, i, x, n) ==
    /\ at \in [0 .. i -> 0 .. n - 1] /\ at[0] = x
    /\ \A t \in 1 .. i : at[t] = IF at[t - 1] < i THEN keys[at[t - 1]].index ELSE at[t - 1]
    /\ FollowSwaps(keys, i, x) = at[i]

\* The loop that follows the swaps.
LEMMA FollowLoop ==
    ASSUME NEW n \in Nat, NEW i \in 0 .. n, NEW keys \in Links(n), NEW x \in 0 .. n - 1
    PROVE  \E at : FollowRuns(at, keys, i, x, n)
  <1> DEFINE D == 0 .. n - 1
             Turn(a) == IF a < i THEN keys[a].index ELSE a
             G == [z \in D \X (1 .. i) |-> Turn(z[1])]
             Is(f) == f = [t \in 0 .. i |-> IF t = 0 THEN x
                                            ELSE IF f[t - 1] < i THEN keys[f[t - 1]].index
                                            ELSE f[t - 1]]
  <1>1. i \in Nat /\ x \in D
    OBVIOUS
  <1>2. \A a \in D : Turn(a) \in D
    BY DEF Links
  <1>3. G \in [D \X (1 .. i) -> D]
    <2> HIDE DEF Turn, D
    <2> QED
      BY <1>2
  <1>4. PICK f \in [0 .. i -> D] : Loops(f, i, x, G)
    <2> HIDE DEF G, D
    <2> QED
      BY <1>1, <1>3, LoopDefined
  <1>5. \A t \in 1 .. i : f[t] = Turn(f[t - 1])
    <2> HIDE DEF Turn
    <2> TAKE t \in 1 .. i
    <2>1. t - 1 \in 0 .. i
      OBVIOUS
    <2>2. <<f[t - 1], t>> \in D \X (1 .. i)
      BY <1>4, <2>1
    <2>3. G[<<f[t - 1], t>>] = Turn(f[t - 1])
      BY <2>2
    <2> QED
      BY <1>4, <2>3 DEF Loops
  <1>6. Is(f)
    <2> DEFINE g == [t \in 0 .. i |-> IF t = 0 THEN x
                                      ELSE IF f[t - 1] < i THEN keys[f[t - 1]].index
                                      ELSE f[t - 1]]
    <2>1. \A t \in 0 .. i : f[t] = g[t]
      <3> TAKE t \in 0 .. i
      <3>1. t = 0 \/ t \in 1 .. i
        OBVIOUS
      <3>2. f[0] = x
        BY <1>4 DEF Loops
      <3>3. t \in 1 .. i => t # 0 /\ f[t] = Turn(f[t - 1])
        BY <1>5
      <3> QED
        BY <3>1, <3>2, <3>3, Zenon
    <2>2. f = g
      BY <1>4, <2>1
    <2> QED
      BY <2>2
  <1> DEFINE at == CHOOSE g : Is(g)
  <1>7. Is(at)
    <2> HIDE DEF Is
    <2> QED
      BY <1>6
  <1>8. FollowSwaps(keys, i, x) = at[i]
    BY DEF FollowSwaps
  <1> HIDE DEF at
  <1>9. at[0] = x /\ \A t \in 1 .. i : at[t] = Turn(at[t - 1])
    <2>1. \A t \in 0 .. i : at[t] = IF t = 0 THEN x ELSE Turn(at[t - 1])
      BY <1>7, Zenon
    <2>2. 0 \in 0 .. i /\ \A t \in 1 .. i : t \in 0 .. i /\ t # 0
      OBVIOUS
    <2> HIDE DEF Turn
    <2> QED
      BY <2>1, <2>2, Zenon
  <1>10. \A t \in 0 .. i : at[t] \in D
    <2> DEFINE S == {t \in Nat : at[t] \in D}
    <2> HIDE DEF Turn, D
    <2>1. 0 \in S
      BY <1>1, <1>9
    <2>2. ASSUME NEW t \in 0 .. i - 1, t \in S PROVE t + 1 \in S
      <3>1. t + 1 \in 1 .. i /\ (t + 1) - 1 = t
        OBVIOUS
      <3> QED
        BY <1>2, <1>9, <2>2, <3>1
    <2>3. 0 .. i \subseteq S
      <3> HIDE DEF S
      <3> QED
        BY <1>1, <2>1, <2>2, UpTo
    <2> QED
      BY <2>3
  <1>11. at \in [0 .. i -> D]
    <2>1. DOMAIN at = 0 .. i /\ at = [t \in 0 .. i |-> at[t]]
      BY <1>7
    <2> HIDE DEF D
    <2> QED
      BY <1>10, <2>1
  <1>12. FollowRuns(at, keys, i, x, n)
    BY <1>8, <1>9, <1>11 DEF FollowRuns
  <1> QED
    BY <1>12

\* It ends where the swaps lead.
LEMMA FollowIs ==
    ASSUME NEW n \in Nat, NEW i \in 0 .. n, NEW keys \in Links(n),
           NEW x \in 0 .. n - 1, NEW y, Path(keys, i, x, y, n)
    PROVE  FollowSwaps(keys, i, x) = y
  <1>0. PICK at : FollowRuns(at, keys, i, x, n)
    BY FollowLoop
  <1>1. /\ at \in [0 .. i -> 0 .. n - 1] /\ at[0] = x
        /\ \A t \in 1 .. i :
              at[t] = IF at[t - 1] < i THEN keys[at[t - 1]].index ELSE at[t - 1]
        /\ FollowSwaps(keys, i, x) = at[i]
    BY <1>0 DEF FollowRuns
  <1>2. PICK t \in 0 .. i : \E p \in [0 .. t -> 0 .. n - 1] :
        /\ p[0] = x /\ p[t] = y /\ y >= i
        /\ \A s \in 0 .. t - 1 : p[s] < i /\ p[s + 1] = keys[p[s]].index
    BY DEF Path
  <1>3. PICK p \in [0 .. t -> 0 .. n - 1] :
        /\ p[0] = x /\ p[t] = y /\ y >= i
        /\ \A s \in 0 .. t - 1 : p[s] < i /\ p[s + 1] = keys[p[s]].index
    BY <1>2
  <1> DEFINE S == {s \in Nat : at[s] = IF s <= t THEN p[s] ELSE y}
  <1>4. 0 \in S
    BY <1>1, <1>3
  <1>5. ASSUME NEW s \in 0 .. i - 1, s \in S PROVE s + 1 \in S
    <2>1. s + 1 \in 1 .. i /\ (s + 1) - 1 = s
      OBVIOUS
    <2>2. at[s + 1] = IF at[s] < i THEN keys[at[s]].index ELSE at[s]
      BY <1>1, <2>1
    <2>3. CASE s < t
      <3>1. s \in 0 .. t - 1 /\ at[s] = p[s]
        BY <1>5, <2>3
      <3>2. at[s + 1] = p[s + 1]
        BY <1>3, <2>2, <3>1
      <3> QED
        BY <2>3, <3>2
    <2>4. CASE s >= t
      <3>1. at[s] = y
        BY <1>3, <1>5, <2>4
      <3>2. y \in 0 .. n - 1 /\ ~ (y < i)
        BY <1>3
      <3>3. at[s + 1] = y
        BY <2>2, <3>1, <3>2
      <3> QED
        BY <2>4, <3>3
    <2> QED
      BY <2>3, <2>4
  <1>6. i \in S
    <2> HIDE DEF S
    <2>0. i \in Nat
      OBVIOUS
    <2>1. 0 .. i \subseteq S
      BY <1>4, <1>5, <2>0, UpTo
    <2> QED
      BY <2>1
  <1>7. at[i] = y
    BY <1>3, <1>6
  <1> QED
    BY <1>1, <1>7

\* The chain of the swaps leads to a place of the list.
LEMMA FollowTyped ==
    ASSUME NEW n \in Nat, NEW i \in 0 .. n, NEW keys \in Links(n), NEW x \in 0 .. n - 1
    PROVE  FollowSwaps(keys, i, x) \in 0 .. n - 1
  <1>1. PICK at : FollowRuns(at, keys, i, x, n)
    BY FollowLoop
  <1>2. at \in [0 .. i -> 0 .. n - 1] /\ FollowSwaps(keys, i, x) = at[i]
    BY <1>1 DEF FollowRuns
  <1> QED
    BY <1>2

\* The states of the loop that places the components, M of them in D.
PlaceStates(n, M, D) == [keys : Links(n), comps : [0 .. M - 1 -> D]]

\* An iteration leaves such a state.
LEMMA PlaceTyped ==
    ASSUME NEW M \in Nat, NEW n \in 0 .. M, NEW D, NEW i \in 0 .. n - 1,
           NEW s \in PlaceStates(n, M, D)
    PROVE  /\ FollowSwaps(s.keys, i, s.keys[i].index) \in 0 .. n - 1
           /\ Place(s, i) \in PlaceStates(n, M, D)
  <1> DEFINE x == s.keys[i].index
             index == FollowSwaps(s.keys, i, x)
             k == [s.keys EXCEPT ![i].index = index]
             c == Swap(s.comps, i, index)
  <1>1. s.keys \in Links(n) /\ s.comps \in [0 .. M - 1 -> D] /\ n \in Nat /\ i \in 0 .. n
    BY DEF PlaceStates
  <1>2. x \in 0 .. n - 1
    BY <1>1 DEF Links
  <1>3. index \in 0 .. n - 1
    <2> HIDE DEF x
    <2> QED
      BY <1>1, <1>2, FollowTyped
  <1> HIDE DEF index, x
  <1>4. k \in Links(n)
    <2>1. s.keys \in Arrays(n)
      BY <1>1 DEF Links
    <2>2. k \in Arrays(n)
      <3>1. s.keys \in [0 .. n - 1 -> Tagged] /\ s.keys[i] \in Tagged
        BY <2>1 DEF Arrays
      <3>2. index \in Nat
        BY <1>3
      <3>3. [s.keys[i] EXCEPT !.index = index] \in Tagged
        BY <3>1, <3>2 DEF Tagged
      <3> QED
        BY <3>1, <3>3 DEF Arrays
    <2>3. ASSUME NEW j \in 0 .. n - 1 PROVE k[j].index \in 0 .. n - 1
      BY <1>1, <1>3, <2>1 DEF Links, Arrays, Tagged
    <2> HIDE DEF k
    <2> QED
      BY <2>2, <2>3 DEF Links
  <1>5. c \in [0 .. M - 1 -> D]
    BY <1>1, <1>3 DEF Swap
  <1>6. Place(s, i) = [keys |-> k, comps |-> c]
    BY DEF Place, index, x
  <1> HIDE DEF k, c
  <1>7. Place(s, i) \in PlaceStates(n, M, D)
    BY <1>4, <1>5, <1>6 DEF PlaceStates
  <1> QED
    BY <1>3, <1>7 DEF index, x

\* No two of the first n components have the same publisher.
Distinct(c, n) == \A i, j \in 0 .. n - 1 : c[i].pub_ = c[j].pub_ => i = j

\* After i turns: the first i components are in place, and the swaps lead from
\* where a later one was to where it is.
PlaceInv(s, K, C, i, n, M, D) ==
    /\ s \in PlaceStates(n, M, D)
    /\ \A j \in i .. n - 1 : s.keys[j] = K[j]
    /\ \A j \in 0 .. i - 1 : s.comps[j] = C[K[j].index]
    /\ \A j \in n .. M - 1 : s.comps[j] = C[j]
    /\ \A k \in i .. n - 1 : \E y \in i .. n - 1 :
          Path(s.keys, i, K[k].index, y, n) /\ s.comps[y] = C[K[k].index]

\* A path that does not end at i is one for i + 1, and one that ends there goes
\* on to the place i was swapped with.
LEMMA PathGoesOn ==
    ASSUME NEW n \in Nat, NEW i \in 0 .. n - 1, NEW keys \in Links(n), NEW r \in Links(n),
           NEW x \in 0 .. n - 1, NEW y \in i .. n - 1, Path(keys, i, x, y, n),
           NEW index \in i .. n - 1, y # index,
           r[i].index = index, \A j \in 0 .. i - 1 : r[j] = keys[j]
    PROVE  Path(r, i + 1, x, IF y = i THEN index ELSE y, n)
  <1>1. PICK t \in 0 .. i : \E p \in [0 .. t -> 0 .. n - 1] :
        /\ p[0] = x /\ p[t] = y /\ y >= i
        /\ \A s \in 0 .. t - 1 : p[s] < i /\ p[s + 1] = keys[p[s]].index
    BY DEF Path
  <1>2. PICK p \in [0 .. t -> 0 .. n - 1] :
        /\ p[0] = x /\ p[t] = y /\ y >= i
        /\ \A s \in 0 .. t - 1 : p[s] < i /\ p[s + 1] = keys[p[s]].index
    BY <1>1
  <1>3. ASSUME NEW s \in 0 .. t - 1 PROVE p[s] < i + 1 /\ p[s + 1] = r[p[s]].index
    <2>1. p[s] \in 0 .. i - 1
      BY <1>2
    <2>2. p[s] < i /\ p[s + 1] = keys[p[s]].index
      BY <1>2
    <2>3. r[p[s]] = keys[p[s]]
      BY <2>1
    <2> QED
      BY <2>1, <2>2, <2>3
  <1>4. CASE y # i
    <2>1. y >= i + 1 /\ t \in 0 .. i + 1
      BY <1>4
    <2> QED
      BY <1>2, <1>3, <1>4, <2>1 DEF Path
  <1>5. CASE y = i
    <2> DEFINE q == [s \in 0 .. t + 1 |-> IF s = t + 1 THEN index ELSE p[s]]
    <2>1. t + 1 \in 0 .. i + 1 /\ index >= i + 1 /\ index \in 0 .. n - 1
      BY <1>5
    <2>2. q \in [0 .. t + 1 -> 0 .. n - 1]
      <3>1. \A s \in 0 .. t + 1 : s # t + 1 => p[s] \in 0 .. n - 1
        BY <1>2
      <3> QED
        BY <2>1, <3>1
    <2>3. q[0] = x /\ q[t + 1] = index
      BY <1>2
    <2>4. ASSUME NEW s \in 0 .. (t + 1) - 1 PROVE q[s] < i + 1 /\ q[s + 1] = r[q[s]].index
      <3>1. q[s] = p[s]
        OBVIOUS
      <3>2. CASE s = t
        <4>1. q[s] = i /\ q[s + 1] = index
          BY <1>2, <1>5, <3>1, <3>2
        <4> HIDE DEF q
        <4> QED
          BY <4>1
      <3>3. CASE s # t
        <4>1. s \in 0 .. t - 1 /\ q[s + 1] = p[s + 1]
          BY <3>3
        <4> HIDE DEF q
        <4> QED
          BY <1>3, <3>1, <4>1
      <3> QED
        BY <3>2, <3>3
    <2> HIDE DEF q
    <2>5. Path(r, i + 1, x, index, n)
      BY <2>1, <2>2, <2>3, <2>4 DEF Path
    <2> QED
      BY <1>5, <2>5
  <1> QED
    BY <1>4, <1>5

\* The i-th iteration puts the i-th smallest component at i, and the others can
\* still be found along the swaps.
LEMMA PlaceTurn ==
    ASSUME NEW M \in Nat, NEW n \in 0 .. M, NEW D, NEW i \in 0 .. n - 1,
           NEW K \in Links(n), Apart(K, n), NEW C \in [0 .. M - 1 -> D], Distinct(C, n),
           NEW s, PlaceInv(s, K, C, i, n, M, D)
    PROVE  PlaceInv(Place(s, i), K, C, i + 1, n, M, D)
  <1> DEFINE x == K[i].index
             index == FollowSwaps(s.keys, i, s.keys[i].index)
             r == Place(s, i)
  <1>1. s \in PlaceStates(n, M, D) /\ n \in Nat /\ i \in i .. n - 1 /\ i \in 0 .. n
    BY DEF PlaceInv
  <1>2. s.keys \in Links(n) /\ s.comps \in [0 .. M - 1 -> D]
    BY <1>1 DEF PlaceStates
  <1>3. s.keys[i] = K[i] /\ x \in 0 .. n - 1
    BY <1>1 DEF PlaceInv, Links
  <1>4. PICK z \in i .. n - 1 : Path(s.keys, i, x, z, n) /\ s.comps[z] = C[x]
    BY <1>1 DEF PlaceInv
  <1>5. index = z
    <2> HIDE DEF x
    <2> QED
      BY <1>1, <1>2, <1>3, <1>4, FollowIs DEF x
  <1>6. r \in PlaceStates(n, M, D)
    BY <1>1, PlaceTyped
  <1>7. r.keys = [s.keys EXCEPT ![i].index = z] /\ r.comps = Swap(s.comps, i, z)
    BY <1>5 DEF Place
  <1> HIDE DEF r, index
  <1>8. /\ r.keys[i].index = z
        /\ \A j \in 0 .. n - 1 : j # i => r.keys[j] = s.keys[j]
    <2> DEFINE k == s.keys
               l == r.keys
    <2>1. k \in [0 .. n - 1 -> Tagged] /\ l = [k EXCEPT ![i].index = z] /\ z \in Nat
      BY <1>2, <1>7 DEF Links, Arrays
    <2> HIDE DEF k, l
    <2>2. l[i].index = z /\ \A j \in 0 .. n - 1 : j # i => l[j] = k[j]
      BY <2>1 DEF Tagged
    <2> QED
      BY <2>2 DEF k, l
  <1>9. /\ r.comps[i] = s.comps[z] /\ r.comps[z] = s.comps[i]
        /\ \A j \in 0 .. M - 1 : j # i /\ j # z => r.comps[j] = s.comps[j]
    BY <1>2, <1>7 DEF Swap
  <1>10. ASSUME NEW j \in i + 1 .. n - 1 PROVE r.keys[j] = K[j]
    BY <1>8 DEF PlaceInv
  <1>11. ASSUME NEW j \in 0 .. (i + 1) - 1 PROVE r.comps[j] = C[K[j].index]
    <2>1. CASE j = i
      BY <1>4, <1>9, <2>1
    <2>2. CASE j # i
      <3>1. j \in 0 .. i - 1 /\ j \in 0 .. M - 1 /\ j # z
        BY <2>2
      <3> QED
        BY <1>9, <2>2, <3>1 DEF PlaceInv
    <2> QED
      BY <2>1, <2>2
  <1>12. ASSUME NEW j \in n .. M - 1 PROVE r.comps[j] = C[j]
    <2>1. j \in 0 .. M - 1 /\ j # i /\ j # z
      OBVIOUS
    <2> QED
      BY <1>9, <2>1 DEF PlaceInv
  <1>13. ASSUME NEW k \in i + 1 .. n - 1
         PROVE  \E y \in i + 1 .. n - 1 :
                   Path(r.keys, i + 1, K[k].index, y, n) /\ r.comps[y] = C[K[k].index]
    <2> DEFINE a == K[k].index
    <2>1. a \in 0 .. n - 1 /\ k \in i .. n - 1 /\ k \in 0 .. n - 1 /\ k # i
      BY DEF Links
    <2>2. PICK y \in i .. n - 1 : Path(s.keys, i, a, y, n) /\ s.comps[y] = C[a]
      BY <2>1 DEF PlaceInv
    <2>3. a # x
      BY <2>1 DEF Apart
    <2> HIDE DEF a, x
    <2>4. C[a] # C[x]
      BY <1>3, <2>1, <2>3 DEF Distinct
    <2>5. y # z
      BY <1>4, <2>2, <2>4
    <2>6. \A j \in 0 .. i - 1 : r.keys[j] = s.keys[j]
      BY <1>8
    <2>7. r.keys \in Links(n)
      BY <1>6 DEF PlaceStates
    <2> DEFINE b == IF y = i THEN z ELSE y
    <2>8. Path(r.keys, i + 1, a, b, n)
      <3> DEFINE g == s.keys
                 l == r.keys
      <3>1. g \in Links(n) /\ l \in Links(n) /\ Path(g, i, a, y, n) /\ l[i].index = z
        BY <1>2, <1>8, <2>2, <2>7
      <3>2. \A j \in 0 .. i - 1 : l[j] = g[j]
        BY <2>6
      <3> HIDE DEF g, l
      <3>3. Path(l, i + 1, a, IF y = i THEN z ELSE y, n)
        BY <1>1, <2>1, <2>5, <3>1, <3>2, PathGoesOn
      <3> QED
        BY <3>3 DEF l
    <2>9. b \in i + 1 .. n - 1
      BY <2>5
    <2>10. r.comps[b] = C[a]
      BY <1>9, <2>2, <2>5
    <2> HIDE DEF b
    <2> QED
      BY <2>8, <2>9, <2>10 DEF a
  <1> QED
    BY <1>6, <1>10, <1>11, <1>12, <1>13 DEF PlaceInv, r

\* The keys sort_price_comps sorts, and what heapsort makes of them.
LEMMA ReversedKeysAre ==
    ASSUME NEW n \in Nat, NEW c, \A i \in 0 .. n - 1 : c[i].pub_ \in Nat
    PROVE  LET k == ReversedKeys(c, n) IN
           /\ k \in Arrays(n) /\ Apart(k, n)
           /\ \A i \in 0 .. n - 1 :
                 k[i].index \in 0 .. n - 1 /\ k[i].key = c[k[i].index].pub_
           /\ \A a \in 0 .. n - 1 : \E i \in 0 .. n - 1 : k[i].index = a
  <1> DEFINE k == ReversedKeys(c, n)
  <1>1. ASSUME NEW i \in 0 .. n - 1
        PROVE  /\ n - 1 - i \in 0 .. n - 1
               /\ k[i] = [key |-> c[n - 1 - i].pub_, index |-> n - 1 - i]
    BY DEF ReversedKeys
  <1>2. ASSUME NEW i \in 0 .. n - 1
        PROVE  /\ k[i].index = n - 1 - i /\ k[i].index \in 0 .. n - 1
               /\ k[i].key = c[k[i].index].pub_ /\ k[i] \in Tagged
    <2> DEFINE a == n - 1 - i
    <2>1. a \in 0 .. n - 1 /\ k[i] = [key |-> c[a].pub_, index |-> a] /\ c[a].pub_ \in Nat /\ a \in Nat
      BY <1>1
    <2> HIDE DEF a, k
    <2>2. k[i].index = a /\ k[i].key = c[a].pub_ /\ k[i] \in Tagged
      BY <2>1 DEF Tagged
    <2> QED
      BY <2>1, <2>2 DEF a
  <1>3. k \in Arrays(n)
    <2>1. k = [i \in 0 .. n - 1 |-> k[i]]
      BY DEF ReversedKeys
    <2> HIDE DEF k
    <2> QED
      BY <1>2, <2>1 DEF Arrays
  <1> HIDE DEF k
  <1>4. Apart(k, n)
    BY <1>2 DEF Apart
  <1>5. ASSUME NEW a \in 0 .. n - 1 PROVE \E i \in 0 .. n - 1 : k[i].index = a
    <2>1. n - 1 - a \in 0 .. n - 1
      OBVIOUS
    <2>2. k[n - 1 - a].index = n - 1 - (n - 1 - a)
      BY <1>2, <2>1
    <2>3. n - 1 - (n - 1 - a) = a
      OBVIOUS
    <2> QED
      BY <2>1, <2>2, <2>3
  <1> QED
    BY <1>2, <1>3, <1>4, <1>5 DEF k

\* The sorted keys name every place once, in the order of its publisher.
LEMMA SortedKeysAre ==
    ASSUME NEW n \in Nat, n > 0, NEW c, \A i \in 0 .. n - 1 : c[i].pub_ \in Nat
    PROVE  LET K == heapsort(ReversedKeys(c, n), n) IN
           /\ K \in Links(n) /\ Apart(K, n)
           /\ \A a \in 0 .. n - 1 : \E i \in 0 .. n - 1 : K[i].index = a
           /\ \A i, j \in 0 .. n - 1 : i < j => c[K[i].index].pub_ <= c[K[j].index].pub_
  <1> DEFINE k == ReversedKeys(c, n)
             K == heapsort(k, n)
  <1>1. /\ k \in Arrays(n) /\ Apart(k, n)
        /\ \A i \in 0 .. n - 1 :
              k[i].index \in 0 .. n - 1 /\ k[i].key = c[k[i].index].pub_
        /\ \A a \in 0 .. n - 1 : \E i \in 0 .. n - 1 : k[i].index = a
    BY ReversedKeysAre
  <1> HIDE DEF k
  <1>2. n \in 1 .. n
    OBVIOUS
  <1>3. Shuffled(k, K, n, n) /\ \A i, j \in 0 .. n - 1 : i < j => K[i].key <= K[j].key
    BY <1>1, <1>2, HeapsortIs
  <1> HIDE DEF K
  <1>4. ASSUME NEW i \in 0 .. n - 1
        PROVE  K[i].index \in 0 .. n - 1 /\ K[i].key = c[K[i].index].pub_
    <2>1. PICK j \in 0 .. n - 1 : K[i] = k[j]
      BY <1>3 DEF Shuffled
    <2> QED
      BY <1>1, <2>1
  <1>5. K \in Links(n) /\ Apart(K, n)
    BY <1>1, <1>3, <1>4 DEF Shuffled, Links
  <1>6. ASSUME NEW a \in 0 .. n - 1 PROVE \E i \in 0 .. n - 1 : K[i].index = a
    <2>1. PICK j \in 0 .. n - 1 : k[j].index = a
      BY <1>1
    <2>2. PICK i \in 0 .. n - 1 : K[i] = k[j]
      BY <1>3 DEF Shuffled
    <2> QED
      BY <2>1, <2>2
  <1> QED
    BY <1>3, <1>4, <1>5, <1>6 DEF K, k

\* The loop of sort_price_comps.
SortRuns(s, c, n) ==
    /\ s[0] = [keys |-> heapsort(ReversedKeys(c, n), n), comps |-> c]
    /\ \A t \in 1 .. n : s[t] = Place(s[t - 1], t - 1)
    /\ sort_price_comps(c, n) = s[n].comps

\* sort_price_comps is that loop.
LEMMA SortLoop ==
    ASSUME NEW M \in Nat, NEW n \in 0 .. M, NEW D, NEW c \in [0 .. M - 1 -> D],
           heapsort(ReversedKeys(c, n), n) \in Links(n)
    PROVE  \E s : SortRuns(s, c, n)
  <1> DEFINE K == heapsort(ReversedKeys(c, n), n)
             e == [keys |-> K, comps |-> c]
             E == PlaceStates(n, M, D)
             G == [x \in E \X (1 .. n) |-> Place(x[1], x[2] - 1)]
             Is(f) == f = [t \in 0 .. n |-> IF t = 0 THEN e ELSE Place(f[t - 1], t - 1)]
  <1>1. n \in Nat /\ e \in E
    <2> HIDE DEF K
    <2> QED
      BY DEF PlaceStates, K
  <1> HIDE DEF K
  <1>2. G \in [E \X (1 .. n) -> E]
    <2>1. ASSUME NEW x \in E, NEW t \in 1 .. n PROVE Place(x, t - 1) \in E
      <3>1. t - 1 \in 0 .. n - 1
        OBVIOUS
      <3> QED
        BY <3>1, PlaceTyped
    <2> HIDE DEF E
    <2> QED
      BY <2>1
  <1>3. PICK f \in [0 .. n -> E] : Loops(f, n, e, G)
    <2> HIDE DEF G, E, e
    <2> QED
      BY <1>1, <1>2, LoopDefined
  <1>4. \A t \in 1 .. n : f[t] = Place(f[t - 1], t - 1)
    <2> TAKE t \in 1 .. n
    <2>1. t - 1 \in 0 .. n
      OBVIOUS
    <2>2. <<f[t - 1], t>> \in E \X (1 .. n)
      BY <1>3, <2>1
    <2>3. G[<<f[t - 1], t>>] = Place(f[t - 1], t - 1)
      BY <2>2
    <2> QED
      BY <1>3, <2>3 DEF Loops
  <1>5. Is(f)
    <2> DEFINE g == [t \in 0 .. n |-> IF t = 0 THEN e ELSE Place(f[t - 1], t - 1)]
    <2>1. \A t \in 0 .. n : f[t] = g[t]
      <3> TAKE t \in 0 .. n
      <3>1. t = 0 \/ t \in 1 .. n
        OBVIOUS
      <3>2. f[0] = e
        BY <1>3 DEF Loops
      <3>3. t \in 1 .. n => t # 0 /\ f[t] = Place(f[t - 1], t - 1)
        BY <1>4
      <3> QED
        BY <3>1, <3>2, <3>3, Zenon
    <2>2. f = g
      BY <1>3, <2>1
    <2> QED
      BY <2>2
  <1> DEFINE s == CHOOSE g : Is(g)
  <1>6. Is(s)
    <2> HIDE DEF Is
    <2> QED
      BY <1>5
  <1>7. sort_price_comps(c, n) = s[n].comps
    BY DEF sort_price_comps, K
  <1> HIDE DEF s
  <1>8. s[0] = e /\ \A t \in 1 .. n : s[t] = Place(s[t - 1], t - 1)
    <2>1. \A t \in 0 .. n : s[t] = IF t = 0 THEN e ELSE Place(s[t - 1], t - 1)
      BY <1>6, Zenon
    <2>2. 0 \in 0 .. n /\ \A t \in 1 .. n : t \in 0 .. n /\ t # 0
      OBVIOUS
    <2> QED
      BY <2>1, <2>2, Zenon
  <1> QED
    BY <1>7, <1>8 DEF K, SortRuns

\* r is c with its first n components sorted and the others left alone.
SortedFrom(r, c, n, M, D) ==
    /\ r \in [0 .. M - 1 -> D]
    /\ \A j \in n .. M - 1 : r[j] = c[j]
    /\ \A i, j \in 0 .. n - 1 : i < j => r[i].pub_ < r[j].pub_
    /\ \A i \in 0 .. n - 1 : \E j \in 0 .. n - 1 : r[i] = c[j]
    /\ \A j \in 0 .. n - 1 : \E i \in 0 .. n - 1 : r[i] = c[j]

\* What sort_price_comps returns for components of distinct publishers.
LEMMA SortPriceCompsIs ==
    ASSUME NEW M \in Nat, NEW n \in 1 .. M, NEW D, NEW c \in [0 .. M - 1 -> D],
           \A i \in 0 .. n - 1 : c[i].pub_ \in Nat, Distinct(c, n)
    PROVE  SortedFrom(sort_price_comps(c, n), c, n, M, D)
  <1> DEFINE K == heapsort(ReversedKeys(c, n), n)
             r == sort_price_comps(c, n)
  <1>1. /\ K \in Links(n) /\ Apart(K, n)
        /\ \A a \in 0 .. n - 1 : \E i \in 0 .. n - 1 : K[i].index = a
        /\ \A i, j \in 0 .. n - 1 : i < j => c[K[i].index].pub_ <= c[K[j].index].pub_
    <2>1. n \in Nat /\ n > 0
      OBVIOUS
    <2> QED
      BY <2>1, SortedKeysAre
  <1>2. PICK s : /\ s[0] = [keys |-> K, comps |-> c]
                 /\ \A t \in 1 .. n : s[t] = Place(s[t - 1], t - 1)
                 /\ r = s[n].comps
    <2>1. n \in 0 .. M
      OBVIOUS
    <2>2. heapsort(ReversedKeys(c, n), n) \in Links(n)
      BY <1>1
    <2> HIDE DEF K, r
    <2>3. PICK s : SortRuns(s, c, n)
      BY <2>1, <2>2, SortLoop
    <2> QED
      BY <2>3 DEF K, r, SortRuns
  <1> HIDE DEF K, r
  <1> DEFINE S == {t \in Nat : PlaceInv(s[t], K, c, t, n, M, D)}
  <1>3. 0 \in S
    <2>1. s[0] \in PlaceStates(n, M, D) /\ s[0].keys = K /\ s[0].comps = c
      BY <1>1, <1>2 DEF PlaceStates
    <2>2. ASSUME NEW k \in 0 .. n - 1
          PROVE  \E y \in 0 .. n - 1 : Path(K, 0, K[k].index, y, n) /\ c[y] = c[K[k].index]
      <3> DEFINE x == K[k].index
                 p == [t \in 0 .. 0 |-> x]
      <3>1. x \in 0 .. n - 1
        BY <1>1 DEF Links
      <3> HIDE DEF x
      <3>2. p \in [0 .. 0 -> 0 .. n - 1] /\ p[0] = x /\ x >= 0 /\ 0 \in 0 .. 0 /\ 0 .. 0 - 1 = {}
        BY <3>1
      <3> HIDE DEF p
      <3>3. Path(K, 0, x, x, n)
        BY <3>2 DEF Path
      <3> QED
        BY <3>1, <3>3 DEF x
    <2>3. 0 .. 0 - 1 = {}
      OBVIOUS
    <2> QED
      BY <2>1, <2>2, <2>3 DEF PlaceInv
  <1>4. ASSUME NEW t \in 0 .. n - 1, t \in S PROVE t + 1 \in S
    <2>1. t + 1 \in 1 .. n /\ (t + 1) - 1 = t
      OBVIOUS
    <2>2. s[t + 1] = Place(s[t], t)
      BY <1>2, <2>1
    <2>3. PlaceInv(s[t], K, c, t, n, M, D)
      BY <1>4
    <2>4. PlaceInv(s[t + 1], K, c, t + 1, n, M, D)
      <3>1. n \in 0 .. M
        OBVIOUS
      <3> QED
        BY <1>1, <2>2, <2>3, <3>1, PlaceTurn
    <2> QED
      BY <2>4
  <1>5. PlaceInv(s[n], K, c, n, n, M, D)
    <2>1. n \in Nat
      OBVIOUS
    <2> HIDE DEF S
    <2>2. 0 .. n \subseteq S
      BY <1>3, <1>4, <2>1, UpTo
    <2>3. n \in S
      BY <2>1, <2>2
    <2> QED
      BY <2>3 DEF S
  <1>6. r \in [0 .. M - 1 -> D] /\ \A j \in n .. M - 1 : r[j] = c[j]
    BY <1>2, <1>5 DEF PlaceInv, PlaceStates
  <1>7. \A j \in 0 .. n - 1 : r[j] = c[K[j].index] /\ K[j].index \in 0 .. n - 1
    BY <1>1, <1>2, <1>5 DEF PlaceInv, Links
  <1>8. ASSUME NEW i \in 0 .. n - 1, NEW j \in 0 .. n - 1, i < j PROVE r[i].pub_ < r[j].pub_
    <2> DEFINE a == K[i].index
               b == K[j].index
    <2>1. a \in 0 .. n - 1 /\ b \in 0 .. n - 1 /\ r[i] = c[a] /\ r[j] = c[b]
      BY <1>7
    <2>2. a # b
      BY <1>1, <1>8 DEF Apart
    <2>3. c[a].pub_ <= c[b].pub_
      BY <1>1, <1>8
    <2> HIDE DEF a, b
    <2>4. c[a].pub_ # c[b].pub_
      BY <2>1, <2>2 DEF Distinct
    <2>5. c[a].pub_ \in Nat /\ c[b].pub_ \in Nat
      BY <2>1
    <2> QED
      BY <2>1, <2>3, <2>4, <2>5
  <1>9. ASSUME NEW j \in 0 .. n - 1 PROVE \E i \in 0 .. n - 1 : r[i] = c[j]
    <2>1. PICK i \in 0 .. n - 1 : K[i].index = j
      BY <1>1
    <2> QED
      BY <1>7, <2>1
  <1>10. SortedFrom(r, c, n, M, D)
    BY <1>6, <1>7, <1>8, <1>9 DEF SortedFrom
  <1> QED
    BY <1>10 DEF r

-----------------------------------------------------------------------------
(* The searches *)

\* A state of the binary search of key among the first n components: what is
\* found is the key, in any order of the components.
Searching(c, key, n) ==
    {s \in [left : 0 .. n, right : 0 .. n, found : Nat] :
        s.found # Capacity => s.found \in 0 .. n - 1 /\ c[s.found].pub_ = key}

\* A turn stays within the list, and finds no other publisher.
LEMMA SearchStepTyped ==
    ASSUME NEW n \in Nat, NEW c, NEW key, NEW s \in Searching(c, key, n)
    PROVE  SearchStep(c, key, s) \in Searching(c, key, n)
  <1> DEFINE mid == s.left + (s.right - s.left) \div 2
  <1>1. s \in [left : 0 .. n, right : 0 .. n, found : Nat]
    BY DEF Searching
  <1>2. CASE s.left >= s.right \/ s.found # Capacity
    BY <1>2 DEF SearchStep, NotFound
  <1>3. CASE ~ (s.left >= s.right \/ s.found # Capacity)
    <2>1. s.left < s.right /\ s.found = Capacity
      BY <1>1, <1>3
    <2>2. mid \in 0 .. n - 1
      BY <1>1, <2>1
    <2>3. SearchStep(c, key, s) =
             IF c[mid].pub_ = key THEN [s EXCEPT !.found = mid]
             ELSE IF c[mid].pub_ < key THEN [s EXCEPT !.left = mid + 1]
             ELSE [s EXCEPT !.right = mid]
      BY <1>3 DEF SearchStep, NotFound
    <2> HIDE DEF mid
    <2>4. CASE c[mid].pub_ = key
      <3>1. SearchStep(c, key, s) = [s EXCEPT !.found = mid]
        BY <2>3, <2>4
      <3> QED
        BY <1>1, <2>2, <2>4, <3>1 DEF Searching
    <2>5. CASE c[mid].pub_ # key /\ c[mid].pub_ < key
      <3>1. SearchStep(c, key, s) = [s EXCEPT !.left = mid + 1]
        BY <2>3, <2>5
      <3>2. mid + 1 \in 0 .. n
        BY <2>2
      <3> QED
        BY <1>1, <2>1, <3>1, <3>2 DEF Searching
    <2>6. CASE c[mid].pub_ # key /\ ~ (c[mid].pub_ < key)
      <3>1. SearchStep(c, key, s) = [s EXCEPT !.right = mid]
        BY <2>3, <2>6
      <3>2. mid \in 0 .. n
        BY <2>2
      <3> QED
        BY <1>1, <2>1, <3>1, <3>2 DEF Searching
    <2> QED
      BY <2>4, <2>5, <2>6
  <1> QED
    BY <1>2, <1>3

\* s holds the states of the binary search, from the first to the last.
SearchRuns(s, c, key, n) ==
    /\ s[0] = [left |-> 0, right |-> n, found |-> Capacity]
    /\ \A t \in 1 .. n : s[t] = SearchStep(c, key, s[t - 1])
    /\ \A t \in 0 .. n : s[t] \in Searching(c, key, n)
    /\ BinarySearch(c, key, n) = s[n].found

\* The binary search is its turns, one after the other.
LEMMA SearchLoop ==
    ASSUME NEW n \in Nat, NEW c, NEW key
    PROVE  \E s : SearchRuns(s, c, key, n)
  <1> DEFINE e == [left |-> 0, right |-> n, found |-> Capacity]
             D == Searching(c, key, n)
             G == [x \in D \X (1 .. n) |-> SearchStep(c, key, x[1])]
             Is(f) == f = [t \in 0 .. n |-> IF t = 0 THEN e ELSE SearchStep(c, key, f[t - 1])]
  <1>1. e \in D
    BY CapacityNat DEF Searching
  <1>2. G \in [D \X (1 .. n) -> D]
    BY SearchStepTyped
  <1>3. PICK f \in [0 .. n -> D] : Loops(f, n, e, G)
    <2> HIDE DEF G, D, e
    <2> QED
      BY <1>1, <1>2, LoopDefined
  <1>4. \A t \in 1 .. n : f[t] = SearchStep(c, key, f[t - 1])
    <2> TAKE t \in 1 .. n
    <2>1. t - 1 \in 0 .. n
      OBVIOUS
    <2>2. <<f[t - 1], t>> \in D \X (1 .. n)
      BY <1>3, <2>1
    <2>3. G[<<f[t - 1], t>>] = SearchStep(c, key, f[t - 1])
      BY <2>2
    <2> QED
      BY <1>3, <2>3 DEF Loops
  <1>5. Is(f)
    <2> DEFINE g == [t \in 0 .. n |-> IF t = 0 THEN e ELSE SearchStep(c, key, f[t - 1])]
    <2>1. \A t \in 0 .. n : f[t] = g[t]
      <3> TAKE t \in 0 .. n
      <3>1. t = 0 \/ t \in 1 .. n
        OBVIOUS
      <3>2. f[0] = e
        BY <1>3 DEF Loops
      <3>3. t \in 1 .. n => t # 0 /\ f[t] = SearchStep(c, key, f[t - 1])
        BY <1>4
      <3> QED
        BY <3>1, <3>2, <3>3, Zenon
    <2>2. f = g
      BY <1>3, <2>1
    <2> QED
      BY <2>2
  <1> DEFINE s == CHOOSE g : Is(g)
  <1>6. Is(s)
    <2> HIDE DEF Is
    <2> QED
      BY <1>5
  <1>7. BinarySearch(c, key, n) = s[n].found
    BY DEF BinarySearch, NotFound
  <1> HIDE DEF s
  <1>8. s[0] = e /\ \A t \in 1 .. n : s[t] = SearchStep(c, key, s[t - 1])
    <2>1. \A t \in 0 .. n : s[t] = IF t = 0 THEN e ELSE SearchStep(c, key, s[t - 1])
      BY <1>6, Zenon
    <2>2. 0 \in 0 .. n /\ \A t \in 1 .. n : t \in 0 .. n /\ t # 0
      OBVIOUS
    <2> QED
      BY <2>1, <2>2, Zenon
  <1> DEFINE S == {t \in Nat : s[t] \in D}
  <1>9. 0 \in S
    BY <1>1, <1>8
  <1>10. ASSUME NEW t \in 0 .. n - 1, t \in S PROVE t + 1 \in S
    <2>1. t + 1 \in 1 .. n /\ (t + 1) - 1 = t
      OBVIOUS
    <2>2. s[t + 1] = SearchStep(c, key, s[t])
      BY <1>8, <2>1
    <2> QED
      BY <1>10, <2>2, SearchStepTyped
  <1>11. \A t \in 0 .. n : s[t] \in D
    <2> HIDE DEF S
    <2>1. 0 .. n \subseteq S
      BY <1>9, <1>10, UpTo
    <2> QED
      BY <2>1 DEF S
  <1> QED
    BY <1>7, <1>8, <1>11 DEF SearchRuns

\* What it finds is the publisher it was asked for, in any order of the list.
LEMMA BinarySearchSound ==
    ASSUME NEW n \in Nat, NEW c, NEW key
    PROVE  LET i == BinarySearch(c, key, n) IN
           i # Capacity => i \in 0 .. n - 1 /\ c[i].pub_ = key
  <1>1. PICK s : SearchRuns(s, c, key, n)
    BY SearchLoop
  <1>2. n \in 0 .. n
    OBVIOUS
  <1>3. s[n] \in Searching(c, key, n) /\ BinarySearch(c, key, n) = s[n].found
    BY <1>1, <1>2 DEF SearchRuns
  <1> QED
    BY <1>3 DEF Searching

\* In a sorted list it finds every listed publisher: the range of the search
\* holds the publisher's place, and shrinks with every turn.
LEMMA BinarySearchFinds ==
    ASSUME NEW n \in 0 .. Capacity, NEW c, \A i \in 0 .. n - 1 : c[i].pub_ \in Nat,
           SortedList(n, c), NEW p \in 0 .. n - 1
    PROVE  BinarySearch(c, c[p].pub_, n) = p
  <1> DEFINE key == c[p].pub_
             Closing(s, t) == \/ s.found # Capacity
                              \/ s.left <= p /\ p < s.right /\ (s.right - s.left) + t <= n
  <1>1. n \in Nat /\ n <= Capacity /\ p \in Nat /\ p < n /\ key \in Nat
    BY CapacityNat
  <1>2. PICK s : SearchRuns(s, c, key, n)
    <2> HIDE DEF key
    <2> QED
      BY <1>1, SearchLoop
  <1> DEFINE S == {t \in Nat : Closing(s[t], t)}
  <1>3. 0 \in S
    BY <1>1, <1>2 DEF SearchRuns
  <1>4. ASSUME NEW t \in 0 .. n - 1, t \in S PROVE t + 1 \in S
    <2> DEFINE x == s[t]
               y == s[t + 1]
               mid == x.left + (x.right - x.left) \div 2
    <2>1. t + 1 \in 1 .. n /\ (t + 1) - 1 = t /\ t \in 0 .. n /\ t + 1 \in Nat
      BY <1>1
    <2>2. y = SearchStep(c, key, x) /\ x \in Searching(c, key, n)
      BY <1>2, <2>1 DEF SearchRuns
    <2>3. x.left \in Nat /\ x.right \in Nat /\ x.right <= n
          /\ x \in [left : 0 .. n, right : 0 .. n, found : Nat]
      BY <1>1, <2>2 DEF Searching
    <2>4. Closing(x, t)
      BY <1>4
    <2> SUFFICES Closing(y, t + 1)
      BY <2>1
    <2> HIDE DEF x, y, key
    <2>5. CASE x.found # Capacity
      <3>1. y = x
        BY <2>2, <2>5 DEF SearchStep, NotFound
      <3> QED
        BY <2>5, <3>1
    <2>6. CASE x.found = Capacity
      <3>1. x.left <= p /\ p < x.right /\ (x.right - x.left) + t <= n
        BY <2>4, <2>6
      <3>2. ~ (x.left >= x.right \/ x.found # Capacity)
        BY <1>1, <2>3, <2>6, <3>1
      <3>3. mid \in Nat /\ x.left <= mid /\ mid < x.right
        BY <1>1, <2>3, <3>2
      <3>4. mid \in 0 .. n - 1 /\ c[mid].pub_ \in Nat
        BY <1>1, <2>3, <3>3
      <3>5. y = IF c[mid].pub_ = key THEN [x EXCEPT !.found = mid]
                ELSE IF c[mid].pub_ < key THEN [x EXCEPT !.left = mid + 1]
                ELSE [x EXCEPT !.right = mid]
        BY <2>2, <3>2 DEF SearchStep, NotFound
      <3>6. (mid < p => c[mid].pub_ < key) /\ (p < mid => key < c[mid].pub_)
        BY <3>4 DEF SortedList, key
      <3> HIDE DEF mid
      <3>7. CASE c[mid].pub_ = key
        <4>1. y.found = mid
          BY <2>3, <3>5, <3>7
        <4> QED
          BY <1>1, <3>4, <4>1
      <3>8. CASE c[mid].pub_ # key /\ c[mid].pub_ < key
        <4>1. y.left = mid + 1 /\ y.right = x.right
          BY <2>3, <3>5, <3>8
        <4>2. mid < p
          <5>1. mid # p
            BY <3>8 DEF key
          <5>2. ~ (p < mid)
            BY <1>1, <3>4, <3>6, <3>8
          <5> QED
            BY <1>1, <3>3, <5>1, <5>2
        <4> QED
          BY <1>1, <2>1, <2>3, <3>1, <3>3, <4>1, <4>2
      <3>9. CASE c[mid].pub_ # key /\ ~ (c[mid].pub_ < key)
        <4>1. y.left = x.left /\ y.right = mid
          BY <2>3, <3>5, <3>9
        <4>2. p < mid
          <5>1. mid # p
            BY <3>9 DEF key
          <5> QED
            BY <1>1, <3>3, <3>6, <3>9, <5>1
        <4> QED
          BY <1>1, <2>1, <2>3, <3>1, <3>3, <4>1, <4>2
      <3> QED
        BY <3>7, <3>8, <3>9
    <2> QED
      BY <2>5, <2>6
  <1>5. Closing(s[n], n)
    <2> HIDE DEF S
    <2>1. 0 .. n \subseteq S
      BY <1>1, <1>3, <1>4, UpTo
    <2>2. n \in S
      BY <1>1, <2>1
    <2> QED
      BY <2>2 DEF S
  <1>6. s[n] \in Searching(c, key, n)
    <2>1. n \in 0 .. n
      BY <1>1
    <2> QED
      BY <1>2, <2>1 DEF SearchRuns
  <1>7. s[n].found # Capacity
    <2>1. s[n].left \in Nat /\ s[n].right \in Nat
      BY <1>1, <1>6 DEF Searching
    <2> QED
      BY <1>1, <1>5, <2>1
  <1>8. s[n].found \in 0 .. n - 1 /\ c[s[n].found].pub_ = key
    BY <1>6, <1>7 DEF Searching
  <1>9. s[n].found = p
    <2> DEFINE q == s[n].found
    <2>1. q \in 0 .. n - 1 /\ c[q].pub_ = c[p].pub_ /\ c[p].pub_ \in Nat
      BY <1>8
    <2> HIDE DEF q
    <2>2. (q < p => c[q].pub_ < c[p].pub_) /\ (p < q => c[p].pub_ < c[q].pub_)
      BY <2>1 DEF SortedList
    <2>3. ~ (q < p) /\ ~ (p < q)
      BY <2>1, <2>2
    <2> QED
      BY <1>1, <2>1, <2>3 DEF q
  <1> QED
    BY <1>2, <1>9 DEF SearchRuns

\* The linear search finds a listed publisher, and nobody else.
LEMMA LinearSearchIs ==
    ASSUME NEW n \in Nat, NEW c, NEW key
    PROVE  LET i == LinearSearch(c, key, n) IN
           IF \E j \in 0 .. n - 1 : c[j].pub_ = key
           THEN i \in 0 .. n - 1 /\ c[i].pub_ = key
           ELSE i = Capacity
  <1> DEFINE hits == {i \in 0 .. n - 1 : c[i].pub_ = key}
  <1>1. CASE \E j \in 0 .. n - 1 : c[j].pub_ = key
    <2>1. hits # {} /\ hits \subseteq Nat
      BY <1>1
    <2>2. \E i \in hits : \A j \in hits : i <= j
      <3> HIDE DEF hits
      <3> QED
        BY <2>1, Least
    <2>3. LinearSearch(c, key, n) = CHOOSE i \in hits : \A j \in hits : i <= j
      BY <2>1 DEF LinearSearch
    <2>4. LinearSearch(c, key, n) \in hits
      <3> HIDE DEF hits
      <3> QED
        BY <2>2, <2>3
    <2> QED
      BY <1>1, <2>4
  <1>2. CASE ~ \E j \in 0 .. n - 1 : c[j].pub_ = key
    <2>1. hits = {}
      BY <1>2
    <2> QED
      BY <1>2, <2>1 DEF LinearSearch, NotFound
  <1> QED
    BY <1>1, <1>2

\* find_publisher_index finds a listed publisher, and nobody else.
LEMMA FindIs ==
    ASSUME NEW n \in 0 .. Capacity, NEW c, NEW key
    PROVE  LET i == find_publisher_index(c, key, n) IN
           IF \E j \in 0 .. n - 1 : c[j].pub_ = key
           THEN i \in 0 .. n - 1 /\ c[i].pub_ = key
           ELSE i = Capacity
  <1> DEFINE b == BinarySearch(c, key, n)
             l == LinearSearch(c, key, n)
  <1>1. n \in Nat
    BY CapacityNat
  <1>2. b # Capacity => b \in 0 .. n - 1 /\ c[b].pub_ = key
    BY <1>1, BinarySearchSound
  <1>3. IF \E j \in 0 .. n - 1 : c[j].pub_ = key
        THEN l \in 0 .. n - 1 /\ c[l].pub_ = key ELSE l = Capacity
    BY <1>1, LinearSearchIs
  <1>4. find_publisher_index(c, key, n) = IF b # Capacity THEN b ELSE l
    BY DEF find_publisher_index, NotFound
  <1> HIDE DEF b, l
  <1> QED
    BY <1>2, <1>3, <1>4

-----------------------------------------------------------------------------
(* The instructions on the array *)

\* Publishers are listed once, and nothing is left behind the list.
ListInv ==
    /\ num_ \in 0 .. Capacity
    /\ comp_ \in [0 .. Capacity - 1 -> Component]
    /\ Distinct(comp_, num_)
    /\ \A i \in num_ .. Capacity - 1 : comp_[i] = NoComp

\* The publishers of the first n components of c, and the quotes they have.
KeysOf(c, n) == {c[i].pub_ : i \in 0 .. n - 1}
QuoteOf(c, n) == [k \in KeysOf(c, n) |-> c[LinearSearch(c, k, n)].latest_]

\* The quote of a listed publisher is the one in its component.
LEMMA QuoteOfIs ==
    ASSUME NEW n \in Nat, NEW c, Distinct(c, n), NEW i \in 0 .. n - 1
    PROVE  c[i].pub_ \in KeysOf(c, n) /\ QuoteOf(c, n)[c[i].pub_] = c[i].latest_
  <1> DEFINE k == c[i].pub_
             l == LinearSearch(c, k, n)
  <1>1. l \in 0 .. n - 1 /\ c[l].pub_ = k
    BY LinearSearchIs
  <1>2. l = i
    <2> HIDE DEF l
    <2> QED
      BY <1>1 DEF Distinct
  <1>3. k \in KeysOf(c, n)
    BY DEF KeysOf
  <1>4. QuoteOf(c, n)[k] = c[l].latest_
    <2> HIDE DEF l, k
    <2> QED
      BY <1>3 DEF QuoteOf, l
  <1> QED
    BY <1>2, <1>3, <1>4

\* A quote is where its publisher is: a function of the right publishers with
\* the right quotes is QuoteOf.
LEMMA QuoteOfUnique ==
    ASSUME NEW n \in Nat, NEW c, Distinct(c, n), NEW f, f = [k \in DOMAIN f |-> f[k]],
           DOMAIN f = KeysOf(c, n), \A i \in 0 .. n - 1 : f[c[i].pub_] = c[i].latest_
    PROVE  QuoteOf(c, n) = f
  <1>1. ASSUME NEW k \in KeysOf(c, n) PROVE QuoteOf(c, n)[k] = f[k]
    <2>1. PICK i \in 0 .. n - 1 : k = c[i].pub_
      BY DEF KeysOf
    <2> QED
      BY <2>1, QuoteOfIs
  <1>2. QuoteOf(c, n) = [k \in KeysOf(c, n) |-> QuoteOf(c, n)[k]]
    BY DEF QuoteOf
  <1> QED
    BY <1>1, <1>2

\* The same components in another order have the same publishers and quotes.
LEMMA QuoteOfShuffled ==
    ASSUME NEW n \in Nat, NEW c, NEW r, Distinct(c, n), Distinct(r, n),
           \A i \in 0 .. n - 1 : \E j \in 0 .. n - 1 : r[i] = c[j],
           \A j \in 0 .. n - 1 : \E i \in 0 .. n - 1 : r[i] = c[j]
    PROVE  KeysOf(r, n) = KeysOf(c, n) /\ QuoteOf(r, n) = QuoteOf(c, n)
  <1>1. KeysOf(r, n) = KeysOf(c, n)
    <2>1. ASSUME NEW k \in KeysOf(r, n) PROVE k \in KeysOf(c, n)
      <3>1. PICK i \in 0 .. n - 1 : k = r[i].pub_
        BY DEF KeysOf
      <3>2. PICK j \in 0 .. n - 1 : r[i] = c[j]
        OBVIOUS
      <3> QED
        BY <3>1, <3>2 DEF KeysOf
    <2>2. ASSUME NEW k \in KeysOf(c, n) PROVE k \in KeysOf(r, n)
      <3>1. PICK j \in 0 .. n - 1 : k = c[j].pub_
        BY DEF KeysOf
      <3>2. PICK i \in 0 .. n - 1 : r[i] = c[j]
        OBVIOUS
      <3> QED
        BY <3>1, <3>2 DEF KeysOf
    <2> QED
      BY <2>1, <2>2
  <1>2. ASSUME NEW i \in 0 .. n - 1 PROVE QuoteOf(c, n)[r[i].pub_] = r[i].latest_
    <2>1. PICK j \in 0 .. n - 1 : r[i] = c[j]
      OBVIOUS
    <2> QED
      BY <2>1, QuoteOfIs
  <1>3. QuoteOf(c, n) = [k \in DOMAIN QuoteOf(c, n) |-> QuoteOf(c, n)[k]]
        /\ DOMAIN QuoteOf(c, n) = KeysOf(r, n)
    BY <1>1 DEF QuoteOf
  <1>4. QuoteOf(r, n) = QuoteOf(c, n)
    <2> DEFINE f == QuoteOf(c, n)
    <2> HIDE DEF f
    <2> QED
      BY <1>2, <1>3, QuoteOfUnique DEF f
  <1> QED
    BY <1>1, <1>4

\* There are as many publishers as components.
LEMMA KeysCounted ==
    ASSUME NEW n \in Nat, NEW c, Distinct(c, n)
    PROVE  IsFiniteSet(KeysOf(c, n)) /\ Cardinality(KeysOf(c, n)) = n
  <1> DEFINE S == 0 .. n - 1
             T == KeysOf(c, n)
             f == [i \in S |-> c[i].pub_]
  <1>1. IsFiniteSet(S) /\ Cardinality(S) = n
    <2>1. 0 \in Int /\ n - 1 \in Int
      OBVIOUS
    <2>2. IsFiniteSet(S) /\ Cardinality(S) = IF 0 > n - 1 THEN 0 ELSE n - 1 - 0 + 1
      BY <2>1, FS_Interval
    <2> QED
      BY <2>2
  <1>2. f \in Bijection(S, T)
    <2>1. f \in [S -> T] /\ \A a, b \in S : f[a] = f[b] => a = b
      BY DEF KeysOf, Distinct
    <2>2. \A t \in T : \E a \in S : f[a] = t
      BY DEF KeysOf
    <2> HIDE DEF f, S, T
    <2>3. f \in Injection(S, T) /\ f \in Surjection(S, T)
      BY <2>1, <2>2 DEF Injection, Surjection, IsInjective
    <2> QED
      BY <2>3 DEF Bijection
  <1>3. ExistsBijection(S, T)
    BY <1>2 DEF ExistsBijection
  <1> HIDE DEF S, T
  <1>4. IsFiniteSet(T) /\ Cardinality(T) = Cardinality(S)
    BY <1>1, <1>3, FS_Bijection
  <1> QED
    BY <1>1, <1>4 DEF T

\* What the refinement of PublisherSet speaks of.
LEMMA ListedIs == Listed = KeysOf(comp_, num_)
  BY DEF Listed, KeysOf

\* add_publisher before it sorts: one more component.
LEMMA QuoteOfAdded ==
    ASSUME ListInv, num_ < Capacity, NEW k \in Keys, k \notin Listed
    PROVE  LET c == [comp_ EXCEPT ![num_] = [NoComp EXCEPT !.pub_ = k]]
               n == num_ + 1
           IN  /\ n \in 1 .. Capacity /\ c \in [0 .. Capacity - 1 -> Component]
               /\ Distinct(c, n) /\ \A i \in 0 .. n - 1 : c[i].pub_ \in Nat
               /\ \A i \in n .. Capacity - 1 : c[i] = NoComp
               /\ KeysOf(c, n) = KeysOf(comp_, num_) \union {k}
               /\ QuoteOf(c, n) = [j \in KeysOf(comp_, num_) \union {k} |->
                                      IF j = k THEN Empty ELSE QuoteOf(comp_, num_)[j]]
  <1> DEFINE new == [NoComp EXCEPT !.pub_ = k]
             c == [comp_ EXCEPT ![num_] = new]
             n == num_ + 1
             Q == QuoteOf(comp_, num_)
             f == [j \in KeysOf(comp_, num_) \union {k} |-> IF j = k THEN Empty ELSE Q[j]]
  <1>1. /\ num_ \in Nat /\ num_ \in 0 .. Capacity - 1 /\ n \in 1 .. Capacity /\ n \in Nat
        /\ 0 .. n - 1 = (0 .. num_ - 1) \union {num_}
    BY CapacityNat DEF ListInv
  <1>2. new.pub_ = k /\ new.latest_ = Empty /\ new \in Component
    BY DEF NoComp, Component, Empty
  <1> HIDE DEF new
  <1>3. c \in [0 .. Capacity - 1 -> Component] /\ c[num_] = new
    BY <1>1, <1>2 DEF ListInv
  <1>4. \A i \in 0 .. Capacity - 1 : i # num_ => c[i] = comp_[i]
    BY DEF ListInv
  <1> HIDE DEF c
  <1>5. \A i \in 0 .. num_ - 1 : i \in 0 .. Capacity - 1 /\ c[i] = comp_[i] /\ c[i].pub_ # k
    <2> TAKE i \in 0 .. num_ - 1
    <2>0. i \in 0 .. Capacity - 1 /\ i # num_
      BY <1>1, CapacityNat
    <2>1. i \in 0 .. Capacity - 1 /\ c[i] = comp_[i]
      BY <1>4, <2>0
    <2> QED
      BY <2>1, ListedIs DEF KeysOf
  <1>6. Distinct(c, n)
    <2> SUFFICES ASSUME NEW i \in 0 .. n - 1, NEW j \in 0 .. n - 1, c[i].pub_ = c[j].pub_
                 PROVE  i = j
      BY DEF Distinct
    <2>1. (i \in 0 .. num_ - 1 \/ i = num_) /\ (j \in 0 .. num_ - 1 \/ j = num_)
      BY <1>1
    <2> QED
      BY <1>2, <1>3, <1>5, <2>1 DEF Distinct, ListInv
  <1>7. \A i \in 0 .. n - 1 : c[i].pub_ \in Nat
    <2> TAKE i \in 0 .. n - 1
    <2>1. i \in 0 .. Capacity - 1
      BY <1>1, CapacityNat
    <2>2. c[i] \in Component
      BY <1>3, <2>1
    <2> QED
      BY <2>2, KeysAreNumbers
  <1>8. \A i \in n .. Capacity - 1 : c[i] = NoComp
    BY <1>1, <1>4 DEF ListInv
  <1>9. KeysOf(c, n) = KeysOf(comp_, num_) \union {k}
    <2>1. ASSUME NEW j \in KeysOf(c, n) PROVE j \in KeysOf(comp_, num_) \union {k}
      <3>1. PICK i \in 0 .. n - 1 : j = c[i].pub_
        BY DEF KeysOf
      <3>2. i \in 0 .. num_ - 1 \/ i = num_
        BY <1>1
      <3> QED
        BY <1>2, <1>3, <1>5, <3>1, <3>2 DEF KeysOf
    <2>2. ASSUME NEW j \in KeysOf(comp_, num_) PROVE j \in KeysOf(c, n)
      <3>1. PICK i \in 0 .. num_ - 1 : j = comp_[i].pub_
        BY DEF KeysOf
      <3> QED
        BY <1>1, <1>5, <3>1 DEF KeysOf
    <2>3. k \in KeysOf(c, n)
      BY <1>1, <1>2, <1>3 DEF KeysOf
    <2> QED
      BY <2>1, <2>2, <2>3
  <1>10. ASSUME NEW i \in 0 .. n - 1 PROVE f[c[i].pub_] = c[i].latest_
    <2>1. c[i].pub_ \in KeysOf(comp_, num_) \union {k}
      BY <1>9 DEF KeysOf
    <2>2. CASE i = num_
      BY <1>2, <1>3, <2>1, <2>2
    <2>3. CASE i # num_
      <3>1. i \in 0 .. num_ - 1
        BY <1>1, <2>3
      <3>2. c[i] = comp_[i] /\ c[i].pub_ # k
        BY <1>5, <3>1
      <3>3. Q[comp_[i].pub_] = comp_[i].latest_
        <4>1. Distinct(comp_, num_)
          BY DEF ListInv
        <4> QED
          BY <1>1, <3>1, <4>1, QuoteOfIs
      <3> HIDE DEF Q
      <3> QED
        BY <2>1, <3>2, <3>3
    <2> QED
      BY <2>2, <2>3
  <1>11. QuoteOf(c, n) = f
    <2>1. f = [j \in DOMAIN f |-> f[j]] /\ DOMAIN f = KeysOf(c, n)
      BY <1>9
    <2> HIDE DEF f
    <2> QED
      BY <1>1, <1>6, <1>10, <2>1, QuoteOfUnique
  <1> QED
    BY <1>1, <1>3, <1>6, <1>7, <1>8, <1>9, <1>11 DEF c, new

\* What an instruction on publisher k leaves, as the refinement sees it.
LEMMA AddedIs ==
    ASSUME ListInv, NEW k \in Keys, AddComponent(k)
    PROVE  /\ ListInv' /\ SortedList(num_', comp_')
           /\ Cardinality(KeysOf(comp_, num_)) < Capacity /\ k \notin KeysOf(comp_, num_)
           /\ QuoteOf(comp_', num_') = [j \in KeysOf(comp_, num_) \union {k} |->
                                           IF j = k THEN Empty ELSE QuoteOf(comp_, num_)[j]]
           /\ KeysOf(comp_', num_') = KeysOf(comp_, num_) \union {k}
  <1> DEFINE c == [comp_ EXCEPT ![num_] = [NoComp EXCEPT !.pub_ = k]]
             n == num_ + 1
             r == sort_price_comps(c, n)
  <1>1. num_ < Capacity /\ k \notin Listed /\ num_' = n /\ comp_' = r
    BY DEF AddComponent
  <1>2. /\ n \in 1 .. Capacity /\ c \in [0 .. Capacity - 1 -> Component]
        /\ Distinct(c, n) /\ \A i \in 0 .. n - 1 : c[i].pub_ \in Nat
        /\ \A i \in n .. Capacity - 1 : c[i] = NoComp
        /\ KeysOf(c, n) = KeysOf(comp_, num_) \union {k}
        /\ QuoteOf(c, n) = [j \in KeysOf(comp_, num_) \union {k} |->
                               IF j = k THEN Empty ELSE QuoteOf(comp_, num_)[j]]
    BY <1>1, QuoteOfAdded
  <1> HIDE DEF c, n
  <1>3. n \in Nat /\ n \in 0 .. Capacity
    BY <1>2, CapacityNat
  <1>4. /\ r \in [0 .. Capacity - 1 -> Component]
        /\ \A j \in n .. Capacity - 1 : r[j] = c[j]
        /\ \A i, j \in 0 .. n - 1 : i < j => r[i].pub_ < r[j].pub_
        /\ \A i \in 0 .. n - 1 : \E j \in 0 .. n - 1 : r[i] = c[j]
        /\ \A j \in 0 .. n - 1 : \E i \in 0 .. n - 1 : r[i] = c[j]
    <2> DEFINE D == Component
               M == Capacity
    <2>1. M \in Nat /\ n \in 1 .. M /\ c \in [0 .. M - 1 -> D]
      BY <1>2, CapacityNat
    <2>2. Distinct(c, n) /\ \A i \in 0 .. n - 1 : c[i].pub_ \in Nat
      BY <1>2
    <2> HIDE DEF D, M, r
    <2>3. SortedFrom(r, c, n, M, D)
      BY <2>1, <2>2, SortPriceCompsIs DEF r
    <2> QED
      BY <2>3 DEF D, M, SortedFrom
  <1> HIDE DEF r
  <1>5. Distinct(r, n)
    <2> SUFFICES ASSUME NEW i \in 0 .. n - 1, NEW j \in 0 .. n - 1, r[i].pub_ = r[j].pub_
                 PROVE  i = j
      BY DEF Distinct
    <2>1. r[i].pub_ \in Nat /\ r[j].pub_ \in Nat
      <3>1. PICK a \in 0 .. n - 1 : r[i] = c[a]
        BY <1>4
      <3>2. PICK b \in 0 .. n - 1 : r[j] = c[b]
        BY <1>4
      <3> QED
        BY <1>2, <3>1, <3>2
    <2>2. ~ (i < j) /\ ~ (j < i)
      <3>1. (i < j => r[i].pub_ < r[j].pub_) /\ (j < i => r[j].pub_ < r[i].pub_)
        BY <1>4
      <3> QED
        BY <2>1, <3>1
    <2> QED
      BY <1>3, <2>2
  <1>6. KeysOf(r, n) = KeysOf(c, n) /\ QuoteOf(r, n) = QuoteOf(c, n)
    BY <1>2, <1>3, <1>4, <1>5, QuoteOfShuffled
  <1>7. ListInv'
    BY <1>1, <1>2, <1>3, <1>4, <1>5 DEF ListInv, Distinct
  <1>8. SortedList(num_', comp_')
    BY <1>1, <1>4 DEF SortedList
  <1>9. Cardinality(KeysOf(comp_, num_)) < Capacity
    <2>1. num_ \in Nat /\ Distinct(comp_, num_)
      BY CapacityNat DEF ListInv
    <2>2. Cardinality(KeysOf(comp_, num_)) = num_
      BY <2>1, KeysCounted
    <2> QED
      BY <1>1, <2>2
  <1>10. k \notin KeysOf(comp_, num_)
    BY <1>1, ListedIs
  <1>11. KeysOf(comp_', num_') = KeysOf(r, n) /\ QuoteOf(comp_', num_') = QuoteOf(r, n)
    BY <1>1
  <1> QED
    BY <1>2, <1>6, <1>7, <1>8, <1>9, <1>10, <1>11

\* del_publisher takes out the publisher it names, and keeps the order.
LEMMA DeletedIs ==
    ASSUME ListInv, NEW k \in Keys, DelComponent(k)
    PROVE  /\ ListInv' /\ num_' < num_
           /\ SortedList(num_, comp_) => SortedList(num_', comp_')
           /\ k \in KeysOf(comp_, num_)
           /\ KeysOf(comp_', num_') = KeysOf(comp_, num_) \ {k}
           /\ QuoteOf(comp_', num_') = [j \in KeysOf(comp_, num_) \ {k} |-> QuoteOf(comp_, num_)[j]]
  <1> DEFINE a == LinearSearch(comp_, k, num_)
             n == num_ - 1
             r == [j \in DOMAIN comp_ |->
                      IF j \in a .. num_ - 2 THEN comp_[j + 1]
                      ELSE IF j = num_ - 1 THEN NoComp
                      ELSE comp_[j]]
             Q == QuoteOf(comp_, num_)
             f == [j \in KeysOf(comp_, num_) \ {k} |-> Q[j]]
  <1>1. k \in KeysOf(comp_, num_) /\ comp_' = r /\ num_' = n
    BY ListedIs DEF DelComponent
  <1>2. /\ num_ \in Nat /\ num_ \in 0 .. Capacity /\ Distinct(comp_, num_)
        /\ comp_ \in [0 .. Capacity - 1 -> Component]
        /\ \A i \in num_ .. Capacity - 1 : comp_[i] = NoComp
    BY CapacityNat DEF ListInv
  <1>3. a \in 0 .. num_ - 1 /\ comp_[a].pub_ = k
    <2>1. \E j \in 0 .. num_ - 1 : comp_[j].pub_ = k
      BY <1>1 DEF KeysOf
    <2>2. IF \E j \in 0 .. num_ - 1 : comp_[j].pub_ = k
          THEN a \in 0 .. num_ - 1 /\ comp_[a].pub_ = k
          ELSE a = Capacity
      <3>1. num_ \in Nat
        BY <1>2
      <3> HIDE DEF a
      <3> QED
        BY <3>1, LinearSearchIs, Zenon DEF a
    <2> HIDE DEF a
    <2> QED
      BY <2>1, <2>2
  <1> HIDE DEF a
  <1>4. n \in Nat /\ n \in 0 .. Capacity - 1 /\ n < num_
    BY <1>2, <1>3, CapacityNat
  <1>5. ASSUME NEW j \in 0 .. n - 1
        PROVE  /\ r[j] = comp_[IF j < a THEN j ELSE j + 1]
               /\ (IF j < a THEN j ELSE j + 1) \in 0 .. num_ - 1
               /\ (IF j < a THEN j ELSE j + 1) # a
    <2>1. j \in DOMAIN comp_
      <3>1. j \in 0 .. Capacity - 1
        BY <1>4, CapacityNat
      <3> QED
        BY <1>2, <3>1
    <2>2. j # num_ - 1 /\ (j \in a .. num_ - 2 <=> ~ (j < a))
      BY <1>2, <1>3, <1>4
    <2> QED
      BY <1>2, <1>3, <1>4, <2>1, <2>2
  <1>6. ASSUME NEW j \in n .. Capacity - 1 PROVE r[j] = NoComp
    <2>1. j \in DOMAIN comp_ /\ j \notin a .. num_ - 2
      BY <1>2, <1>3, <1>4
    <2>2. j = num_ - 1 \/ j \in num_ .. Capacity - 1
      BY <1>2, <1>4
    <2> QED
      BY <1>2, <2>1, <2>2
  <1>7. r \in [0 .. Capacity - 1 -> Component]
    <2>1. NoComp \in Component
      BY DEF NoComp, Component, Empty
    <2>2. ASSUME NEW j \in 0 .. Capacity - 1 PROVE r[j] \in Component
      <3>1. j \in 0 .. n - 1 \/ j \in n .. Capacity - 1
        BY <1>4
      <3>2. CASE j \in 0 .. n - 1
        <4> DEFINE b == IF j < a THEN j ELSE j + 1
        <4>1. r[j] = comp_[b] /\ b \in 0 .. num_ - 1
          BY <1>5, <3>2
        <4> HIDE DEF b, r
        <4>2. b \in 0 .. Capacity - 1
          BY <1>2, <4>1, CapacityNat
        <4> QED
          BY <1>2, <4>1, <4>2
      <3>3. CASE j \in n .. Capacity - 1
        BY <1>6, <2>1, <3>3
      <3> QED
        BY <3>1, <3>2, <3>3
    <2>3. r = [j \in 0 .. Capacity - 1 |-> r[j]]
      BY <1>2
    <2> HIDE DEF r
    <2> QED
      BY <2>2, <2>3
  <1> HIDE DEF r
  <1>8. Distinct(r, n)
    <2> SUFFICES ASSUME NEW i \in 0 .. n - 1, NEW j \in 0 .. n - 1, r[i].pub_ = r[j].pub_
                 PROVE  i = j
      BY DEF Distinct
    <2> DEFINE b == IF i < a THEN i ELSE i + 1
               d == IF j < a THEN j ELSE j + 1
    <2>1. r[i] = comp_[b] /\ b \in 0 .. num_ - 1 /\ r[j] = comp_[d] /\ d \in 0 .. num_ - 1
      BY <1>5
    <2>2. b = d
      <3> HIDE DEF b, d
      <3> QED
        BY <1>2, <2>1 DEF Distinct
    <2> QED
      BY <1>3, <2>2
  <1>9. ListInv'
    <2>1. num_' \in 0 .. Capacity
      <3> HIDE DEF n
      <3> QED
        BY <1>1, <1>4, CapacityNat
    <2> QED
      BY <1>1, <1>6, <1>7, <1>8, <2>1 DEF ListInv, Distinct
  <1>10. ASSUME SortedList(num_, comp_) PROVE SortedList(num_', comp_')
    <2> SUFFICES ASSUME NEW i \in 0 .. n - 1, NEW j \in 0 .. n - 1, i < j
                 PROVE  r[i].pub_ < r[j].pub_
      BY <1>1 DEF SortedList
    <2> DEFINE b == IF i < a THEN i ELSE i + 1
               d == IF j < a THEN j ELSE j + 1
    <2>1. r[i] = comp_[b] /\ b \in 0 .. num_ - 1 /\ r[j] = comp_[d] /\ d \in 0 .. num_ - 1
      BY <1>5
    <2>2. b < d
      BY <1>3
    <2> HIDE DEF b, d
    <2> QED
      BY <1>10, <2>1, <2>2 DEF SortedList
  <1>11. KeysOf(r, n) = KeysOf(comp_, num_) \ {k}
    <2>1. ASSUME NEW j \in KeysOf(r, n) PROVE j \in KeysOf(comp_, num_) \ {k}
      <3>1. PICK i \in 0 .. n - 1 : j = r[i].pub_
        BY DEF KeysOf
      <3> DEFINE b == IF i < a THEN i ELSE i + 1
      <3>2. r[i] = comp_[b] /\ b \in 0 .. num_ - 1 /\ b # a
        BY <1>5
      <3> HIDE DEF b
      <3>3. comp_[b].pub_ # k
        BY <1>2, <1>3, <3>2 DEF Distinct
      <3> QED
        BY <3>1, <3>2, <3>3 DEF KeysOf
    <2>2. ASSUME NEW j \in KeysOf(comp_, num_) \ {k} PROVE j \in KeysOf(r, n)
      <3>1. PICK i \in 0 .. num_ - 1 : j = comp_[i].pub_
        BY DEF KeysOf
      <3>2. i # a
        BY <1>3, <3>1
      <3> DEFINE b == IF i < a THEN i ELSE i - 1
      <3>3. b \in 0 .. n - 1 /\ (IF b < a THEN b ELSE b + 1) = i
        BY <1>2, <1>3, <3>2
      <3> HIDE DEF b
      <3>4. r[b] = comp_[i]
        BY <1>5, <3>3
      <3> QED
        BY <3>1, <3>3, <3>4 DEF KeysOf
    <2> QED
      BY <2>1, <2>2
  <1>12. ASSUME NEW i \in 0 .. n - 1 PROVE f[r[i].pub_] = r[i].latest_
    <2> DEFINE b == IF i < a THEN i ELSE i + 1
    <2>1. r[i] = comp_[b] /\ b \in 0 .. num_ - 1
      BY <1>5
    <2> HIDE DEF b
    <2>2. Q[comp_[b].pub_] = comp_[b].latest_
      BY <1>2, <2>1, QuoteOfIs
    <2>3. r[i].pub_ \in KeysOf(comp_, num_) \ {k}
      BY <1>11 DEF KeysOf
    <2> HIDE DEF Q
    <2> QED
      BY <2>1, <2>2, <2>3
  <1>13. QuoteOf(r, n) = f
    <2>1. f = [j \in DOMAIN f |-> f[j]] /\ DOMAIN f = KeysOf(r, n)
      BY <1>11
    <2> HIDE DEF f
    <2> QED
      BY <1>4, <1>8, <1>12, <2>1, QuoteOfUnique
  <1>14. KeysOf(comp_', num_') = KeysOf(r, n) /\ QuoteOf(comp_', num_') = QuoteOf(r, n)
    BY <1>1
  <1> QED
    BY <1>1, <1>4, <1>9, <1>10, <1>11, <1>13, <1>14

\* upd_price changes the quote of the publisher that sent it, and no other.
LEMMA WrittenIs ==
    ASSUME ListInv, NEW k \in Keys, NEW q \in Quotes, WriteComponent(k, q)
    PROVE  /\ ListInv' /\ num_' = num_
           /\ SortedList(num_, comp_) => SortedList(num_', comp_')
           /\ k \in KeysOf(comp_, num_)
           /\ KeysOf(comp_', num_') = KeysOf(comp_, num_)
           /\ QuoteOf(comp_', num_') = [QuoteOf(comp_, num_) EXCEPT ![k] = q]
  <1> DEFINE a == find_publisher_index(comp_, k, num_)
             r == [comp_ EXCEPT ![a].latest_ = q]
             Q == QuoteOf(comp_, num_)
             f == [Q EXCEPT ![k] = q]
  <1>1. a # Capacity /\ comp_' = r /\ num_' = num_
    BY DEF WriteComponent, NotFound
  <1>2. /\ num_ \in Nat /\ num_ \in 0 .. Capacity /\ Distinct(comp_, num_)
        /\ comp_ \in [0 .. Capacity - 1 -> Component]
        /\ \A i \in num_ .. Capacity - 1 : comp_[i] = NoComp
    BY CapacityNat DEF ListInv
  <1>3. a \in 0 .. num_ - 1 /\ comp_[a].pub_ = k
    BY <1>1, <1>2, FindIs
  <1> HIDE DEF a
  <1>4. a \in 0 .. Capacity - 1
    BY <1>2, <1>3, CapacityNat
  <1>5. /\ r \in [0 .. Capacity - 1 -> Component]
        /\ r[a].pub_ = k /\ r[a].latest_ = q
        /\ \A i \in 0 .. Capacity - 1 : i # a => r[i] = comp_[i]
    BY <1>2, <1>3, <1>4 DEF Component
  <1> HIDE DEF r
  <1>6. \A i \in 0 .. num_ - 1 : r[i].pub_ = comp_[i].pub_
    BY <1>2, <1>3, <1>5, CapacityNat
  <1>7. Distinct(r, num_)
    BY <1>2, <1>6 DEF Distinct
  <1>8. \A i \in num_ .. Capacity - 1 : r[i] = NoComp
    BY <1>2, <1>3, <1>5
  <1>9. ListInv'
    BY <1>1, <1>2, <1>5, <1>7, <1>8 DEF ListInv, Distinct
  <1>10. SortedList(num_, comp_) => SortedList(num_', comp_')
    BY <1>1, <1>6 DEF SortedList
  <1>11. KeysOf(r, num_) = KeysOf(comp_, num_) /\ k \in KeysOf(comp_, num_)
    BY <1>3, <1>6 DEF KeysOf
  <1>12. ASSUME NEW i \in 0 .. num_ - 1 PROVE f[r[i].pub_] = r[i].latest_
    <2>1. r[i].pub_ \in KeysOf(comp_, num_) /\ DOMAIN Q = KeysOf(comp_, num_)
      BY <1>6 DEF KeysOf, QuoteOf
    <2>2. Q[comp_[i].pub_] = comp_[i].latest_
      BY <1>2, QuoteOfIs
    <2> HIDE DEF Q
    <2>3. CASE i = a
      BY <1>5, <2>1, <2>3
    <2>4. CASE i # a
      <3>1. i \in 0 .. Capacity - 1 /\ r[i] = comp_[i]
        BY <1>2, <1>5, <2>4, CapacityNat
      <3>2. comp_[i].pub_ # k
        BY <1>2, <1>3, <2>4 DEF Distinct
      <3> QED
        BY <2>1, <2>2, <3>1, <3>2
    <2> QED
      BY <2>3, <2>4
  <1>13. QuoteOf(r, num_) = f
    <2>1. f = [j \in DOMAIN f |-> f[j]] /\ DOMAIN f = KeysOf(r, num_)
      BY <1>11 DEF QuoteOf
    <2> HIDE DEF f
    <2> QED
      BY <1>2, <1>7, <1>12, <2>1, QuoteOfUnique
  <1>14. KeysOf(comp_', num_') = KeysOf(r, num_) /\ QuoteOf(comp_', num_') = QuoteOf(r, num_)
    BY <1>1
  <1> QED
    BY <1>1, <1>9, <1>10, <1>11, <1>13, <1>14

-----------------------------------------------------------------------------
(* The theorems on the array *)

\* An account from before the sorting lists its publishers once.
LEMMA ListInvInit == ListInit => ListInv
  <1> SUFFICES ASSUME ListInit PROVE ListInv
    OBVIOUS
  <1>1. PICK n \in 0 .. MaxLegacy :
            \E keys \in [0 .. n - 1 -> Keys] :
               /\ \A i, j \in 0 .. n - 1 : i # j => keys[i] # keys[j]
               /\ num_ = n
               /\ comp_ = [i \in 0 .. Capacity - 1 |->
                              IF i < n THEN [NoComp EXCEPT !.pub_ = keys[i]] ELSE NoComp]
    BY DEF ListInit
  <1>2. PICK keys \in [0 .. n - 1 -> Keys] :
               /\ \A i, j \in 0 .. n - 1 : i # j => keys[i] # keys[j]
               /\ num_ = n
               /\ comp_ = [i \in 0 .. Capacity - 1 |->
                              IF i < n THEN [NoComp EXCEPT !.pub_ = keys[i]] ELSE NoComp]
    BY <1>1
  <1>3. num_ \in 0 .. Capacity /\ n \in 0 .. Capacity /\ n \in Nat
    BY <1>2, ListAssumption
  <1>4. NoComp \in Component /\ NoComp.latest_ = Empty
    BY DEF NoComp, Component, Empty
  <1>5. ASSUME NEW i \in 0 .. Capacity - 1
        PROVE  /\ comp_[i] \in Component
               /\ i < n => comp_[i].pub_ = keys[i]
               /\ ~ (i < n) => comp_[i] = NoComp
    <2>1. CASE i < n
      <3>1. i \in 0 .. n - 1
        BY <1>3, <2>1, CapacityNat
      <3>2. keys[i] \in Keys
        BY <3>1
      <3>3. comp_[i] = [NoComp EXCEPT !.pub_ = keys[i]]
        BY <1>2, <2>1
      <3> QED
        BY <2>1, <3>2, <3>3 DEF NoComp, Component, Empty
    <2>2. CASE ~ (i < n)
      BY <1>2, <1>4, <2>2
    <2> QED
      BY <2>1, <2>2
  <1>6. comp_ \in [0 .. Capacity - 1 -> Component]
    BY <1>2, <1>5
  <1>7. Distinct(comp_, num_)
    <2> SUFFICES ASSUME NEW i \in 0 .. n - 1, NEW j \in 0 .. n - 1, comp_[i].pub_ = comp_[j].pub_
                 PROVE  i = j
      BY <1>2 DEF Distinct
    <2>1. i \in 0 .. Capacity - 1 /\ j \in 0 .. Capacity - 1 /\ i < n /\ j < n
      BY <1>3, CapacityNat
    <2>2. comp_[i].pub_ = keys[i] /\ comp_[j].pub_ = keys[j]
      BY <1>5, <2>1
    <2> QED
      BY <1>2, <2>2
  <1>8. \A i \in num_ .. Capacity - 1 : comp_[i] = NoComp
    <2> TAKE i \in num_ .. Capacity - 1
    <2>1. i \in 0 .. Capacity - 1 /\ ~ (i < n)
      BY <1>2, <1>3, CapacityNat
    <2> QED
      BY <1>5, <2>1
  <1> QED
    BY <1>3, <1>6, <1>7, <1>8 DEF ListInv

\* No instruction lists a publisher twice.
LEMMA ListInvKept == ListInv /\ [ListNext]_listVars => ListInv'
  <1> SUFFICES ASSUME ListInv, [ListNext]_listVars PROVE ListInv'
    OBVIOUS
  <1>1. ASSUME NEW k \in Keys, AddComponent(k) PROVE ListInv'
    BY <1>1, AddedIs
  <1>2. ASSUME NEW k \in Keys, DelComponent(k) PROVE ListInv'
    BY <1>2, DeletedIs
  <1>3. ASSUME NEW k \in Keys, NEW q \in Quotes, WriteComponent(k, q) PROVE ListInv'
    BY <1>3, WrittenIs
  <1>4. CASE UNCHANGED listVars
    BY <1>4 DEF listVars, ListInv, Distinct
  <1> QED
    BY <1>1, <1>2, <1>3, <1>4 DEF ListNext

\* add_publisher, del_publisher and upd_price keep every publisher in one
\* component and every place behind the list zeroed.
THEOREM ComponentsKept == ListSpec => []ListInv
  <1> QED
    BY ListInvInit, ListInvKept, PTL DEF ListSpec

\* With one component for each publisher, the search is exact.
LEMMA SearchFrom == ListInv => OneComponentEach /\ FindsExactly
  <1> SUFFICES ASSUME ListInv PROVE OneComponentEach /\ FindsExactly
    OBVIOUS
  <1>1. num_ \in Nat /\ num_ \in 0 .. Capacity /\ Distinct(comp_, num_)
    BY CapacityNat DEF ListInv
  <1>2. OneComponentEach
    <2>1. Cardinality(KeysOf(comp_, num_)) = num_
      BY <1>1, KeysCounted
    <2>2. Cardinality(Listed) = num_
      BY <2>1, ListedIs
    <2> QED
      BY <2>2 DEF ListInv, OneComponentEach
  <1>3. ASSUME NEW k \in Keys
        PROVE  LET i == find_publisher_index(comp_, k, num_) IN
               IF k \in Listed THEN i < num_ /\ comp_[i].pub_ = k ELSE i = NotFound
    <2> DEFINE i == find_publisher_index(comp_, k, num_)
    <2>1. IF \E j \in 0 .. num_ - 1 : comp_[j].pub_ = k
          THEN i \in 0 .. num_ - 1 /\ comp_[i].pub_ = k
          ELSE i = Capacity
      <3> HIDE DEF i
      <3> QED
        BY <1>1, FindIs, Zenon DEF i
    <2>2. k \in Listed <=> \E j \in 0 .. num_ - 1 : comp_[j].pub_ = k
      BY DEF Listed
    <2> HIDE DEF i
    <2>3. IF k \in Listed THEN i < num_ /\ comp_[i].pub_ = k ELSE i = NotFound
      BY <1>1, <2>1, <2>2 DEF NotFound
    <2> QED
      BY <2>3 DEF i
  <1>4. FindsExactly
    BY <1>3 DEF FindsExactly
  <1> QED
    BY <1>2, <1>4

\* find_publisher_index finds every listed publisher and nobody else, sorted
\* or not, and no publisher has two components.
THEOREM SearchExact == ListSpec => [](OneComponentEach /\ FindsExactly)
  <1> QED
    BY ComponentsKept, SearchFrom, PTL

\* In a sorted list the binary search alone finds every publisher: the linear
\* search of find_publisher_index is for the lists from before the sorting,
\* and for publishers that are not listed.
BinarySuffices ==
    SortedList(num_, comp_) =>
        \A p \in 0 .. num_ - 1 : BinarySearch(comp_, comp_[p].pub_, num_) = p

\* find_publisher_index needs no linear search for a publisher of a sorted
\* list, whatever its length.
THEOREM BinarySearchSuffices == ListSpec => []BinarySuffices
  <1>1. ListInv => BinarySuffices
    <2> SUFFICES ASSUME ListInv, SortedList(num_, comp_), NEW p \in 0 .. num_ - 1
                 PROVE  BinarySearch(comp_, comp_[p].pub_, num_) = p
      BY DEF BinarySuffices
    <2>1. num_ \in 0 .. Capacity /\ comp_ \in [0 .. Capacity - 1 -> Component]
      BY DEF ListInv
    <2>2. \A i \in 0 .. num_ - 1 : comp_[i].pub_ \in Nat
      <3> TAKE i \in 0 .. num_ - 1
      <3>1. i \in 0 .. Capacity - 1
        BY <2>1, CapacityNat
      <3>2. comp_[i] \in Component
        BY <2>1, <3>1
      <3> QED
        BY <3>2, KeysAreNumbers
    <2> QED
      BY <2>1, <2>2, BinarySearchFinds
  <1> QED
    BY <1>1, ComponentsKept, PTL

\* The refinement mapping is QuoteOf, before and after a step.
Mapped == [k \in Listed |-> comp_[LinearSearch(comp_, k, num_)].latest_]

\* QuoteOf is what the refinement maps the array to,
LEMMA MappedIs == Mapped = QuoteOf(comp_, num_) /\ DOMAIN Mapped = KeysOf(comp_, num_)
  BY ListedIs DEF Mapped, QuoteOf

\* and what it maps the next array to.
LEMMA MappedNext == Mapped' = QuoteOf(comp_', num_')
  <1>1. (Mapped = QuoteOf(comp_, num_))'
    BY MappedIs, PTL
  <1> QED
    BY <1>1

\* The instance counts as this module does.
LEMMA SameCount == \A S : Set!Cardinality(S) = Cardinality(S)
  BY DEF Set!Cardinality, Cardinality

\* A list of distinct publishers is a set of at most Capacity of them.
LEMMA SetInit == ListInit => Set!Init
  <1> SUFFICES ASSUME ListInit PROVE Set!Init
    OBVIOUS
  <1> DEFINE K == KeysOf(comp_, num_)
  <1>1. ListInv /\ done = <<>>
    BY ListInvInit DEF ListInit
  <1>2. num_ \in Nat /\ num_ <= Capacity /\ Distinct(comp_, num_)
        /\ comp_ \in [0 .. Capacity - 1 -> Component]
    BY <1>1, CapacityNat DEF ListInv
  <1>3. \A i \in 0 .. Capacity - 1 : comp_[i].latest_ = Empty
    BY DEF ListInit, NoComp
  <1>4. Cardinality(K) <= Capacity
    BY <1>2, KeysCounted
  <1>5. \A i \in 0 .. num_ - 1 : comp_[i].latest_ = Empty /\ comp_[i].pub_ \in Keys
    <2> TAKE i \in 0 .. num_ - 1
    <2>1. i \in 0 .. Capacity - 1 /\ i < num_
      BY <1>2, CapacityNat
    <2>2. PICK keys \in [0 .. num_ - 1 -> Keys] :
             comp_ = [j \in 0 .. Capacity - 1 |->
                         IF j < num_ THEN [NoComp EXCEPT !.pub_ = keys[j]] ELSE NoComp]
      BY DEF ListInit
    <2>3. comp_[i].pub_ = keys[i]
      BY <2>1, <2>2 DEF NoComp
    <2> QED
      BY <1>3, <2>1, <2>3
  <1>6. K \in SUBSET Keys
    BY <1>5 DEF KeysOf
  <1>7. QuoteOf(comp_, num_) = [k \in K |-> Empty]
    <2> DEFINE f == [k \in K |-> Empty]
    <2>1. \A i \in 0 .. num_ - 1 : f[comp_[i].pub_] = comp_[i].latest_
      BY <1>5 DEF KeysOf
    <2>2. f = [k \in DOMAIN f |-> f[k]] /\ DOMAIN f = K
      OBVIOUS
    <2> HIDE DEF f
    <2>3. QuoteOf(comp_, num_) = f
      BY <1>2, <2>1, <2>2, QuoteOfUnique
    <2> QED
      BY <2>3 DEF f
  <1>8. Set!Cardinality(K) <= Capacity
    BY <1>4, SameCount
  <1>9. Mapped = [k \in K |-> Empty]
    BY <1>7, MappedIs
  <1> HIDE DEF K
  <1>10. \E S \in SUBSET Keys : Set!Cardinality(S) <= Capacity /\ Mapped = [k \in S |-> Empty]
    BY <1>6, <1>8, <1>9
  <1> QED
    BY <1>1, <1>10 DEF Set!Init, Mapped

\* What the instructions do to the mapped set: add_publisher authorises,
LEMMA SetAuthorise ==
    ASSUME ListInv, NEW k \in Keys, AddComponent(k)
    PROVE  Set!Authorise(k)
  <1>1. /\ k \notin DOMAIN Mapped
        /\ Set!Cardinality(DOMAIN Mapped) < Capacity
    <2>1. k \notin KeysOf(comp_, num_) /\ Cardinality(KeysOf(comp_, num_)) < Capacity
      BY AddedIs
    <2> QED
      BY <2>1, MappedIs, SameCount
  <1>2. Mapped' = [j \in DOMAIN Mapped \union {k} |-> IF j = k THEN Empty ELSE Mapped[j]]
    <2>1. QuoteOf(comp_', num_') = [j \in KeysOf(comp_, num_) \union {k} |->
                                       IF j = k THEN Empty ELSE QuoteOf(comp_, num_)[j]]
      BY AddedIs
    <2> QED
      BY <2>1, MappedIs, MappedNext, Zenon
  <1>3. done' = <<"add_publisher", k>>
    BY DEF AddComponent
  <1> QED
    BY <1>1, <1>2, <1>3 DEF Set!Authorise, Mapped

\* del_publisher revokes,
LEMMA SetRevoke ==
    ASSUME ListInv, NEW k \in Keys, DelComponent(k)
    PROVE  Set!Revoke(k)
  <1>1. k \in DOMAIN Mapped
    BY DeletedIs, MappedIs
  <1>2. Mapped' = [j \in DOMAIN Mapped \ {k} |-> Mapped[j]]
    <2>1. QuoteOf(comp_', num_') = [j \in KeysOf(comp_, num_) \ {k} |-> QuoteOf(comp_, num_)[j]]
      BY DeletedIs
    <2> QED
      BY <2>1, MappedIs, MappedNext, Zenon
  <1>3. done' = <<"del_publisher", k>>
    BY DEF DelComponent
  <1> QED
    BY <1>1, <1>2, <1>3 DEF Set!Revoke, Mapped

\* upd_price quotes,
LEMMA SetQuote ==
    ASSUME ListInv, NEW k \in Keys, NEW q \in Quotes, WriteComponent(k, q)
    PROVE  Set!Quote(k, q)
  <1>1. k \in DOMAIN Mapped
    BY WrittenIs, MappedIs
  <1>2. Mapped' = [Mapped EXCEPT ![k] = q]
    <2>1. QuoteOf(comp_', num_') = [QuoteOf(comp_, num_) EXCEPT ![k] = q]
      BY WrittenIs
    <2> QED
      BY <2>1, MappedIs, MappedNext, Zenon
  <1>3. done' = <<"upd_price", k>>
    BY DEF WriteComponent
  <1> QED
    BY <1>1, <1>2, <1>3 DEF Set!Quote, Mapped

\* so every step is a step of PublisherSet, or none.
LEMMA SetNext == ListInv /\ [ListNext]_listVars => [Set!Next]_<<Mapped, done>>
  <1> SUFFICES ASSUME ListInv, [ListNext]_listVars PROVE [Set!Next]_<<Mapped, done>>
    OBVIOUS
  <1>1. ASSUME NEW k \in Keys, AddComponent(k) PROVE Set!Next
    BY <1>1, SetAuthorise DEF Set!Next
  <1>2. ASSUME NEW k \in Keys, DelComponent(k) PROVE Set!Next
    BY <1>2, SetRevoke DEF Set!Next
  <1>3. ASSUME NEW k \in Keys, NEW q \in Quotes, WriteComponent(k, q) PROVE Set!Next
    BY <1>3, SetQuote DEF Set!Next
  <1>4. CASE UNCHANGED listVars
    <2>1. UNCHANGED <<Mapped, done>>
      BY <1>4, MappedIs, MappedNext DEF listVars
    <2> QED
      BY <2>1
  <1> QED
    BY <1>1, <1>2, <1>3, <1>4 DEF ListNext

\* add_publisher sorts, and the others keep the order.
LEMMA SortedStep ==
    ListInv /\ [ListNext]_listVars
    => [(num_' > num_ \/ SortedList(num_, comp_)) => SortedList(num_', comp_')]_listVars
  <1> SUFFICES ASSUME ListInv, ListNext, num_' > num_ \/ SortedList(num_, comp_)
               PROVE  SortedList(num_', comp_')
    OBVIOUS
  <1>0. num_ \in Nat
    BY CapacityNat DEF ListInv
  <1>1. ASSUME NEW k \in Keys, AddComponent(k) PROVE SortedList(num_', comp_')
    BY <1>1, AddedIs
  <1>2. ASSUME NEW k \in Keys, DelComponent(k) PROVE SortedList(num_', comp_')
    <2>1. num_' < num_ /\ (SortedList(num_, comp_) => SortedList(num_', comp_'))
      BY <1>2, DeletedIs
    <2>2. num_' \in Int
      BY <1>0, <1>2 DEF DelComponent
    <2> QED
      BY <1>0, <2>1, <2>2
  <1>3. ASSUME NEW k \in Keys, NEW q \in Quotes, WriteComponent(k, q)
        PROVE  SortedList(num_', comp_')
    <2>1. num_' = num_ /\ (SortedList(num_, comp_) => SortedList(num_', comp_'))
      BY <1>3, WrittenIs
    <2> QED
      BY <1>0, <2>1
  <1> QED
    BY <1>1, <1>2, <1>3 DEF ListNext

\* The sorted component array, with its heap sort, its placement along the
\* swaps and its two searches, implements a set of publishers with a quote
\* each, and stays sorted once add_publisher has sorted it.
THEOREM ArrayImplementsSet == ListSpec => ListImplementsSet
  <1>1. ListSpec => Set!Spec
    <2>1. Set!Init /\ [][Set!Next]_<<Mapped, done>> => Set!Spec
      BY DEF Set!Spec, Mapped
    <2> QED
      BY <2>1, ComponentsKept, SetInit, SetNext, PTL DEF ListSpec
  <1>2. ListSpec => StaysSorted
    BY ComponentsKept, SortedStep, PTL DEF ListSpec, StaysSorted
  <1> QED
    BY <1>1, <1>2 DEF ListImplementsSet, ImplementsSet
=============================================================================
