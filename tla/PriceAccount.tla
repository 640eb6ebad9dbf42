---------------------------- MODULE PriceAccount ----------------------------
(***************************************************************************)
(* One price account of the oracle program: the publishers' quotes, the    *)
(* aggregate computed from them, and the messages that carry the aggregate *)
(* out of the program.                                                     *)
(*                                                                         *)
(* Every instruction of the program that touches a price account is one    *)
(* atomic action: the runtime runs a transaction with exclusive access to  *)
(* its writable accounts and discards its writes when it fails, so an      *)
(* instruction that returns an error is no step at all -- except for       *)
(* upd_price_no_fail_on_error, which returns Ok and so keeps whatever was  *)
(* written before the error.  What interleaves is the order in which the   *)
(* publishers' transactions, the administrators' instructions, the         *)
(* validator's own aggregation and the passing of slots happen.            *)
(*                                                                         *)
(* The aggregate is refreshed either by the program itself, inside         *)
(* upd_price (accumulator v1, flag ACCUMULATOR_V2 unset), or by the        *)
(* validator (v2).  The account can be moved between the two regimes.      *)
(*                                                                         *)
(* The component array comp_[0 .. num_-1] is modelled as the set pubs of   *)
(* authorised publishers and a function from publishers to components,     *)
(* zero outside pubs: module PublisherList shows that the array with its   *)
(* sort and its two searches implements exactly this set.                  *)
(***************************************************************************)
EXTENDS MachineInt, FiniteSets

CONSTANTS
    Publishers,          \* the publisher keys
    QuoteArgs,           \* the (price, confidence, status) a publisher may submit
    AggregateModel(_),   \* price and confidence of the valid quotes (module PriceModel)
    MAX_CI_DIVISOR,      \* 3 in the code
    PC_MAX_SEND_LATENCY, \* 25 in the code
    PC_NUM_COMP,         \* most publishers of a price account: 64 in the code
    InitMinPub,          \* min_pub_ of the account at the start
    InitPubs,            \* publishers of the account at the start
    InitFlags,           \* regimes the account may start in
    MinPubs,             \* arguments of set_min_pub
    Latencies,           \* arguments of set_max_latency
    StartSlot,           \* slot of the first step
    MaxSlot,             \* bound: last slot explored
    MaxAdmin             \* bound: number of administrative instructions

Status == {"UNKNOWN", "TRADING", "HALTED", "AUCTION", "IGNORED"}

Flag == {"ACCUMULATOR_V2", "MESSAGE_BUFFER_CLEARED"}

\* price - conf and price + conf do not overflow.
Fits(q) ==
    /\ 0 < q.conf_
    /\ I64_MIN + q.conf_ <= q.price_
    /\ q.price_ <= I64_MAX - q.conf_

QuotePrices == {arg.price : arg \in QuoteArgs} \union {0}

QuoteConfs == {arg.conf : arg \in QuoteArgs} \union {0}

ASSUME ConstantsAssumption ==
    /\ IsFiniteSet(Publishers)
    /\ \A arg \in QuoteArgs :
           arg.price \in Int64 /\ arg.conf \in Nat /\ arg.status \in Status
    /\ MAX_CI_DIVISOR \in Nat \ {0}
    /\ PC_MAX_SEND_LATENCY \in Nat /\ PC_NUM_COMP \in Nat
    /\ InitMinPub \in Nat /\ InitPubs \subseteq Publishers
    /\ InitFlags \subseteq {{}, Flag}
    /\ MinPubs \subseteq Nat /\ Latencies \subseteq Nat
    /\ StartSlot \in Nat /\ MaxSlot \in Nat /\ MaxAdmin \in Nat

\* The pricing model returns 64-bit integers for any quotes that fit.
ASSUME PriceModelAssumption ==
    \A P \in (SUBSET Publishers) \ {{}} :
        \A q \in [P -> {x \in [price_: QuotePrices, conf_: QuoteConfs] : Fits(x)}] :
            AggregateModel(q) \in [price: Int64, conf: Int64]

VARIABLES
    slot,      \* the Clock sysvar: current slot ...
    now,       \* ... and its unix_timestamp
    acc,       \* the price account
    buffer,    \* what the message buffer program stores for this account (v1)
    tree,      \* the last messages the validator put in its merkle tree (v2)
    admin      \* number of administrative instructions so far

vars == <<slot, now, acc, buffer, tree, admin>>

NoMessage == [kind |-> "none"]

-----------------------------------------------------------------------------
(* The account's layout.  twap_ stands for both EMAs: of all they hold, the *)
(* number of slots their decay has accounted for.  sum_slotgap is history:  *)
(* the sum(slotgap) of the no-overflow argument above PriceCumulative.      *)

PriceInfo(prices, confs) ==
    [price_: prices, conf_: confs, status_: Status, pub_slot_: Nat]

NoPrice == [price_ |-> 0, conf_ |-> 0, status_ |-> "UNKNOWN", pub_slot_ |-> 0]

PriceComponent == [agg_: PriceInfo(QuotePrices, QuoteConfs),
                   latest_: PriceInfo(QuotePrices, QuoteConfs)]

NoComponent == [agg_ |-> NoPrice, latest_ |-> NoPrice]

PriceCumulative ==
    [price: Int, conf: Nat, num_down_slots: Nat, sum_slotgap: Nat]

Account ==
    [pubs: SUBSET Publishers, comp_: [Publishers -> PriceComponent],
     agg_: PriceInfo(Int64, Nat), num_qt_: Nat, last_slot_: Nat, valid_slot_: Nat,
     timestamp_: Nat, prev_slot_: Nat, prev_price_: Int64, prev_conf_: Nat,
     prev_timestamp_: Nat, twap_: Int, price_cumulative: PriceCumulative,
     min_pub_: Nat, max_latency_: Nat, message_sent_: {0, 1},
     flags: SUBSET Flag]

\* A zeroed account as add_price leaves it, with its first publishers added.
FreshAccount(flags) ==
    [pubs |-> InitPubs, comp_ |-> [p \in Publishers |-> NoComponent],
     agg_ |-> NoPrice, num_qt_ |-> 0, last_slot_ |-> 0, valid_slot_ |-> 0,
     timestamp_ |-> 0, prev_slot_ |-> 0, prev_price_ |-> 0, prev_conf_ |-> 0,
     prev_timestamp_ |-> 0, twap_ |-> 0,
     price_cumulative |-> [price |-> 0, conf |-> 0, num_down_slots |-> 0,
                           sum_slotgap |-> 0],
     min_pub_ |-> InitMinPub, max_latency_ |-> 0, message_sent_ |-> 0,
     flags |-> flags]

-----------------------------------------------------------------------------
(* Aggregation *)

MaxLatency(a) == IF a.max_latency_ = 0 THEN PC_MAX_SEND_LATENCY ELSE a.max_latency_

\* A quote counts when it is trading, has a confidence that fits its price
\* without overflow, and is recent enough.
ValidQuote(a, q, s) ==
    /\ q.status_ = "TRADING"
    /\ Fits(q)
    /\ s - q.pub_slot_ <= MaxLatency(a)

\* Mutant: a failed aggregate becomes the previous price too.
OpenAggregateAlways(a, s, t) ==
    [a EXCEPT
        !.prev_slot_ = a.agg_.pub_slot_, !.prev_price_ = a.agg_.price_,
        !.prev_conf_ = a.agg_.conf_, !.prev_timestamp_ = a.timestamp_,
        !.valid_slot_ = a.agg_.pub_slot_, !.agg_ = [a.agg_ EXCEPT !.pub_slot_ = s],
        !.timestamp_ = t]

\* The prologue of upd_aggregate: a trading aggregate becomes the previous
\* price, the slot and the time are stamped, every latest quote is snapshot.
OpenAggregate(a, s, t) ==
    LET wasTrading == a.agg_.status_ = "TRADING" IN
    [a EXCEPT
        !.prev_slot_ = IF wasTrading THEN a.agg_.pub_slot_ ELSE @,
        !.prev_price_ = IF wasTrading THEN a.agg_.price_ ELSE @,
        !.prev_conf_ = IF wasTrading THEN a.agg_.conf_ ELSE @,
        !.prev_timestamp_ = IF wasTrading THEN a.timestamp_ ELSE @,
        !.valid_slot_ = a.agg_.pub_slot_,
        !.agg_ = [a.agg_ EXCEPT !.pub_slot_ = s],
        !.timestamp_ = t,
        !.comp_ = [p \in Publishers |->
            IF p \in a.pubs THEN [agg_ |-> a.comp_[p].latest_, latest_ |-> a.comp_[p].latest_]
                            ELSE a.comp_[p]]]

ValidPublishers(a, s) == {p \in a.pubs : ValidQuote(a, a.comp_[p].latest_, s)}

AggregateOf(a, s) ==
    AggregateModel([p \in ValidPublishers(a, s) |->
        [price_ |-> a.comp_[p].latest_.price_, conf_ |-> a.comp_[p].latest_.conf_]])

\* upd_aggregate returns true.
Aggregates(a, s) ==
    /\ ValidPublishers(a, s) # {}
    /\ Cardinality(ValidPublishers(a, s)) >= a.min_pub_
    /\ AggregateOf(a, s).conf > 0

upd_aggregate(a, s, t) ==
    LET o == [OpenAggregate(a, s, t) EXCEPT !.num_qt_ = Cardinality(ValidPublishers(a, s))]
        m == AggregateOf(a, s)
    IN  IF Aggregates(a, s)
        THEN [o EXCEPT !.agg_ = [price_ |-> m.price, conf_ |-> m.conf,
                                 status_ |-> "TRADING", pub_slot_ |-> s],
                       !.last_slot_ = s]
        ELSE [o EXCEPT !.agg_ = [@ EXCEPT !.status_ = "UNKNOWN"]]

\* c_upd_twap with nslots = agg_diff.
upd_twap(a, nslots) == [a EXCEPT !.twap_ = @ + nslots]

\* Mutant: the latency is added instead of subtracted.
CumulativeUpdateAdds(c, price, conf, slot_gap, latency) ==
    [price |-> c.price + price * slot_gap,
     conf |-> c.conf + conf * slot_gap,
     num_down_slots |-> c.num_down_slots + slot_gap + latency,
     sum_slotgap |-> c.sum_slotgap + slot_gap]

\* PriceCumulative::update
CumulativeUpdate(c, price, conf, slot_gap, latency) ==
    [price |-> c.price + price * slot_gap,
     conf |-> c.conf + conf * slot_gap,
     num_down_slots |-> c.num_down_slots + SaturatingSub(slot_gap, latency),
     sum_slotgap |-> c.sum_slotgap + slot_gap]

\* Mutant: the gap is counted from the last attempt, not the last success.
update_price_cumulative_valid_slot(a) ==
    [a EXCEPT !.price_cumulative =
        CumulativeUpdate(@, a.agg_.price_, a.agg_.conf_,
                         SaturatingSub(a.agg_.pub_slot_, a.valid_slot_), MaxLatency(a))]

update_price_cumulative(a) ==
    IF a.agg_.status_ = "TRADING"
    THEN [a EXCEPT !.price_cumulative =
             CumulativeUpdate(@, a.agg_.price_, a.agg_.conf_,
                              SaturatingSub(a.agg_.pub_slot_, a.prev_slot_),
                              MaxLatency(a))]
    ELSE a

\* Mutant: message_sent_ is not cleared when the aggregate changes.
update_aggregate_keeps_sent(a, s, t) ==
    LET b == upd_aggregate(a, s, t) IN
    IF Aggregates(a, s) THEN update_price_cumulative(upd_twap(b, s - b.prev_slot_)) ELSE b

\* The refresh both regimes perform: the aggregate and, when it succeeded,
\* the EMAs, the cumulative sums and the mark that a message is owed.
update_aggregate(a, s, t) ==
    LET b == upd_aggregate(a, s, t)
        c == upd_twap(b, s - b.prev_slot_)
    IN  IF Aggregates(a, s)
        THEN update_price_cumulative([c EXCEPT !.message_sent_ = 0])
        ELSE b

-----------------------------------------------------------------------------
(* Messages *)

\* Mutant: the time of the last attempt, whatever came of it.
PublishTimeOfAttempt(a) == a.timestamp_

\* The price feed message and the TWAP message, which travel together.
PublishTime(a) == IF a.agg_.status_ = "TRADING" THEN a.timestamp_ ELSE a.prev_timestamp_

Message(a) ==
    [kind |-> "price",
     price |-> IF a.agg_.status_ = "TRADING" THEN a.agg_.price_ ELSE a.prev_price_,
     conf |-> IF a.agg_.status_ = "TRADING" THEN a.agg_.conf_ ELSE a.prev_conf_,
     publish_time |-> PublishTime(a),
     prev_publish_time |-> a.prev_timestamp_,
     cumulative |-> a.price_cumulative,
     publish_slot |-> a.last_slot_]

-----------------------------------------------------------------------------
(* upd_price, upd_price_no_fail_on_error, agg_price.                        *)
(* bufferAccounts says which optional accounts come with the instruction:   *)
(* "none", "ok", or "bad_pda" when account[5] is not the program's PDA.     *)

BufferAccounts == {"none", "ok", "bad_pda"}

V2(a) == "ACCUMULATOR_V2" \in a.flags

\* Mutant: the publishing slot is not compared with the clock.
MayPublishAhead(a, p, publishing_slot) ==
    p \in a.pubs /\ publishing_slot > a.comp_[p].latest_.pub_slot_

MayPublish(a, p, publishing_slot) ==
    /\ p \in a.pubs
    /\ publishing_slot > a.comp_[p].latest_.pub_slot_
    /\ publishing_slot <= slot

\* In v1 the first instruction of a slot refreshes the aggregate.
Refreshed(a) ==
    IF ~V2(a) /\ slot > a.agg_.pub_slot_ THEN update_aggregate(a, slot, now) ELSE a

NeedMessageBufferUpdate(a) ==
    IF V2(a) THEN "MESSAGE_BUFFER_CLEARED" \notin a.flags ELSE a.message_sent_ = 0

\* Mutant: message_sent_ counts messages.
AfterPutAllCounts(a, bufferAccounts) ==
    IF NeedMessageBufferUpdate(a) /\ bufferAccounts = "ok"
    THEN [a EXCEPT !.message_sent_ = @ + 1,
                   !.flags = IF V2(a) THEN @ \union {"MESSAGE_BUFFER_CLEARED"} ELSE @]
    ELSE a

\* The CPI to the message buffer: the account after it ...
AfterPutAll(a, bufferAccounts) ==
    IF NeedMessageBufferUpdate(a) /\ bufferAccounts = "ok"
    THEN [a EXCEPT !.message_sent_ = 1,
                   !.flags = IF V2(a) THEN @ \union {"MESSAGE_BUFFER_CLEARED"} ELSE @]
    ELSE a

\* ... and the buffer: both messages in v1, none in v2.
BufferAfterPutAll(a, bufferAccounts) ==
    IF NeedMessageBufferUpdate(a) /\ bufferAccounts = "ok"
    THEN IF V2(a) THEN NoMessage ELSE Message(a)
    ELSE buffer

\* The instruction stops with InvalidPda after the aggregate was refreshed.
PdaMismatch(a, bufferAccounts) ==
    NeedMessageBufferUpdate(a) /\ bufferAccounts = "bad_pda"

AbsPrice(price) == IF price < 0 THEN -price ELSE price

\* get_status_for_conf_price_ratio; the conversion of |i64::MIN| / 3 to u64
\* fails.
RatioFails(arg) == arg.price = I64_MIN

StatusForConfPriceRatio(arg) ==
    IF arg.conf > AbsPrice(arg.price) \div MAX_CI_DIVISOR THEN "IGNORED" ELSE arg.status

WriteLatest(a, p, arg, publishing_slot) ==
    [a EXCEPT !.comp_[p].latest_ =
        [price_ |-> arg.price, conf_ |-> arg.conf,
         status_ |-> StatusForConfPriceRatio(arg), pub_slot_ |-> publishing_slot]]

\* The whole of upd_price for a component update that runs to its end.
UpdPrice(p, arg, publishing_slot, bufferAccounts) ==
    LET a == Refreshed(acc) IN
    /\ MayPublish(acc, p, publishing_slot)
    /\ ~PdaMismatch(a, bufferAccounts)
    /\ ~RatioFails(arg)
    /\ acc' = WriteLatest(AfterPutAll(a, bufferAccounts), p, arg, publishing_slot)
    /\ buffer' = BufferAfterPutAll(a, bufferAccounts)
    /\ UNCHANGED <<slot, now, tree, admin>>

\* upd_price_no_fail_on_error where upd_price fails after its checks: the
\* refresh of the aggregate, and the message if it was sent, are kept.
UpdPriceNoFailOnError(p, arg, publishing_slot, bufferAccounts) ==
    LET a == Refreshed(acc) IN
    /\ MayPublish(acc, p, publishing_slot)
    /\ \/ /\ PdaMismatch(a, bufferAccounts)
          /\ acc' = a
          /\ UNCHANGED buffer
       \/ /\ ~PdaMismatch(a, bufferAccounts)
          /\ RatioFails(arg)
          /\ acc' = AfterPutAll(a, bufferAccounts)
          /\ buffer' = BufferAfterPutAll(a, bufferAccounts)
    /\ UNCHANGED <<slot, now, tree, admin>>

\* AggPrice: an authorised publisher refreshes the aggregate, quoting nothing.
AggPrice(p, bufferAccounts) ==
    LET a == Refreshed(acc) IN
    /\ p \in acc.pubs
    /\ ~PdaMismatch(a, bufferAccounts)
    /\ acc' = AfterPutAll(a, bufferAccounts)
    /\ buffer' = BufferAfterPutAll(a, bufferAccounts)
    /\ UNCHANGED <<slot, now, tree, admin>>

-----------------------------------------------------------------------------
(* The validator *)

\* aggregate_price, called by the validator outside any transaction.
AggregatePrice ==
    /\ acc.flags = Flag
    /\ acc.agg_.pub_slot_ # slot
    /\ acc' = update_aggregate(acc, slot, now)
    /\ tree' = Message(acc')
    /\ UNCHANGED <<slot, now, buffer, admin>>

\* The runtime moves on to a later slot; its clock never runs backwards.
NextSlot ==
    /\ slot < MaxSlot
    /\ slot' = slot + 1
    /\ now' \in {now, now + 1}
    /\ UNCHANGED <<acc, buffer, tree, admin>>

-----------------------------------------------------------------------------
(* Administration: the instructions of the master authority (module         *)
(* AccountRegistry models who that is).                                     *)

Administer(a) ==
    /\ admin < MaxAdmin
    /\ admin' = admin + 1
    /\ acc' = a
    /\ UNCHANGED <<slot, now, buffer, tree>>

AddPublisher(p) ==
    /\ Cardinality(acc.pubs) < PC_NUM_COMP
    /\ p \notin acc.pubs
    /\ Administer([acc EXCEPT !.pubs = @ \union {p}, !.comp_[p] = NoComponent])

DelPublisher(p) ==
    /\ p \in acc.pubs
    /\ Administer([acc EXCEPT !.pubs = @ \ {p}, !.comp_[p] = NoComponent])

\* Mutant: v2 is enabled with the buffer taken to be clear, as in add_price.
EnableAccumulatorV2Cleared ==
    /\ ~V2(acc)
    /\ Administer([acc EXCEPT !.flags = Flag])

\* add_publisher with one of the two reserved keys.
EnableAccumulatorV2 ==
    /\ ~V2(acc)
    /\ Administer([acc EXCEPT !.flags = @ \union {"ACCUMULATOR_V2"}])

DisableAccumulatorV2 ==
    /\ V2(acc)
    /\ Administer([acc EXCEPT !.flags = {}])

\* Mutant: last_slot_ is not reset.
InitPriceKeepsLastSlot ==
    Administer([acc EXCEPT
        !.valid_slot_ = 0, !.prev_slot_ = 0, !.prev_price_ = 0,
        !.prev_conf_ = 0, !.prev_timestamp_ = 0, !.twap_ = 0, !.agg_ = NoPrice,
        !.comp_ = [p \in Publishers |-> NoComponent]])

\* init_price on an existing account: the cumulative sums, timestamp_,
\* message_sent_, num_qt_ and the settings survive.
InitPrice ==
    Administer([acc EXCEPT
        !.last_slot_ = 0, !.valid_slot_ = 0, !.prev_slot_ = 0, !.prev_price_ = 0,
        !.prev_conf_ = 0, !.prev_timestamp_ = 0, !.twap_ = 0, !.agg_ = NoPrice,
        !.comp_ = [p \in Publishers |-> NoComponent]])

SetMinPub(n) == Administer([acc EXCEPT !.min_pub_ = n])

SetMaxLatency(n) == Administer([acc EXCEPT !.max_latency_ = n])

-----------------------------------------------------------------------------
Init ==
    /\ slot = StartSlot
    /\ now = StartSlot
    /\ \E f \in InitFlags : acc = FreshAccount(f)
    /\ buffer = NoMessage
    /\ tree = NoMessage
    /\ admin = 0

Publish ==
    \E p \in Publishers, arg \in QuoteArgs, s \in 1 .. MaxSlot, b \in BufferAccounts :
        UpdPrice(p, arg, s, b) \/ UpdPriceNoFailOnError(p, arg, s, b)

Refresh == \E p \in Publishers, b \in BufferAccounts : AggPrice(p, b)

Reconfigure ==
    \/ \E p \in Publishers : AddPublisher(p) \/ DelPublisher(p)
    \/ EnableAccumulatorV2
    \/ DisableAccumulatorV2
    \/ InitPrice
    \/ \E n \in MinPubs : SetMinPub(n)
    \/ \E n \in Latencies : SetMaxLatency(n)

Next == Publish \/ Refresh \/ AggregatePrice \/ NextSlot \/ Reconfigure

Spec == Init /\ [][Next]_vars

-----------------------------------------------------------------------------
(* Properties *)

\* The variables have their types; in particular no field leaves the range
\* of its integer and message_sent_ stays a flag (PriceAccountPythnet).
TypeOK ==
    /\ slot \in Nat /\ now \in Nat /\ admin \in Nat
    /\ acc \in Account

\* How the four slots and the two timestamps of an account relate, in every
\* interleaving of refreshes and reconfigurations: a trading aggregate is the
\* last success and is later than the previous price; otherwise the previous
\* price IS the last success (so a failed aggregation moves it, and
\* as_price_feed_message may fall back on it); nothing is later than the clock.
SlotsOrdered(a, s, t) ==
    /\ a.valid_slot_ <= a.agg_.pub_slot_
    /\ a.agg_.pub_slot_ <= s
    /\ a.agg_.status_ \in {"UNKNOWN", "TRADING"}
    /\ a.agg_.status_ = "TRADING" =>
          a.last_slot_ = a.agg_.pub_slot_ /\ a.prev_slot_ < a.last_slot_
    /\ a.agg_.status_ # "TRADING" =>
          a.last_slot_ = a.prev_slot_ /\ a.last_slot_ <= a.agg_.pub_slot_
    /\ a.prev_timestamp_ <= a.timestamp_
    /\ a.timestamp_ <= t

SlotOrder == SlotsOrdered(acc, slot, now)

\* upd_aggregate relies on slot_diff >= 0 "due to the check in Rust code": no
\* stored quote is from a slot that has not happened, across re-adding a
\* publisher and re-initialising the account, and the snapshot used by the
\* last aggregation is never newer than the quote it was taken from.
QuotesUpTo(a, s) ==
    \A p \in Publishers :
        /\ a.comp_[p].agg_.pub_slot_ <= a.comp_[p].latest_.pub_slot_
        /\ a.comp_[p].latest_.pub_slot_ <= s

QuotesNotFromFuture == QuotesUpTo(acc, slot)

\* The decay applied to the EMAs over the life of the account adds up to the
\* slots up to the last successful aggregation: no slot decays twice and none
\* is skipped, whatever aggregations failed in between (upd_price.rs agg_diff).
EmaSpan == acc.twap_ = acc.last_slot_

\* The no-overflow argument above PriceCumulative: each sum is at most the
\* largest value times the sum of the slot gaps.
SumsBounded(c) ==
    /\ c.price <= (I64_MAX + 1) * c.sum_slotgap
    /\ -c.price <= (I64_MAX + 1) * c.sum_slotgap
    /\ c.conf <= I64_MAX * c.sum_slotgap
    /\ c.num_down_slots <= c.sum_slotgap

CumulativeBounded == SumsBounded(acc.price_cumulative)

\* Between two states with no init_price between them the slot gaps folded in
\* the cumulative sums add up to the distance of their last successful slots:
\* what makes (T.price - t.price) / (T.slot - t.slot) an average (price.rs).
CumulativeTelescopes ==
    [][InitPrice \/ acc'.price_cumulative.sum_slotgap - acc.price_cumulative.sum_slotgap
                       = acc'.last_slot_ - acc.last_slot_]_vars

\* Only an aggregation in the current slot changes what the account would
\* publish, and then the new message continues the old one: its
\* prev_publish_time is the old publish_time and time does not run backwards.
\* A consumer that sees every message sees an unbroken chain, through failed
\* aggregations and changes of regime; only init_price breaks it.
MessageChain ==
    [][InitPrice \/ Message(acc') = Message(acc) \/
          /\ acc'.agg_.pub_slot_ = slot
          /\ Message(acc').prev_publish_time = Message(acc).publish_time
          /\ Message(acc').publish_time >= Message(acc).publish_time]_vars

\* "We make sure that we don't generate v2 messages while v1 messages are
\* still in the message buffer" (aggregate_price): once the validator may
\* aggregate, the buffer is empty, however often the regime was changed.
NoV1MessageUnderV2 == acc.flags = Flag => buffer = NoMessage

\* In v1, a message marked as sent is the one for the latest successful
\* aggregate, with the sums as they are now: nothing the account publishes is
\* left behind when message_sent_ says it is not owed.
SentMessageIsCurrent ==
    (~V2(acc) /\ acc.message_sent_ = 1 /\ acc.last_slot_ # 0 /\ buffer # NoMessage) =>
        /\ buffer.publish_slot = acc.last_slot_
        /\ buffer.publish_time = PublishTime(acc)
        /\ buffer.cumulative = acc.price_cumulative

=============================================================================
