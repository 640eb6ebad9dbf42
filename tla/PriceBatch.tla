------------------------------ MODULE PriceBatch ------------------------------
(***************************************************************************)
(* How the client sends the prices its users give it.  A user's update     *)
(* overwrites the price's upd_price request and puts the price in a queue; *)
(* every turn of the poll loop sends the queue's full batches and, once    *)
(* the flush interval has passed, all of the queue.  price::send packs the *)
(* prices that can be published into transactions.                         *)
(*                                                                         *)
(* Meanwhile slots go by, the RPC and the pyth_tx connection break and     *)
(* come back, and the publisher gains and loses its permissions.  Of an    *)
(* upd_price request only its slot is kept; of a transaction, its prices.  *)
(***************************************************************************)
EXTENDS Naturals, Integers, Sequences, SequencesExt, FiniteSets

CONSTANTS
    Prices,
    TxModes,      \* values of do_tx_: send to the pyth_tx server, or by RPC
    max_batch_,
    MaxUnacked,   \* 100 in the code: unacknowledged transactions kept per price ...
    DropUnacked,  \* 50 in the code: ... and how many are then forgotten
    MaxSlot,      \* bound: slots the validator goes through
    MaxFailures   \* bound: failures of a connection, changes of permission

ASSUME BatchAssumption ==
    /\ max_batch_ \in Nat \ {0} /\ MaxUnacked \in Nat
    /\ DropUnacked \in 1 .. MaxUnacked

VARIABLES
    do_tx_,
    cslot,          \* the validator's slot
    failures,
    connected,      \* PC_PYTH_RPC_CONNECTED and no connection error
    has_hash,       \* PC_PYTH_HAS_BLOCK_HASH
    tx_connected,   \* get_is_tx_connect()
    slot_,
    publishing,     \* prices with st_ = e_publish
    permitted,      \* prices with has_publisher()
    pending_upds_,
    pub_slot,       \* slot of the price's upd_price request
    attempted,      \* last_attempted_update_slot_
    tvec_,          \* per price: transactions sent, not acknowledged
    in_flight,      \* RPC requests waiting for their answer
    last_sent       \* history: slot of the price's last quote sent since the connection was made

connVars == <<do_tx_, failures, connected, has_hash, tx_connected>>
sendVars == <<pending_upds_, pub_slot, attempted, tvec_, in_flight>>
vars == <<cslot, connVars, slot_, publishing, permitted, sendVars, last_sent>>

-----------------------------------------------------------------------------
(* The chain and the connections *)

NextSlot ==
    /\ cslot < MaxSlot
    /\ cslot' = cslot + 1
    /\ UNCHANGED <<connVars, slot_, publishing, permitted, sendVars, last_sent>>

\* on_response( get_slot ); the block hash is asked for with the first one.
OnSlot ==
    /\ connected
    /\ cslot > slot_
    /\ slot_' = cslot
    /\ has_hash' = TRUE
    /\ UNCHANGED <<cslot, do_tx_, failures, connected, tx_connected, publishing, permitted, sendVars,
                   last_sent>>

\* A connection error, and the status it resets.
Disconnect ==
    /\ failures < MaxFailures
    /\ connected
    /\ failures' = failures + 1
    /\ connected' = FALSE /\ has_hash' = FALSE
    /\ UNCHANGED <<cslot, do_tx_, tx_connected, slot_, publishing, permitted, sendVars, last_sent>>

\* reconnect_rpc: the slot starts again and every price is fetched again;
\* the RPC client forgets the requests in flight.  The queue is kept.
Reconnect ==
    /\ ~ connected
    /\ connected' = TRUE
    /\ slot_' = 0
    /\ publishing' = {}
    /\ in_flight' = {}
    /\ last_sent' = [p \in Prices |-> -1]
    /\ UNCHANGED <<cslot, do_tx_, failures, has_hash, tx_connected, permitted, pending_upds_, pub_slot,
                   attempted, tvec_>>

\* price::init_subscribe, when the account was received.
InitSubscribe(p) ==
    /\ connected /\ has_hash
    /\ p \notin publishing
    /\ publishing' = publishing \union {p}
    /\ UNCHANGED <<cslot, connVars, slot_, permitted, sendVars, last_sent>>

\* An account update with another list of publishers (update_pub).
UpdatePub(p) ==
    /\ failures < MaxFailures
    /\ failures' = failures + 1
    /\ permitted' = IF p \in permitted THEN permitted \ {p} ELSE permitted \union {p}
    /\ UNCHANGED <<cslot, do_tx_, connected, has_hash, tx_connected, slot_, publishing, sendVars,
                   last_sent>>

TxConnect ==
    /\ do_tx_ /\ ~ tx_connected
    /\ tx_connected' = TRUE
    /\ UNCHANGED <<cslot, do_tx_, failures, connected, has_hash, slot_, publishing, permitted, sendVars,
                   last_sent>>

TxDisconnect ==
    /\ do_tx_ /\ tx_connected
    /\ failures < MaxFailures
    /\ failures' = failures + 1
    /\ tx_connected' = FALSE
    /\ UNCHANGED <<cslot, do_tx_, connected, has_hash, slot_, publishing, permitted, sendVars, last_sent>>

-----------------------------------------------------------------------------
(* The queue *)

\* Mutant: the price is queued again in a slot it was sent in.
AddDirtyPriceAnySlot(p) ==
    pending_upds_' = IF p \in ToSet(pending_upds_) THEN pending_upds_
                     ELSE Append(pending_upds_, p)

AddDirtyPrice(p) ==
    pending_upds_' = IF attempted[p] = slot_ \/ p \in ToSet(pending_upds_) THEN pending_upds_
                     ELSE Append(pending_upds_, p)

\* user::parse_upd_price: update_no_send, then add_dirty_price.
UpdPrice(p) ==
    /\ pub_slot' = [pub_slot EXCEPT ![p] = slot_]
    /\ AddDirtyPrice(p)
    /\ UNCHANGED <<cslot, connVars, slot_, publishing, permitted, attempted, tvec_, in_flight,
                   last_sent>>

\* has_publisher and get_is_ready_publish (init_publish fails only without a
\* publisher key, and then there is no publisher).
CanPublish(p) ==
    /\ p \in permitted
    /\ p \in publishing
    /\ IF do_tx_ THEN tx_connected ELSE connected /\ has_hash

\* Mutant: the batch is not cleared after it was sent.
BatchStepNotCleared(prices, acc, i) ==
    IF ~ CanPublish(prices[i]) THEN acc
    ELSE LET upds == Append(acc.upds, prices[i])
         IN  IF Len(upds) >= max_batch_ \/ i = Len(prices)
             THEN [upds |-> upds, from |-> i + 1,
                   txs |-> Append(acc.txs, [prices |-> upds, first |-> acc.from, last |-> i])]
             ELSE [acc EXCEPT !.upds = upds]

\* One turn of price::send's loop: a price that can not be published is
\* skipped, before the test for the end of the list is reached.
BatchStep(prices, acc, i) ==
    IF ~ CanPublish(prices[i]) THEN acc
    ELSE LET upds == Append(acc.upds, prices[i])
         IN  IF Len(upds) >= max_batch_ \/ i = Len(prices)
             THEN [upds |-> <<>>, from |-> i + 1,
                   txs |-> Append(acc.txs, [prices |-> upds, first |-> acc.from, last |-> i])]
             ELSE [acc EXCEPT !.upds = upds]

\* The loop: what upds_ and the transactions sent are after each turn.
SendLoop(prices) ==
    LET acc[i \in 0 .. Len(prices)] ==
            IF i = 0 THEN [upds |-> <<>>, from |-> 1, txs |-> <<>>]
            ELSE BatchStep(prices, acc[i - 1], i)
    IN  acc

\* The transactions of one call, each with the part of the list it stands for.
Batches(prices) == SendLoop(prices)[Len(prices)].txs

SentIn(txs, p) == {t \in DOMAIN txs : p \in ToSet(txs[t].prices)}

\* Where p was in the part of the list that a transaction stands for.
SeenIn(prices, txs, p) ==
    {t \in DOMAIN txs : \E i \in txs[t].first .. txs[t].last : prices[i] = p}

\* The prices whose transaction this is remember it by its slot and prices.
TxId(tx) == <<slot_, tx.prices>>

NewUnacked(txs, p) ==
    SetToSeq({TxId(txs[t]) : t \in {u \in DOMAIN txs : Last(txs[u].prices) = p}})

\* Mutant: the price that keeps the transaction is not trimmed.
UnackedNotTrimmed(prices, txs, p) ==
    IF do_tx_ THEN tvec_[p] ELSE tvec_[p] \o NewUnacked(txs, p)

\* tvec_ of a price after a call: only the last price of a transaction keeps
\* it; the oldest are forgotten when there are too many.
Unacked(prices, txs, p) ==
    LET kept == tvec_[p] \o NewUnacked(txs, p)
    IN  IF do_tx_ THEN tvec_[p]
        ELSE IF SeenIn(prices, txs, p) # {} /\ Len(kept) >= MaxUnacked
        THEN SubSeq(kept, DropUnacked + 1, Len(kept)) ELSE kept

\* price::send.
Send(prices) ==
    LET txs == Batches(prices)
    IN  /\ attempted' = [p \in Prices |-> IF p \in ToSet(prices) THEN slot_ ELSE attempted[p]]
        /\ in_flight' = IF do_tx_ THEN in_flight
                        ELSE in_flight \union {TxId(txs[t]) : t \in DOMAIN txs}
        /\ tvec_' = [p \in Prices |-> Unacked(prices, txs, p)]
        /\ last_sent' = [p \in Prices |-> IF SentIn(txs, p) # {} THEN pub_slot[p] ELSE last_sent[p]]

NumToSend(elapsed) ==
    IF elapsed THEN Len(pending_upds_)
    ELSE IF Len(pending_upds_) >= max_batch_ THEN max_batch_ ELSE 0

\* elapsed: the last batch was sent longer than PC_FLUSH_INTERVAL ago.
SendPendingUps(elapsed) ==
    LET n == NumToSend(elapsed)
    IN  /\ connected
        /\ n # 0
        /\ Send(SubSeq(pending_upds_, 1, n))
        /\ pending_upds_' = SubSeq(pending_upds_, n + 1, Len(pending_upds_))
        /\ UNCHANGED <<cslot, connVars, slot_, publishing, permitted, pub_slot>>

\* The answer to an upd_price request reaches all prices of the transaction,
\* the first of whose entries with its signature is erased.
Ack(tx) ==
    /\ connected
    /\ in_flight' = in_flight \ {tx}
    /\ tvec_' = [p \in Prices |-> IF p \in ToSet(tx[2]) THEN RemoveFirst(tvec_[p], tx) ELSE tvec_[p]]
    /\ UNCHANGED <<cslot, connVars, slot_, publishing, permitted, pending_upds_, pub_slot,
                   attempted, last_sent>>

-----------------------------------------------------------------------------
Init ==
    /\ do_tx_ \in TxModes
    /\ cslot = 1 /\ failures = 0
    /\ connected = FALSE /\ has_hash = FALSE /\ tx_connected = FALSE
    /\ slot_ = 0
    /\ publishing = {} /\ permitted = Prices
    /\ pending_upds_ = <<>>
    /\ pub_slot = [p \in Prices |-> 0]
    /\ attempted = [p \in Prices |-> 0]
    /\ tvec_ = [p \in Prices |-> <<>>]
    /\ in_flight = {}
    /\ last_sent = [p \in Prices |-> -1]

Next ==
    \/ NextSlot \/ OnSlot \/ Disconnect \/ Reconnect \/ TxConnect \/ TxDisconnect
    \/ \E p \in Prices : InitSubscribe(p) \/ UpdatePub(p) \/ UpdPrice(p)
    \/ \E elapsed \in BOOLEAN : SendPendingUps(elapsed)
    \/ \E tx \in in_flight : Ack(tx)

Spec == Init /\ [][Next]_vars

-----------------------------------------------------------------------------
(* Properties *)

\* The prices of the transactions one after the other.
ConcatUpTo(txs) ==
    LET cat[t \in 0 .. Len(txs)] == IF t = 0 THEN <<>> ELSE cat[t - 1] \o txs[t].prices
    IN  cat

Concat(txs) == ConcatUpTo(txs)[Len(txs)]

\* The prices that can be published, in the order of the list.
PublishableUpTo(prices) ==
    LET can[i \in 0 .. Len(prices)] ==
            IF i = 0 THEN <<>>
            ELSE IF CanPublish(prices[i]) THEN Append(can[i - 1], prices[i]) ELSE can[i - 1]
    IN  can

Publishable(prices) == PublishableUpTo(prices)[Len(prices)]

\* A step that calls price::send, and the prices it is called with.
Sends == Len(pending_upds_') < Len(pending_upds_)
SentPrices == SubSeq(pending_upds_, 1, Len(pending_upds_) - Len(pending_upds_'))

\* The transactions of a call hold prices that can be published, in the
\* order of the queue, none twice, and all of them whenever the last price of
\* the call can be published; only the last transaction is not full.
BatchesExact ==
    [][ Sends => LET txs == Batches(SentPrices)
                     can == Publishable(SentPrices)
                 IN  /\ IsPrefix(Concat(txs), can)
                     /\ Len(can) - Len(Concat(txs)) < max_batch_
                     /\ CanPublish(Last(SentPrices)) => Concat(txs) = can
                     /\ \A t \in DOMAIN txs :
                           Len(txs[t].prices) \in (IF t = Len(txs) THEN 1 .. max_batch_
                                                   ELSE {max_batch_}) ]_vars

\* The program takes a quote only if its slot is above the publisher's last
\* one: while a connection lasts, the quotes sent for a price are so ordered.
SentSlotsIncrease ==
    [][ Sends => \A p \in ToSet(Concat(Batches(SentPrices))) : last_sent[p] < pub_slot[p] ]_vars

\* The transactions kept for a price stay below the limit, whatever is lost.
UnackedBounded == \A p \in Prices : Len(tvec_[p]) < MaxUnacked

\* price::send: "If the batch is full, or we have reached the end, send the
\* upd_price requests in upds_".
EndReached ==
    [][ Sends => Concat(Batches(SentPrices)) = Publishable(SentPrices) ]_vars
=============================================================================
