# TLA+ models of pyth-client

TLA+ specifications of the Pyth oracle program (`program/`) and of the client
library and its server (`pc/`, `pcapps/`), TLC configurations that check them on
small instances, and TLAPS proofs of the core module's properties for every
instance. Source paths are relative to the repository.

Contents: [1 Inventory](#1-inventory) · [2 Plan](#2-plan) ·
[3 Modules and code](#3-modules-and-code) · [4 Runs](#4-runs) ·
[5 Proofs](#5-proofs) · [6 Findings](#6-findings) · [7 Limits](#7-limits)

## 1. Inventory

### On chain: `program/`

The oracle program runs in the validator's runtime. Instructions on one account
are serialised, an instruction is atomic and one that returns an error leaves no
trace (except `upd_price_no_fail_on_error`, which turns an error into success and
keeps what was written). What is hard is the *order* of instructions: publishers,
the authorities, the clock and the validator's own end-of-slot call come in any
order, and each leaves fields that the next one relies on.

| part | state | operations | what makes it correct |
|---|---|---|---|
| price account (`accounts/price.rs`, `processor/upd_price.rs`, `validator.rs`, `c/src/oracle/upd_aggregate.h`) | publishers' quotes, aggregate, previous price, EMAs, cumulative sums, `message_sent_`, flags | upd_price, upd_price_no_fail_on_error, agg_price, aggregate_price (validator), init_price, add/del_publisher, set_min_pub, set_max_latency | slots and times stay ordered; no slot is decayed or summed twice; published messages form a chain; no v1 message survives into v2 |
| pricing model (`model/price_model.c`, `util/avg.h`) | none | price_model_core, avg_2_int64 | quartiles by rank, a robust median, a positive and exact confidence |
| stable sort (`sort/tmpl/`) | two arrays | stable_node and its base networks | sorted, stable permutation although merges overlap |
| component list (`add_publisher.rs`, `del_publisher.rs`, `find_publisher_index`) | `comp_[0..num_-1]` | add, heap sort, in-place permutation; delete and shift; bisection, then linear search | implements a set of publishers with one quote each |
| registry (`init_mapping.rs`, `resize_mapping.rs`, `add_/del_product.rs`, `add_/del_price.rs`, `accounts.rs`, `deserialize.rs`) | mapping tables, product heads, linked price lists | create, link, unlink, delete | every live account reachable from the mapping, exactly once |
| permissions (`accounts/permission.rs`, `upd_permissions.rs`, `reserve_new_price_feed_index`) | three authorities, last feed index | update, authorise, reserve an index | feed indices are never reused |
| product metadata (`upd_product.rs`, `accounts/product.rs`, client's `attr_id.cpp`) | length-prefixed attributes | upd_product, init_from_account, write_account | the client reads back what it wrote |
| EMA arithmetic (`pd.h`, `upd_ema`) | decimal mantissas | pd_add, pd_mul, pd_div, pd_adjust | no overflow, no drift beyond rounding |
| stake caps (`validator.rs`) | none | compute_publisher_stake_caps | a symbol's publishers share its cap |

### Off chain: `pc/`, `pcapps/`

One thread per process runs `manager::poll`, a loop over socket events and timers;
everything else is called back from it. There is no shared memory between
threads. What is hard is that two connections (HTTP and websocket) to a validator
deliver independently, may break at any moment, and that state survives
reconnections in request objects.

| part | state | operations | what makes it correct |
|---|---|---|---|
| manager (`manager.cpp`) | status bits, pending list, open fetches `num_sub_`, slot | poll, reconnect_rpc, on_response, add_mapping/product/price | every account is fetched once per connection; `on_init` comes when all are there, and does come |
| requests (`request.cpp`) | per account: `st_`, error, subscriptions | submit, on_response, update, reset | a notification or an error does not corrupt the count |
| price sending (`price::send`, `send_pending_ups`, `add_dirty_price`) | queue, last attempted slot, unacknowledged transactions | update, flush, send, acknowledge | batches are exact; one quote per slot; memory bounded |
| scheduler (`poll_schedule`) | sorted `kvec_`, index | stagger price_sched callbacks over an interval | each price in every interval, none late, though prices enter meanwhile |
| JSON-RPC client (`rpc_client.cpp`, `admin_rpc_client.cpp`) | id table, free ids, subscriptions | send, parse_response, notify, build transactions | a reply reaches the request it answers; a transaction says what the program reads |
| users (`user.cpp`, `request_sub_set`) | subscriptions | JSON API, removal on disconnect | no dispatch to a user that has gone |
| pyth_tx (`tx_svr.cpp`) | slot, leader schedule, node addresses | follow slots, fetch schedules and nodes, forward transactions | transactions reach the current leader |
| sockets (`net_socket.cpp`) | buffers, parser state, connection state | connect, poll, frame, mask, reconnect | messages come whole, once and in order; a connection is made again |
| admin tool (`admin_request.cpp`, `pyth_admin.cpp`, `key_store.cpp`) | key files, one request at a time | generate a key, create, register, confirm | success means done; keys outlive the tool; the tool returns |
| containers and conversions (`hash_map.hpp`, `dbl_list.hpp`, `jtree.cpp`, `misc.cpp`) | node vectors, links, text | add, delete, find; encode, decode | a map, a sequence, a tree; conversions invert |
| capture, replay, CSV, dashboard, logging | files | I/O | not modelled, see section 7 |

### How the parts interact

Publishers' clients (users → manager → `price::send`) put `upd_price` instructions
in transactions, by RPC or through `pyth_tx`. The program stores the quotes; the
first instruction of a slot (v1) or the validator (v2) aggregates them and writes
messages to the message buffer (v1) or to the validator's tree (v2). Clients find
the accounts by walking mapping → product → price list (`WalkFindsEveryFeed` and
`Manager` are the two ends of that), then follow them by notification or polling.
The program's rule that a publisher's slots increase (`MayPublish`) is what
`SentSlotsIncrease` is for on the client's side.

The hazards are listed, each with its line and the properties aimed at it, under
`hazards` in `PROJECT.json`.

## 2. Plan

Order: what consumers' money depends on first.

1. **Core, done**: `PriceAccount` (every writer of a price account), with
   `PriceModel` and `MachineInt`; proofs in `PriceAccountProofs`.
2. **Algorithms under it, done**: `SortStable`, `PublisherList` against the
   abstract `PublisherSet`, `Decimal` and `Ema`, `StakeCaps`.
3. **Registry, done**: `AccountRegistry`.
4. **Client, done**: `Manager`, `PriceBatch`, `PriceSched`, `Users`, `RpcClient`,
   `NetConnect` against the abstract `MsgChannel`, `Reconnect`; under them
   `Transactions`, `Codecs`, `Attrs`, `Jtree`, `HashMap`, `DblList`.
5. **Tools, done**: `TxSvr` (pyth_tx) and `AdminTool` (pyth_admin).
6. **Proofs, done**: `PriceAccount` and `PublisherList` (`PriceAccountProofs`), `AccountRegistry`, `Manager`, `PriceBatch`,
   `RpcClient`, `TxSvr` and `NetConnect` (`TransportProofs`), `AdminTool`, `Users`, `PriceSched` and the
   callbacks of `Reconnect` (`PythdProofs`); section 5.
7. **Left**: account deletion and a second mapping account in `Manager`.

Compositions: `PriceAccount` takes the pricing model as a constant operator
(`AggregateModel`); `MCPriceAccount` composes it with `PriceModel`. `PublisherList`
refines `PublisherSet`, whose atomic publisher set is what `PriceAccount` uses as
`pubs`. `MCAlgorithms` composes the pricing model with the
sort, and the averages with the decimals. `NetConnect` refines `MsgChannel`, which
`RpcClient` and `Manager` assume of a connection. `MCTransport` and `MCPythd` hold
parts that share no state and only meet through messages; a behaviour chooses one. Modes of a system
(v1/v2, websocket/polling, RPC/pyth_tx) are variables chosen in `Init`, so that one
run covers all.

## 3. Modules and code

`PROJECT.json` maps each definition to its lines. A definition named *Mutant* in
its comment is a plausible wrong version of the definition after it; no
specification uses it, it serves to show that a property can fail.

**MachineInt** – casts to 64-bit signed and unsigned integers and saturating
subtraction; `I64_MAX` is a constant, so that arithmetic wraps at a width TLC can
enumerate.

**PriceModel** – `avg_2_int64`, `price_model_core` on the sorted points `p-c, p, p+c`
of each quote, and the choice of the larger half-interval as confidence in
`upd_aggregate`. Sorting is by definition here; that the C sort computes it is
`SortStable`'s matter.

**SortStable** – the merge sort with two arrays: which array a half ends in, the
overlapping merge, the base network (its size is the constant `BASE`).

**PriceAccount** – one price account, its message buffer (v1), the validator's last
message (v2) and the clock. One action per instruction:

| action | code |
|---|---|
| `UpdPrice`, `UpdPriceNoFailOnError` | `upd_price` with its early returns: rights, slot checks, refresh of the aggregate in v1, CPI to the message buffer, the confidence/price ratio, the write of `latest_` |
| `AggPrice` | `c_oracle_agg_price`: the same without a quote |
| `AggregatePrice` | the validator's call, v2 only, once the buffer was cleared |
| `AddPublisher`, `DelPublisher`, `Enable/DisableAccumulatorV2` | `add_publisher` (two reserved keys change the regime), `del_publisher` |
| `InitPrice`, `SetMinPub`, `SetMaxLatency` | their instructions |
| `NextSlot` | the runtime's clock (external) |

The EMAs are abstracted to the number of slots their decay accounts for (`twap_`);
`sum_slotgap` is a history field. The optional accounts of an instruction are
`none`, `ok` or `bad_pda`.

**PublisherSet / PublisherList** – the abstract set of publishers, and the array
with `heapsort`, `sort_price_comps` (chains of swaps), the shifting delete and
`find_publisher_index`. It starts from any list that was never sorted (accounts
from before sorting). A loop is a function over its turns, as many as the loop can take;
the turns after the last leave its state alone.

**AccountRegistry** – addresses that are fresh, mapping, product or price accounts
and become fresh again when deleted; the permissions account, absent, legacy (too
small for the feed index) or extended. `issued` is history.

**Manager** – connections, requests and replies on their way, the status bits,
`num_sub_`, the pending list, and per account `st_`, `is_recv` and the error its
request object holds. Each part of `manager::poll` is an action. An account's data
is the set of accounts it refers to. The validator and the chain are external.

**PriceBatch** – the queue of dirty prices, `send_pending_ups`, `price::send` as a
fold over the list (so that what is skipped, and when the end is tested, is the
code's; `SendLoop` is the state of that loop after each turn), `tvec_`, and both ways
to send. `last_sent` is history.

**Decimal / Ema** – `pd.h` with its widths as parameters in the code's proportions
(a normalised mantissa, its square and its product with the factors fit the word), and
`upd_ema`/`upd_twap` on top: the decay, the restart after `PD_EMA_MAX_DIFF` slots,
numerator and denominator stored separately.

**StakeCaps** – `compute_publisher_stake_caps` as a fold over the accounts.

**Transactions** – every transaction of `admin_rpc_client.cpp` and
`rpc::upd_price::build_tx` as what its bytes say: keys, header counts, instructions
with their account indices, signers, and its size.

**Codecs, Attrs, Jtree, HashMap, DblList** – base 58 and base 64, numbers and
decimals as text (`misc.cpp`); the attribute dictionary (`attr_id.cpp`); the JSON tree
from its lexemes on; the chained hash map with reuse of nodes; the intrusive list.

**MsgChannel / NetConnect** – what a connection promises, and the websocket client
that keeps it. `NetConnect` has bytes: `net_wtr` buffers, the mask that runs across
them, `poll_send` and `poll_recv` in pieces of any size, the parser's buffer that is
shifted or grown, the handshake, fragments and control frames, and a connection that
breaks. What the parser keeps from a broken connection (`msg_`) is part of the
mapping to `MsgChannel`.

**RpcClient** – ids, the free list, the multimap of waiting requests, subscriptions;
a response is dispatched one request at a time, and its callback may send again.

**Reconnect** – `tx_connect` over `tcp_connect`: non-blocking connect, timeout,
doubling pause, callbacks; the host goes up, down, refuses, or does not resolve.

**Users** – `user::parse_msg` with a batch of requests (`ParseLoop`: what they have done,
one after the other), the deferred notifications, what a user has heard (`HearReply`,
`HearNotes`), subscriptions in the lists of prices and schedules of either manager, teardown, and
the reuse of a user's address.

**PriceSched** – `schedule` and `poll_schedule`: the vector sorted by hash, the index
that moves through it, and prices that enter while it does.

**TxSvr** – slots, the window of leaders, requests for schedules and nodes in flight
or lost, clients, transactions forwarded.

**AdminTool** – a command is a list of requests; a request checks, may generate and
write a key pair, and sends one or two transactions, each sent, acknowledged and
confirmed by its signature's notification. The chain, the network, and a kill at any
point are external. `ended` is history.

## 4. Runs

Bounds are constants; each cfg gives them. "Pass" runs hold; "violation" runs are
the findings of section 6.

| run | bounds | what it shows |
|---|---|---|
| `price_publish` | 2 publishers, 3 slots, quotes that are good, too wide, unconvertible (width −16..15), v1 and v2 | `QuotesNotFromFuture`, `EmaSpan`, `CumulativeBounded`, `CumulativeTelescopes` over every order of publishing, refreshing, aggregating and failing |
| `price_admin` | one publisher at a time, 3 slots, 3 administrative instructions anywhere | `TypeOK`, `SlotOrder`, `NoV1MessageUnderV2`, `SentMessageIsCurrent`, `MessageChain` through regime changes and re-initialisation |
| `registry` | 6 addresses, 2 keys, tables of 2, 5 feed indices | `MappingsExact`, `FeedsReachable`, `FeedIndexFresh`, `TypeOK` |
| `manager_safety` | 1 product, 2 prices, 1 addition on chain, 1 connection failure, 1 error reply, websocket and polling | `CountMatches`, `OneFetchEach`, `InitMeansComplete` |
| `manager_liveness` | 1 product and 1 price added on chain, 2 slots, 2 failures, both modes | `BootstrapCompletes`, `PolledSymbolsFound`, `SchedActivated` |
| `batch` | 3 prices, batches of 2, 2 slots, 1 failure or change of rights, RPC and pyth_tx | `BatchesExact`, `SentSlotsIncrease`, `UnackedBounded` |
| `algorithms` | lists of up to 4 quotes out of 6, width −16..15, network of 2; 6 publishers, capacity 5, unsorted lists of up to 4; mantissas below 2684 with 4 digits and exponents ±16; 4 EMA updates; 3 accounts of 3 publishers; texts of 4 bytes, 8 lexemes, 3 attributes; 3 keys in 2 buckets; lists of 3; batches of 1 to 15 | `SortsStably`, `PriceModelSound`, `Monotone` (raising one quote lowers no result), `ListImplementsSet` (refinement), `ArithmeticSound`, `ConversionsInvert`, `ContainersSound`, `TxSound` |
| `admin` | 7 key pairs, tables of 1, 2 commands out of 9, 2 faults, 5 starting states | `CommandsSound`, `Returns` |
| `transport` | a peer's script of 7 frames received in pieces of up to 3 bytes, 2 messages out in buffers of 8, 1 break; 3 requests, 1 null id, 1 reset; 2 leaders, schedules of 5 slots, 10 slots, 1 client | `StreamSound`, `InOrder` (refinement), `RepliesRight`, `LeadersKnown` |
| `pythd` | 2 users, 1 price, messages of 2 requests, 2 subscriptions, 3 updates, two managers; 3 prices in an interval of 4; a timeout of 3, pauses up to 5, 3 changes of the host | `UsersServed`, `IntervalComplete`, `AskedForEver`, `ConnectionKept` |
| `manager_rpc_error`, `batch_end` | small | violations, section 6 |

Several properties are conjunctions of named parts that say one thing each of one
component:

- `FeedsReachable`: `PriceLists` (a product's list is a chain without cycles, of its
  own prices) and `WalkFindsEveryFeed` (mapping → product → price reaches every feed).
- `PriceModelSound`: `QuartileRanks`, `MedianRobust`, `ConfidencePositive`,
  `ConfidenceExact`.
- `ListImplementsSet`: `ImplementsSet` (`PublisherList` refines `PublisherSet`) and
  `StaysSorted`.
- `ArithmeticSound`: `DecimalExact` and `DecimalStores` (no overflow, no loss beyond the
  last digits), `EmaWithinPrices` (an average stays within the prices it averages),
  `CapsShareOut` (the stake caps share out no more than `m` a symbol).
- `ConversionsInvert`: `Base58RoundTrip`, `Base64RoundTrip`, `NumbersRoundTrip`,
  `DecimalTextTruncates`, `AttrsRoundTrip`.
- `ContainersSound`: `OneComponentEach`, `FindsExactly`, `HashMapIsMap`,
  `ListIsSequence`, `JsonFindsMembers`.
- `TxSound`: `TxWellFormed` (the indices and header counts name the accounts meant),
  `FitsBuffer` (up to 13 prices fit the buffer).
- `CommandsSound`: `CreateBeforeRegister`, `KeysKept`, `SuccessMeansProcessed`,
  `OnePricePerType`.
- `StreamSound`: `NothingHeldBack`, `FramesReadable`.
- `RepliesRight`: `RightReply`, `Outstanding`, `SubscriptionsLive`.
- `LeadersKnown`: `LeaderReached`, `ScheduleCovers`, `WaitedForComes`.
- `UsersServed`: `SubscribersOpen`, `AnnouncedFirst`, `LastNoteCurrent`, `ToldIsKnown`.
- `IntervalComplete`: `EachAsked`, `NoneOverdue`.
- `ConnectionKept`: `CallbacksAlternate`, `SpacedOut`, `Recovers` (liveness).

Why the bounds are enough to be interesting. Three slots hold a success, a failure
and a success, the shortest history in which `prev_slot_`, `valid_slot_` and
`last_slot_` all differ; three administrative steps hold v1→v2→v1 plus a
re-initialisation. Four quotes give twelve points, odd and even counts, and merges
on both sides of the network. Five components make heaps of three levels and chains
of several swaps. Tables of two fill up, and deleting the first entry moves the
last. A failure at any point of a fetch meets every state of an account. Three
prices and batches of two give full, partial and skipped batches. Three keys in two
buckets collide, and a deleted node is used for another bucket. Two commands and two
faults hold a kill between the two transactions of the first command, the second
command run on what it left, and one more fault there; tables of one make
`add_product` add a mapping account. The script of frames has fragments with control
frames between them, long and short headers and empty payloads, and pieces of three
bytes cut every header. Three requests reuse an id while another is open. Ten slots
are two schedules and a half. Two users can share a price, leave and come back at
the same address. Three prices with an order of hashes other than their order of
arrival enter before, at and behind the index.

Symmetry is used where publishers, addresses or prices are interchangeable and only
in runs without liveness.

Deadlock is not checked where the bounds end the behaviour (slots, additions,
commands, failures, or the input of an algorithm run out), nor in `manager_safety`,
where the manager stops after an error.

**Fairness**, all weak:

- `Manager`: `poll` is called for ever and runs all its parts, timeouts pass,
  connecting ends one way or the other, and a validator whose connection stays up
  answers.
- `PriceSched` and `Reconnect`: `poll` is called for ever and the clock advances; in
  `Reconnect` a host that stays up accepts.
- `AdminTool`: the tool polls, the validator answers, and the chain takes a
  transaction that is not dropped; `Returns` is stated for behaviours without a fault
  (the tool has no timeout, section 6).

Nothing is assumed of users, of what others do on the chain, or of failures except
that their number is bounded, which is what "once connections stop failing" means.
The on-chain modules, `PriceBatch`, `NetConnect`, `RpcClient`, `TxSvr` and `Users`
have no liveness property: a transaction, a request or a message happens when
somebody sends it.

## 5. Proofs

The theorems hold for every value of the constants that the named assumptions allow:
any number of publishers, addresses, prices, users, requests, slots and failures. TLC
evaluates each assumption in the runs. `tlapm` proves all of the about 15,500 obligations
with SMT, Zenon and LS4.

| module | theorem | statement |
|---|---|---|
| `PriceAccountProofs` | `TypeCorrect` | `Spec => []TypeOK` |
|  | `SlotsInOrder` | `Spec => []SlotOrder` |
|  | `NoFutureQuote` | `Spec => []QuotesNotFromFuture` |
|  | `EmaDecaysOnce` | `Spec => []EmaSpan` |
|  | `CumulativeWithinBounds` | `Spec => []CumulativeBounded` |
|  | `BufferClearUnderV2` | `Spec => []NoV1MessageUnderV2` |
|  | `SentIsCurrent` | `Spec => []SentMessageIsCurrent` |
|  | `GapsTelescope` | `Spec => CumulativeTelescopes` |
|  | `MessagesChain` | `Spec => MessageChain` |
|  | `ComponentsKept` | `ListSpec => []ListInv` |
|  | `SearchExact` | `ListSpec => [](OneComponentEach /\ FindsExactly)` |
|  | `BinarySearchSuffices` | `ListSpec => []BinarySuffices` |
|  | `ArrayImplementsSet` | `ListSpec => ListImplementsSet` |
| `AccountRegistryProofs` | `TypeCorrect` | `Spec => []TypeOK` |
|  | `TablesExact` | `Spec => []MappingsExact` |
|  | `FeedIndicesFresh` | `Spec => FeedIndexFresh` |
|  | `FeedsAlwaysReachable` | `Spec => []FeedsReachable` |
| `ManagerProofs` | `Invariance` | `Spec => []IInv` |
|  | `CountExact` | `Spec => []CountMatches` |
|  | `FetchedOnce` | `Spec => []OneFetchEach` |
|  | `InitOnlyWhenComplete` | `Spec => InitMeansComplete` |
| `PriceBatchProofs` | `UnackedStaysBounded` | `Spec => []UnackedBounded` |
|  | `BatchesAreExact` | `Spec => BatchesExact` |
|  | `SentSlotsAlwaysIncrease` | `Spec => SentSlotsIncrease` |
| `TransportProofs` | `ScheduleKept` | `TransportSpec => []TxInv` |
|  | `LeadersAlwaysKnown` | `TransportSpec => []LeadersKnown` |
|  | `TablesKept` | `TransportSpec => []RpcInv` |
|  | `RepliesAlwaysRight` | `TransportSpec => [](nulls <= 1 => RepliesRight)` |
|  | `BytesKept` | `TransportSpec => [](InInv /\ OutInv)` |
|  | `StreamAlwaysSound` | `TransportSpec => []StreamSound` |
|  | `ImplementsChannel` | `TransportSpec => InOrder` |
| `AdminToolProofs` | `Invariance` | `Spec => []IInv` |
|  | `CommandsAlwaysSound` | `Spec => []CommandsSound` |
| `PythdProofs` | `ScheduleKept` | `PythdSpec => []SchedInv` |
|  | `IntervalsComplete` | `PythdSpec => []IntervalComplete` |
|  | `CallbacksInTurn` | `PythdSpec => []Conn!CallbacksAlternate` |
|  | `UsersKept` | `PythdSpec => []UsersInv` |
|  | `UsersAlwaysServed` | `PythdSpec => []UsersServed` |

### The price account

Assumptions: `ConstantsAssumption` (the constants' types), `PriceModelAssumption`
(the model returns 64-bit integers for quotes that fit) and `I64Assumption`. TLC
evaluates them in the runs of `MCPriceAccount`.

The argument. The inductive invariant `IInv` is types and `Sound` of the account
with the clock, and `MsgInv` of the account with the buffer.

- `Sound` joins `SlotsOrdered`, `QuotesUpTo`, the EMA span and `SumsBounded`. They
  are proved together because they need each other: the slot gap is
  `s - prev_slot_`, non-negative and equal to the advance of `last_slot_` only by
  `SlotsOrdered`, and `EmaSpan` and `CumulativeTelescopes` follow from that.
- `MsgInv` says more than the two message invariants. `NoV1MessageUnderV2` is not
  inductive: one must know that `MESSAGE_BUFFER_CLEARED` is only set together with
  `ACCUMULATOR_V2` (so that enabling v2 anew does not find it set), and
  `SentMessageIsCurrent`, which speaks of v1 only, must be kept for the buffer's
  message in *both* regimes, because an account may go to v2 and come back.
- `UpdateAggregateSound` and `UpdateAggregateContinues` are the lemmas about the
  refresh: it keeps `Sound`, and the message it leaves continues the one before.
  Every action is then a composition of the refresh, the CPI (`AfterPutAllSound`,
  `PutAllMsg`) and the write (`WriteLatestSound`), or changes fields none of this
  speaks of (`SoundFrame`, `MsgInvFrame`).
- The action properties follow from `IInv` and the step lemmas (`Continues`).

### The component array

Assumption: `ListAssumption` (keys are numbers, `Capacity`, the code's `PC_NUM_COMP`, is one,
and a list from before the sorting fits), evaluated in the run of `MCAlgorithms`.

- `ListInv`: publishers are distinct, and what is behind the list is zeroed. It is inductive
  only with what the sort does: a component lost or doubled by it would break it.
- `heapsort`. While `sift_down` runs, the heap is in order but at `node`, and the parent of
  `node` is not less than its children (`SiftInv`); without the second part a swap could
  unsettle the place above. `node` grows, so the loop ends with the heap in order
  (`SiftDownIs`, `BuildIs`). Each pop then adds the largest element to a sorted tail that no
  element of the heap exceeds (`Popped`, `PopIs`, `HeapsortIs`). Every array on the way is
  the first one in another order (`Shuffled`).
- `sort_price_comps`. After `i` iterations the first `i` components are the `i` smallest, and
  every other one is where the swaps lead from where it was taken (`PlaceInv`, `Path`).
  Iteration `i` makes the paths that ended at `i` one step longer (`PathGoesOn`), so a path
  has at most `i` steps and the loop that follows it ends (`FollowIs`).
- The searches. What the binary search finds is right in any order of the list
  (`BinarySearchSound`), so with the linear search behind it `find_publisher_index` is exact.
  In a sorted list the range always holds the publisher's place and shrinks with every turn
  (`BinarySearchFinds`), so the linear search is never needed for a listed publisher.
- The refinement maps the array to `QuoteOf`, the quotes by publisher: reordering distinct
  publishers leaves it as it is (`QuoteOfShuffled`), and each instruction changes it as
  `PublisherSet` says (`AddedIs`, `DeletedIs`, `WrittenIs`).

### The registry

Assumption: `RegistryAssumption` (the addresses are finitely many, as those of a ledger
are, and `Null` is none of them). `IInv` adds three things to `TypeOK` and
`MappingsExact`. `ZeroElsewhere`: an address that was deleted starts again with empty
fields, so a product made on it has no prices of an earlier one. `CounterAhead`: all that
was issued is below the counter, which gives `FeedIndicesFresh`. `NewestFirst`: a
product's list is in descending order of feed index. The last is not in the code: it is
why `del_price` may check the head of the list only, and it is what makes the chain free
of cycles and the walk along it end. `FeedsAlwaysReachable` shows that the walk meets
every live price by taking, among those it would miss, one with the largest index.

### The manager's bootstrap

Assumption: `ManagerAssumption` (mapping, products and prices are disjoint and finitely
many). `CountMatches` speaks of a connected client and is not inductive; `CountAlways`
keeps the count through the time without a connection. `OneFetchEach` needs to know what
each stage of an account excludes (`Stages`), that nothing is on its way on a new
connection (`Quiet`), that on a working one nothing is lost (`NoneLost`), and that an
error of anything but a price stops the client (`Errors`). Requests and replies are
sequences; the counting of `InFlight` is reduced to "asked for or answered, once".

### Sending prices

Assumption: `BatchAssumption` (a batch holds at least one price, and trimming forgets at
least one transaction and no more than there are). `BatchesAreExact` is an induction over
the list `price::send` is called with: after each turn the transactions and `upds_`
together are the prices so far that can be published, all transactions but the last are
full, and `upds_` is not. For `SentSlotsIncrease`, `QueueAhead` (what is queued is newer than what was sent, and may be
sent in this slot) rests on `QueueOnce` and, over reconnections, on `SlotsBehind` and
`HashKnown`.

### Requests and transactions

Assumption: `ScheduleAssumption` (a schedule is asked for before it ends, and the answer
comes in time); the cluster's schedule is the constant operator `Leader`. `TxInv`: the
window `lvec_` is the cluster's schedule from `lslot_` on (`ScheduleTrue`), and a schedule
on its way was asked for early enough (`FetchTimely`); `LeaderReached` and
`WaitedForComes` are part of it. `RpcInv`: the free ids, the ids on their way and the next
id share nothing (`IdsOk`); the requests that wait are those whose messages are on their
way, and the table of subscriptions is the node's. All this is true up to the second
reply with a null id and false after it (section 6), hence the bound in the statement.

### The bytes of a connection

Assumptions: `NetAssumption` (a frame's header fits a buffer, `recv` takes at least a
byte, the status line is a part of the handshake reply) and `ScriptAssumption` (the node
keeps to the websocket protocol: a message begins with a text frame, continuations follow
it, control frames come anywhere). Frames, messages and buffers have any sizes, `recv` and
`send` cut the bytes anywhere, and connections break any number of times. What the frames
mean is defined apart from the parser (`Meant`, `Messages`).

Neither `NothingHeldBack` nor the refinement is inductive: they speak of what was
delivered when everything was read, and say nothing of the bytes in between.

- `InInv` is about the bytes that come in. What is left in `rdr_` followed by `inwire` is
  the stream of the frames after the last one taken, up to the last one sent, whole
  frames but for nothing (`Ahead_`, `Done`); `delivered` and `msg_` are what the frames
  taken so far mean, with the frames left by the connection before (`Assembled`, `Kept`);
  and outside the loop of `poll_recv` the parser has no whole frame in front of it
  (`Exhausted`). The last part is what `NothingHeldBack` needs: with nothing on its way,
  bytes that do not begin with a whole frame can only be none.
- A frame the parser finds complete is the next one of the stream (`FrameAhead`), taking
  it leaves the stream of the ones after it (`FrameConsumed`), and what it adds to
  `delivered` and `msg_` is what it adds to the meaning (`OnFrameIs`, `KeptStep`). For the
  refinement (`StepOnChannel`), a step that takes the last frame of a message is a
  delivery, and every other one leaves the channel as it is.
- `OutInv` is about the bytes that go out: every buffer is a piece of a frame, the pieces
  are chained up to the last message written (`Chained`, `Linked`), and the first byte not
  yet sent follows the last one sent (`Continued`). `FrameIs` is the lemma about
  `ws_wtr::commit`: however a message is cut into buffers, and whether or not the header
  was copied into the first of them, the buffers together are the header and the payload,
  each byte with its own byte of the mask.

### The administration tool

Assumption: `AdminAssumption` (addresses are `1 .. n` in the order they are generated;
what the command lines may be). `CommandsSound` has four parts and needs eleven: an
account's registration is sent once in its life (`SentOnce`), what the command has sent
is processed but for what it waits for (`MineProcessed`), what it has still to send
belongs to the account it generated last (`Calls`), the client's view is an earlier state
of the accounts, which only grow (`Accounts`), and as long as every `add_price` returned
0 a product without a price is known to have none (`Prices`). `MVec` is defined as the
least set that holds the mapping account and what `next` leads to, so that no path needs
to be followed.

### pythd

Assumptions: `SchedAssumption` (hashes are below `fraction`; `Hash` is a constant
operator), `UsersAssumption`.

- `SchedInv`: `kvec_` stays sorted by hash, and a price of the running interval that was
  not asked for is at a place past `kidx_`. An entry only moves prices to higher places, so
  one may be asked for twice but none is passed over. `NoneOverdue` follows since `Due` grows with the hash (`DueMonotone`).
- `UsersInv` adds to the parts of `UsersServed` that the ids of all subscriptions of an
  open user were announced (`Announced`), which is why a later notification needs no
  deferring, and that a price told of is known to one of the managers and stays so
  (`ToldAreKnown`). The requests of a message are an induction over the message
  (`Parsed`): subscriptions to a price, and no others, are deferred.
- `CallbacksInTurn` is the part of `ConnectionKept` that is an invariant and within reach:
  `SpacedOut` has powers of two, of which the provers know nothing, and `Recovers` is
  liveness.

### Induction over data

The theorems of the library that take an operator cannot be used with the provers at
hand. `BoundedInduction` has what replaces them: a nonempty set of numbers has a least
element (`Least`), a set that holds 0 and with `n` also `n + 1` holds all numbers up to a
bound (`UpTo`), and a function defined from its own values below exists (`LoopDefined`).
Loops in the code are written as recursive functions over their turns, to which these
apply.

### Only model-checked

- Liveness: `BootstrapCompletes`, `PolledSymbolsFound`, `SchedActivated`, `AskedForEver`,
  `Recovers`, `Returns`. The prover does not handle fairness.
- The other properties of `MCAlgorithms`: the stable sort, the pricing model, decimals, conversions and containers are
  recursive operators over data, which would have to be written anew as functions.
- `SpacedOut`, because of its powers of two.

## 6. Findings

With a run that exhibits them:

1. `manager_rpc_error` – an error reply for a price account is neither discounted
   nor an error of the manager: `bootstrap()`, "poll server until fully initialized
   or in error" (`manager.hpp:166`), polls for ever.
2. `batch_end` – `price::send` skips a price that cannot be published before it
   tests for the end of the list, so a partial batch is dropped when the last price
   is skipped, against the comment at `request.cpp:796`.

Seen while modelling, without a run:

*The program*

- `init_price` resets the slots and keeps the cumulative sums, so the next success
  counts down slots from slot 0 again (`init_price.rs:65`), where
  `accounts/price.rs:173` says `num_down_slots <= current_slot`.
- Clearing the buffer under v2 sets `message_sent_` (`upd_price.rs:274`), so an
  account that returns to v1 owes no message for an aggregate no message holds, where
  `upd_price.rs:195` says the next publisher with the accounts sends it. The next
  aggregate mends it.
- The comment on `compute_publisher_stake_caps` divides by
  `min(z, number_of_publishers)` (`validator.rs:157`); the code divides by the larger
  (`:168`), as its parameter's description says.
- `data_curation_authority` is authorised for no command (`permission.rs:33`
  describes it, `is_authorized` at `:50` does not use it); the model has it so.
- With prices near the ends of the 64-bit range and of both signs,
  `agg_p75 - agg_price` overflows (`upd_aggregate.h:195`, `:199`);
  `ConfidenceExact` is stated for positive prices.

*The client*

- `price::reset` does not reset the error of its request object, so after one error
  reply the bootstrap of later connections does not complete either
  (`request.cpp:639`). `Manager` keeps this in `rpc_err`.
- `reconnect_rpc` drops pending `price_sched` requests while `isched_` stays set, so
  nobody submits them again (`manager.cpp:678`, `request.hpp:289`). `SchedActivated`
  is stated for a connection that does not fail any more.
- A getProgramAccounts request in flight when the connection breaks is never sent
  again, which ends polling (`manager.cpp:594`). `PolledSymbolsFound` is stated for
  no failure.
- A notification that overtakes the first HTTP reply of its account is dropped
  (`request.cpp:904`); with websockets a symbol added at that moment is found at the
  next change of the account only.
- `slot_` goes back to 0 on reconnection, so `add_dirty_price` may queue a price
  again in a slot it was sent in, and quotes may be stamped slot 0
  (`manager.cpp:1045`). `SentSlotsIncrease` is stated per connection.
- A flush sends all of the queue, more than one complete batch (`manager.hpp:245`
  speaks of one); only the last price of a batch records the transaction in `tvec_`
  (`request.cpp:818`); `inc_sent` counts skipped prices too (`pub_stats.hpp:15`).
- A price that enters the schedule before the index is not asked for in that interval,
  and another one is asked for twice (`manager.cpp:635`); `EachAsked` speaks of the
  prices an interval began with.
- `subscribe_price` only looks in the primary manager (`user.cpp`), so a price only
  the secondary one has takes updates and no subscription. In no-wait mode (`-n`)
  users whose connection failed are not torn down (`manager.cpp:561`, `tx_svr.cpp:150`).
- Two replies with `"id":null` put id 0 on the free list twice (`rpc_client.cpp:260`),
  after which two requests share it; `RpcClient` is checked with one.
- The fragments of an unfinished message stay in the parser (`ws_parser::msg_`) when
  the connection is made again (`net_socket.cpp:1365`, `:509`) and begin the next
  fragmented message. `InOrder` says so in its mapping.
- A handshake reply cut after its status line makes the parser lose its place
  (`net_socket.cpp:1211`); `NetConnect` stops there (`np_` is `lost`).
- A socket is leaked when the host does not resolve (`net_socket.cpp:645`);
  `net_wtr::add(net_wtr&)` counts a single buffer's size again (`:154`), which nothing
  depends on; `http_server::parse` pushes headers again when a request comes in pieces.
- A transaction of more than 13 prices overruns `net_buf` (1270 bytes,
  `rpc_client.cpp:1034`); `PC_MAX_BATCH` is 8, but `pythd -b` is not bounded
  (`pythd.cpp:127`).
- An attribute of 128 bytes or more has a negative length char (`attr_id.cpp:66`);
  the smallest 64-bit integer is not printed correctly (`misc.cpp:143`).

*pyth_tx*

- Below slot 224 no leaders are asked for; a node that is behind after a reconnection
  leaves a schedule that does not hold its slot (`ScheduleCovers` excepts it); while
  disconnected, transactions go to the leaders last known; with none known they are
  dropped (`tx_svr.cpp:208`). Any error reply ends the program. A client of another
  protocol is torn down twice (`tx_svr.cpp:33`, `net_socket.cpp:277`).

*pyth_admin*

- A failed `init_mapping` leaves its key file, and every later command fails on it
  (`admin_request.cpp:227`). With only the public mapping key it makes a second
  mapping.
- A lost connection or a dropped transaction leaves the tool waiting for ever.
- The notification of a transaction that failed on chain counts as success
  (`admin_rpc_client.cpp:241` does not look at `result.err`): exit status 0 means
  processed, not accepted.
- A command run again after a kill can leave orphan accounts, or two prices of one
  type, because the transactions of the first run may still be on their way.
  `add_product` right after `add_mapping` can fail with a full table, because the
  client has not seen the new one (`pyth_admin.cpp:232`).
- Its instructions carry two or three accounts where the Rust program expects the
  permissions account too, and `AddMapping` is no instruction of the Rust program.

## 7. Limits

Abstractions inside the modelled parts: the value of the EMAs in `PriceAccount`;
widths are parameters where TLC could not enumerate 64 bits; overflow of C signed
integers is wrapping, as the build produces; an account whose lamports are gone is
reclaimed at once (nothing revives it later in the same transaction); one price chain
per product and one mapping account in `Manager`; the client does not see deletions;
in `Manager` and `PriceBatch` a message is what it says, its JSON, framing and ids
being other modules' matter; `RpcClient` assumes that the multimap of requests does
not rehash while a response is dispatched (`rpc_client.cpp:254`); `AdminTool` has one
price type and one publisher; `TxSvr` has no heartbeats and its clients speak the
protocol; `NetConnect` has the client's websocket only.

Not modelled: capture, replay and CSV, logging, the dashboard and `pyth.cpp` (they
read and print); cryptography and file permissions; the HTTP server's static files and
listening sockets; scanning of JSON characters and the JSON writer; argument parsing;
`price::update` (the one-price C++ call) and the publishing statistics; `pd_sqrt`
(used by tests only); and the program's own walk over product metadata.
