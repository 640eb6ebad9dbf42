------------------------------- MODULE Manager -------------------------------
(***************************************************************************)
(* The client's manager: it keeps an HTTP connection and (optionally) a    *)
(* websocket connection to a validator, fetches the mapping account, the   *)
(* products it lists and the chain of price accounts of each product, and  *)
(* counts the fetches that are still to complete.  After a connection      *)
(* error it reconnects and fetches everything again.                       *)
(*                                                                         *)
(* manager::poll runs its parts (socket events, pending requests, the slot *)
(* request, reconnection) one after the other; a part is one action here,  *)
(* and a part that loops is one action per turn.  The validator answers    *)
(* HTTP requests in order, with what the accounts hold when it answers;    *)
(* notifications travel on the other connection, so the two may overtake   *)
(* each other.                                                             *)
(*                                                                         *)
(* An account is the set of accounts it refers to: the products of the     *)
(* mapping, the first price of a product, the next price of a price.       *)
(***************************************************************************)
EXTENDS Naturals, Integers, Sequences, SequencesExt, FiniteSets

CONSTANTS
    Root, Products, Prices,  \* addresses: the mapping, product and price accounts
    InitRefs,                \* what the accounts refer to at the start
    WsModes,                 \* values of do_ws_: subscribe by websocket, or poll
    PC_BLOCKHASH_TIMEOUT,    \* 3 in the code
    MaxSlot,                 \* bound: slots the validator goes through
    MaxChanges,              \* bound: products and prices added on chain
    MaxFailures,             \* bound: connection errors
    MaxRpcErrors             \* bound: error replies

Accts == {Root} \union Products \union Prices

ASSUME ManagerAssumption ==
    /\ Root \notin Products \union Prices /\ Products \intersect Prices = {}
    /\ IsFiniteSet(Products) /\ IsFiniteSet(Prices)
    /\ InitRefs \in [Accts -> SUBSET Accts]

VARIABLES
    do_ws_,
    \* the chain and the validator
    cslot, refs, changes,
    \* the connections
    hconn, wconn, failures,
    hreq, hresp,     \* HTTP requests and replies on their way
    wsub, wsq,       \* the program subscription, and notifications on their way
    rpcErrors,
    \* the manager
    status_, is_err, slot_, slot_cnt_, num_sub_,
    sreq_recv,       \* sreq_->get_is_recv()
    areq_recv,       \* areq_->get_is_recv()
    plist_, kvec_,
    \* its mapping, product and price objects
    st_, is_recv,
    rpc_err,         \* accounts whose own rpc request holds an error
    isched_

chainVars == <<do_ws_, cslot, refs, changes>>
linkVars == <<hconn, wconn, failures>>
httpVars == <<hreq, hresp, rpcErrors>>
wsVars == <<wsub, wsq>>
slotVars == <<slot_, slot_cnt_, sreq_recv>>
objVars == <<st_, is_recv, rpc_err>>
schedVars == <<isched_, kvec_>>
vars == <<chainVars, linkVars, httpVars, wsVars, status_, is_err, slotVars, num_sub_,
          areq_recv, plist_, objVars, schedVars>>

Known == {a \in Accts : st_[a] # "none"}

Ready == {"RPC_CONNECTED", "HAS_BLOCK_HASH"}

SlotReq == <<"slot">>
HashReq == <<"hash">>
AllReq == <<"all">>
AcctReq(a) == <<"acct", a>>
Sched(a) == <<"sched", a>>
Get(a) == <<"get", a>>

\* add_send: what is written to a broken connection is lost.
SendHttp(req) == hreq' = IF hconn = "up" THEN Append(hreq, req) ELSE hreq

-----------------------------------------------------------------------------
(* The chain and the validator *)

NextSlot ==
    /\ cslot < MaxSlot
    /\ cslot' = cslot + 1
    /\ UNCHANGED <<do_ws_, refs, changes, linkVars, httpVars, wsVars, status_, is_err, slotVars,
                   num_sub_, areq_recv, plist_, objVars, schedVars>>

Notify(accts) ==
    wsq' = IF wsub = "on"
           THEN wsq \o [i \in 1 .. Len(accts) |-> [acct |-> accts[i], refs |-> refs']]
           ELSE wsq

\* add_product on chain.
ChainAddProduct(p) ==
    /\ changes < MaxChanges
    /\ p \notin refs[Root]
    /\ refs' = [refs EXCEPT ![Root] = @ \union {p}]
    /\ changes' = changes + 1
    /\ Notify(<<Root, p>>)
    /\ UNCHANGED <<do_ws_, cslot, linkVars, httpVars, wsub, status_, is_err, slotVars, num_sub_,
                   areq_recv, plist_, objVars, schedVars>>

\* add_price on chain: the new account becomes the head of the list.
ChainAddPrice(p, a) ==
    /\ changes < MaxChanges
    /\ p \in refs[Root]
    /\ \A b \in Accts : a \notin refs[b]
    /\ refs' = [refs EXCEPT ![p] = {a}, ![a] = refs[p]]
    /\ changes' = changes + 1
    /\ Notify(<<a, p>>)
    /\ UNCHANGED <<do_ws_, cslot, linkVars, httpVars, wsub, status_, is_err, slotVars, num_sub_,
                   areq_recv, plist_, objVars, schedVars>>

\* The validator answers the oldest request, possibly with an error.
Answer(ok) ==
    /\ hconn = "up"
    /\ hreq # <<>>
    /\ ok \/ rpcErrors < MaxRpcErrors
    /\ rpcErrors' = IF ok THEN rpcErrors ELSE rpcErrors + 1
    /\ hresp' = Append(hresp, [req |-> Head(hreq), ok |-> ok, slot |-> cslot, refs |-> refs])
    /\ hreq' = Tail(hreq)
    /\ UNCHANGED <<chainVars, linkVars, wsVars, status_, is_err, slotVars, num_sub_,
                   areq_recv, plist_, objVars, schedVars>>

\* The validator gets the programSubscribe request.
Subscribe ==
    /\ wsub = "sent"
    /\ wsub' = "on"
    /\ UNCHANGED <<chainVars, linkVars, httpVars, wsq, status_, is_err, slotVars, num_sub_,
                   areq_recv, plist_, objVars, schedVars>>

-----------------------------------------------------------------------------
(* Connections *)

Connected(l) ==
    /\ \/ l = "http" /\ hconn = "wait" /\ hconn' = "up" /\ UNCHANGED wconn
       \/ l = "ws" /\ wconn = "wait" /\ wconn' = "up" /\ UNCHANGED hconn
    /\ UNCHANGED <<chainVars, failures, httpVars, wsVars, status_, is_err, slotVars, num_sub_,
                   areq_recv, plist_, objVars, schedVars>>

\* poll_error, or a connect or handshake that fails; teardown drops the buffers.
Fails(l) ==
    /\ failures < MaxFailures
    /\ failures' = failures + 1
    /\ \/ /\ l = "http" /\ hconn # "err"
          /\ hconn' = "err" /\ hreq' = <<>> /\ hresp' = <<>>
          /\ UNCHANGED <<wconn, wsVars>>
       \/ /\ l = "ws" /\ do_ws_ /\ wconn # "err"
          /\ wconn' = "err" /\ wsub' = "none" /\ wsq' = <<>>
          /\ UNCHANGED <<hconn, hreq, hresp>>
    /\ UNCHANGED <<chainVars, rpcErrors, status_, is_err, slotVars, num_sub_, areq_recv,
                   plist_, objVars, schedVars>>

IsWait == hconn = "wait" \/ wconn = "wait"
IsBroken == hconn = "err" \/ wconn = "err"

\* reconnect_rpc with a broken connection: forget the status and, once the
\* timeout has passed (elapsed), open both connections again.
Disconnected(elapsed) ==
    /\ ~ is_err
    /\ ~ IsWait /\ IsBroken
    /\ status_' = {}
    /\ IF elapsed
         THEN /\ hconn' = "wait" /\ hreq' = <<>> /\ hresp' = <<>>
              /\ wconn' = IF do_ws_ THEN "wait" ELSE wconn
              /\ wsub' = "none" /\ wsq' = <<>>
         ELSE UNCHANGED <<hconn, wconn, hreq, hresp, wsVars>>
    /\ UNCHANGED <<chainVars, failures, rpcErrors, is_err, slotVars, num_sub_, areq_recv,
                   plist_, objVars, schedVars>>

\* The accounts reconnect_rpc fetches again: all it knows, or the mapping
\* account the first time.
Again == IF Known = {} THEN {Root} ELSE Known

\* get_mapping::reset, product::reset and price::reset: the price's own error
\* is reset, not that of its request.
ResetObjects(S) ==
    /\ st_' = [a \in Accts |-> IF a \in S THEN "subscribe" ELSE st_[a]]
    /\ is_recv' = {}

\* Mutant: the price accounts are not fetched again.
ReconnectedWithoutPrices ==
    /\ ~ is_err
    /\ ~ IsWait /\ ~ IsBroken
    /\ "RPC_CONNECTED" \notin status_
    /\ status_' = status_ \union {"RPC_CONNECTED"}
    /\ slot_' = 0 /\ slot_cnt_' = 0
    /\ SendHttp(SlotReq) /\ sreq_recv' = FALSE
    /\ wsub' = IF do_ws_ THEN "sent" ELSE wsub
    /\ ResetObjects(Again)
    /\ plist_' = {Get(a) : a \in Again \ Prices}
    /\ num_sub_' = Cardinality(Again)
    /\ UNCHANGED <<chainVars, linkVars, hresp, rpcErrors, wsq, is_err, areq_recv, rpc_err, schedVars>>

\* reconnect_rpc once both connections are up.  Every pending request is
\* dropped, price_sched requests too; the mapping, product and price objects
\* are reset and submitted again.  clnt_.reset() forgets the requests that
\* were waiting for an answer.
Reconnected ==
    /\ ~ is_err
    /\ ~ IsWait /\ ~ IsBroken
    /\ "RPC_CONNECTED" \notin status_
    /\ status_' = status_ \union {"RPC_CONNECTED"}
    /\ slot_' = 0 /\ slot_cnt_' = 0
    /\ SendHttp(SlotReq) /\ sreq_recv' = FALSE
    /\ wsub' = IF do_ws_ THEN "sent" ELSE wsub
    /\ ResetObjects(Again)
    /\ plist_' = {Get(a) : a \in Again}
    /\ num_sub_' = Cardinality(Again)
    /\ UNCHANGED <<chainVars, linkVars, hresp, rpcErrors, wsq, is_err, areq_recv, rpc_err, schedVars>>

-----------------------------------------------------------------------------
(* poll: pending requests, the slot request, polling for accounts *)

\* A pending request that is ready is taken off the list and submitted.
TakePending(req) ==
    /\ ~ is_err
    /\ req \in plist_
    /\ plist_' = plist_ \ {req}

\* get_mapping::submit and product::submit.
SubmitAccount(a) ==
    /\ TakePending(Get(a))
    /\ Ready \subseteq status_
    /\ SendHttp(AcctReq(a))
    /\ st_' = [st_ EXCEPT ![a] = "subscribe"]
    /\ UNCHANGED <<chainVars, linkVars, hresp, rpcErrors, wsVars, status_, is_err, slotVars,
                   num_sub_, areq_recv, is_recv, rpc_err, schedVars>>

\* price::submit.
SubmitPrice(a) ==
    /\ TakePending(Get(a))
    /\ Ready \subseteq status_
    /\ IF st_[a] = "subscribe"
         THEN SendHttp(AcctReq(a)) /\ st_' = [st_ EXCEPT ![a] = "sent"]
         ELSE UNCHANGED <<hreq, st_>>
    /\ UNCHANGED <<chainVars, linkVars, hresp, rpcErrors, wsVars, status_, is_err, slotVars,
                   num_sub_, areq_recv, is_recv, rpc_err, schedVars>>

\* Mutant: the request leaves the list before the mapping is known, and is lost.
SubmitSchedUnready(a) ==
    /\ TakePending(Sched(a))
    /\ Ready \subseteq status_
    /\ kvec_' = IF "HAS_MAPPING" \in status_ THEN kvec_ \union {a} ELSE kvec_
    /\ UNCHANGED <<chainVars, linkVars, httpVars, wsVars, status_, is_err, slotVars, num_sub_,
                   areq_recv, objVars, isched_>>

\* price_sched::submit puts the price in the publishing schedule.
SubmitSched(a) ==
    /\ TakePending(Sched(a))
    /\ Ready \union {"HAS_MAPPING"} \subseteq status_
    /\ kvec_' = kvec_ \union {a}
    /\ UNCHANGED <<chainVars, linkVars, httpVars, wsVars, status_, is_err, slotVars, num_sub_,
                   areq_recv, objVars, isched_>>

\* A user subscribes to the schedule of a price (price::get_sched): the
\* request is submitted the first time only.
GetSched(a) ==
    /\ ~ is_err
    /\ a \in Known \ isched_
    /\ isched_' = isched_ \union {a}
    /\ plist_' = plist_ \union {Sched(a)}
    /\ UNCHANGED <<chainVars, linkVars, httpVars, wsVars, status_, is_err, slotVars, num_sub_,
                   areq_recv, objVars, kvec_>>

\* The slot is asked for again once the last request was answered.
PollSlot ==
    /\ ~ is_err
    /\ "RPC_CONNECTED" \in status_
    /\ sreq_recv
    /\ SendHttp(SlotReq) /\ sreq_recv' = FALSE
    /\ UNCHANGED <<chainVars, linkVars, hresp, rpcErrors, wsVars, status_, is_err, slot_,
                   slot_cnt_, num_sub_, areq_recv, plist_, objVars, schedVars>>

\* Without a websocket, so are all accounts of the program.
PollAccounts ==
    /\ ~ is_err
    /\ ~ do_ws_
    /\ "RPC_CONNECTED" \in status_
    /\ areq_recv
    /\ SendHttp(AllReq) /\ areq_recv' = FALSE
    /\ UNCHANGED <<chainVars, linkVars, hresp, rpcErrors, wsVars, status_, is_err, slotVars,
                   num_sub_, plist_, objVars, schedVars>>

-----------------------------------------------------------------------------
(* Replies and notifications *)

\* Mutant: the count is reduced before the accounts found are added to it.
CompletesTooEarly(found, finished) ==
    /\ num_sub_' = num_sub_ + Cardinality(found) - Cardinality(finished)
    /\ status_' = IF finished # {} /\ num_sub_ - Cardinality(finished) <= 0
                  THEN status_ \union {"HAS_MAPPING"} ELSE status_

\* add_map_sub for every account found, then del_map_sub for those finished.
CountSubs(found, finished) ==
    /\ num_sub_' = num_sub_ + Cardinality(found) - Cardinality(finished)
    /\ status_' = IF finished # {} /\ num_sub_' <= 0
                  THEN status_ \union {"HAS_MAPPING"} ELSE status_

\* What completes the fetch of a mapping, a product and a price account.
CompletesMapping(a) == a = Root /\ st_[a] = "subscribe"

\* Mutant: a product reduces the count at every update.
CompletesProductAgain(a) == a \in Products

CompletesProduct(a) == a \in Products /\ st_[a] # "done"
CompletesPrice(a) == a \in Prices /\ st_[a] = "sent"

\* add_mapping, add_product and add_price of accounts not known before, after
\* which those finished are complete.
AddAccounts(found, finished) ==
    /\ st_' = [a \in Accts |-> IF a \in finished THEN "done"
                               ELSE IF a \in found THEN "subscribe" ELSE st_[a]]
    /\ plist_' = plist_ \union {Get(a) : a \in found}

Finished(S) == {a \in S : CompletesMapping(a) \/ CompletesProduct(a) \/ CompletesPrice(a)}

\* Mutant: an account adds the accounts it refers to only the first time.
UpdateOnce(S, data) ==
    LET found == (UNION {data[a] : a \in Finished(S)}) \ Known
    IN  AddAccounts(found, Finished(S)) /\ CountSubs(found, Finished(S))

\* get_mapping::update, product::update and price::update of the accounts in
\* S.  A mapping or product adds the accounts it refers to every time, a price
\* only when it completes its own fetch.
Update(S, data) ==
    LET found == (UNION {data[a] : a \in (S \ Prices) \union Finished(S)}) \ Known
    IN  AddAccounts(found, Finished(S)) /\ CountSubs(found, Finished(S))

\* manager::on_response( get_slot ): a block hash is asked for every so many slots.
OnSlot(m) ==
    /\ m.req = SlotReq
    /\ sreq_recv' = TRUE
    /\ IF m.ok /\ m.slot > slot_
         THEN /\ slot_' = m.slot
              /\ slot_cnt_' = (slot_cnt_ + 1) % PC_BLOCKHASH_TIMEOUT
              /\ IF slot_cnt_ = 0 THEN SendHttp(HashReq) ELSE UNCHANGED hreq
         ELSE UNCHANGED <<slot_, slot_cnt_, hreq>>
    /\ is_err' = ~ m.ok
    /\ UNCHANGED <<status_, num_sub_, areq_recv, plist_, objVars>>

OnHash(m) ==
    /\ m.req = HashReq
    /\ status_' = IF m.ok THEN status_ \union {"HAS_BLOCK_HASH"} ELSE status_
    /\ is_err' = ~ m.ok
    /\ UNCHANGED <<hreq, slotVars, num_sub_, areq_recv, plist_, objVars>>

\* The answer to getProgramAccounts is a notification for each account.
OnAll(m) ==
    /\ m.req = AllReq
    /\ areq_recv' = TRUE
    /\ is_err' = ~ m.ok
    /\ IF m.ok THEN Update(is_recv, m.refs) ELSE UNCHANGED <<st_, plist_, num_sub_, status_>>
    /\ UNCHANGED <<hreq, slotVars, is_recv, rpc_err>>

\* A get_account_info reply.  The request object keeps an error for ever
\* (nothing resets it), so rpc_err makes every later reply of that price an
\* error; a mapping or a product account's error is the manager's error.
OnAccount(a, m) ==
    /\ m.req = AcctReq(a)
    /\ is_recv' = is_recv \union {a}
    /\ rpc_err' = IF m.ok THEN rpc_err ELSE rpc_err \union {a}
    /\ IF a \notin rpc_err' THEN Update({a}, m.refs) /\ UNCHANGED is_err
       ELSE /\ st_' = [st_ EXCEPT ![a] = IF a = Root THEN @ ELSE "error"]
            /\ is_err' = (a \notin Prices)
            /\ UNCHANGED <<plist_, num_sub_, status_>>
    /\ UNCHANGED <<hreq, slotVars, areq_recv>>

\* An HTTP reply is dispatched to the request that waits for it.
PollHttp ==
    /\ ~ is_err
    /\ hresp # <<>>
    /\ hresp' = Tail(hresp)
    /\ \/ OnSlot(Head(hresp))
       \/ OnHash(Head(hresp))
       \/ OnAll(Head(hresp))
       \/ \E a \in Accts : OnAccount(a, Head(hresp))
    /\ UNCHANGED <<chainVars, linkVars, rpcErrors, wsVars, schedVars>>

\* A notification counts for accounts whose first fetch was answered.
PollWs ==
    /\ ~ is_err
    /\ wsq # <<>>
    /\ wsq' = Tail(wsq)
    /\ Update(is_recv \intersect {Head(wsq).acct}, Head(wsq).refs)
    /\ UNCHANGED <<chainVars, linkVars, httpVars, wsub, is_err, slotVars, areq_recv, is_recv,
                   rpc_err, schedVars>>

-----------------------------------------------------------------------------
\* manager::init has opened the connections.
Init ==
    /\ do_ws_ \in WsModes
    /\ cslot = 1 /\ refs = InitRefs /\ changes = 0
    /\ hconn = "wait" /\ wconn = (IF do_ws_ THEN "wait" ELSE "up") /\ failures = 0
    /\ hreq = <<>> /\ hresp = <<>> /\ rpcErrors = 0
    /\ wsub = "none" /\ wsq = <<>>
    /\ status_ = {} /\ is_err = FALSE
    /\ slot_ = 0 /\ slot_cnt_ = 0 /\ num_sub_ = 0
    /\ sreq_recv = TRUE /\ areq_recv = TRUE
    /\ plist_ = {} /\ kvec_ = {}
    /\ st_ = [a \in Accts |-> "none"] /\ is_recv = {} /\ rpc_err = {}
    /\ isched_ = {}

Validator ==
    \/ NextSlot
    \/ \E p \in Products : ChainAddProduct(p) \/ \E a \in Prices : ChainAddPrice(p, a)
    \/ Subscribe
    \/ \E ok \in BOOLEAN : Answer(ok)

Network == \E l \in {"http", "ws"} : Connected(l) \/ Fails(l)

Poll ==
    \/ \E elapsed \in BOOLEAN : Disconnected(elapsed)
    \/ Reconnected
    \/ \E a \in Accts \ Prices : SubmitAccount(a)
    \/ \E a \in Prices : SubmitPrice(a) \/ SubmitSched(a)
    \/ PollSlot \/ PollAccounts \/ PollHttp \/ PollWs

Next == Validator \/ Network \/ Poll \/ \E a \in Prices : GetSched(a)

\* poll runs for ever and runs all its parts, timeouts pass, the validator
\* answers the requests of a connection that stays up, and connecting ends.
\* Nothing is assumed of users, of the chain or of failures.
Fairness ==
    /\ WF_vars(Answer(TRUE)) /\ WF_vars(Subscribe)
    /\ WF_vars(Connected("http")) /\ WF_vars(Connected("ws"))
    /\ WF_vars(Disconnected(TRUE)) /\ WF_vars(Reconnected)
    /\ \A a \in Accts \ Prices : WF_vars(SubmitAccount(a))
    /\ \A a \in Prices : WF_vars(SubmitPrice(a)) /\ WF_vars(SubmitSched(a))
    /\ WF_vars(PollSlot) /\ WF_vars(PollAccounts) /\ WF_vars(PollHttp) /\ WF_vars(PollWs)

Spec == Init /\ [][Next]_vars /\ Fairness

-----------------------------------------------------------------------------
(* Properties *)

IsConnected == "RPC_CONNECTED" \in status_

\* num_sub_ counts exactly the accounts whose fetch is not complete, over
\* reconnections, notifications and errors: HAS_MAPPING hangs on it.
CountMatches ==
    IsConnected => num_sub_ = Cardinality({a \in Known : st_[a] # "done"})

InFlight(a) ==
    Cardinality({i \in DOMAIN hreq : hreq[i] = AcctReq(a)})
      + Cardinality({i \in DOMAIN hresp : hresp[i].req = AcctReq(a)})

\* While the client runs and its connection works, an account is pending, on
\* its way, complete or in error, and only one of these: none is forgotten by
\* a reconnection, and none is asked for twice.
OneFetchEach ==
    IsConnected /\ hconn = "up" /\ ~ is_err =>
        \A a \in Known :
            InFlight(a) + (IF Get(a) \in plist_ THEN 1 ELSE 0)
              = (IF st_[a] \in {"done", "error"} THEN 0 ELSE 1)

\* on_init is called when every account the client has heard of is complete:
\* the accounts a reply refers to are counted before its own is discounted.
InitMeansComplete ==
    [][ "HAS_MAPPING" \notin status_ /\ "HAS_MAPPING" \in status_'
        => \A a \in Accts : st_'[a] \in {"none", "done"} ]_vars

\* "on completion of (re)bootstrap of accounts following (re)connect": once
\* connections stop failing, the bootstrap completes for good.
BootstrapCompletes == <>[]("HAS_MAPPING" \in status_ \/ rpcErrors > 0)

\* "on addition of new symbols": when accounts are polled for and no reply is
\* lost, a price account on chain is found in the end.
PolledSymbolsFound ==
    \A a \in Prices :
        (\E b \in Accts : a \in refs[b]) /\ ~ do_ws_ ~> a \in Known \/ failures > 0

\* "get and activate price schedule subscription": on a connection that does
\* not fail any more, a schedule that was asked for is activated in the end.
SchedActivated ==
    \A a \in Prices :
        Sched(a) \in plist_ /\ IsConnected /\ failures = MaxFailures
            ~> a \in kvec_ \/ ~ IsConnected \/ rpcErrors > 0

\* bootstrap(): "poll server until fully initialized or in error".
InitializedOrError == <>("HAS_MAPPING" \in status_ \/ is_err)
=============================================================================
