------------------------------ MODULE AdminTool ------------------------------
(***************************************************************************)
(* pyth_admin: the commands that create and configure the accounts of the  *)
(* registry.  A command starts a client, waits until it has fetched the    *)
(* accounts, and submits requests one after the other; a request checks    *)
(* what it knows of the accounts and of the key files and then sends one   *)
(* or two transactions, each of which it waits for.  The first of two      *)
(* creates the account the second one registers.                           *)
(*                                                                         *)
(* A key is the number of the key pair generated: the file of key k holds  *)
(* the pair of account k.  A transaction is what it does (op), the account *)
(* it is about (acct) and the account it is registered with (on).  The     *)
(* program may refuse any transaction, and the network may drop it; the    *)
(* tool may be killed at any point, and commands go on after that.         *)
(***************************************************************************)
EXTENDS Naturals, Sequences, FiniteSets

CONSTANTS
    Keys,               \* key pairs, in the order in which they are generated
    Commands,           \* the command lines: [name, args]
    Starts,             \* what there is at the start: [files, mapping_key_, data, has_pkey]
    PC_MAP_TABLE_SIZE,  \* products of a mapping account: 640 in the code
    MaxCommands,        \* bound: commands run
    MaxFaults           \* bound: kills, lost connections, dropped or refused transactions

\* What an account holds.
Account ==
    [kind : {"none", "created", "mapping", "product", "price"},
     refs : SUBSET Keys, next : Keys \union {0}, pub : BOOLEAN]
NoAccount == [kind |-> "none", refs |-> {}, next |-> 0, pub |-> FALSE]

\* Accounts the program can have made: mapping accounts in a chain, with
\* products in them.
Registered(d) ==
    /\ d \in [Keys -> Account]
    /\ \A k \in Keys :
          /\ d[k].kind \in {"none", "created"} => d[k].refs = {} /\ d[k].next = 0
          /\ d[k].kind = "mapping" => \A p \in d[k].refs : d[p].kind = "product"
          /\ d[k].next # 0 =>
                d[k].kind = "mapping" /\ k < d[k].next /\ d[d[k].next].kind = "mapping"

\* The commands that name an account.
OnAccount == {"upd_product", "add_price", "init_price", "set_min_pub", "add_publisher", "del_publisher"}

\* Keys are numbered as they are generated; what there is at the start was
\* made by the program, and no product has two prices of the type.
ASSUME AdminAssumption ==
    /\ IsFiniteSet(Keys) /\ Keys = 1 .. Cardinality(Keys)
    /\ \A c \in Commands :
          /\ c.name \in OnAccount \union {"init_mapping", "add_product"}
          /\ c.args \in Seq(Keys) /\ (c.name \in OnAccount => c.args # <<>>)
    /\ \A s \in Starts :
          /\ Registered(s.data) /\ s.mapping_key_ \in Keys \union {0}
          /\ \E g \in 0 .. Cardinality(Keys) : \A k \in Keys : s.data[k] # NoAccount <=> k <= g
          /\ \A k \in Keys : s.data[k].kind = "product" => Cardinality(s.data[k].refs) <= 1

VARIABLES
    \* the key store directory
    files, mapping_key_, has_pkey, gen,
    \* the chain and the network
    data,               \* what every account holds
    net,                \* transactions on their way
    processed,          \* transactions the chain has processed, refused ones too
    \* the running command
    pc,                 \* idle, boot (bootstrap), lookup, prompt, poll (submit_poll)
    cmd, reqs,          \* its command line, and the requests still to make
    calls,              \* what the first of them has still to send ...
    st_,                \* ... and how far it is with the first of that
    view,               \* what the client knows of the accounts
    mine,               \* transactions the command has sent
    \* history
    count, faults, ended

storeVars == <<files, mapping_key_, has_pkey, gen>>
chainVars == <<data, net, processed>>
reqVars == <<reqs, calls, st_>>
vars == <<storeVars, chainVars, pc, cmd, reqVars, view, mine, count, faults, ended>>

-----------------------------------------------------------------------------
(* What the client knows *)

\* mvec_: the mapping account, and all that next leads to from there.
HoldsChain(S) == mapping_key_ \in S /\ \A k \in S : view[k].next # 0 => view[k].next \in S

MVec ==
    IF mapping_key_ = 0 THEN {}
    ELSE {m \in Keys : \A S \in SUBSET Keys : HoldsChain(S) => m \in S}

get_last_mapping == IF MVec = {} THEN 0 ELSE CHOOSE m \in MVec : view[m].next = 0
get_is_full(m) == Cardinality(view[m].refs) >= PC_MAP_TABLE_SIZE

KnownProducts == UNION {view[m].refs : m \in MVec}
KnownPrices == UNION {view[p].refs : p \in KnownProducts}

\* key_store::get_mapping_key_pair; with a public key file only there is no pair.
HasMappingPair == mapping_key_ \in files

-----------------------------------------------------------------------------
(* The requests: [ready, what submit() checks (ok), whether it generates a *)
(* key pair (creates), the calls it makes and the account they are on].    *)

Tx(op, a, on) == [op |-> op, acct |-> a, on |-> on]

get_minimum_balance_rent_exemption ==
    [ready |-> TRUE, ok |-> TRUE, creates |-> FALSE, calls |-> <<"rent">>, on |-> 0]

init_mapping ==
    [ready |-> TRUE, ok |-> has_pkey /\ ~ HasMappingPair, creates |-> TRUE,
     calls |-> <<"create", "init_mapping">>, on |-> 0]

add_mapping ==
    [ready |-> mapping_key_ # 0,
     ok |-> /\ has_pkey /\ HasMappingPair
            /\ get_is_full(get_last_mapping) /\ get_last_mapping \in files,
     creates |-> TRUE, calls |-> <<"create", "add_mapping">>, on |-> get_last_mapping]

add_product ==
    [ready |-> mapping_key_ # 0,
     ok |-> /\ has_pkey /\ HasMappingPair
            /\ ~ get_is_full(get_last_mapping) /\ get_last_mapping \in files,
     creates |-> TRUE, calls |-> <<"create", "add_product">>, on |-> get_last_mapping]

upd_product(prod_) ==
    [ready |-> mapping_key_ # 0, ok |-> has_pkey /\ prod_ \in files, creates |-> FALSE,
     calls |-> <<"upd_product">>, on |-> prod_]

\* Mutant: the price type is not looked for.
add_price_twice(prod_) ==
    [ready |-> mapping_key_ # 0, ok |-> has_pkey /\ prod_ \in files,
     creates |-> TRUE, calls |-> <<"create", "add_price">>, on |-> prod_]

\* There is one price type, so a product that has a price has this one.
add_price(prod_) ==
    [ready |-> mapping_key_ # 0, ok |-> has_pkey /\ view[prod_].refs = {} /\ prod_ \in files,
     creates |-> TRUE, calls |-> <<"create", "add_price">>, on |-> prod_]

init_price(price_) ==
    [ready |-> mapping_key_ # 0, ok |-> has_pkey /\ price_ \in files, creates |-> FALSE,
     calls |-> <<"init_price">>, on |-> price_]

set_min_pub_req(price_) ==
    [ready |-> mapping_key_ # 0, ok |-> has_pkey /\ price_ \in files, creates |-> FALSE,
     calls |-> <<"set_min_pub">>, on |-> price_]

add_publisher(px_) ==
    [ready |-> mapping_key_ # 0, ok |-> ~ view[px_].pub /\ has_pkey /\ px_ \in files,
     creates |-> FALSE, calls |-> <<"add_publisher">>, on |-> px_]

del_publisher(px_) ==
    [ready |-> mapping_key_ # 0, ok |-> view[px_].pub /\ has_pkey /\ px_ \in files,
     creates |-> FALSE, calls |-> <<"del_publisher">>, on |-> px_]

Request(r) ==
    CASE r.req = "rent" -> get_minimum_balance_rent_exemption
      [] r.req = "init_mapping" -> init_mapping
      [] r.req = "add_mapping" -> add_mapping
      [] r.req = "add_product" -> add_product
      [] r.req = "upd_product" -> upd_product(r.arg)
      [] r.req = "add_price" -> add_price(r.arg)
      [] r.req = "init_price" -> init_price(r.arg)
      [] r.req = "set_min_pub" -> set_min_pub_req(r.arg)
      [] r.req = "add_publisher" -> add_publisher(r.arg)
      [] r.req = "del_publisher" -> del_publisher(r.arg)

-----------------------------------------------------------------------------
(* The commands: the requests a command submits, in order.  A command      *)
(* without a mapping account to extend fails in its request.               *)

Req(name, a) == [req |-> name, arg |-> a]

on_init_mapping == <<Req("rent", 0), Req("init_mapping", 0)>>

on_add_product ==
    (IF mapping_key_ # 0 /\ get_is_full(get_last_mapping)
     THEN <<Req("rent", 0), Req("add_mapping", 0)>> ELSE <<>>)
        \o <<Req("rent", 0), Req("add_product", 0)>>

on_upd_product(accs) == [i \in DOMAIN accs |-> Req("upd_product", accs[i])]
on_add_price(acc) == <<Req("rent", acc), Req("add_price", acc)>>
on_init_price(acc) == <<Req("init_price", acc)>>
on_set_min_pub(acc) == <<Req("set_min_pub", acc)>>
on_upd_publisher(acc, is_add) == <<Req(IF is_add THEN "add_publisher" ELSE "del_publisher", acc)>>

\* main(): what the command line asks for.
Dispatch(c) ==
    CASE c.name = "init_mapping" -> on_init_mapping
      [] c.name = "add_product" -> on_add_product
      [] c.name = "upd_product" -> on_upd_product(c.args)
      [] c.name = "add_price" -> on_add_price(c.args[1])
      [] c.name = "init_price" -> on_init_price(c.args[1])
      [] c.name = "set_min_pub" -> on_set_min_pub(c.args[1])
      [] c.name = "add_publisher" -> on_upd_publisher(c.args[1], TRUE)
      [] c.name = "del_publisher" -> on_upd_publisher(c.args[1], FALSE)

\* A product or price is looked up before anything is asked or submitted; of
\* upd_product's products, each just before its own request.
Finds(r) ==
    \/ r.arg = 0
    \/ r.req \in {"rent", "upd_product", "add_price"} /\ r.arg \in KnownProducts
    \/ r.req \in {"init_price", "set_min_pub", "add_publisher", "del_publisher"}
       /\ r.arg \in KnownPrices

AsksFirst(c) == c.name \notin {"init_mapping", "add_product", "upd_product"}

-----------------------------------------------------------------------------
(* Running a command *)

\* The command ends with exit status rc.
Return(rc) ==
    /\ pc' = "idle"
    /\ ended' = ended \union {[cmd |-> cmd, rc |-> rc, txs |-> mine]}
    /\ reqs' = <<>> /\ calls' = <<>> /\ st_' = "none"

Start(c) ==
    /\ pc = "idle"
    /\ count < MaxCommands
    /\ count' = count + 1
    /\ pc' = "boot" /\ cmd' = c /\ mine' = {}
    /\ view' = [k \in Keys |-> NoAccount]
    /\ UNCHANGED <<storeVars, chainVars, reqVars, faults, ended>>

\* A fetch finds that the mapping key's account is no mapping: the client's error.
InvalidMapping == mapping_key_ # 0 /\ data[mapping_key_].kind # "mapping"

\* bootstrap(): every account is fetched, or the client ends in an error.
Bootstrap ==
    /\ pc = "boot"
    /\ IF InvalidMapping THEN Return(1) /\ UNCHANGED view
       ELSE view' = data /\ pc' = "lookup" /\ UNCHANGED <<reqVars, ended>>
    /\ UNCHANGED <<storeVars, chainVars, cmd, mine, count, faults>>

\* submit(): the first request of rest is put in the client's list.
Pend(rest) == reqs' = rest /\ calls' = <<>> /\ st_' = "pending"

\* The command's requests follow from what was fetched.
LookUp ==
    /\ pc = "lookup"
    /\ IF Finds(Head(Dispatch(cmd)))
         THEN /\ Pend(Dispatch(cmd))
              /\ pc' = IF AsksFirst(cmd) THEN "prompt" ELSE "poll"
              /\ UNCHANGED ended
         ELSE Return(1)
    /\ UNCHANGED <<storeVars, chainVars, cmd, view, mine, count, faults>>

\* "are you sure? [y/n]"
Prompt(yes) ==
    /\ pc = "prompt"
    /\ IF yes THEN pc' = "poll" /\ UNCHANGED <<reqVars, ended>> ELSE Return(1)
    /\ UNCHANGED <<storeVars, chainVars, cmd, view, mine, count, faults>>

-----------------------------------------------------------------------------
(* submit_poll *)

\* Mutant: the key file is written once the account is registered.
WriteKeyLate(r, k) == UNCHANGED <<files, mapping_key_>>

\* create_mapping_key_pair and create_account_key_pair.
WriteKey(r, k) ==
    /\ files' = files \union {k}
    /\ mapping_key_' = IF r = "init_mapping" THEN k ELSE mapping_key_

\* poll() submits the request when it is ready: its checks fail, or it makes
\* its key pair and sends its first call.
Submit ==
    /\ pc = "poll" /\ st_ = "pending"
    /\ LET r == Request(Head(reqs))
           k == IF r.creates THEN gen + 1 ELSE r.on
       IN  /\ r.creates => k \in Keys
           /\ IF r.ready /\ r.ok
                THEN /\ IF r.creates THEN WriteKey(Head(reqs).req, k) /\ gen' = k
                        ELSE UNCHANGED <<files, mapping_key_, gen>>
                     /\ calls' = [i \in DOMAIN r.calls |-> Tx(r.calls[i], k, r.on)]
                     /\ st_' = "sent"
                     /\ UNCHANGED <<pc, reqs, ended>>
                ELSE Return(1) /\ UNCHANGED <<files, mapping_key_, gen>>
    /\ UNCHANGED <<has_pkey, chainVars, cmd, view, mine, count, faults>>

\* The validator gets the call: it may answer with an error, and otherwise
\* passes the transaction on.
Receive(ok) ==
    /\ pc = "poll" /\ st_ = "sent"
    /\ IF ok THEN /\ st_' = "accepted"
                  /\ net' = IF Head(calls).op = "rent" THEN net ELSE net \union {Head(calls)}
                  /\ UNCHANGED faults
             ELSE /\ faults < MaxFaults /\ faults' = faults + 1
                  /\ st_' = "rejected"
                  /\ UNCHANGED net
    /\ mine' = IF ok /\ Head(calls).op # "rent" THEN mine \union {Head(calls)} ELSE mine
    /\ UNCHANGED <<storeVars, data, processed, pc, cmd, reqs, calls, view, count, ended>>

\* The request is done: the next one is looked up and submitted, or the
\* command succeeds.
Done ==
    IF Len(reqs) = 1 THEN Return(0)
    ELSE IF Finds(reqs[2]) THEN Pend(Tail(reqs)) /\ UNCHANGED <<pc, ended>>
    ELSE Return(1)

\* Mutant: the second transaction does not wait for the first.
OnReplyAtOnce ==
    /\ pc = "poll" /\ st_ \in {"accepted", "rejected"}
    /\ IF st_ = "rejected" THEN Return(1)
       ELSE IF Head(calls).op = "rent" THEN Done
       ELSE IF Len(calls) > 1
         THEN calls' = Tail(calls) /\ st_' = "sent" /\ UNCHANGED <<pc, reqs, ended>>
       ELSE st_' = "sig" /\ UNCHANGED <<pc, reqs, calls, ended>>
    /\ UNCHANGED <<storeVars, chainVars, cmd, view, mine, count, faults>>

\* on_response of the call: signature_subscribe follows a transaction.
OnReply ==
    /\ pc = "poll" /\ st_ \in {"accepted", "rejected"}
    /\ IF st_ = "rejected" THEN Return(1)
       ELSE IF Head(calls).op = "rent" THEN Done
       ELSE st_' = "sig" /\ UNCHANGED <<pc, reqs, calls, ended>>
    /\ UNCHANGED <<storeVars, chainVars, cmd, view, mine, count, faults>>

\* Mutant: the answer to the subscription is taken for its notification.
OnSignatureAtOnce ==
    /\ pc = "poll" /\ st_ = "sig"
    /\ IF Len(calls) = 1 THEN Done
       ELSE calls' = Tail(calls) /\ st_' = "sent" /\ UNCHANGED <<pc, reqs, ended>>
    /\ UNCHANGED <<storeVars, chainVars, cmd, view, mine, count, faults>>

\* Mutant: the notification of the last transaction is not recognised.
OnSignatureIgnored ==
    /\ pc = "poll" /\ st_ = "sig" /\ Head(calls) \in processed /\ Len(calls) > 1
    /\ calls' = Tail(calls) /\ st_' = "sent" /\ UNCHANGED <<pc, reqs, ended>>
    /\ UNCHANGED <<storeVars, chainVars, cmd, view, mine, count, faults>>

\* on_response( signature_subscribe ): the notification that the transaction
\* was processed, whatever came of it.
OnSignature ==
    /\ pc = "poll" /\ st_ = "sig" /\ Head(calls) \in processed
    /\ IF Len(calls) = 1 THEN Done
       ELSE calls' = Tail(calls) /\ st_' = "sent" /\ UNCHANGED <<pc, reqs, ended>>
    /\ UNCHANGED <<storeVars, chainVars, cmd, view, mine, count, faults>>

\* The subscription is refused.
OnSignatureError ==
    /\ pc = "poll" /\ st_ = "sig"
    /\ faults < MaxFaults /\ faults' = faults + 1
    /\ Return(1)
    /\ UNCHANGED <<storeVars, chainVars, cmd, view, mine, count>>

\* An account changed: the client is notified, or polls for it.
Refresh(k) ==
    /\ pc = "poll"
    /\ view[k] # data[k]
    /\ view' = [view EXCEPT ![k] = data[k]]
    /\ UNCHANGED <<storeVars, chainVars, pc, cmd, reqVars, mine, count, faults, ended>>

\* The connection breaks and is made again: the pending request and the rpc
\* requests in flight are forgotten, and nobody submits them again.  The
\* accounts are fetched again.
Reconnect ==
    /\ pc = "poll" /\ faults < MaxFaults /\ faults' = faults + 1
    /\ IF InvalidMapping THEN Return(1) /\ UNCHANGED view
       ELSE st_' = "lost" /\ view' = data /\ UNCHANGED <<pc, reqs, calls, ended>>
    /\ UNCHANGED <<storeVars, chainVars, cmd, mine, count>>

\* The operator kills the tool.
Kill ==
    /\ pc # "idle" /\ faults < MaxFaults /\ faults' = faults + 1
    /\ Return(2)
    /\ UNCHANGED <<storeVars, chainVars, cmd, view, mine, count>>

-----------------------------------------------------------------------------
(* The chain *)

\* What the program and the system program require of a transaction.
Accepts(t) ==
    LET a == data[t.acct].kind
    IN  CASE t.op = "create" -> a = "none"
          [] t.op = "init_mapping" -> a = "created"
          [] t.op = "add_mapping" ->
                /\ a = "created" /\ data[t.on].next = 0
                /\ Cardinality(data[t.on].refs) = PC_MAP_TABLE_SIZE
          [] t.op = "add_product" ->
                a = "created" /\ Cardinality(data[t.on].refs) < PC_MAP_TABLE_SIZE
          [] t.op = "add_price" -> a = "created"
          [] t.op = "upd_product" -> a = "product"
          [] t.op \in {"init_price", "set_min_pub", "add_publisher"} -> a = "price"
          [] t.op = "del_publisher" -> a = "price" /\ data[t.acct].pub

\* The accounts after a transaction.
Executed(t) ==
    LET New(kind) == [data[t.acct] EXCEPT !.kind = kind]
        Listed == [data[t.on] EXCEPT !.refs = @ \union {t.acct}]
    IN  CASE t.op = "create" -> [data EXCEPT ![t.acct] = New("created")]
          [] t.op = "init_mapping" -> [data EXCEPT ![t.acct] = New("mapping")]
          [] t.op = "add_mapping" ->
                [data EXCEPT ![t.acct] = New("mapping"), ![t.on].next = t.acct]
          [] t.op = "add_product" -> [data EXCEPT ![t.acct] = New("product"), ![t.on] = Listed]
          [] t.op = "add_price" -> [data EXCEPT ![t.acct] = New("price"), ![t.on] = Listed]
          [] t.op \in {"add_publisher", "del_publisher"} ->
                [data EXCEPT ![t.acct].pub = (t.op = "add_publisher")]
          [] OTHER -> data

\* The chain processes a transaction: it refuses what the program does not
\* accept, and may refuse any (the signer's authority, the fees).
Process(t, refuse) ==
    /\ t \in net
    /\ net' = net \ {t} /\ processed' = processed \union {t}
    /\ refuse => faults < MaxFaults
    /\ faults' = IF refuse THEN faults + 1 ELSE faults
    /\ data' = IF Accepts(t) /\ ~ refuse THEN Executed(t) ELSE data
    /\ UNCHANGED <<storeVars, pc, cmd, reqVars, view, mine, count, ended>>

\* A transaction that no leader takes before its block hash expires is dropped.
Drop(t) ==
    /\ t \in net /\ faults < MaxFaults
    /\ net' = net \ {t} /\ faults' = faults + 1
    /\ UNCHANGED <<storeVars, data, processed, pc, cmd, reqVars, view, mine, count, ended>>

-----------------------------------------------------------------------------
Init ==
    /\ \E s \in Starts :
          /\ files = s.files /\ mapping_key_ = s.mapping_key_ /\ has_pkey = s.has_pkey
          /\ data = s.data
          /\ gen = Cardinality({k \in Keys : s.data[k] # NoAccount})
    /\ net = {} /\ processed = {}
    /\ pc = "idle" /\ cmd = [name |-> "none", args |-> <<>>]
    /\ reqs = <<>> /\ calls = <<>> /\ st_ = "none"
    /\ view = [k \in Keys |-> NoAccount] /\ mine = {}
    /\ count = 0 /\ faults = 0 /\ ended = {}

Tool ==
    \/ Bootstrap \/ LookUp \/ Submit \/ OnReply \/ OnSignature

Next ==
    \/ \E c \in Commands : Start(c)
    \/ Tool \/ OnSignatureError \/ Reconnect \/ Kill
    \/ \E yes \in BOOLEAN : Prompt(yes)
    \/ \E ok \in BOOLEAN : Receive(ok)
    \/ \E k \in Keys : Refresh(k)
    \/ \E t \in net : Drop(t) \/ \E refuse \in BOOLEAN : Process(t, refuse)

\* The tool polls, the validator answers and the chain takes transactions.
Fairness ==
    /\ WF_vars(Tool) /\ WF_vars(Receive(TRUE))
    /\ WF_vars(\E t \in net : Process(t, FALSE))

Spec == Init /\ [][Next]_vars /\ Fairness

-----------------------------------------------------------------------------
(* Properties *)

\* A second transaction is sent when the one that creates its account has
\* been processed: two transactions in the network are not ordered.
CreateBeforeRegister ==
    \A t \in net :
        t.op \in {"init_mapping", "add_mapping", "add_product", "add_price"} =>
            Tx("create", t.acct, t.on) \in processed

\* The key pair of every account the tool created is on disk, wherever the
\* tool was killed: without it the account's funds are lost.
KeysKept ==
    \A t \in net \union processed : t.op = "create" => t.acct \in files

\* Exit status 0 means that every transaction the command sent was processed.
SuccessMeansProcessed ==
    \A e \in ended : e.rc = 0 => e.txs \subseteq processed

\* While every command returns and is believed, a product gets one account
\* of a price type: only a command run again after a failure can give it two.
OnePricePerType ==
    (\E p \in Keys : data[p].kind = "product" /\ Cardinality(data[p].refs) > 1)
        => \E e \in ended : e.rc # 0 /\ e.cmd.name = "add_price"

\* A command that submits its requests returns, unless a fault left it
\* waiting: there is no timeout for a request or a transaction that was lost.
Returns == pc = "poll" ~> pc = "idle" \/ faults > 0

\* What an operator relies on: accounts are created before they are registered
\* and with their keys on disk, success means processed, and a price type is
\* added once (admin_request.cpp, key_store.cpp).
CommandsSound ==
    CreateBeforeRegister /\ KeysKept /\ SuccessMeansProcessed /\ OnePricePerType
=============================================================================
