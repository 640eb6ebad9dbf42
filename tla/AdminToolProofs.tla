--------------------------- MODULE AdminToolProofs ---------------------------
(***************************************************************************)
(* Proofs about pyth_admin: for any key stores and accounts it starts from *)
(* and any sequence of commands, kills, lost connections, and refused or   *)
(* dropped transactions.                                                   *)
(***************************************************************************)
EXTENDS AdminTool, BoundedInduction, FiniteSetTheorems, TLAPS

-----------------------------------------------------------------------------
(* The inductive invariant *)

RegOps == {"init_mapping", "add_mapping", "add_product", "add_price"}
OneOps == {"upd_product", "init_price", "set_min_pub", "add_publisher", "del_publisher"}
Ops == RegOps \union OneOps \union {"create"}

\* The account a transaction registers with is of the kind it must have.
OnOk(t) ==
    /\ t.op = "add_mapping" => t.on \in Keys /\ data[t.on].kind = "mapping" /\ t.on < t.acct
    /\ t.op = "add_product" => t.on \in Keys /\ data[t.on].kind = "mapping"
    /\ t.op = "add_price" => t.on \in Keys /\ data[t.on].kind = "product"

\* A transaction is about an account whose key was generated, and has the form
\* the requests give it.
TxOk(t) ==
    /\ t = Tx(t.op, t.acct, t.on) /\ t.op \in Ops /\ t.acct \in Keys
    /\ t.op \notin OneOps => t.acct <= gen
    /\ OnOk(t)

\* The accounts, and what the client knows of them: an earlier state.
Accounts ==
    /\ Registered(data) /\ gen \in Nat /\ mapping_key_ \in Keys \union {0}
    /\ \A k \in Keys : data[k].kind # "none" => k <= gen
    /\ view \in [Keys -> Account]
    /\ \A k \in Keys : view[k].refs \subseteq data[k].refs /\ view[k].next \in {0, data[k].next}

\* A command other than init_mapping has found the mapping account.
MappingFound ==
    pc \in {"lookup", "prompt", "poll"} /\ cmd.name # "init_mapping" =>
        mapping_key_ = 0 \/ data[mapping_key_].kind = "mapping"

\* What the request in hand has still to send.
Rent == <<Tx("rent", 0, 0)>>
CallsFor(k) ==
    {<<Tx("create", k, on), Tx(op, k, on)>> : on \in Keys \union {0}, op \in RegOps}
        \union {<<Tx(op, k, on)>> : on \in Keys \union {0}, op \in RegOps}
Calls ==
    /\ st_ \in {"none", "pending", "sent", "accepted", "rejected", "sig", "lost"}
    /\ st_ = "pending" => calls = <<>>
    /\ st_ \in {"sent", "accepted", "sig"} =>
          \/ calls = Rent
          \/ \E k \in Keys, op \in OneOps : calls = <<Tx(op, k, k)>>
          \/ \E k \in Keys : k \in files /\ calls \in CallsFor(k)
    /\ \A i \in DOMAIN calls : calls[i] = Rent[1] \/ TxOk(calls[i])
    /\ Len(calls) = 1 /\ calls[1].op \in RegOps => Tx("create", calls[1].acct, calls[1].on) \in processed

\* The transactions of them that are not sent yet.
Unsent ==
    IF st_ = "sent" THEN {calls[i] : i \in DOMAIN calls}
    ELSE IF st_ \in {"accepted", "sig"} THEN {calls[i] : i \in 2 .. Len(calls)}
    ELSE {}

\* Every transaction that registers an account is sent once.
SentOnce ==
    /\ \A t \in net : TxOk(t)
    /\ \A t \in net \union processed : t.op \in RegOps => t.acct \in Keys /\ t.acct <= gen
    /\ \A t \in net : t.op \in RegOps => t \notin processed
    /\ \A t \in Unsent : t.op \in RegOps => t \notin net \union processed

\* What the command has sent is processed, but for what it waits for.
MineProcessed ==
    /\ pc \in {"boot", "lookup", "prompt"} => mine = {}
    /\ \A t \in mine : t.op # "rent"
    /\ pc = "poll" /\ st_ \in {"pending", "sent", "rejected"} => mine \subseteq processed
    /\ pc = "poll" /\ st_ \in {"accepted", "sig"} => mine \subseteq processed \union {Head(calls)}

\* Requests a command may have to make.
ReqList(rs) ==
    /\ rs \in Seq([req : RegOps \union OneOps \union {"rent"}, arg : Keys \union {0}])
    /\ \A i \in DOMAIN rs :
          /\ rs[i].req \in OneOps => rs[i].arg \in Keys
          /\ rs[i].req = "init_mapping" => cmd.name = "init_mapping"
          /\ rs[i].req \in {"add_mapping", "add_product"} => cmd.name = "add_product"
          /\ rs[i].req = "add_price" => cmd.name = "add_price"

\* The running command and its requests.
Requests ==
    /\ pc \in {"idle", "boot", "lookup", "prompt", "poll"}
    /\ pc \in {"boot", "lookup", "prompt", "poll"} => cmd \in Commands
    /\ pc \in {"idle", "boot", "lookup"} => reqs = <<>> /\ calls = <<>> /\ st_ = "none"
    /\ pc = "prompt" => st_ = "pending"
    /\ pc \in {"prompt", "poll"} => reqs # <<>>
    /\ ReqList(reqs)

\* The one request of add_price: nothing was sent before it, and the product
\* is one when the request is made.
PriceRequest ==
    /\ cmd.name = "add_price" /\ pc \in {"prompt", "poll"} =>
          \E p \in Keys :
             \/ /\ reqs = <<Req("rent", p), Req("add_price", p)>>
                /\ mine = {} /\ calls \in {<<>>, Rent}
             \/ /\ reqs = <<Req("add_price", p)>>
                /\ st_ = "pending" => mine = {}
                /\ data[p].kind = "product"
                /\ calls # Rent
    /\ \A i \in DOMAIN calls :
          calls[i].op = "add_price" => cmd.name = "add_price" /\ i = Len(calls)
    /\ \A t \in mine : t.op = "add_price" => cmd.name = "add_price"

\* No add_price has failed.
Believed == \A e \in ended : e.cmd.name = "add_price" => e.rc = 0

\* Then a product without a price is known to be, and gets one.
Prices ==
    Believed =>
        /\ \A p \in Keys : data[p].kind = "product" => Cardinality(data[p].refs) <= 1
        /\ \A t \in net : t.op = "add_price" =>
              /\ pc = "poll" /\ cmd.name = "add_price" /\ t \in mine
              /\ data[t.on].refs = {}
        /\ \A t \in Unsent : t.op = "add_price" => data[t.on].refs = {}
        /\ pc = "poll" => \A t \in mine : t.op = "add_price" => calls # <<>> /\ t = calls[Len(calls)]
        /\ pc \in {"lookup", "prompt", "poll"} /\ (\A t \in mine : t.op # "add_price") =>
              \A p \in Keys : data[p].kind = "product" => view[p].refs = data[p].refs

IInv ==
    Accounts /\ MappingFound /\ Calls /\ SentOnce /\ MineProcessed /\ Requests
        /\ PriceRequest /\ Prices /\ CreateBeforeRegister /\ KeysKept /\ SuccessMeansProcessed

-----------------------------------------------------------------------------
(* The accounts *)

\* The kind a transaction gives its account.
NewKind(op) ==
    CASE op = "create" -> "created"
      [] op \in {"init_mapping", "add_mapping"} -> "mapping"
      [] op = "add_product" -> "product"
      [] op = "add_price" -> "price"
      [] OTHER -> "none"

\* The accounts e come of the accounts d by the transaction t.
Changed(d, e, t) ==
    \A k \in Keys :
        /\ e[k].kind = IF k = t.acct /\ t.op \notin OneOps THEN NewKind(t.op) ELSE d[k].kind
        /\ e[k].refs = IF k = t.on /\ t.op \in {"add_product", "add_price"}
                       THEN d[k].refs \union {t.acct} ELSE d[k].refs
        /\ e[k].next = IF k = t.on /\ t.op = "add_mapping" THEN t.acct ELSE d[k].next

\* Addresses are numbers, and 0 is none of them.
LEMMA KeysAre == Keys \subseteq Nat \ {0}
  <1>1. Cardinality(Keys) \in Nat
    BY AdminAssumption, FS_CardinalityType
  <1>. QED
    BY <1>1, AdminAssumption

\* A transaction on one account leaves the rest of that account alone.
LEMMA OneAccount ==
    ASSUME NEW d \in [Keys -> Account], NEW a \in Keys,
           NEW kind \in {"created", "mapping", "product", "price"},
           NEW e, e = [d EXCEPT ![a] = [d[a] EXCEPT !.kind = kind]]
    PROVE  /\ e \in [Keys -> Account]
           /\ \A k \in Keys :
                 /\ e[k].kind = IF k = a THEN kind ELSE d[k].kind
                 /\ e[k].refs = d[k].refs /\ e[k].next = d[k].next /\ e[k].pub = d[k].pub
  <1>1. \A k \in Keys : d[k] \in Account
    OBVIOUS
  <1>2. \A k \in Keys : k # a => e[k] = d[k]
    OBVIOUS
  <1>3. e[a] = [d[a] EXCEPT !.kind = kind]
    OBVIOUS
  <1>4. /\ e[a] \in Account /\ e[a].kind = kind
        /\ e[a].refs = d[a].refs /\ e[a].next = d[a].next /\ e[a].pub = d[a].pub
    BY <1>1, <1>3 DEF Account
  <1>5. e \in [Keys -> Account]
    BY <1>1, <1>2, <1>4
  <1>. QED
    BY <1>2, <1>4, <1>5

\* What a transaction that the program accepts does.
LEMMA Effect ==
    ASSUME data \in [Keys -> Account], NEW t, TxOk(t), Accepts(t)
    PROVE  Executed(t) \in [Keys -> Account] /\ Changed(data, Executed(t), t)
  <1>. DEFINE a == t.acct
              e == Executed(t)
  <1>0. a \in Keys /\ t.op \in Ops
    BY DEF TxOk
  <1>1. CASE t.op = "create"
    <2>1. e = [data EXCEPT ![a] = [data[a] EXCEPT !.kind = "created"]]
      BY <1>1 DEF Executed
    <2>2. NewKind(t.op) = "created" /\ t.op \notin OneOps
      BY <1>1 DEF NewKind, OneOps
    <2>. HIDE DEF a, e
    <2>3. /\ e \in [Keys -> Account]
          /\ \A k \in Keys :
                /\ e[k].kind = IF k = a THEN "created" ELSE data[k].kind
                /\ e[k].refs = data[k].refs /\ e[k].next = data[k].next /\ e[k].pub = data[k].pub
      BY <1>0, <2>1, OneAccount
    <2>4. Changed(data, e, t)
      BY <1>1, <2>2, <2>3 DEF Changed, a
    <2>. QED
      BY <2>3, <2>4 DEF e
  <1>2. CASE t.op = "init_mapping"
    <2>1. e = [data EXCEPT ![a] = [data[a] EXCEPT !.kind = "mapping"]]
      BY <1>2 DEF Executed
    <2>2. NewKind(t.op) = "mapping" /\ t.op \notin OneOps
      BY <1>2 DEF NewKind, OneOps
    <2>. HIDE DEF a, e
    <2>3. /\ e \in [Keys -> Account]
          /\ \A k \in Keys :
                /\ e[k].kind = IF k = a THEN "mapping" ELSE data[k].kind
                /\ e[k].refs = data[k].refs /\ e[k].next = data[k].next /\ e[k].pub = data[k].pub
      BY <1>0, <2>1, OneAccount
    <2>4. Changed(data, e, t)
      BY <1>2, <2>2, <2>3 DEF Changed, a
    <2>. QED
      BY <2>3, <2>4 DEF e
  <1>3. CASE t.op = "add_mapping"
    <2>. DEFINE f == [data EXCEPT ![a] = [data[a] EXCEPT !.kind = "mapping"]]
    <2>0. t.on \in Keys /\ t.on # a
      <3>1. t.on \in Keys /\ t.on < a
        BY <1>3 DEF TxOk, OnOk
      <3>2. t.on \in Nat /\ a \in Nat
        BY <1>0, <3>1, KeysAre
      <3>. QED
        BY <3>1, <3>2
    <2>1. e = [f EXCEPT ![t.on].next = a]
      BY <1>3 DEF Executed
    <2>2. NewKind(t.op) = "mapping" /\ t.op \notin OneOps
      BY <1>3 DEF NewKind, OneOps
    <2>a. f = [data EXCEPT ![a] = [data[a] EXCEPT !.kind = "mapping"]]
      OBVIOUS
    <2>b. a = t.acct
      OBVIOUS
    <2>. HIDE DEF a, e, f
    <2>3. /\ f \in [Keys -> Account]
          /\ \A k \in Keys :
                /\ f[k].kind = IF k = a THEN "mapping" ELSE data[k].kind
                /\ f[k].refs = data[k].refs /\ f[k].next = data[k].next /\ f[k].pub = data[k].pub
      BY <1>0, <2>a, OneAccount
    <2>4. /\ \A k \in Keys : k # t.on => e[k] = f[k]
          /\ e[t.on] = [f[t.on] EXCEPT !.next = a]
      BY <2>0, <2>1, <2>3
    <2>5. f[t.on] \in Account
      BY <2>0, <2>3
    <2>6. /\ e[t.on] \in Account /\ e[t.on].next = a
          /\ e[t.on].kind = f[t.on].kind /\ e[t.on].refs = f[t.on].refs /\ e[t.on].pub = f[t.on].pub
      BY <1>0, <2>4, <2>5 DEF Account
    <2>7. e \in [Keys -> Account]
      BY <2>1, <2>3, <2>4, <2>6
    <2>8. Changed(data, e, t)
      <3>1. \A k \in Keys : k # t.on =>
                /\ e[k].kind = IF k = a THEN NewKind(t.op) ELSE data[k].kind
                /\ e[k].refs = data[k].refs /\ e[k].next = data[k].next /\ e[k].pub = data[k].pub
        BY <2>2, <2>3, <2>4
      <3>2. /\ e[t.on].kind = data[t.on].kind /\ e[t.on].pub = data[t.on].pub
            /\ e[t.on].refs = data[t.on].refs /\ e[t.on].next = a
        BY <2>0, <2>3, <2>6
      <3>. QED
        BY <1>3, <2>0, <2>2, <2>b, <3>1, <3>2 DEF Changed
    <2>. QED
      BY <2>7, <2>8 DEF e
  <1>4. CASE t.op \in {"add_product", "add_price"}
    <2>. DEFINE kind == IF t.op = "add_product" THEN "product" ELSE "price"
                f == [data EXCEPT ![a] = [data[a] EXCEPT !.kind = kind]]
    <2>0. t.on \in Keys /\ t.on # a
      <3>1. data[a].kind = "created"
        BY <1>4 DEF Accepts
      <3>. QED
        BY <1>4, <3>1 DEF TxOk, OnOk
    <2>1. e = [f EXCEPT ![t.on] = [data[t.on] EXCEPT !.refs = @ \union {a}]]
      BY <1>4 DEF Executed
    <2>2. NewKind(t.op) = kind /\ t.op \notin OneOps /\ kind \in {"product", "price"}
      BY <1>4 DEF NewKind, OneOps
    <2>a. f = [data EXCEPT ![a] = [data[a] EXCEPT !.kind = kind]]
      OBVIOUS
    <2>b. a = t.acct
      OBVIOUS
    <2>. HIDE DEF a, e, f, kind
    <2>3. /\ f \in [Keys -> Account]
          /\ \A k \in Keys :
                /\ f[k].kind = IF k = a THEN kind ELSE data[k].kind
                /\ f[k].refs = data[k].refs /\ f[k].next = data[k].next /\ f[k].pub = data[k].pub
      BY <1>0, <2>2, <2>a, OneAccount
    <2>4. /\ \A k \in Keys : k # t.on => e[k] = f[k]
          /\ e[t.on] = [data[t.on] EXCEPT !.refs = @ \union {a}]
      BY <2>0, <2>1, <2>3
    <2>5. data[t.on] \in Account
      BY <2>0
    <2>6. /\ e[t.on] \in Account /\ e[t.on].refs = data[t.on].refs \union {a}
          /\ e[t.on].kind = data[t.on].kind /\ e[t.on].next = data[t.on].next
          /\ e[t.on].pub = data[t.on].pub
      BY <1>0, <2>4, <2>5 DEF Account
    <2>7. e \in [Keys -> Account]
      BY <2>1, <2>3, <2>4, <2>6
    <2>8. Changed(data, e, t)
      <3>1. \A k \in Keys : k # t.on =>
                /\ e[k].kind = IF k = a THEN NewKind(t.op) ELSE data[k].kind
                /\ e[k].refs = data[k].refs /\ e[k].next = data[k].next /\ e[k].pub = data[k].pub
        BY <2>2, <2>3, <2>4
      <3>2. /\ e[t.on].kind = data[t.on].kind /\ e[t.on].pub = data[t.on].pub
            /\ e[t.on].refs = data[t.on].refs \union {a} /\ e[t.on].next = data[t.on].next
        BY <2>0, <2>3, <2>6
      <3>. QED
        BY <1>4, <2>0, <2>2, <2>b, <3>1, <3>2 DEF Changed
    <2>. QED
      BY <2>7, <2>8 DEF e
  <1>5. CASE t.op \in {"add_publisher", "del_publisher"}
    <2>. DEFINE b == t.op = "add_publisher"
    <2>1. e = [data EXCEPT ![a].pub = b]
      BY <1>5 DEF Executed
    <2>2. b \in BOOLEAN
      OBVIOUS
    <2>. HIDE DEF e, b
    <2>3. /\ \A k \in Keys : k # a => e[k] = data[k]
          /\ e[a] = [data[a] EXCEPT !.pub = b]
      BY <1>0, <2>1
    <2>4. data[a] \in Account
      BY <1>0
    <2>5. /\ e[a] \in Account /\ e[a].kind = data[a].kind /\ e[a].refs = data[a].refs
          /\ e[a].next = data[a].next
      BY <2>2, <2>3, <2>4 DEF Account
    <2>6. e \in [Keys -> Account]
      BY <2>1, <2>3, <2>5
    <2>. QED
      BY <1>0, <1>5, <2>3, <2>5, <2>6 DEF Changed, OneOps, e
  <1>6. CASE t.op \in OneOps \ {"add_publisher", "del_publisher"}
    <2>1. e = data
      BY <1>6 DEF Executed, OneOps
    <2>. QED
      BY <1>6, <2>1 DEF Changed, OneOps
  <1>. QED
    BY <1>0, <1>1, <1>2, <1>3, <1>4, <1>5, <1>6 DEF Ops, RegOps, OneOps

\* Once an account is registered it stays what it is, and what refers to
\* others refers to them for good.
Grown(d, e) ==
    \A k \in Keys :
        /\ d[k].kind \in {"mapping", "product", "price"} => e[k].kind = d[k].kind
        /\ d[k].refs \subseteq e[k].refs
        /\ d[k].next # 0 => e[k].next = d[k].next

\* The program keeps the registry well formed.
LEMMA ProcessedAccounts ==
    ASSUME Accounts, NEW t, TxOk(t), Accepts(t), data' = Executed(t),
           UNCHANGED <<gen, mapping_key_, view>>
    PROVE  /\ Accounts' /\ Grown(data, data')
           /\ \A k \in Keys : data'[k].kind = "product" =>
                 \/ data[k].kind = "product" /\ data'[k].refs = data[k].refs
                 \/ data[k].kind = "product" /\ t.op = "add_price" /\ k = t.on
                    /\ data'[k].refs = data[k].refs \union {t.acct}
                 \/ data'[k].refs = {}
  <1>. DEFINE a == t.acct
  <1>1. /\ data \in [Keys -> Account] /\ Registered(data) /\ gen \in Nat
        /\ mapping_key_ \in Keys \union {0}
        /\ \A k \in Keys : data[k].kind # "none" => k <= gen
        /\ view \in [Keys -> Account]
        /\ \A k \in Keys : view[k].refs \subseteq data[k].refs /\ view[k].next \in {0, data[k].next}
    BY DEF Accounts, Registered
  <1>2. data' \in [Keys -> Account] /\ Changed(data, data', t)
    BY <1>1, Effect
  <1>3. t.op \in Ops /\ a \in Keys /\ OnOk(t)
    BY DEF TxOk
  <1>4. /\ t.op = "create" => data[a].kind = "none"
        /\ t.op \in RegOps => data[a].kind = "created"
        /\ t.op = "add_mapping" => data[t.on].next = 0
    BY <1>3 DEF Accepts, RegOps
  <1>5. /\ t.op = "create" => NewKind(t.op) = "created"
        /\ t.op \in {"init_mapping", "add_mapping"} => NewKind(t.op) = "mapping"
        /\ t.op = "add_product" => NewKind(t.op) = "product"
        /\ t.op = "add_price" => NewKind(t.op) = "price"
    BY DEF NewKind
  <1>6. a # 0 /\ \A k \in Keys : k # 0
    BY <1>3, KeysAre
  <1>. HIDE DEF a
  <1>7. a = t.acct
    BY DEF a
  <1>8. \A k \in Keys :
           /\ data[k].kind \in {"none", "created"} => data[k].refs = {} /\ data[k].next = 0
           /\ data[k].kind = "mapping" => \A p \in data[k].refs : data[p].kind = "product"
           /\ data[k].next # 0 =>
                data[k].kind = "mapping" /\ k < data[k].next /\ data[data[k].next].kind = "mapping"
    BY <1>1 DEF Registered
  <1>9. \A k \in Keys :
           \/ data'[k].kind = data[k].kind
           \/ k = a /\ t.op = "create" /\ data[k].kind = "none" /\ data'[k].kind = "created"
           \/ k = a /\ t.op \in RegOps /\ data[k].kind = "created" /\ data'[k].kind = NewKind(t.op)
    BY <1>2, <1>3, <1>4, <1>5, <1>7 DEF Changed, Ops
  <1>10. Grown(data, data')
    BY <1>2, <1>3, <1>4, <1>9 DEF Grown, Changed
  <1>11. Registered(data')
    <2>1. ASSUME NEW k \in Keys, data'[k].kind \in {"none", "created"}
          PROVE  data'[k].refs = {} /\ data'[k].next = 0
      <3>1. data[k].kind \in {"none", "created"}
        BY <1>5, <1>9, <2>1 DEF RegOps
      <3>2. k # t.on \/ t.op \notin {"add_mapping", "add_product", "add_price"}
        BY <1>3, <3>1 DEF OnOk
      <3>. QED
        BY <1>2, <1>8, <3>1, <3>2 DEF Changed
    <2>2. ASSUME NEW k \in Keys, data'[k].kind = "mapping", NEW p \in data'[k].refs
          PROVE  data'[p].kind = "product"
      <3>1. p \in Keys
        BY <1>2, <2>2 DEF Account
      <3>2. CASE p \in data[k].refs
        <4>1. data[k].kind \notin {"none", "created"}
          BY <1>8, <3>2
        <4>2. data[k].kind = "mapping"
          BY <1>9, <2>2, <4>1
        <4>. QED
          BY <1>8, <1>10, <3>1, <3>2, <4>2 DEF Grown
      <3>3. CASE p \notin data[k].refs
        <4>1. k = t.on /\ t.op \in {"add_product", "add_price"} /\ p = a
          BY <1>2, <1>7, <2>2, <3>3 DEF Changed
        <4>2. t.op = "add_product"
          BY <1>3, <1>10, <2>2, <4>1 DEF OnOk, Grown
        <4>. QED
          BY <1>2, <1>5, <1>7, <3>1, <4>1, <4>2 DEF Changed, OneOps
      <3>. QED
        BY <3>2, <3>3
    <2>3. ASSUME NEW k \in Keys, data'[k].next # 0
          PROVE  /\ data'[k].kind = "mapping" /\ k < data'[k].next
                 /\ data'[data'[k].next].kind = "mapping"
      <3>1. CASE data[k].next # 0
        <4>1. data[k].next \in Keys /\ data'[k].next = data[k].next
          BY <1>1, <1>10, <3>1 DEF Account, Grown
        <4>. QED
          BY <1>8, <1>10, <3>1, <4>1 DEF Grown
      <3>2. CASE data[k].next = 0
        <4>1. k = t.on /\ t.op = "add_mapping" /\ data'[k].next = a
          BY <1>2, <1>7, <2>3, <3>2 DEF Changed
        <4>2. data'[a].kind = "mapping"
          BY <1>2, <1>3, <1>5, <1>7, <4>1 DEF Changed, OneOps
        <4>. QED
          BY <1>3, <1>7, <1>10, <4>1, <4>2 DEF OnOk, Grown
      <3>. QED
        BY <3>1, <3>2
    <2>. QED
      BY <1>2, <2>1, <2>2, <2>3 DEF Registered
  <1>12. \A k \in Keys : data'[k].kind # "none" => k <= gen
    <2>1. t.op \notin OneOps => a <= gen
      BY <1>3, <1>7 DEF TxOk, Ops
    <2>. QED
      BY <1>1, <1>2, <1>7, <2>1 DEF Changed
  <1>13. Accounts'
    <2>1. \A k \in Keys : view[k].refs \subseteq data'[k].refs /\ view[k].next \in {0, data'[k].next}
      BY <1>1, <1>10 DEF Grown
    <2>. QED
      BY <1>1, <1>11, <1>12, <2>1 DEF Accounts
  <1>14. ASSUME NEW k \in Keys, data'[k].kind = "product"
         PROVE  \/ data[k].kind = "product" /\ data'[k].refs = data[k].refs
                \/ data[k].kind = "product" /\ t.op = "add_price" /\ k = t.on
                   /\ data'[k].refs = data[k].refs \union {t.acct}
                \/ data'[k].refs = {}
    <2>1. CASE data[k].kind = "product"
      <3>1. k = t.on => t.op # "add_product"
        BY <1>3, <2>1 DEF OnOk
      <3>. QED
        BY <1>2, <2>1, <3>1 DEF Changed
    <2>2. CASE data[k].kind # "product"
      <3>1. k = a /\ data[k].kind = "created" /\ t.op \in RegOps
        BY <1>9, <1>14, <2>2
      <3>2. k # t.on \/ t.op \notin {"add_product", "add_price"}
        BY <1>3, <3>1 DEF OnOk
      <3>. QED
        BY <1>2, <1>8, <3>1, <3>2 DEF Changed
    <2>. QED
      BY <2>1, <2>2
  <1>. QED
    BY <1>10, <1>13, <1>14

\* The client has found the mapping account.
Found == mapping_key_ \in Keys /\ data[mapping_key_].kind = "mapping"

\* The accounts of mvec_ are mapping accounts, and one of them is the last.
LEMMA LastMapping ==
    ASSUME Accounts, Found
    PROVE  /\ \A m \in MVec : m \in Keys /\ data[m].kind = "mapping"
           /\ get_last_mapping \in Keys /\ data[get_last_mapping].kind = "mapping"
  <1>. DEFINE Mappings == {k \in Keys : data[k].kind = "mapping"}
  <1>1. \A k \in Keys : view[k].next # 0 => view[k].next \in Mappings /\ k < view[k].next
    <2>. SUFFICES ASSUME NEW k \in Keys, view[k].next # 0
                  PROVE  view[k].next \in Mappings /\ k < view[k].next
      OBVIOUS
    <2>1. view[k].next = data[k].next /\ data[k].next # 0 /\ data[k] \in Account
      BY DEF Accounts, Registered
    <2>2. data[k].next \in Keys
      BY <2>1 DEF Account
    <2>. QED
      BY <2>1, <2>2 DEF Accounts, Registered
  <1>2. HoldsChain(Mappings) /\ Mappings \in SUBSET Keys
    BY <1>1 DEF HoldsChain, Found
  <1>3. mapping_key_ # 0
    BY KeysAre DEF Found
  <1>4. MVec = {m \in Keys : \A S \in SUBSET Keys : HoldsChain(S) => m \in S}
    BY <1>3 DEF MVec
  <1>5. MVec \subseteq Mappings /\ mapping_key_ \in MVec
    BY <1>2, <1>4 DEF HoldsChain, Found
  <1>6. \A m \in MVec : view[m].next # 0 => view[m].next \in MVec
    <2>. SUFFICES ASSUME NEW m \in MVec, view[m].next # 0 PROVE view[m].next \in MVec
      OBVIOUS
    <2>1. m \in Keys /\ view[m].next \in Keys
      BY <1>1, <1>4
    <2>2. \A S \in SUBSET Keys : HoldsChain(S) => view[m].next \in S
      BY <1>4 DEF HoldsChain
    <2>. QED
      BY <1>4, <2>1, <2>2
  <1>7. \E m \in MVec : view[m].next = 0
    <2>. SUFFICES ASSUME \A m \in MVec : view[m].next # 0 PROVE FALSE
      OBVIOUS
    <2>1. PICK n \in Nat : Keys = 1 .. n
      BY AdminAssumption, FS_CardinalityType
    <2>. DEFINE Q(i) == \E m \in MVec : m > i
    <2>2. Q(0)
      BY <1>5, KeysAre DEF Found
    <2>3. ASSUME NEW i \in Nat, Q(i) PROVE Q(i + 1)
      <3>1. PICK m \in MVec : m > i
        BY <2>3
      <3>2. m \in Keys /\ view[m].next \in Keys /\ m < view[m].next /\ view[m].next \in MVec
        BY <1>1, <1>4, <1>6
      <3>3. m \in Nat /\ view[m].next \in Nat
        BY <3>2, KeysAre
      <3>4. view[m].next > i + 1
        BY <3>1, <3>2, <3>3
      <3>. QED
        BY <3>2, <3>4
    <2>. HIDE DEF Q
    <2>. DEFINE T == {i \in Nat : Q(i)}
    <2>4. 0 \in T /\ \A i \in 0 .. n - 1 : i \in T => i + 1 \in T
      BY <2>2, <2>3
    <2>5. 0 .. n \subseteq T
      BY <2>4, UpTo
    <2>6. PICK m \in MVec : m > n
      BY <2>5 DEF Q
    <2>. QED
      BY <1>4, <2>1, <2>6
  <1>8. MVec # {}
    BY <1>5
  <1>9. get_last_mapping \in MVec
    BY <1>7, <1>8 DEF get_last_mapping
  <1>. QED
    BY <1>5, <1>9

-----------------------------------------------------------------------------
(* The steps of a command *)

\* A command returns: with status 0 only when what it sent was processed.
LEMMA ReturnKeeps ==
    ASSUME IInv, NEW rc \in {0, 1, 2}, Return(rc), pc # "idle",
           rc = 0 => mine \subseteq processed,
           UNCHANGED <<files, mapping_key_, gen, data, net, processed, cmd, view, mine>>
    PROVE  IInv'
  <1>. DEFINE e == [cmd |-> cmd, rc |-> rc, txs |-> mine]
  <1>1. /\ pc' = "idle" /\ ended' = ended \union {e}
        /\ reqs' = <<>> /\ calls' = <<>> /\ st_' = "none"
    BY DEF Return
  <1>2. Accounts'
    BY DEF IInv, Accounts
  <1>3. MappingFound' /\ MineProcessed'
    BY <1>1 DEF IInv, MappingFound, MineProcessed
  <1>4. Calls'
    BY <1>1 DEF Calls
  <1>5. Unsent' = {}
    BY <1>1 DEF Unsent
  <1>6. SentOnce'
    BY <1>5 DEF IInv, SentOnce, TxOk, OnOk
  <1>7. Requests'
    BY <1>1 DEF Requests, ReqList
  <1>8. PriceRequest'
    BY <1>1 DEF IInv, PriceRequest
  <1>9. e.cmd = cmd /\ e.rc = rc /\ e.txs = mine
    OBVIOUS
  <1>. HIDE DEF e
  <1>10. Prices'
    <2>. SUFFICES ASSUME Believed' PROVE Prices'
      BY DEF Prices
    <2>1. Believed /\ (cmd.name = "add_price" => rc = 0)
      BY <1>1, <1>9 DEF Believed
    <2>2. ASSUME NEW t \in net, t.op = "add_price" PROVE FALSE
      <3>1. cmd.name = "add_price" /\ t \in mine
        BY <2>1, <2>2 DEF IInv, Prices
      <3>2. t \in processed
        BY <2>1, <3>1
      <3>. QED
        BY <2>2, <3>2 DEF IInv, SentOnce, RegOps
    <2>3. \A p \in Keys : data[p].kind = "product" => Cardinality(data[p].refs) <= 1
      BY <2>1 DEF IInv, Prices
    <2>. QED
      BY <1>1, <1>5, <2>2, <2>3 DEF Prices
  <1>11. CreateBeforeRegister' /\ KeysKept'
    BY DEF IInv, CreateBeforeRegister, KeysKept
  <1>12. SuccessMeansProcessed'
    BY <1>1, <1>9 DEF IInv, SuccessMeansProcessed
  <1>. QED
    BY <1>2, <1>3, <1>4, <1>6, <1>7, <1>8, <1>10, <1>11, <1>12 DEF IInv

\* The requests that are left when one is put in the client's list.
Rest(rest) ==
    /\ rest # <<>> /\ ReqList(rest)
    /\ \A t \in mine : t.op # "add_price"
    /\ cmd.name = "add_price" =>
          /\ mine = {}
          /\ \E p \in Keys :
                \/ rest = <<Req("rent", p), Req("add_price", p)>>
                \/ rest = <<Req("add_price", p)>> /\ data[p].kind = "product"

\* The next request is put in the client's list.
LEMMA PendKeeps ==
    ASSUME IInv, NEW rest, Rest(rest), Pend(rest),
           pc \in {"lookup", "poll"}, pc' \in {"prompt", "poll"}, pc' = "prompt" => mine = {},
           mine \subseteq processed,
           UNCHANGED <<files, mapping_key_, gen, data, net, processed, cmd, view, mine, ended>>
    PROVE  IInv'
  <1>1. reqs' = rest /\ calls' = <<>> /\ st_' = "pending"
    BY DEF Pend
  <1>2. Accounts'
    BY DEF IInv, Accounts
  <1>3. MappingFound'
    BY DEF IInv, MappingFound
  <1>4. MineProcessed'
    BY <1>1 DEF IInv, MineProcessed
  <1>5. Calls'
    BY <1>1 DEF Calls
  <1>6. Unsent' = {}
    BY <1>1 DEF Unsent
  <1>7. SentOnce'
    BY <1>6 DEF IInv, SentOnce, TxOk, OnOk
  <1>8. Requests'
    BY <1>1 DEF IInv, Requests, ReqList, Rest
  <1>9. PriceRequest'
    BY <1>1 DEF IInv, PriceRequest, Rest, Rent
  <1>10. Prices'
    <2>. SUFFICES ASSUME Believed' PROVE Prices'
      BY DEF Prices
    <2>1. Believed
      BY DEF Believed
    <2>2. \A t \in net : t.op # "add_price"
      BY <2>1 DEF IInv, Prices, Rest
    <2>3. \A p \in Keys : data[p].kind = "product" => Cardinality(data[p].refs) <= 1
      BY <2>1 DEF IInv, Prices
    <2>4. \A p \in Keys : data[p].kind = "product" => view[p].refs = data[p].refs
      BY <2>1 DEF IInv, Prices, Rest
    <2>. QED
      BY <1>6, <2>2, <2>3, <2>4 DEF Prices, Rest
  <1>11. CreateBeforeRegister' /\ KeysKept' /\ SuccessMeansProcessed'
    BY DEF IInv, CreateBeforeRegister, KeysKept, SuccessMeansProcessed
  <1>. QED
    BY <1>2, <1>3, <1>4, <1>5, <1>7, <1>8, <1>9, <1>10, <1>11 DEF IInv

\* Two lists of requests, one after the other.
LEMMA ReqListConcat ==
    ASSUME NEW a, NEW b, ReqList(a), ReqList(b), b # <<>>
    PROVE  a \o b # <<>> /\ ReqList(a \o b)
  <1>. DEFINE R == [req : RegOps \union OneOps \union {"rent"}, arg : Keys \union {0}]
              c == a \o b
  <1>1. a \in Seq(R) /\ b \in Seq(R)
    BY DEF ReqList
  <1>. HIDE DEF R
  <1>2. c \in Seq(R) /\ Len(c) = Len(a) + Len(b) /\ Len(a) \in Nat /\ Len(b) \in Nat \ {0}
    BY <1>1
  <1>3. \A i \in 1 .. Len(c) : c[i] = IF i <= Len(a) THEN a[i] ELSE b[i - Len(a)]
    BY <1>1, <1>2
  <1>4. DOMAIN c = 1 .. Len(c) /\ DOMAIN a = 1 .. Len(a) /\ DOMAIN b = 1 .. Len(b)
    BY <1>1, <1>2
  <1>. HIDE DEF c
  <1>5. \A i \in DOMAIN c : (\E j \in DOMAIN a : c[i] = a[j]) \/ (\E j \in DOMAIN b : c[i] = b[j])
    <2>. TAKE i \in DOMAIN c
    <2>1. CASE i <= Len(a)
      BY <1>2, <1>3, <1>4, <2>1
    <2>2. CASE ~ (i <= Len(a))
      <3>1. i - Len(a) \in 1 .. Len(b)
        BY <1>2, <1>4, <2>2
      <3>. QED
        BY <1>2, <1>3, <1>4, <2>2, <3>1
    <2>. QED
      BY <2>1, <2>2
  <1>6. ReqList(c)
    BY <1>2, <1>5 DEF ReqList, R
  <1>7. c # <<>>
    BY <1>2
  <1>. QED
    BY <1>6, <1>7 DEF c

\* What the commands ask for.
LEMMA DispatchOk ==
    ASSUME cmd \in Commands
    PROVE  /\ Dispatch(cmd) # <<>> /\ ReqList(Dispatch(cmd))
           /\ cmd.name = "add_price" =>
                \E p \in Keys : Dispatch(cmd) = <<Req("rent", p), Req("add_price", p)>>
  <1>. DEFINE R == [req : RegOps \union OneOps \union {"rent"}, arg : Keys \union {0}]
  <1>0. /\ cmd.name \in OnAccount \union {"init_mapping", "add_product"}
        /\ cmd.args \in Seq(Keys) /\ (cmd.name \in OnAccount => cmd.args # <<>>)
    BY AdminAssumption
  <1>1. \A n \in RegOps \union OneOps \union {"rent"}, a \in Keys \union {0} :
            Req(n, a) \in R /\ Req(n, a).req = n /\ Req(n, a).arg = a
    BY DEF Req
  <1>2. cmd.name \in OnAccount => cmd.args[1] \in Keys
    BY <1>0
  <1>3. CASE cmd.name = "init_mapping"
    <2>1. Dispatch(cmd) = <<Req("rent", 0), Req("init_mapping", 0)>>
      BY <1>3 DEF Dispatch, on_init_mapping
    <2>. QED
      BY <1>1, <1>3, <2>1 DEF ReqList, RegOps, OneOps
  <1>4. CASE cmd.name = "add_product"
    <2>. DEFINE more == <<Req("rent", 0), Req("add_mapping", 0)>>
                base == <<Req("rent", 0), Req("add_product", 0)>>
    <2>1. PICK first \in {<<>>, more} : Dispatch(cmd) = first \o base
      BY <1>4 DEF Dispatch, on_add_product
    <2>2. ReqList(<<>>) /\ ReqList(more) /\ ReqList(base) /\ base # <<>>
      BY <1>1, <1>4 DEF ReqList, RegOps, OneOps
    <2>. HIDE DEF more, base
    <2>. QED
      BY <1>4, <2>1, <2>2, ReqListConcat
  <1>5. CASE cmd.name = "upd_product"
    <2>1. Dispatch(cmd) = [i \in DOMAIN cmd.args |-> Req("upd_product", cmd.args[i])]
      BY <1>5 DEF Dispatch, on_upd_product
    <2>2. cmd.args # <<>> /\ Len(cmd.args) \in Nat /\ DOMAIN cmd.args = 1 .. Len(cmd.args)
      BY <1>0, <1>5 DEF OnAccount
    <2>3. \A i \in DOMAIN cmd.args : cmd.args[i] \in Keys
      BY <1>0
    <2>4. "upd_product" \in OneOps
      BY DEF OneOps
    <2>5. Dispatch(cmd) \in Seq(R)
      BY <1>1, <2>1, <2>2, <2>3, <2>4
    <2>6. \A i \in DOMAIN Dispatch(cmd) :
              Dispatch(cmd)[i].req = "upd_product" /\ Dispatch(cmd)[i].arg \in Keys
      BY <1>1, <2>1, <2>3, <2>4
    <2>7. Dispatch(cmd) # <<>>
      BY <2>1, <2>2
    <2>. QED
      BY <1>5, <2>5, <2>6, <2>7 DEF ReqList
  <1>6. CASE cmd.name = "add_price"
    <2>1. Dispatch(cmd) = <<Req("rent", cmd.args[1]), Req("add_price", cmd.args[1])>>
      BY <1>6 DEF Dispatch, on_add_price
    <2>2. cmd.args[1] \in Keys
      BY <1>2, <1>6 DEF OnAccount
    <2>. QED
      BY <1>1, <1>6, <2>1, <2>2 DEF ReqList, RegOps, OneOps
  <1>7. CASE cmd.name \in {"init_price", "set_min_pub", "add_publisher", "del_publisher"}
    <2>1. Dispatch(cmd) = <<Req(cmd.name, cmd.args[1])>>
      BY <1>7 DEF Dispatch, on_init_price, on_set_min_pub, on_upd_publisher
    <2>2. cmd.args[1] \in Keys
      BY <1>2, <1>7 DEF OnAccount
    <2>. QED
      BY <1>1, <1>7, <2>1, <2>2 DEF ReqList, RegOps, OneOps
  <1>. QED
    BY <1>0, <1>3, <1>4, <1>5, <1>6, <1>7 DEF OnAccount

\* A command starts.
LEMMA StartKeeps ==
    ASSUME IInv, NEW c \in Commands, Start(c)
    PROVE  IInv'
  <1>1. /\ pc = "idle" /\ pc' = "boot" /\ cmd' = c /\ mine' = {}
        /\ view' = [k \in Keys |-> NoAccount]
        /\ UNCHANGED <<files, mapping_key_, gen, data, net, processed, reqs, calls, st_, ended>>
    BY DEF Start, storeVars, chainVars, reqVars
  <1>2. reqs = <<>> /\ calls = <<>> /\ st_ = "none"
    BY <1>1 DEF IInv, Requests
  <1>3. Accounts'
    <2>1. NoAccount \in Account /\ NoAccount.refs = {} /\ NoAccount.next = 0
      BY DEF NoAccount, Account
    <2>2. view' \in [Keys -> Account] /\ \A k \in Keys : view'[k] = NoAccount
      BY <1>1, <2>1
    <2>. QED
      BY <1>1, <2>1, <2>2 DEF IInv, Accounts
  <1>4. MappingFound' /\ MineProcessed'
    BY <1>1 DEF MappingFound, MineProcessed
  <1>5. Calls'
    BY <1>1, <1>2 DEF Calls
  <1>6. Unsent' = {}
    BY <1>1, <1>2 DEF Unsent
  <1>7. SentOnce'
    BY <1>1, <1>6 DEF IInv, SentOnce, TxOk, OnOk
  <1>8. Requests'
    BY <1>1, <1>2 DEF Requests, ReqList
  <1>9. PriceRequest'
    BY <1>1, <1>2 DEF PriceRequest
  <1>10. Prices'
    BY <1>1, <1>6 DEF IInv, Prices, Believed
  <1>11. CreateBeforeRegister' /\ KeysKept' /\ SuccessMeansProcessed'
    BY <1>1 DEF IInv, CreateBeforeRegister, KeysKept, SuccessMeansProcessed
  <1>. QED
    BY <1>3, <1>4, <1>5, <1>7, <1>8, <1>9, <1>10, <1>11 DEF IInv

\* The products the client knows are products.
LEMMA KnownOk ==
    ASSUME Accounts, mapping_key_ = 0 \/ data[mapping_key_].kind = "mapping", NEW p \in KnownProducts
    PROVE  p \in Keys /\ data[p].kind = "product"
  <1>1. PICK m \in MVec : p \in view[m].refs
    BY DEF KnownProducts
  <1>2. mapping_key_ # 0
    BY <1>1 DEF MVec
  <1>3. Found
    BY <1>2 DEF Found, Accounts
  <1>4. m \in Keys /\ data[m].kind = "mapping"
    BY <1>3, LastMapping
  <1>5. p \in data[m].refs /\ data[m] \in Account
    BY <1>1, <1>4 DEF Accounts, Registered
  <1>. QED
    BY <1>4, <1>5 DEF Accounts, Registered, Account

\* bootstrap: the accounts are fetched, or the command fails.
LEMMA BootstrapKeeps ==
    ASSUME IInv, Bootstrap
    PROVE  IInv'
  <1>1. /\ pc = "boot"
        /\ UNCHANGED <<files, mapping_key_, gen, data, net, processed, cmd, mine>>
    BY DEF Bootstrap, storeVars, chainVars
  <1>2. CASE InvalidMapping
    <2>1. Return(1) /\ UNCHANGED view
      BY <1>2 DEF Bootstrap
    <2>. QED
      BY <1>1, <2>1, ReturnKeeps
  <1>3. CASE ~ InvalidMapping
    <2>1. view' = data /\ pc' = "lookup" /\ UNCHANGED <<reqs, calls, st_, ended>>
      BY <1>3 DEF Bootstrap, reqVars
    <2>2. reqs = <<>> /\ calls = <<>> /\ st_ = "none" /\ mine = {} /\ cmd \in Commands
      BY <1>1 DEF IInv, Requests, MineProcessed
    <2>3. Accounts'
      BY <1>1, <2>1 DEF IInv, Accounts, Registered
    <2>4. MappingFound'
      BY <1>1, <1>3, <2>1 DEF MappingFound, InvalidMapping
    <2>5. MineProcessed'
      BY <1>1, <2>1, <2>2 DEF MineProcessed
    <2>6. Calls'
      BY <2>1, <2>2 DEF Calls
    <2>7. Unsent' = {}
      BY <2>1, <2>2 DEF Unsent
    <2>8. SentOnce'
      BY <1>1, <2>7 DEF IInv, SentOnce, TxOk, OnOk
    <2>9. Requests'
      BY <1>1, <2>1, <2>2 DEF Requests, ReqList
    <2>10. PriceRequest'
      BY <1>1, <2>1, <2>2 DEF PriceRequest
    <2>11. Prices'
      BY <1>1, <2>1, <2>2, <2>7 DEF IInv, Prices, Believed
    <2>12. CreateBeforeRegister' /\ KeysKept' /\ SuccessMeansProcessed'
      BY <1>1, <2>1 DEF IInv, CreateBeforeRegister, KeysKept, SuccessMeansProcessed
    <2>. QED
      BY <2>3, <2>4, <2>5, <2>6, <2>8, <2>9, <2>10, <2>11, <2>12 DEF IInv
  <1>. QED
    BY <1>2, <1>3

\* The command's accounts are looked up.
LEMMA LookUpKeeps ==
    ASSUME IInv, LookUp
    PROVE  IInv'
  <1>1. /\ pc = "lookup"
        /\ UNCHANGED <<files, mapping_key_, gen, data, net, processed, cmd, view, mine>>
    BY DEF LookUp, storeVars, chainVars
  <1>2. mine = {} /\ cmd \in Commands
    BY <1>1 DEF IInv, Requests, MineProcessed
  <1>3. CASE Finds(Head(Dispatch(cmd)))
    <2>1. Pend(Dispatch(cmd)) /\ pc' \in {"prompt", "poll"} /\ UNCHANGED ended
      BY <1>3 DEF LookUp
    <2>2. Rest(Dispatch(cmd))
      BY <1>2, DispatchOk DEF Rest
    <2>. QED
      BY <1>1, <1>2, <2>1, <2>2, PendKeeps
  <1>4. CASE ~ Finds(Head(Dispatch(cmd)))
    <2>1. Return(1)
      BY <1>4 DEF LookUp
    <2>. QED
      BY <1>1, <2>1, ReturnKeeps
  <1>. QED
    BY <1>3, <1>4

\* The operator's answer.
LEMMA PromptKeeps ==
    ASSUME IInv, NEW yes \in BOOLEAN, Prompt(yes)
    PROVE  IInv'
  <1>1. /\ pc = "prompt"
        /\ UNCHANGED <<files, mapping_key_, gen, data, net, processed, cmd, view, mine>>
    BY DEF Prompt, storeVars, chainVars
  <1>2. CASE ~ yes
    <2>1. Return(1)
      BY <1>2 DEF Prompt
    <2>. QED
      BY <1>1, <2>1, ReturnKeeps
  <1>3. CASE yes
    <2>1. pc' = "poll" /\ UNCHANGED <<reqs, calls, st_, ended>>
      BY <1>3 DEF Prompt, reqVars
    <2>2. st_ = "pending" /\ mine = {}
      BY <1>1 DEF IInv, Requests, MineProcessed
    <2>3. Accounts' /\ MappingFound'
      BY <1>1, <2>1 DEF IInv, Accounts, MappingFound
    <2>4. MineProcessed'
      BY <1>1, <2>1, <2>2 DEF MineProcessed
    <2>5. Calls'
      BY <1>1, <2>1, <2>2 DEF IInv, Calls, TxOk, OnOk
    <2>6. Unsent' = {}
      BY <2>1, <2>2 DEF Unsent
    <2>7. SentOnce'
      BY <1>1, <2>6 DEF IInv, SentOnce, TxOk, OnOk
    <2>8. Requests'
      BY <1>1, <2>1 DEF IInv, Requests, ReqList
    <2>9. PriceRequest'
      BY <1>1, <2>1 DEF IInv, PriceRequest
    <2>10. Prices'
      BY <1>1, <2>1, <2>2, <2>6 DEF IInv, Prices, Believed
    <2>11. CreateBeforeRegister' /\ KeysKept' /\ SuccessMeansProcessed'
      BY <1>1, <2>1 DEF IInv, CreateBeforeRegister, KeysKept, SuccessMeansProcessed
    <2>. QED
      BY <2>3, <2>4, <2>5, <2>7, <2>8, <2>9, <2>10, <2>11 DEF IInv
  <1>. QED
    BY <1>2, <1>3

\* A request is done: the next one is submitted, or the command returns.
LEMMA DoneKeeps ==
    ASSUME IInv, pc = "poll", Done, mine \subseteq processed, st_ \in {"accepted", "sig"},
           calls = Rent \/ cmd.name # "add_price" \/ Len(reqs) = 1,
           UNCHANGED <<files, mapping_key_, gen, data, net, processed, cmd, view, mine>>
    PROVE  IInv'
  <1>. DEFINE R == [req : RegOps \union OneOps \union {"rent"}, arg : Keys \union {0}]
  <1>1. reqs # <<>> /\ reqs \in Seq(R) /\ ReqList(reqs)
    BY DEF IInv, Requests, ReqList
  <1>2. CASE Len(reqs) = 1
    <2>1. Return(0)
      BY <1>2 DEF Done
    <2>. QED
      BY <2>1, ReturnKeeps
  <1>3. CASE Len(reqs) # 1 /\ ~ Finds(reqs[2])
    <2>1. Return(1)
      BY <1>3 DEF Done
    <2>. QED
      BY <2>1, ReturnKeeps
  <1>4. CASE Len(reqs) # 1 /\ Finds(reqs[2])
    <2>1. Pend(Tail(reqs)) /\ UNCHANGED <<pc, ended>>
      BY <1>4 DEF Done
    <2>2. Tail(reqs) # <<>> /\ ReqList(Tail(reqs))
      <3>. HIDE DEF R
      <3>1. /\ Tail(reqs) \in Seq(R) /\ Len(Tail(reqs)) = Len(reqs) - 1 /\ Len(reqs) \in Nat \ {0, 1}
            /\ DOMAIN reqs = 1 .. Len(reqs) /\ DOMAIN Tail(reqs) = 1 .. Len(reqs) - 1
        BY <1>1, <1>4
      <3>2. \A i \in DOMAIN Tail(reqs) : i + 1 \in DOMAIN reqs /\ Tail(reqs)[i] = reqs[i + 1]
        BY <1>1, <3>1
      <3>3. Tail(reqs) # <<>>
        <4>. DEFINE rest == Tail(reqs)
        <4>1. Len(rest) # 0
          BY <3>1
        <4>. HIDE DEF rest
        <4>2. rest # <<>>
          BY <4>1
        <4>. QED
          BY <4>2 DEF rest
      <3>4. ReqList(Tail(reqs))
        BY <1>1, <3>1, <3>2 DEF ReqList, R
      <3>. QED
        BY <3>3, <3>4
    <2>3. CASE cmd.name # "add_price"
      <3>1. Rest(Tail(reqs))
        BY <2>2, <2>3 DEF IInv, PriceRequest, Rest
      <3>. QED
        BY <2>1, <3>1, PendKeeps
    <2>4. CASE cmd.name = "add_price"
      <3>1. PICK p \in Keys :
               \/ reqs = <<Req("rent", p), Req("add_price", p)>> /\ mine = {}
               \/ reqs = <<Req("add_price", p)>>
        BY <2>4 DEF IInv, PriceRequest
      <3>2. reqs = <<Req("rent", p), Req("add_price", p)>> /\ mine = {}
        BY <1>4, <3>1
      <3>3. Tail(reqs) = <<Req("add_price", p)>> /\ reqs[2] = Req("add_price", p)
        BY <3>2
      <3>4. p # 0 /\ reqs[2].arg = p /\ reqs[2].req = "add_price"
        BY <3>3, KeysAre DEF Req
      <3>5. p \in KnownProducts
        BY <1>4, <3>4 DEF Finds
      <3>6. mapping_key_ = 0 \/ data[mapping_key_].kind = "mapping"
        BY <2>4 DEF IInv, MappingFound
      <3>7. data[p].kind = "product"
        BY <3>5, <3>6, KnownOk DEF IInv
      <3>8. Rest(Tail(reqs))
        BY <2>2, <2>4, <3>2, <3>3, <3>7 DEF Rest
      <3>. QED
        BY <2>1, <3>2, <3>8, PendKeeps
    <2>. QED
      BY <2>3, <2>4
  <1>. QED
    BY <1>2, <1>3, <1>4

-----------------------------------------------------------------------------
(* submit_poll *)

\* The calls a request makes when it is submitted.
LEMMA CallsMade ==
    ASSUME NEW a, NEW on, NEW op, NEW op2
    PROVE  /\ [i \in DOMAIN <<op>> |-> Tx(<<op>>[i], a, on)] = <<Tx(op, a, on)>>
           /\ [i \in DOMAIN <<op, op2>> |-> Tx(<<op, op2>>[i], a, on)] = <<Tx(op, a, on), Tx(op2, a, on)>>
  <1>. DEFINE x == Tx(op, a, on)
              y == Tx(op2, a, on)
  <1>1. DOMAIN <<op>> = {1} /\ DOMAIN <<op, op2>> = {1, 2}
    OBVIOUS
  <1>2. <<op>>[1] = op /\ <<op, op2>>[1] = op /\ <<op, op2>>[2] = op2
    OBVIOUS
  <1>3. [i \in {1} |-> Tx(<<op>>[i], a, on)] = [i \in {1} |-> x]
    BY <1>2
  <1>4. [i \in {1, 2} |-> Tx(<<op, op2>>[i], a, on)] = [i \in {1, 2} |-> IF i = 1 THEN x ELSE y]
    BY <1>2
  <1>. HIDE DEF x, y
  <1>5. [i \in {1} |-> x] = <<x>> /\ [i \in {1, 2} |-> IF i = 1 THEN x ELSE y] = <<x, y>>
    OBVIOUS
  <1>. QED
    BY <1>1, <1>3, <1>4, <1>5 DEF x, y

\* A request that creates an account sends these, under a new key.
Creates(op, on) ==
    LET k == gen + 1
    IN  /\ k \in Keys /\ gen' = k /\ files' = files \union {k}
        /\ mapping_key_' = IF op = "init_mapping" THEN k ELSE mapping_key_
        /\ calls' = <<Tx("create", k, on), Tx(op, k, on)>>
        /\ OnOk(Tx(op, k, on))
        /\ op = "init_mapping" => cmd.name = "init_mapping"
        /\ op = "add_price" => view[on].refs = {}

\* What submit makes of the first request.
LEMMA SubmitCases ==
    ASSUME IInv, Submit
    PROVE  \/ Return(1) /\ UNCHANGED <<files, mapping_key_, gen>>
           \/ /\ st_' = "sent" /\ UNCHANGED <<pc, reqs, ended>>
              /\ \/ /\ calls' = Rent /\ UNCHANGED <<files, mapping_key_, gen>>
                    /\ Head(reqs).req = "rent"
                 \/ /\ \E op \in OneOps, k \in Keys : calls' = <<Tx(op, k, k)>>
                    /\ UNCHANGED <<files, mapping_key_, gen>>
                    /\ Head(reqs).req \in OneOps
                 \/ \E op \in RegOps, on \in Keys \union {0} : Creates(op, on) /\ Head(reqs).req = op
  <1>. DEFINE h == Head(reqs)
              r == Request(h)
              k == IF r.creates THEN gen + 1 ELSE r.on
  <1>1. /\ h \in [req : RegOps \union OneOps \union {"rent"}, arg : Keys \union {0}]
        /\ h.req \in OneOps => h.arg \in Keys
        /\ h.req = "init_mapping" => cmd.name = "init_mapping"
        /\ h.req \in {"add_mapping", "add_product"} => cmd.name = "add_product"
        /\ h.req = "add_price" => cmd.name = "add_price"
    <2>1. pc = "poll"
      BY DEF Submit
    <2>2. reqs # <<>> /\ ReqList(reqs)
      BY <2>1 DEF IInv, Requests
    <2>. DEFINE R == [req : RegOps \union OneOps \union {"rent"}, arg : Keys \union {0}]
    <2>3. reqs \in Seq(R)
      BY <2>2 DEF ReqList
    <2>. HIDE DEF R
    <2>4. h = reqs[1] /\ 1 \in DOMAIN reqs /\ h \in R
      BY <2>2, <2>3
    <2>. HIDE DEF h
    <2>. QED
      BY <2>2, <2>4 DEF ReqList, R
  <1>2. CASE ~ (r.ready /\ r.ok)
    BY <1>2 DEF Submit
  <1>3. CASE r.ready /\ r.ok
    <2>1. /\ r.creates => k \in Keys
          /\ IF r.creates THEN WriteKey(h.req, k) /\ gen' = k
             ELSE UNCHANGED <<files, mapping_key_, gen>>
          /\ calls' = [i \in DOMAIN r.calls |-> Tx(r.calls[i], k, r.on)]
          /\ st_' = "sent" /\ UNCHANGED <<pc, reqs, ended>> /\ pc = "poll"
      BY <1>3 DEF Submit
    <2>. HIDE DEF h
    <2>2. CASE h.req = "rent"
      <3>1. r = get_minimum_balance_rent_exemption
        BY <2>2 DEF Request
      <3>2. r.creates = FALSE /\ r.calls = <<"rent">> /\ r.on = 0
        BY <3>1 DEF get_minimum_balance_rent_exemption
      <3>. HIDE DEF r
      <3>3. calls' = Rent
        BY <2>1, <3>2, CallsMade DEF Rent
      <3>. QED
        BY <2>1, <2>2, <3>2, <3>3 DEF h
    <2>3. CASE h.req \in OneOps
      <3>1. r.creates = FALSE /\ r.calls = <<h.req>> /\ r.on = h.arg
        BY <2>3 DEF Request, OneOps, upd_product, init_price, set_min_pub_req, add_publisher, del_publisher
      <3>. HIDE DEF r
      <3>2. calls' = <<Tx(h.req, h.arg, h.arg)>>
        BY <2>1, <3>1, CallsMade
      <3>. QED
        BY <1>1, <2>1, <2>3, <3>1, <3>2 DEF h
    <2>4. CASE h.req \in RegOps
      <3>1. r.creates = TRUE /\ r.calls = <<"create", h.req>>
        BY <2>4 DEF Request, RegOps, init_mapping, add_mapping, add_product, add_price
      <3>2. /\ h.req = "init_mapping" => r.on = 0
            /\ h.req \in {"add_mapping", "add_product"} => r.on = get_last_mapping /\ mapping_key_ # 0
            /\ h.req = "add_price" => r.on = h.arg /\ view[h.arg].refs = {}
        BY <1>3, <2>4 DEF Request, RegOps, init_mapping, add_mapping, add_product, add_price
      <3>. HIDE DEF r
      <3>3. /\ gen + 1 \in Keys /\ gen' = gen + 1 /\ files' = files \union {gen + 1}
            /\ mapping_key_' = IF h.req = "init_mapping" THEN gen + 1 ELSE mapping_key_
            /\ calls' = <<Tx("create", gen + 1, r.on), Tx(h.req, gen + 1, r.on)>>
        BY <2>1, <3>1, CallsMade DEF WriteKey
      <3>4. OnOk(Tx(h.req, gen + 1, r.on)) /\ r.on \in Keys \union {0}
        <4>. DEFINE t == Tx(h.req, gen + 1, r.on)
        <4>1. t.op = h.req /\ t.acct = gen + 1 /\ t.on = r.on
          BY DEF Tx
        <4>. HIDE DEF t
        <4>2. CASE h.req = "init_mapping"
          BY <3>2, <4>1, <4>2 DEF OnOk, t
        <4>3. CASE h.req \in {"add_mapping", "add_product"}
          <5>1. mapping_key_ # 0 /\ cmd.name # "init_mapping" /\ Accounts
            BY <1>1, <3>2, <4>3 DEF IInv
          <5>2. Found
            BY <2>1, <5>1 DEF IInv, MappingFound, Found, Accounts
          <5>3. r.on \in Keys /\ data[r.on].kind = "mapping"
            BY <3>2, <4>3, <5>1, <5>2, LastMapping
          <5>4. r.on <= gen /\ gen \in Nat
            BY <5>1, <5>3 DEF Accounts
          <5>5. r.on < gen + 1
            BY <5>3, <5>4, KeysAre
          <5>. QED
            BY <4>1, <4>3, <5>3, <5>5 DEF OnOk, t
        <4>4. CASE h.req = "add_price"
          <5>1. PICK p \in Keys :
                  \/ reqs = <<Req("rent", p), Req("add_price", p)>>
                  \/ reqs = <<Req("add_price", p)>> /\ data[p].kind = "product"
            BY <1>1, <2>1, <4>4 DEF IInv, PriceRequest
          <5>2. h.arg = p /\ data[p].kind = "product"
            BY <4>4, <5>1 DEF h, Req
          <5>. QED
            BY <3>2, <4>1, <4>4, <5>2 DEF OnOk, t
        <4>. QED
          BY <2>4, <4>2, <4>3, <4>4 DEF RegOps
      <3>5. Creates(h.req, r.on)
        BY <1>1, <3>2, <3>3, <3>4 DEF Creates
      <3>. QED
        BY <2>1, <2>4, <3>4, <3>5 DEF h
    <2>. QED
      BY <1>1, <2>2, <2>3, <2>4
  <1>. QED
    BY <1>2, <1>3

\* The first request in hand.
LEMMA HeadReq ==
    ASSUME Requests, pc = "poll"
    PROVE  /\ Head(reqs).req = "init_mapping" => cmd.name = "init_mapping"
           /\ Head(reqs).req = "add_price" => cmd.name = "add_price"
  <1>. DEFINE R == [req : RegOps \union OneOps \union {"rent"}, arg : Keys \union {0}]
  <1>1. reqs # <<>> /\ ReqList(reqs)
    BY DEF Requests
  <1>2. reqs \in Seq(R)
    BY <1>1 DEF ReqList
  <1>. HIDE DEF R
  <1>3. Head(reqs) = reqs[1] /\ 1 \in DOMAIN reqs
    BY <1>1, <1>2
  <1>. QED
    BY <1>1, <1>3 DEF ReqList

\* A rent request is no transaction.
LEMMA RentNotOne ==
    ASSUME NEW op \in OneOps, NEW k
    PROVE  <<Tx(op, k, k)>> # Rent
  <1>1. Tx(op, k, k).op = op /\ Tx("rent", 0, 0).op = "rent"
    BY DEF Tx
  <1>2. Tx(op, k, k) # Tx("rent", 0, 0)
    BY <1>1 DEF OneOps
  <1>. QED
    BY <1>2 DEF Rent

\* submit: the checks fail, or the first call is made.
LEMMA SubmitKeeps ==
    ASSUME IInv, Submit
    PROVE  IInv'
  <1>1. /\ pc = "poll" /\ st_ = "pending"
        /\ UNCHANGED <<data, net, processed, cmd, view, mine>>
    BY DEF Submit, chainVars
  <1>2. CASE Return(1) /\ UNCHANGED <<files, mapping_key_, gen>>
    BY <1>1, <1>2, ReturnKeeps
  <1>3. CASE ~ (Return(1) /\ UNCHANGED <<files, mapping_key_, gen>>)
    <2>1. /\ st_' = "sent" /\ UNCHANGED <<pc, reqs, ended>>
          /\ \/ /\ calls' = Rent /\ UNCHANGED <<files, mapping_key_, gen>>
                /\ Head(reqs).req = "rent"
             \/ /\ \E op \in OneOps, k \in Keys : calls' = <<Tx(op, k, k)>>
                /\ UNCHANGED <<files, mapping_key_, gen>>
                /\ Head(reqs).req \in OneOps
             \/ \E op \in RegOps, on \in Keys \union {0} : Creates(op, on) /\ Head(reqs).req = op
      BY <1>3, SubmitCases
    <2>2. mine \subseteq processed /\ calls = <<>>
      BY <1>1 DEF IInv, MineProcessed, Calls
    <2>3. /\ cmd.name = "add_price" => mine = {}
          /\ \A t \in mine : t.op # "add_price"
          /\ Believed => \A t \in net : t.op # "add_price"
      BY <1>1 DEF IInv, PriceRequest, Prices
    <2>4. MineProcessed'
      BY <1>1, <2>1, <2>2 DEF IInv, MineProcessed
    <2>5. Requests'
      BY <1>1, <2>1 DEF IInv, Requests, ReqList
    <2>6. Believed' = Believed
      BY <2>1 DEF Believed
    <2>7. SuccessMeansProcessed' /\ CreateBeforeRegister'
      BY <1>1, <2>1 DEF IInv, SuccessMeansProcessed, CreateBeforeRegister
    <2>8. Unsent' = {calls'[i] : i \in DOMAIN calls'}
      BY <2>1 DEF Unsent
    <2>9. CASE /\ UNCHANGED <<files, mapping_key_, gen>>
               /\ calls' = Rent \/ \E op \in OneOps, k \in Keys : calls' = <<Tx(op, k, k)>>
               /\ calls' = Rent => Head(reqs).req = "rent"
               /\ calls' # Rent => Head(reqs).req \in OneOps
      <3>1. PICK x : calls' = <<x>> /\ ((x = Rent[1] /\ calls' = Rent) \/ \E op \in OneOps, k \in Keys : x = Tx(op, k, k))
        BY <2>9 DEF Rent
      <3>2. x.op \in OneOps \union {"rent"} /\ (x = Rent[1] \/ TxOk(x))
        BY <3>1 DEF Rent, Tx, TxOk, OnOk, OneOps, Ops
      <3>3. x.op \notin RegOps
        BY <3>2 DEF RegOps, OneOps
      <3>4. DOMAIN calls' = {1} /\ calls'[1] = x /\ Len(calls') = 1
        BY <3>1
      <3>5. Accounts' /\ MappingFound' /\ KeysKept'
        BY <1>1, <2>1, <2>9 DEF IInv, Accounts, MappingFound, KeysKept
      <3>6. (\A t : TxOk(t)' = TxOk(t))
        BY <1>1, <2>9 DEF TxOk, OnOk
      <3>7. Calls'
        BY <2>1, <2>9, <3>2, <3>3, <3>4, <3>6 DEF Calls
      <3>8. SentOnce'
        BY <1>1, <2>8, <2>9, <3>3, <3>4, <3>6 DEF IInv, SentOnce
      <3>9. PriceRequest'
        <4>1. x.op # "add_price"
          BY <3>3 DEF RegOps
        <4>2. ASSUME cmd.name = "add_price"
              PROVE  \E p \in Keys : reqs = <<Req("rent", p), Req("add_price", p)>>
                                     /\ mine = {} /\ calls' = Rent
          <5>1. PICK p \in Keys :
                   \/ reqs = <<Req("rent", p), Req("add_price", p)>> /\ mine = {}
                   \/ reqs = <<Req("add_price", p)>>
            BY <1>1, <4>2 DEF IInv, PriceRequest
          <5>2. reqs = <<Req("add_price", p)>> => Head(reqs).req = "add_price"
            BY DEF Req
          <5>3. reqs = <<Req("rent", p), Req("add_price", p)>> => Head(reqs).req = "rent"
            BY DEF Req
          <5>. QED
            BY <2>9, <5>1, <5>2, <5>3 DEF OneOps
        <4>. QED
          BY <1>1, <2>1, <2>3, <3>4, <4>1, <4>2 DEF PriceRequest
      <3>10. Prices'
        <4>1. \A t \in Unsent' : t.op # "add_price"
          BY <2>8, <3>3, <3>4 DEF RegOps
        <4>. QED
          BY <1>1, <2>1, <2>3, <2>6, <4>1 DEF IInv, Prices
      <3>. QED
        BY <2>4, <2>5, <2>7, <3>5, <3>7, <3>8, <3>9, <3>10 DEF IInv
    <2>10. ASSUME NEW op \in RegOps, NEW on \in Keys \union {0}, Creates(op, on), Head(reqs).req = op
           PROVE  IInv'
      <3>0. PICK k : k = gen + 1
        OBVIOUS
      <3>. DEFINE c == Tx("create", k, on)
                  x == Tx(op, k, on)
      <3>1. /\ k \in Keys /\ gen' = k /\ files' = files \union {k}
            /\ mapping_key_' = IF op = "init_mapping" THEN k ELSE mapping_key_
            /\ calls' = <<c, x>>
            /\ OnOk(x)
            /\ op = "init_mapping" => cmd.name = "init_mapping"
            /\ op = "add_price" => view[on].refs = {}
        BY <2>10, <3>0 DEF Creates
      <3>2. /\ c.op = "create" /\ c.acct = k /\ c.on = on
            /\ x.op = op /\ x.acct = k /\ x.on = on
            /\ c = Tx(c.op, c.acct, c.on) /\ x = Tx(x.op, x.acct, x.on)
        BY DEF Tx
      <3>3. gen \in Nat
        BY DEF IInv, Accounts
      <3>4. gen <= k /\ k <= k /\ k \in Nat
        BY <3>0, <3>3
      <3>5. DOMAIN calls' = {1, 2} /\ calls'[1] = c /\ calls'[2] = x /\ Len(calls') = 2
        BY <3>1
      <3>6. calls' \in CallsFor(k)
        BY <3>1 DEF CallsFor
      <3>a. \A n \in Keys : n <= gen => n <= gen'
        <4>1. \A n \in Keys : n \in Nat
          BY KeysAre
        <4>. QED
          BY <3>1, <3>3, <3>4, <4>1
      <3>. HIDE DEF c, x
      <3>7. \A t : TxOk(t) => TxOk(t)'
        BY <1>1, <3>a DEF TxOk, OnOk
      <3>8. TxOk(c)' /\ TxOk(x)'
        <4>1. OnOk(x)' /\ OnOk(c)'
          BY <1>1, <3>1, <3>2 DEF OnOk
        <4>2. c.acct <= gen' /\ x.acct <= gen' /\ c.op \in Ops /\ x.op \in Ops
          BY <3>1, <3>2, <3>4 DEF Ops
        <4>. QED
          BY <3>1, <3>2, <4>1, <4>2 DEF TxOk
      <3>9. Accounts'
        <4>1. \A i \in Keys : data[i].kind # "none" => i <= gen'
          <5>1. \A i \in Keys : data[i].kind # "none" => i <= gen
            BY DEF IInv, Accounts
          <5>. QED
            BY <3>a, <5>1
        <4>. QED
          BY <1>1, <3>1, <3>4, <4>1 DEF IInv, Accounts
      <3>10. MappingFound'
        BY <1>1, <2>1, <3>1 DEF IInv, MappingFound
      <3>11. Calls'
        BY <2>1, <3>1, <3>5, <3>6, <3>8 DEF Calls
      <3>12. \A t \in net \union processed : t.op \in RegOps => t # c /\ t # x /\ t.acct \in Keys /\ t.acct <= gen'
        <4>1. \A t \in net \union processed : t.op \in RegOps => t.acct <= gen
          BY DEF IInv, SentOnce
        <4>a. \A t \in net \union processed : t.op \in RegOps => t.acct \in Nat
          BY KeysAre DEF IInv, SentOnce
        <4>2. ~ (k <= gen)
          BY <3>0, <3>3
        <4>3. \A t \in net \union processed : t.op \in RegOps => t.acct <= gen'
          <5>1. gen' = gen + 1
            BY <3>0, <3>1
          <5>. QED
            BY <3>3, <4>1, <4>a, <5>1
        <4>. QED
          BY <3>2, <4>1, <4>2, <4>3 DEF IInv, SentOnce
      <3>13. SentOnce'
        <4>1. \A t \in Unsent' : t.op \in RegOps => t \notin net' \union processed'
          BY <1>1, <2>8, <3>5, <3>12
        <4>. QED
          BY <1>1, <3>7, <3>12, <4>1 DEF IInv, SentOnce
      <3>14. KeysKept'
        BY <1>1, <3>1 DEF IInv, KeysKept
      <3>15. op = "add_price" <=> cmd.name = "add_price"
        <4>1. op = "add_price" => cmd.name = "add_price"
          BY <1>1, <2>10, HeadReq DEF IInv
        <4>2. ASSUME cmd.name = "add_price" PROVE op = "add_price"
          <5>1. PICK p \in Keys :
                   \/ reqs = <<Req("rent", p), Req("add_price", p)>>
                   \/ reqs = <<Req("add_price", p)>>
            BY <1>1, <4>2 DEF IInv, PriceRequest
          <5>2. Head(reqs).req \in {"rent", "add_price"}
            BY <5>1 DEF Req
          <5>. QED
            BY <2>10, <5>2 DEF RegOps
        <4>. QED
          BY <4>1, <4>2
      <3>16. PriceRequest'
        <4>1. calls' # Rent
          BY <3>1, <3>5 DEF Rent
        <4>2. ASSUME cmd.name = "add_price"
              PROVE  \E p \in Keys : reqs = <<Req("add_price", p)>> /\ data[p].kind = "product"
          <5>1. PICK p \in Keys :
                   \/ reqs = <<Req("rent", p), Req("add_price", p)>>
                   \/ reqs = <<Req("add_price", p)>> /\ data[p].kind = "product"
            BY <1>1, <4>2 DEF IInv, PriceRequest
          <5>2. reqs = <<Req("rent", p), Req("add_price", p)>> => Head(reqs).req = "rent"
            BY DEF Req
          <5>. QED
            BY <2>10, <5>1, <5>2 DEF RegOps
        <4>. QED
          BY <1>1, <2>1, <2>3, <3>2, <3>5, <3>15, <4>1, <4>2 DEF PriceRequest
      <3>17. Prices'
        <4>. SUFFICES ASSUME Believed PROVE Prices'
          BY <2>6 DEF Prices
        <4>1. \A p \in Keys : data[p].kind = "product" => view[p].refs = data[p].refs
          BY <1>1, <2>3 DEF IInv, Prices
        <4>2. op = "add_price" => data[on].refs = {}
          BY <3>1, <3>2, <4>1 DEF OnOk
        <4>3. \A t \in Unsent' : t.op = "add_price" => data'[t.on].refs = {}
          BY <1>1, <2>8, <3>2, <3>5, <4>2
        <4>4. \A p \in Keys : data[p].kind = "product" => Cardinality(data[p].refs) <= 1
          BY DEF IInv, Prices
        <4>. QED
          BY <1>1, <2>1, <2>3, <4>1, <4>3, <4>4 DEF Prices
      <3>. QED
        BY <2>4, <2>5, <2>7, <3>9, <3>10, <3>11, <3>13, <3>14, <3>16, <3>17 DEF IInv
    <2>. QED
      BY <2>1, <2>9, <2>10, RentNotOne
  <1>. QED
    BY <1>2, <1>3

\* What a request that has been submitted has to send: one call, or the
\* transaction that creates an account and the one that registers it.
LEMMA CallShape ==
    ASSUME Calls, st_ \in {"sent", "accepted", "sig"}
    PROVE  /\ Len(calls) \in {1, 2} /\ DOMAIN calls = 1 .. Len(calls) /\ Head(calls) = calls[1]
           /\ calls[1].op = "rent" <=> calls = Rent
           /\ Len(calls) = 1 => calls[1].op # "create"
           /\ Len(calls) = 2 =>
                 /\ calls[1].op = "create" /\ calls[1].acct \in files /\ calls[2].op \in RegOps
                 /\ calls[1] = Tx("create", calls[2].acct, calls[2].on)
                 /\ Tail(calls) = <<calls[2]>>
                 /\ \E k \in Keys : k \in files /\ Tail(calls) \in CallsFor(k)
  <1>0. \A op, k, on : Tx(op, k, on).op = op /\ Tx(op, k, on).acct = k /\ Tx(op, k, on).on = on
    BY DEF Tx
  <1>1. CASE calls = Rent
    BY <1>0, <1>1 DEF Rent
  <1>2. ASSUME NEW k \in Keys, NEW op \in OneOps \union RegOps, NEW on, calls = <<Tx(op, k, on)>>
        PROVE  /\ Len(calls) = 1 /\ DOMAIN calls = 1 .. Len(calls) /\ Head(calls) = calls[1]
               /\ calls[1].op \notin {"create", "rent"} /\ calls # Rent
    <2>1. /\ Len(calls) = 1 /\ DOMAIN calls = 1 .. Len(calls) /\ Head(calls) = calls[1]
          /\ calls[1] = Tx(op, k, on)
      BY <1>2
    <2>2. calls[1].op = op /\ op \notin {"create", "rent"}
      BY <1>0, <2>1 DEF OneOps, RegOps
    <2>3. Rent[1].op = "rent"
      BY <1>0 DEF Rent
    <2>. QED
      BY <2>1, <2>2, <2>3
  <1>3. ASSUME NEW k \in Keys, k \in files, NEW op \in RegOps, NEW on \in Keys \union {0},
               calls = <<Tx("create", k, on), Tx(op, k, on)>>
        PROVE  /\ Len(calls) = 2 /\ DOMAIN calls = 1 .. Len(calls) /\ Head(calls) = calls[1]
               /\ calls # Rent /\ calls[1].op = "create" /\ calls[1].acct \in files /\ calls[2].op \in RegOps
               /\ calls[1] = Tx("create", calls[2].acct, calls[2].on)
               /\ Tail(calls) = <<calls[2]>> /\ Tail(calls) \in CallsFor(k)
    <2>1. /\ Len(calls) = 2 /\ DOMAIN calls = 1 .. Len(calls) /\ Head(calls) = calls[1]
          /\ calls[1] = Tx("create", k, on) /\ calls[2] = Tx(op, k, on)
          /\ Tail(calls) = <<Tx(op, k, on)>>
      BY <1>3
    <2>2. Len(Rent) = 1
      BY DEF Rent
    <2>3. Tail(calls) \in CallsFor(k)
      BY <2>1 DEF CallsFor
    <2>. QED
      BY <1>0, <1>3, <2>1, <2>2, <2>3
  <1>4. CASE \E k \in Keys, op \in OneOps : calls = <<Tx(op, k, k)>>
    BY <1>2, <1>4
  <1>5. ASSUME NEW k \in Keys, k \in files, calls \in CallsFor(k)
        PROVE  \E on \in Keys \union {0}, op \in RegOps :
                  \/ calls = <<Tx(op, k, on)>>
                  \/ calls = <<Tx("create", k, on), Tx(op, k, on)>>
    BY <1>5 DEF CallsFor
  <1>6. CASE \E k \in Keys : k \in files /\ calls \in CallsFor(k)
    <2>1. PICK k \in Keys : k \in files /\ calls \in CallsFor(k)
      BY <1>6
    <2>2. PICK on \in Keys \union {0}, op \in RegOps :
             \/ calls = <<Tx(op, k, on)>>
             \/ calls = <<Tx("create", k, on), Tx(op, k, on)>>
      BY <1>5, <2>1
    <2>3. CASE calls = <<Tx(op, k, on)>>
      BY <1>2, <2>2, <2>3
    <2>4. CASE calls = <<Tx("create", k, on), Tx(op, k, on)>>
      <3>1. /\ Len(calls) = 2 /\ DOMAIN calls = 1 .. Len(calls) /\ Head(calls) = calls[1]
            /\ calls # Rent /\ calls[1].op = "create" /\ calls[1].acct \in files /\ calls[2].op \in RegOps
            /\ calls[1] = Tx("create", calls[2].acct, calls[2].on)
            /\ Tail(calls) = <<calls[2]>> /\ Tail(calls) \in CallsFor(k)
        BY <1>3, <2>1, <2>2, <2>4
      <3>. QED
        BY <2>1, <3>1
    <2>. QED
      BY <2>2, <2>3, <2>4
  <1>. QED
    BY <1>1, <1>4, <1>6 DEF Calls

\* The validator refuses the call, or answers a call that is no transaction.
LEMMA NothingSentKeeps ==
    ASSUME IInv, pc = "poll", st_ \in {"sent", "accepted"},
           \/ st_' = "rejected" /\ st_ = "sent"
           \/ st_' = "accepted" /\ st_ = "sent"
           \/ st_' = "sig" /\ st_ = "accepted",
           UNCHANGED <<files, mapping_key_, gen, data, net, processed, pc, cmd, reqs, calls, view, mine, ended>>
    PROVE  IInv'
  <1>0. Len(calls) \in {1, 2} /\ DOMAIN calls = 1 .. Len(calls)
    BY CallShape DEF IInv
  <1>1. Accounts' /\ MappingFound' /\ Requests'
    BY DEF IInv, Accounts, MappingFound, Requests, ReqList
  <1>2. Calls'
    BY DEF IInv, Calls, TxOk, OnOk
  <1>3. Unsent' \subseteq Unsent
    BY <1>0 DEF Unsent
  <1>4. SentOnce'
    BY <1>3 DEF IInv, SentOnce, TxOk, OnOk
  <1>5. MineProcessed'
    BY DEF IInv, MineProcessed
  <1>6. PriceRequest'
    BY DEF IInv, PriceRequest
  <1>7. Prices'
    BY <1>3 DEF IInv, Prices, Believed
  <1>8. CreateBeforeRegister' /\ KeysKept' /\ SuccessMeansProcessed'
    BY DEF IInv, CreateBeforeRegister, KeysKept, SuccessMeansProcessed
  <1>. QED
    BY <1>1, <1>2, <1>4, <1>5, <1>6, <1>7, <1>8 DEF IInv

\* The validator passes a transaction on.
LEMMA SentKeeps ==
    ASSUME IInv, pc = "poll", st_ = "sent", st_' = "accepted", Head(calls).op # "rent",
           net' = net \union {Head(calls)}, mine' = mine \union {Head(calls)},
           UNCHANGED <<files, mapping_key_, gen, data, processed, pc, cmd, reqs, calls, view, ended>>
    PROVE  IInv'
  <1>. DEFINE h == Head(calls)
  <1>0. /\ Len(calls) \in {1, 2} /\ DOMAIN calls = 1 .. Len(calls) /\ h = calls[1]
        /\ calls # Rent
        /\ Len(calls) = 1 => calls[1].op # "create"
        /\ Len(calls) = 2 =>
              calls[1].op = "create" /\ calls[1].acct \in files /\ calls[2].op \in RegOps
    BY CallShape DEF IInv
  <1>a. Rent[1].op = "rent"
    BY DEF Rent, Tx
  <1>b. 1 \in DOMAIN calls
    BY <1>0
  <1>c. h.op # "rent" /\ net' = net \union {h} /\ mine' = mine \union {h} /\ Head(calls') = h
    OBVIOUS
  <1>. HIDE DEF h
  <1>1. TxOk(h)
    BY <1>0, <1>a, <1>b, <1>c DEF IInv, Calls
  <1>2. /\ h.acct \in Keys /\ (h.op \in RegOps => h.acct <= gen)
        /\ h.op \in RegOps => Len(calls) = 1 /\ h.op # "create"
    BY <1>0, <1>1 DEF TxOk, RegOps, OneOps
  <1>3. h \in Unsent /\ Unsent' \subseteq Unsent
    BY <1>0, <1>b DEF Unsent
  <1>4. \A t \in Unsent' : t.op \in RegOps => t # h
    <2>1. Unsent' = {calls[i] : i \in 2 .. Len(calls)}
      BY DEF Unsent
    <2>2. Len(calls) = 1 => 2 .. Len(calls) = {}
      OBVIOUS
    <2>3. Len(calls) = 2 => h.op \notin RegOps
      BY <1>0 DEF RegOps
    <2>. QED
      BY <1>0, <2>1, <2>2, <2>3
  <1>5. Accounts' /\ MappingFound' /\ Requests'
    BY DEF IInv, Accounts, MappingFound, Requests, ReqList
  <1>6. Calls'
    BY DEF IInv, Calls, TxOk, OnOk
  <1>7. SentOnce'
    <2>1. \A t : TxOk(t)' = TxOk(t)
      BY DEF TxOk, OnOk
    <2>2. h.op \in RegOps => h \notin net \union processed
      BY <1>3 DEF IInv, SentOnce
    <2>. QED
      BY <1>1, <1>2, <1>3, <1>4, <1>c, <2>1, <2>2 DEF IInv, SentOnce
  <1>8. MineProcessed'
    BY <1>c DEF IInv, MineProcessed
  <1>9. PriceRequest'
    <2>1. ASSUME cmd.name = "add_price"
          PROVE  \E p \in Keys : reqs = <<Req("add_price", p)>> /\ data[p].kind = "product"
      <3>1. calls # <<>>
        BY <1>0
      <3>. QED
        BY <1>0, <2>1, <3>1 DEF IInv, PriceRequest
    <2>2. h.op = "add_price" => cmd.name = "add_price"
      BY <1>0, <1>b DEF IInv, PriceRequest
    <2>3. \A i \in DOMAIN calls : calls[i].op = "add_price" => cmd.name = "add_price" /\ i = Len(calls)
      BY DEF IInv, PriceRequest
    <2>4. \A t \in mine' : t.op = "add_price" => cmd.name = "add_price"
      BY <1>c, <2>2 DEF IInv, PriceRequest
    <2>. QED
      BY <1>0, <2>1, <2>3, <2>4 DEF PriceRequest
  <1>10. Prices'
    <2>. SUFFICES ASSUME Believed PROVE Prices'
      BY DEF Prices, Believed
    <2>1. h.op = "add_price" => data[h.on].refs = {}
      BY <1>3 DEF IInv, Prices
    <2>2. h.op = "add_price" => cmd.name = "add_price" /\ h = calls[Len(calls)] /\ calls # <<>>
      BY <1>0, <1>b DEF IInv, PriceRequest
    <2>3. \A t \in net' : t.op = "add_price" =>
              pc' = "poll" /\ cmd'.name = "add_price" /\ t \in mine' /\ data'[t.on].refs = {}
      BY <1>c, <2>1, <2>2 DEF IInv, Prices
    <2>4. \A t \in mine' : t.op = "add_price" => calls' # <<>> /\ t = calls'[Len(calls')]
      BY <1>c, <2>2 DEF IInv, Prices
    <2>5. \A t \in Unsent' : t.op = "add_price" => data'[t.on].refs = {}
      BY <1>3 DEF IInv, Prices
    <2>6. /\ \A p \in Keys : data'[p].kind = "product" => Cardinality(data'[p].refs) <= 1
          /\ (\A t \in mine' : t.op # "add_price") =>
                \A p \in Keys : data'[p].kind = "product" => view'[p].refs = data'[p].refs
      BY <1>c DEF IInv, Prices
    <2>. QED
      BY <2>3, <2>4, <2>5, <2>6 DEF Prices
  <1>11. CreateBeforeRegister'
    <2>1. h.op \in RegOps => Tx("create", h.acct, h.on) \in processed
      BY <1>0, <1>2 DEF IInv, Calls
    <2>. QED
      BY <1>c, <2>1 DEF IInv, CreateBeforeRegister, RegOps
  <1>12. KeysKept'
    <2>1. h.op = "create" => h.acct \in files
      BY <1>0
    <2>. QED
      BY <1>c, <2>1 DEF IInv, KeysKept
  <1>13. SuccessMeansProcessed'
    BY DEF IInv, SuccessMeansProcessed
  <1>. QED
    BY <1>5, <1>6, <1>7, <1>8, <1>9, <1>10, <1>11, <1>12, <1>13 DEF IInv

\* The validator gets the call.
LEMMA ReceiveKeeps ==
    ASSUME IInv, NEW ok \in BOOLEAN, Receive(ok)
    PROVE  IInv'
  <1>1. /\ pc = "poll" /\ st_ = "sent"
        /\ UNCHANGED <<files, mapping_key_, gen, data, processed, pc, cmd, reqs, calls, view, ended>>
    BY DEF Receive, storeVars
  <1>2. CASE ok /\ Head(calls).op # "rent"
    <2>1. st_' = "accepted" /\ net' = net \union {Head(calls)} /\ mine' = mine \union {Head(calls)}
      BY <1>2 DEF Receive
    <2>. QED
      BY <1>1, <1>2, <2>1, SentKeeps
  <1>3. CASE ~ (ok /\ Head(calls).op # "rent")
    <2>1. st_' \in {"accepted", "rejected"} /\ UNCHANGED <<net, mine>>
      BY <1>3 DEF Receive
    <2>. QED
      BY <1>1, <2>1, NothingSentKeeps
  <1>. QED
    BY <1>2, <1>3

\* The answer to the call.
LEMMA OnReplyKeeps ==
    ASSUME IInv, OnReply
    PROVE  IInv'
  <1>1. /\ pc = "poll" /\ st_ \in {"accepted", "rejected"}
        /\ UNCHANGED <<files, mapping_key_, gen, data, net, processed, cmd, view, mine>>
    BY DEF OnReply, storeVars, chainVars
  <1>2. CASE st_ = "rejected"
    <2>1. Return(1)
      BY <1>2 DEF OnReply
    <2>. QED
      BY <1>1, <2>1, ReturnKeeps
  <1>3. CASE st_ # "rejected" /\ Head(calls).op = "rent"
    <2>1. Done
      BY <1>3 DEF OnReply
    <2>2. calls = Rent
      BY <1>1, <1>3, CallShape DEF IInv
    <2>3. mine \subseteq processed
      BY <1>1, <1>3 DEF IInv, MineProcessed
    <2>. QED
      BY <1>1, <1>3, <2>1, <2>2, <2>3, DoneKeeps
  <1>4. CASE st_ # "rejected" /\ Head(calls).op # "rent"
    <2>1. st_' = "sig" /\ UNCHANGED <<pc, reqs, calls, ended>>
      BY <1>4 DEF OnReply
    <2>. QED
      BY <1>1, <1>4, <2>1, NothingSentKeeps
  <1>. QED
    BY <1>2, <1>3, <1>4

\* The notification that the transaction was processed.
LEMMA OnSignatureKeeps ==
    ASSUME IInv, OnSignature
    PROVE  IInv'
  <1>1. /\ pc = "poll" /\ st_ = "sig" /\ Head(calls) \in processed
        /\ UNCHANGED <<files, mapping_key_, gen, data, net, processed, cmd, view, mine>>
    BY DEF OnSignature, storeVars, chainVars
  <1>2. mine \subseteq processed
    BY <1>1 DEF IInv, MineProcessed
  <1>3. /\ Len(calls) \in {1, 2} /\ DOMAIN calls = 1 .. Len(calls) /\ Head(calls) = calls[1]
        /\ Len(calls) = 2 =>
              /\ calls[1].op = "create" /\ calls[2].op \in RegOps
              /\ calls[1] = Tx("create", calls[2].acct, calls[2].on)
              /\ Tail(calls) = <<calls[2]>>
              /\ \E k \in Keys : k \in files /\ Tail(calls) \in CallsFor(k)
    BY <1>1, CallShape DEF IInv
  <1>4. CASE Len(calls) = 1
    <2>1. Done
      BY <1>4 DEF OnSignature
    <2>2. calls = Rent \/ cmd.name # "add_price" \/ Len(reqs) = 1
      <3>1. calls # <<>>
        BY <1>4
      <3>. QED
        BY <1>1, <3>1 DEF IInv, PriceRequest
    <2>. QED
      BY <1>1, <1>2, <2>1, <2>2, DoneKeeps
  <1>5. CASE Len(calls) = 2
    <2>0. PICK x : x = calls[2]
      OBVIOUS
    <2>1. calls' = <<x>> /\ st_' = "sent" /\ UNCHANGED <<pc, reqs, ended>>
      <3>1. Len(calls) # 1
        BY <1>5
      <3>2. calls' = Tail(calls) /\ st_' = "sent" /\ UNCHANGED <<pc, reqs, ended>>
        BY <3>1 DEF OnSignature
      <3>. QED
        BY <1>3, <1>5, <2>0, <3>2
    <2>2. DOMAIN calls' = {1} /\ calls'[1] = x /\ Len(calls') = 1 /\ calls' # <<>>
      BY <2>1
    <2>3. 2 \in DOMAIN calls /\ x.op \in RegOps /\ Tx("create", x.acct, x.on) \in processed
      BY <1>1, <1>3, <1>5, <2>0
    <2>4. Rent[1].op = "rent"
      BY DEF Rent, Tx
    <2>5. TxOk(x) /\ calls' # Rent
      BY <2>0, <2>2, <2>3, <2>4 DEF IInv, Calls, RegOps
    <2>6. Unsent = {x} /\ Unsent' = {x}
      <3>1. Unsent = {calls[i] : i \in 2 .. 2}
        BY <1>1, <1>5 DEF Unsent
      <3>2. Unsent' = {calls'[i] : i \in {1}}
        BY <2>1, <2>2 DEF Unsent
      <3>. QED
        BY <2>0, <2>2, <3>1, <3>2
    <2>7. \A t : TxOk(t)' = TxOk(t)
      BY <1>1 DEF TxOk, OnOk
    <2>8. Accounts' /\ MappingFound' /\ Requests'
      BY <1>1, <2>1 DEF IInv, Accounts, MappingFound, Requests, ReqList
    <2>9. Calls'
      <3>1. \E k \in Keys : k \in files' /\ calls' \in CallsFor(k)
        BY <1>1, <1>3, <1>5, <2>0, <2>1
      <3>. QED
        BY <1>1, <2>1, <2>2, <2>3, <2>5, <2>7, <3>1 DEF Calls
    <2>10. SentOnce'
      BY <1>1, <2>6, <2>7 DEF IInv, SentOnce
    <2>11. MineProcessed'
      BY <1>1, <1>2, <2>1 DEF IInv, MineProcessed
    <2>12. x.op = "add_price" => cmd.name = "add_price"
      BY <2>0, <2>3 DEF IInv, PriceRequest
    <2>13. PriceRequest'
      <3>1. calls # <<>> /\ calls # Rent
        BY <1>5 DEF Rent
      <3>2. ASSUME cmd.name = "add_price"
            PROVE  \E p \in Keys : reqs = <<Req("add_price", p)>> /\ data[p].kind = "product"
        BY <1>1, <3>1, <3>2 DEF IInv, PriceRequest
      <3>3. \A t \in mine : t.op = "add_price" => cmd.name = "add_price"
        BY DEF IInv, PriceRequest
      <3>. QED
        BY <1>1, <2>1, <2>2, <2>5, <2>12, <3>2, <3>3 DEF PriceRequest
    <2>14. Prices'
      BY <1>1, <1>5, <2>0, <2>1, <2>2, <2>6 DEF IInv, Prices, Believed
    <2>15. CreateBeforeRegister' /\ KeysKept' /\ SuccessMeansProcessed'
      BY <1>1, <2>1 DEF IInv, CreateBeforeRegister, KeysKept, SuccessMeansProcessed
    <2>. QED
      BY <2>8, <2>9, <2>10, <2>11, <2>13, <2>14, <2>15 DEF IInv
  <1>. QED
    BY <1>3, <1>4, <1>5

\* The command fails, or is killed.
LEMMA StopKeeps ==
    ASSUME IInv, OnSignatureError \/ Kill
    PROVE  IInv'
  <1>1. /\ pc # "idle" /\ (Return(1) \/ Return(2))
        /\ UNCHANGED <<files, mapping_key_, gen, data, net, processed, cmd, view, mine>>
    BY DEF OnSignatureError, Kill, storeVars, chainVars
  <1>. QED
    BY <1>1, ReturnKeeps

\* The client learns what an account holds now.
LEMMA RefreshKeeps ==
    ASSUME IInv, NEW k \in Keys, Refresh(k)
    PROVE  IInv'
  <1>1. /\ pc = "poll" /\ view' = [view EXCEPT ![k] = data[k]]
        /\ UNCHANGED <<files, mapping_key_, gen, data, net, processed, pc, cmd, reqs, calls, st_, mine, ended>>
    BY DEF Refresh, storeVars, chainVars, reqVars
  <1>2. view \in [Keys -> Account] /\ data \in [Keys -> Account]
    BY DEF IInv, Accounts, Registered
  <1>3. /\ view' \in [Keys -> Account]
        /\ \A p \in Keys : view'[p] = IF p = k THEN data[p] ELSE view[p]
    BY <1>1, <1>2
  <1>4. Accounts'
    BY <1>1, <1>3 DEF IInv, Accounts
  <1>5. MappingFound' /\ Requests'
    BY <1>1 DEF IInv, MappingFound, Requests, ReqList
  <1>6. Calls'
    BY <1>1 DEF IInv, Calls, TxOk, OnOk
  <1>7. Unsent' = Unsent
    BY <1>1 DEF Unsent
  <1>8. SentOnce'
    BY <1>1, <1>7 DEF IInv, SentOnce, TxOk, OnOk
  <1>9. MineProcessed'
    BY <1>1 DEF IInv, MineProcessed
  <1>10. PriceRequest'
    BY <1>1 DEF IInv, PriceRequest
  <1>11. Prices'
    BY <1>1, <1>3, <1>7 DEF IInv, Prices, Believed
  <1>12. CreateBeforeRegister' /\ KeysKept' /\ SuccessMeansProcessed'
    BY <1>1 DEF IInv, CreateBeforeRegister, KeysKept, SuccessMeansProcessed
  <1>. QED
    BY <1>4, <1>5, <1>6, <1>8, <1>9, <1>10, <1>11, <1>12 DEF IInv

\* The connection is made again.
LEMMA ReconnectKeeps ==
    ASSUME IInv, Reconnect
    PROVE  IInv'
  <1>1. /\ pc = "poll"
        /\ UNCHANGED <<files, mapping_key_, gen, data, net, processed, cmd, mine>>
    BY DEF Reconnect, storeVars, chainVars
  <1>2. CASE InvalidMapping
    <2>1. Return(1) /\ UNCHANGED view
      BY <1>2 DEF Reconnect
    <2>. QED
      BY <1>1, <2>1, ReturnKeeps
  <1>3. CASE ~ InvalidMapping
    <2>1. st_' = "lost" /\ view' = data /\ UNCHANGED <<pc, reqs, calls, ended>>
      BY <1>3 DEF Reconnect
    <2>2. Accounts'
      BY <1>1, <2>1 DEF IInv, Accounts, Registered
    <2>3. MappingFound' /\ Requests'
      BY <1>1, <2>1 DEF IInv, MappingFound, Requests, ReqList
    <2>4. Calls'
      BY <1>1, <2>1 DEF IInv, Calls, TxOk, OnOk
    <2>5. Unsent' = {}
      BY <2>1 DEF Unsent
    <2>6. SentOnce'
      BY <1>1, <2>5 DEF IInv, SentOnce, TxOk, OnOk
    <2>7. MineProcessed'
      BY <1>1, <2>1 DEF IInv, MineProcessed
    <2>8. PriceRequest'
      BY <1>1, <2>1 DEF IInv, PriceRequest
    <2>9. Prices'
      BY <1>1, <2>1, <2>5 DEF IInv, Prices, Believed
    <2>10. CreateBeforeRegister' /\ KeysKept' /\ SuccessMeansProcessed'
      BY <1>1, <2>1 DEF IInv, CreateBeforeRegister, KeysKept, SuccessMeansProcessed
    <2>. QED
      BY <2>2, <2>3, <2>4, <2>6, <2>7, <2>8, <2>9, <2>10 DEF IInv
  <1>. QED
    BY <1>2, <1>3

-----------------------------------------------------------------------------
(* The chain *)

\* A transaction is dropped.
LEMMA DropKeeps ==
    ASSUME IInv, NEW t \in net, Drop(t)
    PROVE  IInv'
  <1>1. /\ net' \subseteq net
        /\ UNCHANGED <<files, mapping_key_, gen, data, processed, pc, cmd, reqs, calls, st_, view, mine, ended>>
    BY DEF Drop, storeVars, reqVars
  <1>2. Accounts' /\ MappingFound' /\ Requests'
    BY <1>1 DEF IInv, Accounts, MappingFound, Requests, ReqList
  <1>3. Calls'
    BY <1>1 DEF IInv, Calls, TxOk, OnOk
  <1>4. Unsent' = Unsent
    BY <1>1 DEF Unsent
  <1>5. SentOnce'
    <2>1. \A x : TxOk(x)' = TxOk(x)
      BY <1>1 DEF TxOk, OnOk
    <2>. QED
      BY <1>1, <1>4, <2>1 DEF IInv, SentOnce
  <1>6. MineProcessed'
    BY <1>1 DEF IInv, MineProcessed
  <1>7. PriceRequest'
    BY <1>1 DEF IInv, PriceRequest
  <1>8. Prices'
    BY <1>1, <1>4 DEF IInv, Prices, Believed
  <1>9. CreateBeforeRegister' /\ KeysKept' /\ SuccessMeansProcessed'
    BY <1>1 DEF IInv, CreateBeforeRegister, KeysKept, SuccessMeansProcessed
  <1>. QED
    BY <1>2, <1>3, <1>5, <1>6, <1>7, <1>8, <1>9 DEF IInv

\* What the accounts' growth leaves of the invariant: all but the prices.
LEMMA ProcessKeepsRest ==
    ASSUME IInv, NEW t \in net, NEW refuse \in BOOLEAN, Process(t, refuse), Accounts', Grown(data, data')
    PROVE  /\ MappingFound' /\ Calls' /\ SentOnce' /\ MineProcessed' /\ Requests' /\ PriceRequest'
           /\ CreateBeforeRegister' /\ KeysKept' /\ SuccessMeansProcessed'
           /\ Unsent' = Unsent
  <1>1. /\ net' = net \ {t} /\ processed' = processed \union {t}
        /\ UNCHANGED <<files, mapping_key_, gen, pc, cmd, reqs, calls, st_, view, mine, ended>>
    BY DEF Process, storeVars, reqVars
  <1>2. \A x : TxOk(x) => TxOk(x)'
    BY <1>1 DEF TxOk, OnOk, Grown
  <1>3. MappingFound'
    <2>1. mapping_key_ # 0 => mapping_key_ \in Keys
      BY DEF IInv, Accounts
    <2>. QED
      BY <1>1, <2>1 DEF IInv, MappingFound, Grown
  <1>4. Calls'
    BY <1>1, <1>2 DEF IInv, Calls
  <1>5. Unsent' = Unsent
    BY <1>1 DEF Unsent
  <1>6. SentOnce'
    BY <1>1, <1>2, <1>5 DEF IInv, SentOnce
  <1>7. MineProcessed'
    BY <1>1 DEF IInv, MineProcessed
  <1>8. Requests'
    BY <1>1 DEF IInv, Requests, ReqList
  <1>9. PriceRequest'
    <2>1. \A p \in Keys : data[p].kind = "product" => data'[p].kind = "product"
      BY DEF Grown
    <2>. QED
      BY <1>1, <2>1 DEF IInv, PriceRequest
  <1>10. CreateBeforeRegister' /\ KeysKept' /\ SuccessMeansProcessed'
    BY <1>1 DEF IInv, CreateBeforeRegister, KeysKept, SuccessMeansProcessed
  <1>. QED
    BY <1>3, <1>4, <1>5, <1>6, <1>7, <1>8, <1>9, <1>10

\* A price is added to a product that has none, and once.
LEMMA ExecutedPrices ==
    ASSUME IInv, NEW t \in net, Believed,
           Accounts', Grown(data, data'), Unsent' = Unsent, net' = net \ {t},
           \A k \in Keys : data'[k].kind = "product" =>
                 \/ data[k].kind = "product" /\ data'[k].refs = data[k].refs
                 \/ data[k].kind = "product" /\ t.op = "add_price" /\ k = t.on
                    /\ data'[k].refs = data[k].refs \union {t.acct}
                 \/ data'[k].refs = {},
           UNCHANGED <<pc, cmd, calls, st_, view, mine, ended>>
    PROVE  Prices'
  <1>1. t.op = "add_price" =>
            /\ pc = "poll" /\ t \in mine /\ data[t.on].refs = {}
            /\ t = calls[Len(calls)]
    BY DEF IInv, Prices
  <1>2. ASSUME NEW p \in Keys, data'[p].kind = "product" PROVE Cardinality(data'[p].refs) <= 1
    <2>1. CASE data[p].kind = "product" /\ data'[p].refs = data[p].refs
      BY <2>1 DEF IInv, Prices
    <2>2. CASE /\ t.op = "add_price" /\ p = t.on
               /\ data'[p].refs = data[p].refs \union {t.acct}
      <3>1. data'[p].refs = {t.acct}
        BY <1>1, <2>2
      <3>2. Cardinality({t.acct}) = 1
        BY FS_Singleton
      <3>. QED
        BY <3>1, <3>2
    <2>3. CASE data'[p].refs = {}
      <3>1. Cardinality({}) = 0
        BY FS_EmptySet
      <3>. QED
        BY <2>3, <3>1
    <2>. QED
      BY <1>2, <2>1, <2>2, <2>3
  <1>3. ASSUME NEW x, x.op = "add_price", TxOk(x), data[x.on].refs = {}, t.op # "add_price"
        PROVE  data'[x.on].refs = {}
    <2>1. x.on \in Keys /\ data[x.on].kind = "product"
      BY <1>3 DEF TxOk, OnOk
    <2>2. data'[x.on].kind = "product"
      BY <2>1 DEF Grown
    <2>. QED
      BY <1>3, <2>1, <2>2
  <1>4. ASSUME NEW x \in net', x.op = "add_price"
        PROVE  pc' = "poll" /\ cmd'.name = "add_price" /\ x \in mine' /\ data'[x.on].refs = {}
    <2>1. x \in net /\ x # t
      BY <1>4
    <2>2. pc = "poll" /\ cmd.name = "add_price" /\ x \in mine /\ data[x.on].refs = {}
      BY <1>4, <2>1 DEF IInv, Prices
    <2>3. x = calls[Len(calls)]
      BY <1>4, <2>2 DEF IInv, Prices
    <2>4. t.op # "add_price" /\ TxOk(x)
      BY <1>1, <2>1, <2>3 DEF IInv, SentOnce
    <2>. QED
      BY <1>3, <1>4, <2>2, <2>4
  <1>5. ASSUME NEW x \in Unsent, x.op = "add_price" PROVE data'[x.on].refs = {}
    <2>1. PICK i \in DOMAIN calls : x = calls[i]
      <3>1. /\ st_ = "sent" => Unsent = {calls[i] : i \in DOMAIN calls}
            /\ st_ \in {"accepted", "sig"} => Unsent = {calls[i] : i \in 2 .. Len(calls)}
            /\ st_ \in {"sent", "accepted", "sig"}
        BY <1>5 DEF Unsent
      <3>2. Len(calls) \in {1, 2} /\ DOMAIN calls = 1 .. Len(calls)
        BY <3>1, CallShape DEF IInv
      <3>3. 2 .. Len(calls) \subseteq DOMAIN calls
        BY <3>2
      <3>. QED
        BY <1>5, <3>1, <3>3
    <2>2. i = Len(calls)
      BY <1>5, <2>1 DEF IInv, PriceRequest
    <2>3. x \notin net
      BY <1>5 DEF IInv, SentOnce, RegOps
    <2>4. t.op # "add_price"
      BY <1>1, <2>1, <2>2, <2>3
    <2>5. Rent[1].op = "rent"
      BY DEF Rent, Tx
    <2>6. TxOk(x)
      BY <1>5, <2>1, <2>5 DEF IInv, Calls
    <2>7. data[x.on].refs = {}
      BY <1>5 DEF IInv, Prices
    <2>. QED
      BY <1>3, <1>5, <2>4, <2>6, <2>7
  <1>6. ASSUME pc \in {"lookup", "prompt", "poll"}, \A x \in mine : x.op # "add_price",
               NEW p \in Keys, data'[p].kind = "product"
        PROVE  view[p].refs = data'[p].refs
    <2>1. t.op # "add_price"
      BY <1>1, <1>6
    <2>2. CASE data[p].kind = "product" /\ data'[p].refs = data[p].refs
      BY <1>6, <2>2 DEF IInv, Prices
    <2>3. CASE data'[p].refs = {}
      <3>1. view[p].refs \subseteq data'[p].refs
        BY DEF Accounts
      <3>. QED
        BY <2>3, <3>1
    <2>. QED
      BY <1>6, <2>1, <2>2, <2>3
  <1>7. pc = "poll" => \A x \in mine : x.op = "add_price" => calls # <<>> /\ x = calls[Len(calls)]
    BY DEF IInv, Prices
  <1>. QED
    BY <1>2, <1>4, <1>5, <1>6, <1>7 DEF Prices

\* The chain processes a transaction.
LEMMA ProcessKeeps ==
    ASSUME IInv, NEW t \in net, NEW refuse \in BOOLEAN, Process(t, refuse)
    PROVE  IInv'
  <1>1. /\ net' = net \ {t} /\ processed' = processed \union {t}
        /\ UNCHANGED <<files, mapping_key_, gen, pc, cmd, reqs, calls, st_, view, mine, ended>>
    BY DEF Process, storeVars, reqVars
  <1>2. TxOk(t) /\ Accounts
    BY DEF IInv, SentOnce
  <1>3. /\ Accounts' /\ Grown(data, data')
        /\ \A k \in Keys : data'[k].kind = "product" =>
              \/ data[k].kind = "product" /\ data'[k].refs = data[k].refs
              \/ data[k].kind = "product" /\ t.op = "add_price" /\ k = t.on
                 /\ data'[k].refs = data[k].refs \union {t.acct}
              \/ data'[k].refs = {}
    <2>1. CASE Accepts(t) /\ ~ refuse
      <3>1. data' = Executed(t)
        BY <2>1 DEF Process
      <3>. QED
        BY <1>1, <1>2, <2>1, <3>1, ProcessedAccounts
    <2>2. CASE ~ (Accepts(t) /\ ~ refuse)
      <3>1. data' = data
        BY <2>2 DEF Process
      <3>. QED
        BY <1>1, <1>2, <3>1 DEF Accounts, Grown
    <2>. QED
      BY <2>1, <2>2
  <1>4. /\ MappingFound' /\ Calls' /\ SentOnce' /\ MineProcessed' /\ Requests' /\ PriceRequest'
        /\ CreateBeforeRegister' /\ KeysKept' /\ SuccessMeansProcessed' /\ Unsent' = Unsent
    BY <1>3, ProcessKeepsRest
  <1>5. Prices'
    <2>. SUFFICES ASSUME Believed' PROVE Prices'
      BY DEF Prices
    <2>1. Believed
      BY <1>1 DEF Believed
    <2>. QED
      BY <1>1, <1>3, <1>4, <2>1, ExecutedPrices
  <1>. QED
    BY <1>3, <1>4, <1>5 DEF IInv

-----------------------------------------------------------------------------
(* The specification *)

\* What there is at the start.
LEMMA Initial == Init => IInv
  <1>. SUFFICES ASSUME Init PROVE IInv
    OBVIOUS
  <1>1. PICK s \in Starts :
           /\ mapping_key_ = s.mapping_key_ /\ data = s.data
           /\ gen = Cardinality({k \in Keys : s.data[k] # NoAccount})
    BY DEF Init
  <1>2. /\ net = {} /\ processed = {} /\ pc = "idle"
        /\ cmd.name = "none" /\ reqs = <<>> /\ calls = <<>> /\ st_ = "none"
        /\ view = [k \in Keys |-> NoAccount] /\ mine = {} /\ ended = {}
    BY DEF Init
  <1>3. /\ Registered(s.data) /\ s.mapping_key_ \in Keys \union {0}
        /\ \A k \in Keys : s.data[k].kind = "product" => Cardinality(s.data[k].refs) <= 1
    BY AdminAssumption
  <1>4. gen \in Nat /\ \A k \in Keys : data[k] # NoAccount => k <= gen
    <2>1. PICK g \in 0 .. Cardinality(Keys) : \A k \in Keys : s.data[k] # NoAccount <=> k <= g
      BY AdminAssumption
    <2>2. Cardinality(Keys) \in Nat /\ Keys = 1 .. Cardinality(Keys)
      BY AdminAssumption, FS_CardinalityType
    <2>3. {k \in Keys : s.data[k] # NoAccount} = 1 .. g
      BY <2>1, <2>2
    <2>4. Cardinality(1 .. g) = g
      BY <2>1, <2>2, FS_Interval
    <2>5. gen = g /\ g \in Nat
      <3>1. gen = Cardinality(1 .. g)
        BY <1>1, <2>3
      <3>. QED
        BY <2>1, <2>2, <2>4, <3>1
    <2>. QED
      BY <1>1, <2>1, <2>5
  <1>5. Accounts
    <2>1. NoAccount \in Account /\ NoAccount.refs = {} /\ NoAccount.next = 0 /\ NoAccount.kind = "none"
      BY DEF NoAccount, Account
    <2>2. view \in [Keys -> Account] /\ \A k \in Keys : view[k] = NoAccount
      BY <1>2, <2>1
    <2>3. \A k \in Keys : data[k].kind # "none" => k <= gen
      BY <1>4, <2>1
    <2>. QED
      BY <1>1, <1>3, <1>4, <2>1, <2>2, <2>3 DEF Accounts
  <1>6. MappingFound /\ MineProcessed /\ Calls
    BY <1>2 DEF MappingFound, MineProcessed, Calls
  <1>7. Unsent = {}
    BY <1>2 DEF Unsent
  <1>8. SentOnce /\ Requests /\ PriceRequest
    BY <1>2, <1>7 DEF SentOnce, Requests, ReqList, PriceRequest
  <1>9. Prices
    BY <1>1, <1>2, <1>3, <1>7 DEF Prices
  <1>10. CreateBeforeRegister /\ KeysKept /\ SuccessMeansProcessed
    BY <1>2 DEF CreateBeforeRegister, KeysKept, SuccessMeansProcessed
  <1>. QED
    BY <1>5, <1>6, <1>8, <1>9, <1>10 DEF IInv

\* Stuttering changes nothing.
LEMMA StutterKeeps ==
    ASSUME IInv, UNCHANGED vars
    PROVE  IInv'
  <1>1. UNCHANGED <<files, mapping_key_, gen, data, net, processed, pc, cmd, reqs, calls, st_, view, mine, ended>>
    BY DEF vars, storeVars, chainVars, reqVars
  <1>2. Accounts' /\ MappingFound' /\ Requests'
    BY <1>1 DEF IInv, Accounts, MappingFound, Requests, ReqList
  <1>3. Calls'
    BY <1>1 DEF IInv, Calls, TxOk, OnOk
  <1>4. Unsent' = Unsent
    BY <1>1 DEF Unsent
  <1>5. SentOnce' /\ MineProcessed'
    BY <1>1, <1>4 DEF IInv, SentOnce, MineProcessed, TxOk, OnOk
  <1>6. PriceRequest' /\ Prices'
    BY <1>1, <1>4 DEF IInv, PriceRequest, Prices, Believed
  <1>7. CreateBeforeRegister' /\ KeysKept' /\ SuccessMeansProcessed'
    BY <1>1 DEF IInv, CreateBeforeRegister, KeysKept, SuccessMeansProcessed
  <1>. QED
    BY <1>2, <1>3, <1>5, <1>6, <1>7 DEF IInv

\* The inductive invariant of pyth_admin: whatever the tool, the validator and
\* the chain do, the accounts stay a well-formed registry, a registration is
\* sent once and after its creation, and the client's view of a product without
\* a price is right as long as every add_price returned 0.
THEOREM Invariance == Spec => []IInv
  <1>1. ASSUME IInv, [Next]_vars PROVE IInv'
    <2>1. CASE \E c \in Commands : Start(c)
      BY <1>1, <2>1, StartKeeps
    <2>2. CASE Tool
      BY <1>1, <2>2, BootstrapKeeps, LookUpKeeps, SubmitKeeps, OnReplyKeeps, OnSignatureKeeps DEF Tool
    <2>3. CASE OnSignatureError \/ Kill
      BY <1>1, <2>3, StopKeeps
    <2>4. CASE Reconnect
      BY <1>1, <2>4, ReconnectKeeps
    <2>5. CASE \E yes \in BOOLEAN : Prompt(yes)
      BY <1>1, <2>5, PromptKeeps
    <2>6. CASE \E ok \in BOOLEAN : Receive(ok)
      BY <1>1, <2>6, ReceiveKeeps
    <2>7. CASE \E k \in Keys : Refresh(k)
      BY <1>1, <2>7, RefreshKeeps
    <2>8. CASE \E t \in net : Drop(t) \/ \E refuse \in BOOLEAN : Process(t, refuse)
      BY <1>1, <2>8, DropKeeps, ProcessKeeps
    <2>9. CASE UNCHANGED vars
      BY <1>1, <2>9, StutterKeeps
    <2>. QED
      BY <1>1, <2>1, <2>2, <2>3, <2>4, <2>5, <2>6, <2>7, <2>8, <2>9 DEF Next
  <1>. QED
    BY <1>1, Initial, PTL DEF Spec

\* What an operator relies on, wherever the tool is killed and whatever is
\* lost: accounts are created before they are registered and with their keys
\* on disk, exit status 0 means processed, and a product gets a second price
\* of the type only after an add_price that did not return 0.
THEOREM CommandsAlwaysSound == Spec => []CommandsSound
  <1>1. IInv => CommandsSound
    <2>. SUFFICES ASSUME IInv PROVE CommandsSound
      OBVIOUS
    <2>1. CreateBeforeRegister /\ KeysKept /\ SuccessMeansProcessed
      BY DEF IInv
    <2>2. OnePricePerType
      <3>. SUFFICES ASSUME NEW p \in Keys, data[p].kind = "product", Cardinality(data[p].refs) > 1
                    PROVE  \E e \in ended : e.rc # 0 /\ e.cmd.name = "add_price"
        BY DEF OnePricePerType
      <3>1. IsFiniteSet(data[p].refs)
        <4>1. data[p].refs \subseteq Keys
          BY DEF IInv, Accounts, Registered, Account
        <4>. QED
          BY <4>1, AdminAssumption, FS_Subset
      <3>2. Cardinality(data[p].refs) \in Nat
        BY <3>1, FS_CardinalityType
      <3>3. ~ Believed
        BY <3>2 DEF IInv, Prices
      <3>. QED
        BY <3>3 DEF Believed
    <2>. QED
      BY <2>1, <2>2 DEF CommandsSound
  <1>. QED
    BY <1>1, Invariance, PTL
=============================================================================
