---------------------------- MODULE ManagerProofs ----------------------------
(***************************************************************************)
(* Proofs about Manager, for every finite set of product and price         *)
(* accounts, every directory they start with, and any number of changes on *)
(* chain, connection errors and error replies.                             *)
(***************************************************************************)
EXTENDS Manager, FiniteSetTheorems, TLAPS

-----------------------------------------------------------------------------
(* The inductive invariant *)

Data == [Accts -> SUBSET Accts]
Req == {SlotReq, HashReq, AllReq} \union {AcctReq(a) : a \in Accts}
Rep == [req : Req, ok : BOOLEAN, slot : Nat, refs : Data]
States == {"none", "subscribe", "sent", "done", "error"}

Typed ==
    /\ cslot \in Nat /\ refs \in Data
    /\ hreq \in Seq(Req) /\ hresp \in Seq(Rep)
    /\ wsq \in Seq([acct : Accts, refs : Data])
    /\ is_err \in BOOLEAN /\ num_sub_ \in Int
    /\ st_ \in [Accts -> States] /\ is_recv \subseteq Known

\* The accounts whose fetch is not complete.
Open == {a \in Accts : st_[a] \notin {"none", "done"}}

\* The count is right also while there is no connection.
CountAlways == num_sub_ = Cardinality(Open)

\* An account is asked for among the requests q, or answered among the replies r.
Asked(q, a) == \E i \in DOMAIN q : q[i] = AcctReq(a)
Answered(r, a) == \E i \in DOMAIN r : r[i].req = AcctReq(a)
OnWay(q, r, a) == Asked(q, a) \/ Answered(r, a)

Once(q, r, a) ==
    /\ \A i, j \in DOMAIN q : q[i] = AcctReq(a) /\ q[j] = AcctReq(a) => i = j
    /\ \A i, j \in DOMAIN r : r[i].req = AcctReq(a) /\ r[j].req = AcctReq(a) => i = j
    /\ ~ (Asked(q, a) /\ Answered(r, a))

\* What is pending or on its way was not answered yet, and not both: an
\* account that is notified of (is_recv) is not fetched at the same time.
Stages ==
    \A a \in Accts :
        /\ Get(a) \in plist_ => /\ st_[a] = "subscribe" /\ a \notin is_recv
                                /\ ~ OnWay(hreq, hresp, a)
        /\ OnWay(hreq, hresp, a) => /\ st_[a] = IF a \in Prices THEN "sent" ELSE "subscribe"
                                    /\ a \notin is_recv
        /\ Once(hreq, hresp, a)

\* On a connection that works no fetch is lost.
NoneLost ==
    IsConnected /\ hconn = "up" /\ ~ is_err =>
        \A a \in Accts : st_[a] \in {"subscribe", "sent"} =>
                            Get(a) \in plist_ \/ OnWay(hreq, hresp, a)

\* A new connection starts with nothing on its way.
Quiet ==
    /\ ~ IsConnected /\ ~ IsBroken => hreq = <<>> /\ hresp = <<>>
    /\ IsConnected => ~ IsWait

\* The error of a mapping or product account is the client's error.
Errors ==
    \A a \in Accts \ Prices : st_[a] # "sent" /\ (st_[a] = "error" => is_err)

IInv == Typed /\ CountAlways /\ Stages /\ NoneLost /\ Quiet /\ Errors

-----------------------------------------------------------------------------
(* Requests and replies on their way *)

\* Sending one more request.
LEMMA SendOne ==
    ASSUME NEW q \in Seq(Req), NEW r \in Seq(Rep), NEW x \in Req, NEW a \in Accts
    PROVE  /\ OnWay(Append(q, x), r, a) <=> OnWay(q, r, a) \/ x = AcctReq(a)
           /\ Once(q, r, a) /\ (x = AcctReq(a) => ~ OnWay(q, r, a)) => Once(Append(q, x), r, a)
  <1> DEFINE p == Append(q, x)
  <1>1. Len(q) \in Nat /\ DOMAIN q = 1 .. Len(q) /\ DOMAIN p = 1 .. Len(q) + 1
    OBVIOUS
  <1>2. /\ p[Len(q) + 1] = x
        /\ \A i \in DOMAIN p : i # Len(q) + 1 => i \in DOMAIN q /\ p[i] = q[i]
        /\ \A i \in DOMAIN q : i \in DOMAIN p /\ p[i] = q[i]
        /\ Len(q) + 1 \in DOMAIN p
    OBVIOUS
  <1> HIDE DEF p
  <1>3. Asked(p, a) <=> Asked(q, a) \/ x = AcctReq(a)
    <2>1. ASSUME Asked(p, a) PROVE Asked(q, a) \/ x = AcctReq(a)
      BY <1>2, <2>1 DEF Asked
    <2>2. ASSUME Asked(q, a) \/ x = AcctReq(a) PROVE Asked(p, a)
      BY <1>2, <2>2 DEF Asked
    <2> QED
      BY <2>1, <2>2
  <1>4. ASSUME Once(q, r, a), x = AcctReq(a) => ~ OnWay(q, r, a) PROVE Once(p, r, a)
    <2>1. ASSUME NEW i \in DOMAIN p, NEW j \in DOMAIN p, p[i] = AcctReq(a), p[j] = AcctReq(a)
          PROVE  i = j
      <3>1. CASE x = AcctReq(a)
        BY <1>2, <1>4, <2>1, <3>1 DEF OnWay, Asked
      <3>2. CASE x # AcctReq(a)
        BY <1>2, <1>4, <2>1, <3>2 DEF Once
      <3> QED
        BY <3>1, <3>2
    <2>2. ~ (Asked(p, a) /\ Answered(r, a))
      BY <1>3, <1>4 DEF Once, OnWay
    <2> QED
      BY <1>4, <2>1, <2>2 DEF Once
  <1> QED
    BY <1>3, <1>4 DEF OnWay, p

\* The validator takes the oldest request and answers it.
LEMMA AnswerOne ==
    ASSUME NEW q \in Seq(Req), NEW r \in Seq(Rep), NEW m \in Rep, NEW a \in Accts,
           q # <<>>, m.req = Head(q)
    PROVE  /\ OnWay(Tail(q), Append(r, m), a) <=> OnWay(q, r, a)
           /\ Once(q, r, a) => Once(Tail(q), Append(r, m), a)
  <1> DEFINE t == Tail(q)
             p == Append(r, m)
  <1>1. /\ Len(q) \in Nat /\ DOMAIN q = 1 .. Len(q) /\ DOMAIN t = 1 .. Len(q) - 1
        /\ Len(q) >= 1 /\ Head(q) = q[1] /\ \A i \in DOMAIN t : i + 1 \in DOMAIN q /\ t[i] = q[i + 1]
    OBVIOUS
  <1>2. /\ Len(r) \in Nat /\ DOMAIN r = 1 .. Len(r) /\ DOMAIN p = 1 .. Len(r) + 1
        /\ p[Len(r) + 1] = m /\ \A i \in DOMAIN r : i \in DOMAIN p /\ p[i] = r[i]
        /\ \A i \in DOMAIN p : i # Len(r) + 1 => i \in DOMAIN r
        /\ Len(r) + 1 \in DOMAIN p
    OBVIOUS
  <1> HIDE DEF t, p
  <1>3. \A i \in DOMAIN q : i # 1 => i - 1 \in DOMAIN t /\ t[i - 1] = q[i]
    <2> TAKE i \in DOMAIN q
    <2> HAVE i # 1
    <2>1. i - 1 \in DOMAIN t /\ (i - 1) + 1 = i
      BY <1>1
    <2> QED
      BY <1>1, <2>1
  <1>4. Asked(q, a) <=> Asked(t, a) \/ m.req = AcctReq(a)
    <2>1. ASSUME Asked(q, a) PROVE Asked(t, a) \/ m.req = AcctReq(a)
      BY <1>1, <1>3, <2>1 DEF Asked
    <2>2. ASSUME Asked(t, a) PROVE Asked(q, a)
      BY <1>1, <2>2 DEF Asked
    <2>3. ASSUME m.req = AcctReq(a) PROVE Asked(q, a)
      BY <1>1, <2>3 DEF Asked
    <2> QED
      BY <2>1, <2>2, <2>3
  <1>5. Answered(p, a) <=> Answered(r, a) \/ m.req = AcctReq(a)
    <2>1. ASSUME Answered(p, a) PROVE Answered(r, a) \/ m.req = AcctReq(a)
      BY <1>2, <2>1 DEF Answered
    <2>2. ASSUME Answered(r, a) \/ m.req = AcctReq(a) PROVE Answered(p, a)
      BY <1>2, <2>2 DEF Answered
    <2> QED
      BY <2>1, <2>2
  <1>6. ASSUME Once(q, r, a) PROVE Once(t, p, a)
    <2>1. ASSUME NEW i \in DOMAIN t, NEW j \in DOMAIN t, t[i] = AcctReq(a), t[j] = AcctReq(a)
          PROVE  i = j
      <3>1. i + 1 = j + 1 /\ i \in Int /\ j \in Int
        BY <1>1, <1>6, <2>1 DEF Once
      <3> QED
        BY <3>1
    <2>2. m.req = AcctReq(a) => ~ Asked(t, a) /\ ~ Answered(r, a)
      <3> SUFFICES ASSUME m.req = AcctReq(a) PROVE ~ Asked(t, a) /\ ~ Answered(r, a)
        OBVIOUS
      <3>1. Asked(q, a) /\ 1 \in DOMAIN q /\ q[1] = AcctReq(a)
        BY <1>1, <1>4
      <3>2. ASSUME NEW i \in DOMAIN t, t[i] = AcctReq(a) PROVE FALSE
        <4>1. i + 1 = 1
          BY <1>1, <1>6, <3>1, <3>2 DEF Once
        <4> QED
          BY <1>1, <4>1
      <3> QED
        BY <1>6, <3>1, <3>2 DEF Once, Asked
    <2>3. ASSUME NEW i \in DOMAIN p, NEW j \in DOMAIN p, p[i].req = AcctReq(a), p[j].req = AcctReq(a)
          PROVE  i = j
      <3>1. CASE m.req = AcctReq(a)
        BY <1>2, <2>2, <2>3, <3>1 DEF Answered
      <3>2. CASE m.req # AcctReq(a)
        BY <1>2, <1>6, <2>3, <3>2 DEF Once
      <3> QED
        BY <3>1, <3>2
    <2>4. ~ (Asked(t, a) /\ Answered(p, a))
      BY <1>4, <1>5, <1>6, <2>2 DEF Once
    <2> QED
      BY <2>1, <2>3, <2>4 DEF Once
  <1> QED
    BY <1>4, <1>5, <1>6 DEF OnWay, t, p

\* The client takes the oldest reply.
LEMMA TakeOne ==
    ASSUME NEW q \in Seq(Req), NEW r \in Seq(Rep), NEW a \in Accts, r # <<>>, Once(q, r, a)
    PROVE  /\ Once(q, Tail(r), a)
           /\ Head(r).req = AcctReq(a) => OnWay(q, r, a) /\ ~ OnWay(q, Tail(r), a)
           /\ Head(r).req # AcctReq(a) => (OnWay(q, Tail(r), a) <=> OnWay(q, r, a))
  <1> DEFINE t == Tail(r)
  <1>1. /\ Len(r) \in Nat /\ DOMAIN r = 1 .. Len(r) /\ DOMAIN t = 1 .. Len(r) - 1
        /\ Len(r) >= 1 /\ Head(r) = r[1] /\ \A i \in DOMAIN t : i + 1 \in DOMAIN r /\ t[i] = r[i + 1]
    OBVIOUS
  <1> HIDE DEF t
  <1>2. \A i \in DOMAIN r : i # 1 => i - 1 \in DOMAIN t /\ t[i - 1] = r[i]
    <2> TAKE i \in DOMAIN r
    <2> HAVE i # 1
    <2>1. i - 1 \in DOMAIN t /\ (i - 1) + 1 = i
      BY <1>1
    <2> QED
      BY <1>1, <2>1
  <1>3. Answered(r, a) <=> Answered(t, a) \/ Head(r).req = AcctReq(a)
    <2>1. ASSUME Answered(r, a) PROVE Answered(t, a) \/ Head(r).req = AcctReq(a)
      BY <1>1, <1>2, <2>1 DEF Answered
    <2>2. ASSUME Answered(t, a) PROVE Answered(r, a)
      BY <1>1, <2>2 DEF Answered
    <2>3. ASSUME Head(r).req = AcctReq(a) PROVE Answered(r, a)
      BY <1>1, <2>3 DEF Answered
    <2> QED
      BY <2>1, <2>2, <2>3
  <1>4. Once(q, t, a)
    <2>1. ASSUME NEW i \in DOMAIN t, NEW j \in DOMAIN t, t[i].req = AcctReq(a), t[j].req = AcctReq(a)
          PROVE  i = j
      <3>1. i + 1 = j + 1 /\ i \in Int /\ j \in Int
        BY <1>1, <2>1 DEF Once
      <3> QED
        BY <3>1
    <2> QED
      BY <1>3, <2>1 DEF Once
  <1>5. Head(r).req = AcctReq(a) => ~ Answered(t, a)
    <2> SUFFICES ASSUME Head(r).req = AcctReq(a), NEW i \in DOMAIN t, t[i].req = AcctReq(a)
                 PROVE  FALSE
      BY DEF Answered
    <2>1. i + 1 = 1
      BY <1>1 DEF Once
    <2> QED
      BY <1>1, <2>1
  <1> QED
    BY <1>3, <1>4, <1>5 DEF OnWay, Once, t

-----------------------------------------------------------------------------
(* What an update of accounts does *)

\* The accounts are finitely many.
LEMMA AcctsFinite == IsFiniteSet(Accts)
  <1>1. IsFiniteSet({Root})
    BY FS_Singleton
  <1>2. IsFiniteSet({Root} \union Products)
    BY <1>1, FS_Union, ManagerAssumption
  <1> QED
    BY <1>2, FS_Union, ManagerAssumption DEF Accts

\* Adding new members to a finite set and taking old ones out of it.
LEMMA CountChange ==
    ASSUME NEW N, IsFiniteSet(N), NEW A, IsFiniteSet(A), A \intersect N = {},
           NEW F, F \subseteq N
    PROVE  /\ IsFiniteSet((N \union A) \ F) /\ IsFiniteSet(F)
           /\ Cardinality((N \union A) \ F) = Cardinality(N) + Cardinality(A) - Cardinality(F)
  <1> DEFINE V == N \union A
             W == V \ F
  <1>1. IsFiniteSet(V) /\ IsFiniteSet(F)
    BY FS_Union, FS_Subset
  <1>2. Cardinality(V) = Cardinality(N) + Cardinality(A) - Cardinality(N \intersect A)
    BY FS_Union
  <1>3. N \intersect A = {} /\ V \intersect F = F
    OBVIOUS
  <1> HIDE DEF V
  <1>4. IsFiniteSet(W) /\ Cardinality(W) = Cardinality(V) - Cardinality(F)
    <2>1. IsFiniteSet(V \ F) /\ Cardinality(V \ F) = Cardinality(V) - Cardinality(V \intersect F)
      BY <1>1, FS_Difference
    <2> QED
      BY <1>3, <2>1
  <1> HIDE DEF W
  <1>5. Cardinality(N) \in Nat /\ Cardinality(A) \in Nat /\ Cardinality(F) \in Nat
    BY <1>1, FS_CardinalityType
  <1>6. Cardinality(V) = Cardinality(N) + Cardinality(A)
    BY <1>2, <1>3, <1>5, FS_EmptySet
  <1>7. Cardinality(W) = Cardinality(N) + Cardinality(A) - Cardinality(F)
    BY <1>4, <1>5, <1>6
  <1> QED
    BY <1>1, <1>4, <1>7 DEF V, W

\* An update adds accounts that were not known, completes some that were open,
\* and counts both; HAS_MAPPING is set when nothing is left open.
LEMMA UpdateFacts ==
    ASSUME Typed, CountAlways, NEW S \in SUBSET Known, NEW data \in Data, Update(S, data)
    PROVE  \E found \in SUBSET (Accts \ Known) :
              /\ st_' = [a \in Accts |-> IF a \in Finished(S) THEN "done"
                                         ELSE IF a \in found THEN "subscribe" ELSE st_[a]]
              /\ plist_' = plist_ \union {Get(a) : a \in found}
              /\ Finished(S) \subseteq Open \intersect S
              /\ CountAlways' /\ num_sub_' \in Int
              /\ IsConnected' <=> IsConnected
              /\ "HAS_MAPPING" \in status_' /\ "HAS_MAPPING" \notin status_ => Open' = {}
  <1> DEFINE F == Finished(S)
             seen == UNION {data[a] : a \in (S \ Prices) \union F}
             found == seen \ Known
  <1>1. AddAccounts(found, F) /\ CountSubs(found, F)
    BY DEF Update
  <1>2. S \subseteq Accts /\ F \subseteq S
    BY DEF Known, Finished
  <1>3. found \in SUBSET (Accts \ Known)
    <2>1. \A a \in Accts : data[a] \subseteq Accts
      BY DEF Data
    <2>2. (S \ Prices) \union F \subseteq Accts
      BY <1>2
    <2>3. ASSUME NEW x \in seen PROVE x \in Accts
      <3>1. PICK a \in (S \ Prices) \union F : x \in data[a]
        OBVIOUS
      <3> QED
        BY <2>1, <2>2, <3>1
    <2> HIDE DEF seen
    <2> QED
      BY <2>3
  <1>4. F \subseteq Open
    <2> SUFFICES ASSUME NEW a \in F PROVE a \in Open
      OBVIOUS
    <2>1. a \in Accts /\ st_[a] # "none" /\ a \in S
      BY <1>2 DEF Known
    <2>2. CompletesMapping(a) \/ CompletesProduct(a) \/ CompletesPrice(a)
      BY DEF Finished
    <2> QED
      BY <2>1, <2>2 DEF Open, CompletesMapping, CompletesProduct, CompletesPrice
  <1> HIDE DEF found, F
  <1>5. st_' = [a \in Accts |-> IF a \in F THEN "done"
                                ELSE IF a \in found THEN "subscribe" ELSE st_[a]]
    BY <1>1 DEF AddAccounts
  <1>6. Open' = (Open \union found) \ F
    BY <1>3, <1>5 DEF Open
  <1>7. IsFiniteSet(Open) /\ IsFiniteSet(found) /\ found \intersect Open = {}
    BY <1>3, AcctsFinite, FS_Subset DEF Open, Known
  <1>8. /\ IsFiniteSet((Open \union found) \ F) /\ IsFiniteSet(F)
        /\ Cardinality((Open \union found) \ F)
             = Cardinality(Open) + Cardinality(found) - Cardinality(F)
    BY <1>4, <1>7, CountChange
  <1>9. num_sub_' = num_sub_ + Cardinality(found) - Cardinality(F)
    BY <1>1 DEF CountSubs
  <1>10. CountAlways' /\ num_sub_' \in Int
    <2>1. Cardinality(Open') \in Nat
      BY <1>6, <1>8, FS_CardinalityType
    <2> QED
      BY <1>6, <1>8, <1>9, <2>1 DEF CountAlways
  <1>11. IsConnected' <=> IsConnected
    BY <1>1 DEF CountSubs, IsConnected
  <1>12. ASSUME "HAS_MAPPING" \in status_', "HAS_MAPPING" \notin status_ PROVE Open' = {}
    <2>1. num_sub_' <= 0
      BY <1>1, <1>12 DEF CountSubs
    <2>2. IsFiniteSet(Open') /\ Cardinality(Open') \in Nat
      BY <1>6, <1>8, FS_CardinalityType
    <2>3. Cardinality(Open') = 0
      BY <1>10, <2>1, <2>2 DEF CountAlways
    <2> QED
      BY <2>2, <2>3, FS_EmptySet
  <1>13. plist_' = plist_ \union {Get(a) : a \in found}
    BY <1>1 DEF AddAccounts
  <1> QED
    BY <1>2, <1>3, <1>4, <1>5, <1>10, <1>11, <1>12, <1>13 DEF F

-----------------------------------------------------------------------------
(* Types *)

\* An update keeps the types.
LEMMA UpdateTyped ==
    ASSUME Typed, CountAlways, NEW S \in SUBSET Known, NEW data \in Data, Update(S, data)
    PROVE  st_' \in [Accts -> States] /\ num_sub_' \in Int /\ Known \subseteq Known'
  <1>1. PICK found \in SUBSET (Accts \ Known) :
          /\ st_' = [a \in Accts |-> IF a \in Finished(S) THEN "done"
                                     ELSE IF a \in found THEN "subscribe" ELSE st_[a]]
          /\ num_sub_' \in Int
    BY UpdateFacts
  <1>2. st_' \in [Accts -> States]
    BY <1>1 DEF Typed, States
  <1>3. Known \subseteq Known'
    BY <1>1 DEF Known
  <1> QED
    BY <1>1, <1>2, <1>3

\* A request is added to those on their way.
LEMMA SendTyped == ASSUME Typed, NEW x \in Req, SendHttp(x) PROVE hreq' \in Seq(Req)
  BY DEF Typed, SendHttp

\* What the replies and requests hold.
LEMMA ReqTypes ==
    /\ SlotReq \in Req /\ HashReq \in Req /\ AllReq \in Req
    /\ \A a \in Accts : AcctReq(a) \in Req /\ AcctReq(a) # SlotReq /\ AcctReq(a) # HashReq
                        /\ AcctReq(a) # AllReq
    /\ \A a, b : AcctReq(a) = AcctReq(b) => a = b
    /\ \A a, b : Get(a) = Get(b) => a = b
    /\ \A a, b : Get(a) # Sched(b)
  BY DEF Req, SlotReq, HashReq, AllReq, AcctReq, Get, Sched

\* The notifications of a change on chain.
LEMMA NotifyTyped ==
    ASSUME Typed, NEW x \in Accts, NEW y \in Accts, refs' \in Data, Notify(<<x, y>>)
    PROVE  wsq' \in Seq([acct : Accts, refs : Data])
  <1> DEFINE n == [i \in 1 .. Len(<<x, y>>) |-> [acct |-> <<x, y>>[i], refs |-> refs']]
  <1>1. Len(<<x, y>>) = 2 /\ \A i \in 1 .. 2 : <<x, y>>[i] \in Accts
    OBVIOUS
  <1>2. n \in Seq([acct : Accts, refs : Data])
    BY <1>1
  <1>3. wsq' = IF wsub = "on" THEN wsq \o n ELSE wsq
    BY DEF Notify
  <1> HIDE DEF n
  <1> QED
    BY <1>2, <1>3 DEF Typed

\* The first of a queue, and the rest.
LEMMA HeadTail ==
    ASSUME NEW X, NEW q \in Seq(X), q # <<>>
    PROVE  /\ Head(q) \in X /\ Tail(q) \in Seq(X)
           /\ 1 \in DOMAIN q /\ Head(q) = q[1]
  OBVIOUS

\* A queue that was dropped.
LEMMA EmptySeq == \A X : <<>> \in Seq(X)
  OBVIOUS

\* No step takes what the manager, the network or the chain hold out of its type.
LEMMA NextTyped == IInv /\ [Next]_vars => Typed'
  <1> SUFFICES ASSUME IInv, [Next]_vars PROVE Typed'
    OBVIOUS
  <1>0. Typed /\ CountAlways
    BY DEF IInv
  <1> USE <1>0
  <1>1. CASE NextSlot
    BY <1>1 DEF NextSlot, linkVars, httpVars, wsVars, objVars, Typed, Known
  <1>2. ASSUME NEW p \in Products, ChainAddProduct(p) PROVE Typed'
    <2>1. Root \in Accts /\ p \in Accts
      BY DEF Accts
    <2>2. refs' \in Data
      BY <1>2, <2>1 DEF ChainAddProduct, Typed, Data
    <2>3. wsq' \in Seq([acct : Accts, refs : Data])
      BY <1>2, <2>1, <2>2, NotifyTyped DEF ChainAddProduct
    <2> QED
      BY <1>2, <2>2, <2>3 DEF ChainAddProduct, httpVars, objVars, Typed, Known
  <1>3. ASSUME NEW p \in Products, NEW a \in Prices, ChainAddPrice(p, a) PROVE Typed'
    <2>1. a \in Accts /\ p \in Accts
      BY DEF Accts
    <2>2. refs' \in Data
      <3>1. {a} \in SUBSET Accts /\ refs[p] \in SUBSET Accts
        BY <2>1 DEF Typed, Data
      <3> QED
        BY <1>3, <2>1, <3>1 DEF ChainAddPrice, Typed, Data
    <2>3. wsq' \in Seq([acct : Accts, refs : Data])
      BY <1>3, <2>1, <2>2, NotifyTyped DEF ChainAddPrice
    <2> QED
      BY <1>3, <2>2, <2>3 DEF ChainAddPrice, httpVars, objVars, Typed, Known
  <1>4. CASE Subscribe
    BY <1>4 DEF Subscribe, chainVars, httpVars, objVars, Typed, Known
  <1>5. ASSUME NEW ok \in BOOLEAN, Answer(ok) PROVE Typed'
    <2> DEFINE m == [req |-> Head(hreq), ok |-> ok, slot |-> cslot, refs |-> refs]
    <2>1. hreq \in Seq(Req) /\ hreq # <<>>
      BY <1>5 DEF Answer, Typed
    <2>2. m \in Rep
      BY <2>1 DEF Typed, Rep
    <2>3. hresp' = Append(hresp, m) /\ hreq' = Tail(hreq)
      BY <1>5 DEF Answer
    <2> HIDE DEF m
    <2>4. hresp' \in Seq(Rep) /\ hreq' \in Seq(Req)
      BY <2>1, <2>2, <2>3 DEF Typed
    <2> QED
      BY <1>5, <2>4 DEF Answer, chainVars, wsVars, objVars, Typed, Known
  <1>6. ASSUME NEW l \in {"http", "ws"}, Connected(l) PROVE Typed'
    BY <1>6 DEF Connected, chainVars, httpVars, wsVars, objVars, Typed, Known
  <1>7. ASSUME NEW l \in {"http", "ws"}, Fails(l) PROVE Typed'
    <2>1. /\ hreq' \in {hreq, <<>>} /\ hresp' \in {hresp, <<>>} /\ wsq' \in {wsq, <<>>}
      BY <1>7 DEF Fails, wsVars
    <2>2. hreq' \in Seq(Req) /\ hresp' \in Seq(Rep) /\ wsq' \in Seq([acct : Accts, refs : Data])
      BY <2>1, EmptySeq DEF Typed
    <2> QED
      BY <1>7, <2>2 DEF Fails, chainVars, objVars, Typed, Known
  <1>8. ASSUME NEW e \in BOOLEAN, Disconnected(e) PROVE Typed'
    <2>1. /\ hreq' \in {hreq, <<>>} /\ hresp' \in {hresp, <<>>} /\ wsq' \in {wsq, <<>>}
      BY <1>8 DEF Disconnected, wsVars
    <2>2. hreq' \in Seq(Req) /\ hresp' \in Seq(Rep) /\ wsq' \in Seq([acct : Accts, refs : Data])
      BY <2>1, EmptySeq DEF Typed
    <2> QED
      BY <1>8, <2>2 DEF Disconnected, chainVars, objVars, Typed, Known
  <1>9. CASE Reconnected
    <2>1. hreq' \in Seq(Req)
      BY <1>9, SendTyped, ReqTypes DEF Reconnected
    <2>2. st_' \in [Accts -> States] /\ is_recv' \subseteq Known'
      BY <1>9 DEF Reconnected, ResetObjects, Typed, States
    <2>3. num_sub_' \in Int
      <3>1. Again \subseteq Accts
        BY DEF Again, Known, Accts
      <3> QED
        BY <1>9, <3>1, AcctsFinite, FS_Subset, FS_CardinalityType DEF Reconnected
    <2> QED
      BY <1>9, <2>1, <2>2, <2>3 DEF Reconnected, chainVars, Typed
  <1>10. ASSUME NEW a \in Accts \ Prices, SubmitAccount(a) PROVE Typed'
    <2>1. hreq' \in Seq(Req)
      BY <1>10, SendTyped, ReqTypes DEF SubmitAccount
    <2>2. st_' \in [Accts -> States] /\ Known \subseteq Known'
      BY <1>10 DEF SubmitAccount, Typed, States, Known
    <2> QED
      BY <1>10, <2>1, <2>2 DEF SubmitAccount, chainVars, wsVars, Typed
  <1>11. ASSUME NEW a \in Prices, SubmitPrice(a) PROVE Typed'
    <2>1. a \in Accts
      BY DEF Accts
    <2>2. hreq' \in Seq(Req)
      BY <1>11, <2>1, SendTyped, ReqTypes DEF SubmitPrice, Typed
    <2>3. st_' \in [Accts -> States] /\ Known \subseteq Known'
      BY <1>11, <2>1 DEF SubmitPrice, Typed, States, Known
    <2> QED
      BY <1>11, <2>2, <2>3 DEF SubmitPrice, chainVars, wsVars, Typed
  <1>12. ASSUME NEW a \in Prices, SubmitSched(a) \/ GetSched(a) PROVE Typed'
    BY <1>12 DEF SubmitSched, GetSched, chainVars, httpVars, wsVars, objVars, Typed, Known
  <1>13. CASE PollSlot \/ PollAccounts
    <2>1. hreq' \in Seq(Req)
      BY <1>13, SendTyped, ReqTypes DEF PollSlot, PollAccounts
    <2> QED
      BY <1>13, <2>1 DEF PollSlot, PollAccounts, chainVars, wsVars, objVars, Typed, Known
  <1>14. CASE PollHttp
    <2> DEFINE m == Head(hresp)
    <2>1. m \in Rep /\ hresp' \in Seq(Rep) /\ m.refs \in Data
      <3>1. m \in Rep /\ hresp' \in Seq(Rep)
        BY <1>14, HeadTail DEF PollHttp, Typed
      <3> QED
        BY <3>1 DEF Rep
    <2>2. cslot' \in Nat /\ refs' \in Data /\ wsq' \in Seq([acct : Accts, refs : Data])
      BY <1>14 DEF PollHttp, chainVars, wsVars, Typed
    <2> HIDE DEF m
    <2>3. CASE OnSlot(m)
      <3>1. hreq' \in Seq(Req) /\ is_err' \in BOOLEAN
        BY <2>1, <2>3, SendTyped, ReqTypes DEF OnSlot, Typed, Rep
      <3> QED
        BY <2>1, <2>2, <2>3, <3>1 DEF OnSlot, objVars, Typed, Known
    <2>4. CASE OnHash(m)
      BY <2>1, <2>2, <2>4 DEF OnHash, objVars, Typed, Known, Rep
    <2>5. CASE OnAll(m)
      <3>1. is_err' \in BOOLEAN /\ hreq' = hreq /\ is_recv' = is_recv
        BY <2>1, <2>5 DEF OnAll, Rep
      <3>2. CASE m.ok
        <4>1. st_' \in [Accts -> States] /\ num_sub_' \in Int /\ Known \subseteq Known'
          BY <2>1, <2>5, <3>2, UpdateTyped DEF OnAll, Typed
        <4> QED
          BY <2>1, <2>2, <3>1, <4>1 DEF Typed
      <3>3. CASE ~ m.ok
        BY <2>1, <2>2, <2>5, <3>1, <3>3 DEF OnAll, Typed, Known
      <3> QED
        BY <3>2, <3>3
    <2>6. ASSUME NEW a \in Accts, OnAccount(a, m) PROVE Typed'
      <3>1. st_[a] # "none" /\ a \in Known
        <4>1. 1 \in DOMAIN hresp /\ m = hresp[1]
          BY <1>14, HeadTail DEF PollHttp, Typed, m
        <4>2. OnWay(hreq, hresp, a)
          BY <2>6, <4>1 DEF OnAccount, OnWay, Answered
        <4> QED
          BY <4>2 DEF IInv, Stages, Known
      <3>2. hreq' = hreq /\ is_recv' = is_recv \union {a}
        BY <2>6 DEF OnAccount
      <3>3. CASE a \notin rpc_err'
        <4>1. st_' \in [Accts -> States] /\ num_sub_' \in Int /\ Known \subseteq Known'
          BY <2>1, <2>6, <3>1, <3>3, UpdateTyped DEF OnAccount
        <4> QED
          BY <2>1, <2>2, <2>6, <3>1, <3>2, <3>3, <4>1 DEF OnAccount, Typed
      <3>4. CASE a \in rpc_err'
        <4>1. st_' = [st_ EXCEPT ![a] = IF a = Root THEN @ ELSE "error"]
          BY <2>6, <3>4 DEF OnAccount
        <4>2. st_' \in [Accts -> States] /\ Known \subseteq Known'
          BY <3>1, <4>1 DEF Typed, States, Known
        <4>3. num_sub_' \in Int /\ is_err' \in BOOLEAN
          BY <2>6, <3>4 DEF OnAccount, Typed
        <4> QED
          BY <2>1, <2>2, <3>1, <3>2, <4>2, <4>3 DEF Typed
      <3> QED
        BY <3>3, <3>4
    <2> QED
      BY <1>14, <2>3, <2>4, <2>5, <2>6 DEF PollHttp, m
  <1>15. CASE PollWs
    <2> DEFINE m == Head(wsq)
    <2>1. m.refs \in Data /\ wsq' \in Seq([acct : Accts, refs : Data])
      <3>1. m \in [acct : Accts, refs : Data] /\ wsq' \in Seq([acct : Accts, refs : Data])
        BY <1>15, HeadTail DEF PollWs, Typed
      <3> HIDE DEF m
      <3> QED
        BY <3>1
    <2> HIDE DEF m
    <2>2. is_recv \intersect {m.acct} \subseteq Known
      BY DEF Typed
    <2>3. st_' \in [Accts -> States] /\ num_sub_' \in Int /\ Known \subseteq Known'
      BY <1>15, <2>1, <2>2, UpdateTyped DEF PollWs, m
    <2> QED
      BY <1>15, <2>1, <2>3 DEF PollWs, chainVars, httpVars, Typed
  <1>16. CASE UNCHANGED vars
    BY <1>16 DEF vars, chainVars, httpVars, wsVars, objVars, Typed, Known
  <1> QED
    BY <1>1, <1>2, <1>3, <1>4, <1>5, <1>6, <1>7, <1>8, <1>9, <1>10, <1>11, <1>12, <1>13, <1>14,
       <1>15, <1>16 DEF Next, Validator, Network, Poll

-----------------------------------------------------------------------------
(* Steps of the fetches *)

Rest == CountAlways /\ Stages /\ NoneLost /\ Quiet /\ Errors

\* A step that leaves every fetch where it is.
LEMMA SameFetches ==
    ASSUME IInv, UNCHANGED <<st_, is_recv, num_sub_>>,
           \A a \in Accts : Get(a) \in plist_' <=> Get(a) \in plist_,
           \A a \in Accts : OnWay(hreq, hresp, a)' <=> OnWay(hreq, hresp, a),
           \A a \in Accts : Once(hreq, hresp, a)',
           is_err => is_err',
           IsConnected' /\ hconn' = "up" => IsConnected /\ hconn = "up"
    PROVE  CountAlways' /\ Stages' /\ NoneLost' /\ Errors'
  <1>1. CountAlways'
    BY DEF IInv, CountAlways, Open
  <1>2. Stages'
    BY DEF IInv, Stages
  <1>3. NoneLost'
    BY DEF IInv, NoneLost
  <1>4. Errors'
    BY DEF IInv, Errors
  <1> QED
    BY <1>1, <1>2, <1>3, <1>4

\* Sending a request that is not for an account.
LEMMA SendOther ==
    ASSUME Typed, Stages, NEW x \in {SlotReq, HashReq, AllReq}, SendHttp(x), hresp' = hresp
    PROVE  \A a \in Accts : /\ OnWay(hreq, hresp, a)' <=> OnWay(hreq, hresp, a)
                            /\ Once(hreq, hresp, a)'
  <1> TAKE a \in Accts
  <1>1. x \in Req /\ x # AcctReq(a) /\ hreq \in Seq(Req) /\ hresp \in Seq(Rep)
    BY ReqTypes DEF Typed
  <1>2. Once(hreq, hresp, a)
    BY DEF Stages
  <1>3. CASE hreq' = Append(hreq, x)
    BY <1>1, <1>2, <1>3, SendOne
  <1>4. CASE hreq' = hreq
    BY <1>2, <1>4
  <1> QED
    BY <1>3, <1>4 DEF SendHttp

\* The steps of the chain, of schedules and of the network keep the fetches.
LEMMA OutsideSteps ==
    ASSUME IInv,
           \/ NextSlot \/ Subscribe
           \/ \E p \in Products : ChainAddProduct(p) \/ \E a \in Prices : ChainAddPrice(p, a)
           \/ \E a \in Prices : SubmitSched(a) \/ GetSched(a)
           \/ UNCHANGED vars
    PROVE  Rest'
  <1>1. UNCHANGED <<st_, is_recv, num_sub_, hreq, hresp, hconn, wconn, status_, is_err>>
    BY DEF NextSlot, Subscribe, ChainAddProduct, ChainAddPrice, SubmitSched, GetSched, vars,
           linkVars, httpVars, objVars
  <1>2. \A a \in Accts : Get(a) \in plist_' <=> Get(a) \in plist_
    <2>1. \/ plist_' = plist_
          \/ \E a \in Prices : plist_' = plist_ \ {Sched(a)} \/ plist_' = plist_ \union {Sched(a)}
      BY DEF NextSlot, Subscribe, ChainAddProduct, ChainAddPrice, SubmitSched, GetSched,
             TakePending, vars
    <2>2. \A a, b : Get(a) # Sched(b)
      BY ReqTypes
    <2> HIDE DEF Get, Sched
    <2> QED
      BY <2>1, <2>2
  <1>3. CountAlways' /\ Stages' /\ NoneLost' /\ Errors'
    <2>1. \A a \in Accts : OnWay(hreq, hresp, a)' <=> OnWay(hreq, hresp, a)
      BY <1>1
    <2>2. \A a \in Accts : Once(hreq, hresp, a)'
      BY <1>1 DEF IInv, Stages
    <2> QED
      BY <1>1, <1>2, <2>1, <2>2, SameFetches DEF IsConnected
  <1>4. Quiet'
    BY <1>1 DEF IInv, Quiet, IsConnected, IsBroken, IsWait
  <1> QED
    BY <1>3, <1>4 DEF Rest

\* The validator answers a request: the fetch is on its way back.
LEMMA AnswerStep == ASSUME IInv, NEW ok \in BOOLEAN, Answer(ok) PROVE Rest'
  <1> DEFINE m == [req |-> Head(hreq), ok |-> ok, slot |-> cslot, refs |-> refs]
  <1>1. UNCHANGED <<st_, is_recv, num_sub_, hconn, wconn, status_, is_err, plist_>>
    BY DEF Answer, linkVars, objVars
  <1>2. /\ hreq \in Seq(Req) /\ hreq # <<>> /\ hresp \in Seq(Rep)
        /\ hresp' = Append(hresp, m) /\ hreq' = Tail(hreq)
    BY DEF Answer, IInv, Typed
  <1>3. m \in Rep /\ m.req = Head(hreq)
    BY <1>2, HeadTail DEF IInv, Typed, Rep
  <1> HIDE DEF m
  <1>4. \A a \in Accts : /\ OnWay(hreq, hresp, a)' <=> OnWay(hreq, hresp, a)
                         /\ Once(hreq, hresp, a)'
    <2> TAKE a \in Accts
    <2>1. Once(hreq, hresp, a)
      BY DEF IInv, Stages
    <2> QED
      BY <1>2, <1>3, <2>1, AnswerOne
  <1>5. CountAlways' /\ Stages' /\ NoneLost' /\ Errors'
    BY <1>1, <1>4, SameFetches DEF IsConnected
  <1>6. Quiet'
    BY <1>1, <1>2 DEF IInv, Quiet, IsConnected, IsBroken, IsWait
  <1> QED
    BY <1>5, <1>6 DEF Rest

\* The slot and the accounts are polled for.
LEMMA PollSteps == ASSUME IInv, PollSlot \/ PollAccounts PROVE Rest'
  <1>1. UNCHANGED <<st_, is_recv, num_sub_, hconn, wconn, status_, is_err, plist_, hresp>>
    BY DEF PollSlot, PollAccounts, linkVars, objVars
  <1>2. IsConnected /\ (SendHttp(SlotReq) \/ SendHttp(AllReq))
    BY DEF PollSlot, PollAccounts, IsConnected
  <1>3. \A a \in Accts : /\ OnWay(hreq, hresp, a)' <=> OnWay(hreq, hresp, a)
                         /\ Once(hreq, hresp, a)'
    BY <1>1, <1>2, SendOther DEF IInv
  <1>4. CountAlways' /\ Stages' /\ NoneLost' /\ Errors'
    BY <1>1, <1>3, SameFetches DEF IsConnected
  <1>5. Quiet'
    BY <1>1, <1>2 DEF IInv, Quiet, IsConnected, IsBroken, IsWait
  <1> QED
    BY <1>4, <1>5 DEF Rest

\* Nothing is on its way on an empty connection.
LEMMA NothingOnWay == \A a : ~ OnWay(<<>>, <<>>, a) /\ Once(<<>>, <<>>, a)
  BY DEF OnWay, Once, Asked, Answered

\* A connection comes up, fails, or is opened again.
LEMMA LinkSteps ==
    ASSUME IInv,
           \/ \E l \in {"http", "ws"} : Connected(l) \/ Fails(l)
           \/ \E e \in BOOLEAN : Disconnected(e)
    PROVE  Rest'
  <1>1. UNCHANGED <<st_, is_recv, num_sub_, is_err, plist_>> /\ status_' \in {status_, {}}
    BY DEF Connected, Fails, Disconnected, objVars
  <1>2. \/ UNCHANGED <<hreq, hresp>>
        \/ hreq' = <<>> /\ hresp' = <<>> /\ hconn' # "up"
    BY DEF Connected, Fails, Disconnected, httpVars
  <1>3. IsConnected' /\ hconn' = "up" => IsConnected /\ hconn = "up"
    BY <1>1 DEF Connected, Fails, Disconnected, IsConnected, IInv, Quiet, IsWait
  <1>4. CASE UNCHANGED <<hreq, hresp>>
    <2>1. \A a \in Accts : OnWay(hreq, hresp, a)' <=> OnWay(hreq, hresp, a)
      BY <1>4
    <2>2. \A a \in Accts : Once(hreq, hresp, a)'
      BY <1>4 DEF IInv, Stages
    <2>3. CountAlways' /\ Stages' /\ NoneLost' /\ Errors'
      BY <1>1, <1>3, <2>1, <2>2, SameFetches
    <2>4. Quiet'
      <3>1. \/ IsBroken'
            \/ hreq' = <<>> /\ hresp' = <<>>
            \/ UNCHANGED status_ /\ (IsBroken' <=> IsBroken)
        BY DEF Connected, Fails, Disconnected, IsBroken
      <3>2. IsConnected' => ~ IsWait'
        BY <1>1 DEF Connected, Fails, Disconnected, IsConnected, IInv, Quiet, IsWait
      <3> QED
        BY <1>1, <1>4, <3>1, <3>2 DEF IInv, Quiet, IsConnected
    <2> QED
      BY <2>3, <2>4 DEF Rest
  <1>5. CASE hreq' = <<>> /\ hresp' = <<>> /\ hconn' # "up"
    <2>1. \A a \in Accts : ~ OnWay(hreq, hresp, a)' /\ Once(hreq, hresp, a)'
      BY <1>5, NothingOnWay
    <2>2. CountAlways' /\ Errors'
      BY <1>1 DEF IInv, CountAlways, Open, Errors
    <2>3. Stages'
      BY <1>1, <2>1 DEF IInv, Stages
    <2>4. NoneLost'
      BY <1>5 DEF NoneLost
    <2>5. Quiet'
      <3>1. IsConnected' => ~ IsWait'
        BY <1>1 DEF Connected, Fails, Disconnected, IsConnected, IInv, Quiet, IsWait
      <3> QED
        BY <1>5, <3>1 DEF Quiet
    <2> QED
      BY <2>2, <2>3, <2>4, <2>5 DEF Rest
  <1> QED
    BY <1>2, <1>4, <1>5

\* reconnect_rpc starts every fetch again, and nothing of the old connection
\* is left to be taken for an answer.
LEMMA ReconnectedStep == ASSUME IInv, Reconnected PROVE Rest'
  <1>1. /\ hreq = <<>> /\ hresp = <<>> /\ hresp' = <<>>
    BY DEF Reconnected, IInv, Quiet, IsConnected
  <1>2. \A a \in Accts : ~ OnWay(hreq, hresp, a)' /\ Once(hreq, hresp, a)'
    <2>1. hresp' = hresp /\ SendHttp(SlotReq)
      BY DEF Reconnected
    <2> QED
      BY <1>1, <2>1, SendOther, NothingOnWay DEF IInv
  <1>3. Again \subseteq Accts /\ Known \subseteq Again
    BY DEF Again, Known, Accts
  <1>4. /\ st_' = [a \in Accts |-> IF a \in Again THEN "subscribe" ELSE st_[a]]
        /\ is_recv' = {} /\ plist_' = {Get(a) : a \in Again} /\ num_sub_' = Cardinality(Again)
        /\ is_err' = is_err /\ UNCHANGED <<hconn, wconn>> /\ IsConnected'
    BY DEF Reconnected, ResetObjects, linkVars, IsConnected
  <1>5. \A a \in Accts : Get(a) \in plist_' <=> a \in Again
    BY <1>4, ReqTypes
  <1>6. Open' = Again
    BY <1>3, <1>4 DEF Open, Known
  <1>7. CountAlways'
    BY <1>4, <1>6 DEF CountAlways
  <1>8. Stages' /\ NoneLost'
    <2>1. \A a \in Accts : /\ a \in Again => st_'[a] = "subscribe"
                           /\ a \notin Again => st_'[a] = "none"
      BY <1>3, <1>4 DEF Known
    <2> QED
      BY <1>2, <1>4, <1>5, <2>1 DEF Stages, NoneLost
  <1>9. Errors'
    BY <1>4 DEF IInv, Errors
  <1>10. Quiet'
    BY <1>4 DEF Quiet, Reconnected, IsWait
  <1> QED
    BY <1>7, <1>8, <1>9, <1>10 DEF Rest

\* A pending account is sent for.
LEMMA SubmitStep ==
    ASSUME IInv, NEW a \in Accts,
           \/ a \notin Prices /\ SubmitAccount(a)
           \/ a \in Prices /\ SubmitPrice(a)
    PROVE  Rest'
  <1>1. /\ Get(a) \in plist_ /\ plist_' = plist_ \ {Get(a)} /\ IsConnected
        /\ UNCHANGED <<is_recv, num_sub_, hresp, hconn, wconn, status_, is_err>>
    BY DEF SubmitAccount, SubmitPrice, TakePending, linkVars, Ready, IsConnected
  <1>2. st_[a] = "subscribe" /\ a \notin is_recv /\ ~ OnWay(hreq, hresp, a)
    BY <1>1 DEF IInv, Stages
  <1>3. /\ st_' = [st_ EXCEPT ![a] = IF a \in Prices THEN "sent" ELSE "subscribe"]
        /\ SendHttp(AcctReq(a))
    BY <1>2 DEF SubmitAccount, SubmitPrice
  <1>4. hreq \in Seq(Req) /\ hresp \in Seq(Rep) /\ st_ \in [Accts -> States] /\ AcctReq(a) \in Req
    BY ReqTypes DEF IInv, Typed
  <1>5. \A b \in Accts :
          /\ OnWay(hreq, hresp, b)' => OnWay(hreq, hresp, b) \/ b = a
          /\ OnWay(hreq, hresp, b) => OnWay(hreq, hresp, b)'
          /\ hconn = "up" => OnWay(hreq, hresp, a)'
          /\ Once(hreq, hresp, b)'
    <2> TAKE b \in Accts
    <2>1. Once(hreq, hresp, b) /\ (AcctReq(a) = AcctReq(b) => a = b)
      BY ReqTypes DEF IInv, Stages
    <2>2. CASE hconn = "up"
      <3>1. hreq' = Append(hreq, AcctReq(a)) /\ hresp' = hresp
        BY <1>1, <1>3, <2>2 DEF SendHttp
      <3> QED
        BY <1>2, <1>4, <2>1, <3>1, SendOne
    <2>3. CASE hconn # "up"
      BY <1>1, <1>3, <2>1, <2>3 DEF SendHttp
    <2> QED
      BY <2>2, <2>3
  <1>6. /\ \A b \in Accts : b # a => st_'[b] = st_[b] /\ (Get(b) \in plist_' <=> Get(b) \in plist_)
        /\ Get(a) \notin plist_' /\ st_'[a] = IF a \in Prices THEN "sent" ELSE "subscribe"
    BY <1>1, <1>3, <1>4, ReqTypes
  <1>7. CountAlways'
    <2>1. Open' = Open
      BY <1>2, <1>6 DEF Open
    <2> QED
      BY <1>1, <2>1 DEF IInv, CountAlways
  <1>8. Stages'
    <2> SUFFICES ASSUME NEW b \in Accts
                 PROVE  /\ Get(b) \in plist_' => /\ st_'[b] = "subscribe" /\ b \notin is_recv'
                                                 /\ ~ OnWay(hreq, hresp, b)'
                        /\ OnWay(hreq, hresp, b)' =>
                              /\ st_'[b] = IF b \in Prices THEN "sent" ELSE "subscribe"
                              /\ b \notin is_recv'
                        /\ Once(hreq, hresp, b)'
      BY DEF Stages
    <2>1. CASE b = a
      BY <1>1, <1>2, <1>5, <1>6, <2>1
    <2>2. CASE b # a
      BY <1>1, <1>5, <1>6, <2>2 DEF IInv, Stages
    <2> QED
      BY <2>1, <2>2
  <1>9. NoneLost'
    BY <1>1, <1>5, <1>6 DEF IInv, NoneLost, IsConnected
  <1>10. Errors'
    BY <1>1, <1>6 DEF IInv, Errors
  <1>11. Quiet'
    BY <1>1 DEF IInv, Quiet, IsConnected, IsWait
  <1> QED
    BY <1>7, <1>8, <1>9, <1>10, <1>11 DEF Rest

\* Accounts whose first fetch was answered are updated, by a notification or
\* by an answer to getProgramAccounts.
LEMMA UpdateReceived ==
    ASSUME IInv, NEW S \in SUBSET is_recv, NEW data \in Data, Update(S, data),
           UNCHANGED <<is_recv, hconn>>, ~ is_err,
           \A a \in Accts : OnWay(hreq, hresp, a)' <=> OnWay(hreq, hresp, a),
           \A a \in Accts : Once(hreq, hresp, a)'
    PROVE  CountAlways' /\ Stages' /\ NoneLost' /\ Errors'
  <1>1. Typed /\ CountAlways /\ S \in SUBSET Known
    BY DEF IInv, Typed
  <1>2. PICK found \in SUBSET (Accts \ Known) :
          /\ st_' = [a \in Accts |-> IF a \in Finished(S) THEN "done"
                                     ELSE IF a \in found THEN "subscribe" ELSE st_[a]]
          /\ plist_' = plist_ \union {Get(a) : a \in found}
          /\ Finished(S) \subseteq Open \intersect S
          /\ CountAlways'
          /\ IsConnected' <=> IsConnected
    BY <1>1, UpdateFacts
  <1>3. \A a \in Accts : Get(a) \in plist_' <=> Get(a) \in plist_ \/ a \in found
    BY <1>2, ReqTypes
  <1>4. \A a \in found : st_[a] = "none" /\ a \notin is_recv /\ ~ OnWay(hreq, hresp, a)
                         /\ st_'[a] = "subscribe"
    <2> TAKE a \in found
    <2>1. a \in Accts /\ st_[a] = "none" /\ a \notin Known
      BY DEF Known
    <2>2. a \notin Finished(S)
      BY <1>2, <2>1 DEF Open
    <2>3. a \notin is_recv /\ ~ OnWay(hreq, hresp, a)
      BY <2>1 DEF IInv, Typed, Stages
    <2> QED
      BY <1>2, <2>1, <2>2, <2>3
  <1>5. \A a \in Finished(S) : /\ st_'[a] = "done" /\ a \in is_recv /\ a \in Accts
                               /\ Get(a) \notin plist_ /\ ~ OnWay(hreq, hresp, a)
    BY <1>2 DEF IInv, Stages, Open
  <1>6. \A a \in Accts : a \notin found /\ a \notin Finished(S) => st_'[a] = st_[a]
    BY <1>2
  <1>7. Stages'
    <2> SUFFICES ASSUME NEW b \in Accts
                 PROVE  /\ Get(b) \in plist_' => /\ st_'[b] = "subscribe" /\ b \notin is_recv'
                                                 /\ ~ OnWay(hreq, hresp, b)'
                        /\ OnWay(hreq, hresp, b)' =>
                              /\ st_'[b] = IF b \in Prices THEN "sent" ELSE "subscribe"
                              /\ b \notin is_recv'
                        /\ Once(hreq, hresp, b)'
      BY DEF Stages
    <2>1. CASE b \in found
      BY <1>4, <2>1
    <2>2. CASE b \in Finished(S)
      BY <1>3, <1>4, <1>5, <2>2
    <2>3. CASE b \notin found /\ b \notin Finished(S)
      BY <1>3, <1>6, <2>3 DEF IInv, Stages
    <2> QED
      BY <2>1, <2>2, <2>3
  <1>8. NoneLost'
    <2> SUFFICES ASSUME IsConnected, hconn = "up", NEW b \in Accts, st_'[b] \in {"subscribe", "sent"}
                 PROVE  Get(b) \in plist_' \/ OnWay(hreq, hresp, b)'
      BY <1>2 DEF NoneLost
    <2>1. CASE b \in found
      BY <1>3, <2>1
    <2>2. CASE b \in Finished(S)
      BY <1>5, <2>2
    <2>3. CASE b \notin found /\ b \notin Finished(S)
      BY <1>3, <1>6, <2>3 DEF IInv, NoneLost
    <2> QED
      BY <2>1, <2>2, <2>3
  <1>9. Errors'
    <2> SUFFICES ASSUME NEW b \in Accts \ Prices PROVE st_'[b] # "sent" /\ st_'[b] # "error"
      BY DEF Errors
    <2> QED
      BY <1>4, <1>5, <1>6 DEF IInv, Errors
  <1> QED
    BY <1>2, <1>7, <1>8, <1>9

\* The reply to the fetch of an account completes it, or shows its error.
LEMMA OnAccountStep ==
    ASSUME IInv, PollHttp, NEW a \in Accts, OnAccount(a, Head(hresp))
    PROVE  CountAlways' /\ Stages' /\ NoneLost' /\ Errors'
  <1> DEFINE m == Head(hresp)
  <1>1. /\ m.req = AcctReq(a) /\ is_recv' = is_recv \union {a} /\ hreq' = hreq
        /\ hresp # <<>> /\ hresp' = Tail(hresp) /\ hconn' = hconn /\ ~ is_err
    BY DEF OnAccount, PollHttp, linkVars
  <1>2. hreq \in Seq(Req) /\ hresp \in Seq(Rep) /\ m \in Rep /\ m.refs \in Data
    <2>1. hreq \in Seq(Req) /\ hresp \in Seq(Rep) /\ m \in Rep
      BY <1>1, HeadTail DEF IInv, Typed
    <2> QED
      BY <2>1 DEF Rep
  <1>3. \A b \in Accts : /\ Once(hreq, hresp, b)'
                         /\ b # a => (OnWay(hreq, hresp, b)' <=> OnWay(hreq, hresp, b))
    <2> TAKE b \in Accts
    <2>1. Once(hreq, hresp, b) /\ (b # a => m.req # AcctReq(b))
      BY <1>1, ReqTypes DEF IInv, Stages
    <2> QED
      BY <1>1, <1>2, <2>1, TakeOne
  <1>4. OnWay(hreq, hresp, a) /\ ~ OnWay(hreq, hresp, a)'
    <2>1. Once(hreq, hresp, a)
      BY DEF IInv, Stages
    <2> QED
      BY <1>1, <1>2, <2>1, TakeOne
  <1>5. /\ st_[a] = IF a \in Prices THEN "sent" ELSE "subscribe"
        /\ a \notin is_recv /\ Get(a) \notin plist_ /\ a \in Known
    BY <1>4 DEF IInv, Stages, Known
  <1>6. CASE a \notin rpc_err'
    <2>1. Typed /\ CountAlways /\ {a} \in SUBSET Known /\ Update({a}, m.refs) /\ is_err' = is_err
      BY <1>5, <1>6 DEF IInv, OnAccount
    <2>2. PICK found \in SUBSET (Accts \ Known) :
            /\ st_' = [b \in Accts |-> IF b \in Finished({a}) THEN "done"
                                       ELSE IF b \in found THEN "subscribe" ELSE st_[b]]
            /\ plist_' = plist_ \union {Get(b) : b \in found}
            /\ CountAlways'
            /\ IsConnected' <=> IsConnected
      <3> DEFINE S == {a}
                 d == m.refs
      <3>1. Typed /\ CountAlways /\ S \in SUBSET Known /\ d \in Data /\ Update(S, d)
        BY <1>2, <2>1
      <3> HIDE DEF m, S, d
      <3>2. \E found \in SUBSET (Accts \ Known) :
              /\ st_' = [b \in Accts |-> IF b \in Finished(S) THEN "done"
                                         ELSE IF b \in found THEN "subscribe" ELSE st_[b]]
              /\ plist_' = plist_ \union {Get(b) : b \in found}
              /\ CountAlways'
              /\ IsConnected' <=> IsConnected
        BY <3>1, UpdateFacts
      <3> QED
        BY <3>2 DEF S
    <2>3. Finished({a}) = {a}
      <3>1. a = Root \/ a \in Products \/ a \in Prices
        BY DEF Accts
      <3>2. a \in Products => a \notin Prices
        BY ManagerAssumption
      <3>3. a = Root => a \notin Prices
        BY ManagerAssumption
      <3>4. CompletesMapping(a) \/ CompletesProduct(a) \/ CompletesPrice(a)
        BY <1>5, <3>1, <3>2, <3>3 DEF CompletesMapping, CompletesProduct, CompletesPrice
      <3> QED
        BY <3>4 DEF Finished
    <2>4. \A b \in Accts : Get(b) \in plist_' <=> Get(b) \in plist_ \/ b \in found
      BY <2>2, ReqTypes
    <2>5. \A b \in found : /\ b # a /\ st_[b] = "none" /\ b \notin is_recv
                           /\ ~ OnWay(hreq, hresp, b) /\ st_'[b] = "subscribe"
      <3> TAKE b \in found
      <3>1. b \in Accts /\ st_[b] = "none" /\ b \notin Known /\ b # a
        BY <1>5 DEF Known
      <3>2. b \notin is_recv /\ ~ OnWay(hreq, hresp, b)
        BY <3>1 DEF IInv, Typed, Stages
      <3> QED
        BY <2>2, <2>3, <3>1, <3>2
    <2>6. st_'[a] = "done" /\ \A b \in Accts : b \notin found /\ b # a => st_'[b] = st_[b]
      BY <2>2, <2>3
    <2>7. Stages'
      <3> SUFFICES ASSUME NEW b \in Accts
                   PROVE  /\ Get(b) \in plist_' => /\ st_'[b] = "subscribe" /\ b \notin is_recv'
                                                   /\ ~ OnWay(hreq, hresp, b)'
                          /\ OnWay(hreq, hresp, b)' =>
                                /\ st_'[b] = IF b \in Prices THEN "sent" ELSE "subscribe"
                                /\ b \notin is_recv'
                          /\ Once(hreq, hresp, b)'
        BY DEF Stages
      <3>1. CASE b \in found
        BY <1>1, <1>3, <2>5, <3>1
      <3>2. CASE b = a
        BY <1>3, <1>4, <1>5, <2>4, <2>5, <3>2
      <3>3. CASE b \notin found /\ b # a
        BY <1>1, <1>3, <2>4, <2>6, <3>3 DEF IInv, Stages
      <3> QED
        BY <3>1, <3>2, <3>3
    <2>8. NoneLost'
      <3> SUFFICES ASSUME IsConnected, hconn = "up", NEW b \in Accts, st_'[b] \in {"subscribe", "sent"}
                   PROVE  Get(b) \in plist_' \/ OnWay(hreq, hresp, b)'
        BY <1>1, <2>2 DEF NoneLost
      <3>1. CASE b \in found
        BY <2>4, <3>1
      <3>2. CASE b = a
        BY <2>6, <3>2
      <3>3. CASE b \notin found /\ b # a
        BY <1>1, <1>3, <2>4, <2>6, <3>3 DEF IInv, NoneLost
      <3> QED
        BY <3>1, <3>2, <3>3
    <2>9. Errors'
      <3> SUFFICES ASSUME NEW b \in Accts \ Prices PROVE st_'[b] # "sent" /\ st_'[b] # "error"
        BY DEF Errors
      <3> QED
        BY <1>1, <2>5, <2>6 DEF IInv, Errors
    <2> QED
      BY <2>2, <2>7, <2>8, <2>9
  <1>7. CASE a \in rpc_err'
    <2>1. /\ st_' = [st_ EXCEPT ![a] = IF a = Root THEN @ ELSE "error"]
          /\ is_err' = (a \notin Prices) /\ UNCHANGED <<plist_, num_sub_, status_>>
      BY <1>7 DEF OnAccount
    <2>2. /\ \A b \in Accts : b # a => st_'[b] = st_[b]
          /\ st_'[a] = IF a = Root THEN st_[a] ELSE "error"
      BY <2>1 DEF IInv, Typed
    <2>3. CountAlways'
      <3>1. Open' = Open
        BY <1>5, <2>2 DEF Open
      <3> QED
        BY <2>1, <3>1 DEF IInv, CountAlways
    <2>4. Stages'
      <3> SUFFICES ASSUME NEW b \in Accts
                   PROVE  /\ Get(b) \in plist_' => /\ st_'[b] = "subscribe" /\ b \notin is_recv'
                                                   /\ ~ OnWay(hreq, hresp, b)'
                          /\ OnWay(hreq, hresp, b)' =>
                                /\ st_'[b] = IF b \in Prices THEN "sent" ELSE "subscribe"
                                /\ b \notin is_recv'
                          /\ Once(hreq, hresp, b)'
        BY DEF Stages
      <3>1. CASE b = a
        BY <1>3, <1>4, <1>5, <2>1, <3>1
      <3>2. CASE b # a
        BY <1>1, <1>3, <2>1, <2>2, <3>2 DEF IInv, Stages
      <3> QED
        BY <3>1, <3>2
    <2>5. NoneLost'
      <3> SUFFICES ASSUME IsConnected, hconn = "up", a \in Prices,
                          NEW b \in Accts, st_'[b] \in {"subscribe", "sent"}
                   PROVE  Get(b) \in plist_' \/ OnWay(hreq, hresp, b)'
        BY <1>1, <2>1 DEF NoneLost, IsConnected
      <3>1. b # a
        BY <2>2, ManagerAssumption
      <3> QED
        BY <1>1, <1>3, <2>1, <2>2, <3>1 DEF IInv, NoneLost
    <2>6. Errors'
      <3> SUFFICES ASSUME NEW b \in Accts \ Prices
                   PROVE  st_'[b] # "sent" /\ (st_'[b] = "error" => is_err')
        BY DEF Errors
      <3>1. CASE b = a
        <4>1. a \notin Prices
          BY <3>1
        <4>2. is_err'
          BY <2>1, <4>1
        <4>3. st_'[a] # "sent"
          BY <1>5, <2>2, <4>1
        <4> QED
          BY <3>1, <4>2, <4>3
      <3>2. CASE b # a
        BY <1>1, <2>2, <3>2 DEF IInv, Errors
      <3> QED
        BY <3>1, <3>2
    <2> QED
      BY <2>3, <2>4, <2>5, <2>6
  <1> QED
    BY <1>6, <1>7

\* A reply is handled.
LEMMA PollHttpStep == ASSUME IInv, PollHttp PROVE Rest'
  <1> DEFINE m == Head(hresp)
  <1>1. /\ hresp # <<>> /\ hresp' = Tail(hresp) /\ UNCHANGED <<hconn, wconn>> /\ ~ is_err
    BY DEF PollHttp, linkVars
  <1>2. hreq \in Seq(Req) /\ hresp \in Seq(Rep) /\ m \in Rep /\ m.refs \in Data
    <2>1. hreq \in Seq(Req) /\ hresp \in Seq(Rep) /\ m \in Rep
      BY <1>1, HeadTail DEF IInv, Typed
    <2> QED
      BY <2>1 DEF Rep
  <1>3. \A b \in Accts : m.req # AcctReq(b) =>
            /\ OnWay(hreq, Tail(hresp), b) <=> OnWay(hreq, hresp, b)
            /\ Once(hreq, Tail(hresp), b)
    <2> TAKE b \in Accts
    <2>1. Once(hreq, hresp, b)
      BY DEF IInv, Stages
    <2> QED
      BY <1>1, <1>2, <2>1, TakeOne
  <1>4. Tail(hresp) \in Seq(Rep)
    BY <1>1, <1>2, HeadTail
  <1>5. (IsConnected \/ IsBroken) /\ (IsConnected' <=> IsConnected) => Quiet'
    BY <1>1 DEF IInv, Quiet, IsBroken, IsWait
  <1>6. IsConnected \/ IsBroken
    BY <1>1 DEF IInv, Quiet
  <1>7. CASE OnSlot(m)
    <2>1. UNCHANGED <<status_, num_sub_, plist_, st_, is_recv>> /\ m.req = SlotReq
      BY <1>7 DEF OnSlot, objVars
    <2>2. hreq' = hreq \/ SendHttp(HashReq)
      BY <1>7 DEF OnSlot
    <2>3. \A b \in Accts : /\ OnWay(hreq, hresp, b)' <=> OnWay(hreq, hresp, b)
                           /\ Once(hreq, hresp, b)'
      <3> TAKE b \in Accts
      <3>1. /\ m.req # AcctReq(b) /\ HashReq # AcctReq(b) /\ HashReq \in Req
        BY <2>1, ReqTypes
      <3>2. CASE hreq' = hreq
        BY <1>1, <1>3, <3>1, <3>2
      <3>3. CASE hreq' = Append(hreq, HashReq)
        BY <1>1, <1>2, <1>3, <1>4, <3>1, <3>3, SendOne
      <3> QED
        BY <2>2, <3>2, <3>3 DEF SendHttp
    <2>4. CountAlways' /\ Stages' /\ NoneLost' /\ Errors'
      BY <1>1, <2>1, <2>3, SameFetches DEF IsConnected
    <2> QED
      BY <1>5, <1>6, <2>1, <2>4 DEF Rest, IsConnected
  <1>8. CASE OnHash(m)
    <2>1. /\ UNCHANGED <<num_sub_, plist_, st_, is_recv, hreq>> /\ m.req = HashReq
          /\ IsConnected' <=> IsConnected
      BY <1>8 DEF OnHash, objVars, IsConnected
    <2>2. \A b \in Accts : /\ OnWay(hreq, hresp, b)' <=> OnWay(hreq, hresp, b)
                           /\ Once(hreq, hresp, b)'
      BY <1>1, <1>3, <2>1, ReqTypes
    <2>3. CountAlways' /\ Stages' /\ NoneLost' /\ Errors'
      BY <1>1, <2>1, <2>2, SameFetches
    <2> QED
      BY <1>5, <1>6, <2>1, <2>3 DEF Rest
  <1>9. CASE OnAll(m)
    <2>1. UNCHANGED <<is_recv, hreq>> /\ m.req = AllReq
      BY <1>9 DEF OnAll
    <2>2. \A b \in Accts : /\ OnWay(hreq, hresp, b)' <=> OnWay(hreq, hresp, b)
                           /\ Once(hreq, hresp, b)'
      BY <1>1, <1>3, <2>1, ReqTypes
    <2>3. CASE m.ok
      <3>1. Update(is_recv, m.refs)
        BY <1>9, <2>3 DEF OnAll
      <3> HIDE DEF m
      <3>2. CountAlways' /\ Stages' /\ NoneLost' /\ Errors'
        BY <1>1, <1>2, <2>1, <2>2, <3>1, UpdateReceived
      <3>3. IsConnected' <=> IsConnected
        BY <3>1 DEF Update, CountSubs, IsConnected
      <3> QED
        BY <1>5, <1>6, <3>2, <3>3 DEF Rest
    <2>4. CASE ~ m.ok
      <3>1. UNCHANGED <<st_, plist_, num_sub_, status_>>
        BY <1>9, <2>4 DEF OnAll
      <3>2. CountAlways' /\ Stages' /\ NoneLost' /\ Errors'
        BY <1>1, <2>1, <2>2, <3>1, SameFetches DEF IsConnected
      <3> QED
        BY <1>5, <1>6, <3>1, <3>2 DEF Rest, IsConnected
    <2> QED
      BY <2>3, <2>4
  <1>10. ASSUME NEW a \in Accts, OnAccount(a, m) PROVE Rest'
    <2>1. CountAlways' /\ Stages' /\ NoneLost' /\ Errors'
      BY <1>10, OnAccountStep
    <2>2. IsConnected' <=> IsConnected
      BY <1>10 DEF OnAccount, Update, CountSubs, IsConnected
    <2> QED
      BY <1>5, <1>6, <2>1, <2>2 DEF Rest
  <1> QED
    BY <1>7, <1>8, <1>9, <1>10 DEF PollHttp

\* A notification is handled.
LEMMA PollWsStep == ASSUME IInv, PollWs PROVE Rest'
  <1> DEFINE m == Head(wsq)
  <1>1. /\ wsq # <<>> /\ UNCHANGED <<hreq, hresp, hconn, wconn, is_recv, is_err>> /\ ~ is_err
        /\ Update(is_recv \intersect {m.acct}, m.refs)
    BY DEF PollWs, httpVars, linkVars
  <1>2. m.refs \in Data
    <2>1. m \in [acct : Accts, refs : Data]
      BY <1>1, HeadTail DEF IInv, Typed
    <2> HIDE DEF m
    <2> QED
      BY <2>1
  <1> HIDE DEF m
  <1>3. \A b \in Accts : /\ OnWay(hreq, hresp, b)' <=> OnWay(hreq, hresp, b)
                         /\ Once(hreq, hresp, b)'
    BY <1>1 DEF IInv, Stages
  <1>4. CountAlways' /\ Stages' /\ NoneLost' /\ Errors'
    BY <1>1, <1>2, <1>3, UpdateReceived
  <1>5. IsConnected' <=> IsConnected
    BY <1>1 DEF Update, CountSubs, IsConnected
  <1>6. Quiet'
    BY <1>1, <1>5 DEF IInv, Quiet, IsBroken, IsWait
  <1> QED
    BY <1>4, <1>6 DEF Rest

-----------------------------------------------------------------------------
(* The invariant holds, and what follows from it *)

\* Before the first connection nothing is known, counted or on its way.
LEMMA InitInv == Init => IInv
  <1> SUFFICES ASSUME Init PROVE IInv
    OBVIOUS
  <1>1. \A a \in Accts : st_[a] = "none"
    BY DEF Init
  <1>2. Typed
    <2>1. <<>> \in Seq(Req) /\ <<>> \in Seq(Rep) /\ <<>> \in Seq([acct : Accts, refs : Data])
      BY EmptySeq
    <2>2. /\ hreq \in Seq(Req) /\ hresp \in Seq(Rep)
          /\ wsq \in Seq([acct : Accts, refs : Data])
      BY <2>1 DEF Init
    <2>3. cslot \in Nat /\ refs \in Data /\ is_err \in BOOLEAN /\ num_sub_ \in Int
      <3>1. cslot \in Nat /\ num_sub_ \in Int
        BY DEF Init
      <3>2. refs \in Data
        BY ManagerAssumption DEF Init, Data
      <3>3. is_err \in BOOLEAN
        BY DEF Init
      <3> QED
        BY <3>1, <3>2, <3>3
    <2>4. st_ \in [Accts -> States] /\ is_recv \subseteq Known
      BY DEF Init, States
    <2> QED
      BY <2>2, <2>3, <2>4 DEF Typed
  <1>3. CountAlways
    <2>1. Open = {}
      BY <1>1 DEF Open
    <2> QED
      BY <2>1, FS_EmptySet DEF Init, CountAlways
  <1>4. Stages
    BY <1>1, NothingOnWay DEF Init, Stages
  <1>5. NoneLost /\ Quiet /\ Errors
    BY <1>1 DEF Init, NoneLost, Quiet, Errors, IsConnected
  <1> QED
    BY <1>2, <1>3, <1>4, <1>5 DEF IInv

\* Every step keeps the invariant.
LEMMA NextInv == IInv /\ [Next]_vars => IInv'
  <1> SUFFICES ASSUME IInv, [Next]_vars PROVE IInv'
    OBVIOUS
  <1>1. Typed'
    BY NextTyped
  <1>2. Rest'
    <2>1. CASE Validator
      <3>1. ASSUME NEW ok \in BOOLEAN, Answer(ok) PROVE Rest'
        BY <3>1, AnswerStep
      <3> QED
        BY <2>1, <3>1, OutsideSteps DEF Validator
    <2>2. CASE Network
      BY <2>2, LinkSteps DEF Network
    <2>3. CASE Poll
      <3>1. ASSUME NEW e \in BOOLEAN, Disconnected(e) PROVE Rest'
        BY <3>1, LinkSteps
      <3>2. ASSUME NEW a \in Accts \ Prices, SubmitAccount(a) PROVE Rest'
        BY <3>2, SubmitStep
      <3>3. ASSUME NEW a \in Prices, SubmitPrice(a) PROVE Rest'
        <4>1. a \in Accts
          BY DEF Accts
        <4> QED
          BY <3>3, <4>1, SubmitStep
      <3>4. ASSUME NEW a \in Prices, SubmitSched(a) PROVE Rest'
        BY <3>4, OutsideSteps
      <3>5. CASE Reconnected
        BY <3>5, ReconnectedStep
      <3>6. CASE PollSlot \/ PollAccounts
        BY <3>6, PollSteps
      <3>7. CASE PollHttp
        BY <3>7, PollHttpStep
      <3>8. CASE PollWs
        BY <3>8, PollWsStep
      <3> QED
        BY <2>3, <3>1, <3>2, <3>3, <3>4, <3>5, <3>6, <3>7, <3>8 DEF Poll
    <2>4. CASE \E a \in Prices : GetSched(a)
      BY <2>4, OutsideSteps
    <2>5. CASE UNCHANGED vars
      BY <2>5, OutsideSteps
    <2> QED
      BY <2>1, <2>2, <2>3, <2>4, <2>5 DEF Next
  <1> QED
    BY <1>1, <1>2 DEF IInv, Rest

\* The inductive invariant of the client's bootstrap.
THEOREM Invariance == Spec => []IInv
  BY InitInv, NextInv, PTL DEF Spec

\* num_sub_ is the number of accounts whose fetch is not complete, whatever
\* the interleaving of replies, notifications, errors and reconnections.
THEOREM CountExact == Spec => []CountMatches
  <1>1. IInv => CountMatches
    <2>1. Open = {a \in Known : st_[a] # "done"}
      BY DEF Open, Known
    <2> QED
      BY <2>1 DEF IInv, CountAlways, CountMatches
  <1> QED
    BY <1>1, Invariance, PTL

\* The number of positions of one request among those on their way.
LEMMA InFlightCount ==
    ASSUME IInv, NEW a \in Accts
    PROVE  InFlight(a) = IF OnWay(hreq, hresp, a) THEN 1 ELSE 0
  <1> DEFINE P == {i \in DOMAIN hreq : hreq[i] = AcctReq(a)}
             Q == {i \in DOMAIN hresp : hresp[i].req = AcctReq(a)}
  <1>1. Once(hreq, hresp, a)
    BY DEF IInv, Stages
  <1>2. Asked(hreq, a) => \E i : P = {i}
    BY <1>1 DEF Once, Asked
  <1>3. Answered(hresp, a) => \E i : Q = {i}
    BY <1>1 DEF Once, Answered
  <1>4. (~ Asked(hreq, a) => P = {}) /\ (~ Answered(hresp, a) => Q = {})
    BY DEF Asked, Answered
  <1>5. InFlight(a) = Cardinality(P) + Cardinality(Q)
    BY DEF InFlight
  <1> HIDE DEF P, Q
  <1>6. /\ Cardinality(P) = IF Asked(hreq, a) THEN 1 ELSE 0
        /\ Cardinality(Q) = IF Answered(hresp, a) THEN 1 ELSE 0
    BY <1>2, <1>3, <1>4, FS_EmptySet, FS_Singleton
  <1>7. ~ (Asked(hreq, a) /\ Answered(hresp, a))
    BY <1>1 DEF Once
  <1> QED
    BY <1>5, <1>6, <1>7 DEF OnWay

\* While the client runs on a working connection, every account it knows is
\* pending, on its way, complete or in error, and only one of these: the
\* reconnection logic neither forgets nor duplicates a fetch.
THEOREM FetchedOnce == Spec => []OneFetchEach
  <1>1. IInv => OneFetchEach
    <2> SUFFICES ASSUME IInv, IsConnected, hconn = "up", ~ is_err, NEW a \in Known
                 PROVE  InFlight(a) + (IF Get(a) \in plist_ THEN 1 ELSE 0)
                          = (IF st_[a] \in {"done", "error"} THEN 0 ELSE 1)
      BY DEF OneFetchEach
    <2>1. a \in Accts /\ st_[a] \in States \ {"none"}
      BY DEF IInv, Typed, Known
    <2>2. InFlight(a) = IF OnWay(hreq, hresp, a) THEN 1 ELSE 0
      BY <2>1, InFlightCount
    <2>3. /\ Get(a) \in plist_ => st_[a] = "subscribe" /\ ~ OnWay(hreq, hresp, a)
          /\ OnWay(hreq, hresp, a) => st_[a] \in {"sent", "subscribe"}
          /\ st_[a] \in {"subscribe", "sent"} => Get(a) \in plist_ \/ OnWay(hreq, hresp, a)
      BY <2>1 DEF IInv, Stages, NoneLost
    <2>4. st_[a] \in {"subscribe", "sent"} <=> st_[a] \notin {"done", "error"}
      BY <2>1 DEF States
    <2> QED
      BY <2>2, <2>3, <2>4
  <1> QED
    BY <1>1, Invariance, PTL

\* on_init is raised by the step that completes the last open account, and by
\* no other: no account the client has heard of is still open after it.
THEOREM InitOnlyWhenComplete == Spec => InitMeansComplete
  <1> DEFINE Raised == "HAS_MAPPING" \notin status_ /\ "HAS_MAPPING" \in status_'
  <1>1. ASSUME IInv, IInv', [Next]_vars, Raised
        PROVE  \A a \in Accts : st_'[a] \in {"none", "done"}
    <2>1. ASSUME NEW S \in SUBSET Known, NEW data \in Data, Update(S, data) PROVE Open' = {}
      BY <1>1, <2>1, UpdateFacts DEF IInv
    <2>2. Open' = {}
      <3>1. PollHttp \/ PollWs
        <4>1. ~ Validator /\ ~ Network /\ ~ UNCHANGED vars
          BY <1>1 DEF Validator, Network, NextSlot, ChainAddProduct, ChainAddPrice, Answer,
                      Subscribe, Connected, Fails, vars
        <4>2. /\ ~ \E e \in BOOLEAN : Disconnected(e)
              /\ ~ Reconnected
          BY <1>1 DEF Disconnected, Reconnected
        <4>3. /\ ~ \E a \in Accts \ Prices : SubmitAccount(a)
              /\ ~ \E a \in Prices : SubmitPrice(a) \/ SubmitSched(a)
          BY <1>1 DEF SubmitAccount, SubmitPrice, SubmitSched
        <4>4. ~ PollSlot /\ ~ PollAccounts /\ ~ \E a \in Prices : GetSched(a)
          BY <1>1 DEF PollSlot, PollAccounts, GetSched
        <4> QED
          BY <1>1, <4>1, <4>2, <4>3, <4>4 DEF Next, Poll
      <3>2. CASE PollHttp
        <4> DEFINE m == Head(hresp)
        <4>1. m.refs \in Data
          <5>1. m \in Rep
            BY <1>1, <3>2, HeadTail DEF IInv, Typed, PollHttp
          <5> QED
            BY <5>1 DEF Rep
        <4>2. is_recv \subseteq Known
          BY <1>1 DEF IInv, Typed
        <4>3. CASE OnSlot(m) \/ OnHash(m)
          BY <1>1, <4>3 DEF OnSlot, OnHash
        <4>4. CASE OnAll(m)
          <5>1. Update(is_recv, m.refs)
            BY <1>1, <4>4 DEF OnAll
          <5> HIDE DEF m
          <5> QED
            BY <2>1, <4>1, <4>2, <5>1
        <4>5. ASSUME NEW a \in Accts, OnAccount(a, m) PROVE Open' = {}
          <5>1. Update({a}, m.refs) /\ m.req = AcctReq(a)
            BY <1>1, <4>5 DEF OnAccount
          <5>2. OnWay(hreq, hresp, a)
            <6>1. 1 \in DOMAIN hresp /\ hresp[1] = m
              BY <3>2 DEF PollHttp, IInv, Typed
            <6> QED
              BY <5>1, <6>1 DEF OnWay, Answered
          <5>3. {a} \in SUBSET Known
            BY <1>1, <5>2 DEF IInv, Stages, Known
          <5> HIDE DEF m
          <5> QED
            BY <2>1, <4>1, <5>1, <5>3
        <4> QED
          BY <3>2, <4>3, <4>4, <4>5 DEF PollHttp
      <3>3. CASE PollWs
        <4> DEFINE m == Head(wsq)
        <4>1. m \in [acct : Accts, refs : Data]
          BY <1>1, <3>3, HeadTail DEF IInv, Typed, PollWs
        <4>2. Update(is_recv \intersect {m.acct}, m.refs)
          BY <3>3 DEF PollWs
        <4>3. is_recv \intersect {m.acct} \in SUBSET Known
          BY <1>1 DEF IInv, Typed
        <4> HIDE DEF m
        <4>4. m.refs \in Data
          BY <4>1
        <4> QED
          BY <2>1, <4>2, <4>3, <4>4
      <3> QED
        BY <3>1, <3>2, <3>3
    <2>3. \A a \in Accts : st_'[a] \notin {"none", "done"} => a \in Open'
      BY DEF Open
    <2> QED
      BY <2>2, <2>3
  <1>2. IInv /\ IInv' /\ [Next]_vars =>
          [Raised => \A a \in Accts : st_'[a] \in {"none", "done"}]_vars
    BY <1>1
  <1> QED
    BY <1>2, Invariance, PTL DEF Spec, InitMeansComplete
=============================================================================
