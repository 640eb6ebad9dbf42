--------------------------- MODULE TransportProofs ---------------------------
(***************************************************************************)
(* Proofs about what travels between the client and the node: pyth_tx's    *)
(* leader schedule (TxSvr), the ids of rpc_client (RpcClient) and the      *)
(* bytes of a websocket connection (NetConnect), for any schedule, any     *)
(* numbers of slots, requests and frames, any sizes of messages and        *)
(* buffers, and any order of messages.                                     *)
(***************************************************************************)
EXTENDS MCTransport, FiniteSetTheorems, SequenceTheorems, BoundedInduction, TLAPS

-----------------------------------------------------------------------------
(* The leader schedule *)

\* What the server's state is made of.  A schedule is asked for from a slot
\* that is at most PC_LEADER_MIN before the first one.
TxBooleans ==
    lrecv \in BOOLEAN /\ has_conn_ \in BOOLEAN /\ ended \in BOOLEAN /\ covered \in BOOLEAN

TxTyped ==
    /\ TxBooleans
    /\ slot_ \in Nat /\ chain \in Nat \ {0} /\ slot_ <= chain
    /\ lslot_ \in Int /\ lslot_ > 0 - PC_LEADER_MIN
    /\ rslot_ \in Int /\ rslot_ > 0 - PC_LEADER_MIN

\* The schedule the server has is the cluster's, from lslot_ on.
ScheduleTrue ==
    lvec_ = <<>> \/ lvec_ = [i \in 1 .. PC_LEADER_MAX |-> Leader(lslot_ + i - 1)]

\* A schedule on its way is not asked for again, and still covers the present.
FetchTimely ==
    "leaders" \in txWire => ~ lrecv /\ chain <= rslot_ + PC_LEADER_MIN + Timely

\* The addresses include the current leader's, where the server could know it.
CoveredSent == covered => Leader(slot_) \in avec_

\* ScheduleCovers, in slots.
InSchedule ==
    has_conn_ /\ ~ ended /\ lrecv /\ lvec_ # <<>> /\ slot_ >= lslot_ =>
        slot_ < lslot_ + PC_LEADER_MAX

TxInv ==
    TxTyped /\ ScheduleTrue /\ FetchTimely /\ CoveredSent /\ InSchedule
        /\ Tx!LeaderReached /\ Tx!WaitedForComes

\* get_leader returns the cluster's leader of a slot of the schedule.
LEMMA LeaderFound ==
    ASSUME TxTyped, ScheduleTrue, NEW slot \in Nat, Tx!get_leader(slot) # {}
    PROVE  /\ Tx!get_leader(slot) = {Leader(slot)}
           /\ lslot_ <= slot /\ slot < lslot_ + PC_LEADER_MAX
  <1>. USE ScheduleAssumption
  <1>1. slot - lslot_ \in 0 .. Len(lvec_) - 1 /\ Tx!get_leader(slot) = {lvec_[slot - lslot_ + 1]}
    BY DEF Tx!get_leader
  <1>2. lvec_ # <<>>
    BY <1>1
  <1>3. lvec_ = [i \in 1 .. PC_LEADER_MAX |-> Leader(lslot_ + i - 1)]
    BY <1>2 DEF ScheduleTrue
  <1>4. Len(lvec_) = PC_LEADER_MAX
    BY <1>3
  <1>5. slot - lslot_ + 1 \in 1 .. PC_LEADER_MAX /\ lslot_ + (slot - lslot_ + 1) - 1 = slot
    BY <1>1, <1>4 DEF TxTyped
  <1>6. lvec_[slot - lslot_ + 1] = Leader(lslot_ + (slot - lslot_ + 1) - 1)
    BY <1>3, <1>5
  <1>. QED
    BY <1>1, <1>5, <1>6 DEF TxTyped

\* The current slot is among those whose leaders are sent to.
LEMMA LeaderInWindow ==
    ASSUME TxTyped, ScheduleTrue, NEW slot \in Nat, Tx!get_leader(slot) # {}
    PROVE  Leader(slot) \in Tx!Leaders(slot)
  <1>. USE ScheduleAssumption
  <1>1. /\ Tx!get_leader(slot) = {Leader(slot)}
        /\ lslot_ <= slot /\ slot < lslot_ + PC_LEADER_MAX
    BY LeaderFound
  <1>2. slot \in Tx!Window(slot)
    BY <1>1 DEF Tx!Window, Tx!get_last_slot, TxTyped
  <1>. QED
    BY <1>1, <1>2 DEF Tx!Leaders

\* A slot of the schedule has its leader found.
LEMMA CoveredSlot ==
    ASSUME TxTyped, ScheduleTrue, lvec_ # <<>>, NEW slot \in Nat,
           lslot_ <= slot, slot < lslot_ + PC_LEADER_MAX
    PROVE  Tx!get_leader(slot) # {}
  <1>1. lvec_ = [i \in 1 .. PC_LEADER_MAX |-> Leader(lslot_ + i - 1)]
    BY DEF ScheduleTrue
  <1>2. Len(lvec_) = PC_LEADER_MAX
    BY <1>1, ScheduleAssumption
  <1>3. slot - lslot_ \in 0 .. Len(lvec_) - 1
    BY <1>2, ScheduleAssumption DEF TxTyped
  <1>. QED
    BY <1>3 DEF Tx!get_leader

\* slot_subscribe::on_response keeps the invariant.
LEMMA OnSlotKeeps == TxInv /\ Tx!OnSlot => TxInv'
  <1>. SUFFICES ASSUME TxInv, Tx!OnSlot PROVE TxInv'
    OBVIOUS
  <1>. USE ScheduleAssumption
  <1>. DEFINE ask == Tx!NeedsSchedule(chain) \/ (lrecv /\ Tx!Missing(chain))
  <1>a. /\ has_conn_ /\ ~ ended /\ chain > slot_
        /\ slot_' = chain
        /\ avec_' = Tx!Leaders(chain) \intersect nmap_
        /\ covered' = (Tx!get_leader(chain) # {} /\ Leader(chain) \in nmap_)
        /\ rslot_' = IF ask THEN chain - PC_LEADER_MIN ELSE rslot_
        /\ lrecv' = (lrecv /\ ~ ask)
        /\ (ask => "leaders" \in txWire')
        /\ (~ ask => ("leaders" \in txWire' <=> "leaders" \in txWire))
        /\ UNCHANGED <<has_conn_, lslot_, lvec_, chain, sentTo, ended>>
    BY DEF Tx!OnSlot, Tx!users
  <1>b. ask => lrecv
    BY DEF Tx!NeedsSchedule
  <1>c. TxTyped /\ ScheduleTrue /\ FetchTimely /\ InSchedule /\ Tx!LeaderReached /\ Tx!WaitedForComes
    BY DEF TxInv
  <1>d. lrecv /\ ~ ask => chain <= lslot_ + PC_LEADER_MAX - PC_LEADER_MIN
    BY <1>c DEF Tx!NeedsSchedule, Tx!get_last_slot, TxTyped
  <1>. HIDE DEF ask
  <1>0. TxBooleans'
    BY <1>a, <1>c DEF TxBooleans, TxTyped
  <1>1. TxTyped'
    BY <1>0, <1>a, <1>c DEF TxTyped
  <1>2. ScheduleTrue'
    BY <1>a, <1>c DEF ScheduleTrue
  <1>3. FetchTimely'
    BY <1>a, <1>b, <1>c DEF FetchTimely, TxTyped, TxBooleans
  <1>4. CoveredSent'
    BY <1>a, <1>c, LeaderInWindow DEF CoveredSent, TxTyped
  <1>5. Tx!LeaderReached'
    BY <1>a, <1>c DEF Tx!LeaderReached
  <1>6. InSchedule'
    BY <1>a, <1>b, <1>c, <1>d DEF InSchedule, TxTyped, TxBooleans
  <1>7. Tx!WaitedForComes'
    BY <1>a, <1>b, <1>c DEF Tx!WaitedForComes
  <1>. QED
    BY <1>1, <1>2, <1>3, <1>4, <1>5, <1>6, <1>7 DEF TxInv

\* get_slot_leaders::response keeps the invariant: the schedule that comes
\* reaches past the current slot, since the answer was not too late.
LEMMA OnLeadersKeeps == TxInv /\ Tx!OnLeaders => TxInv'
  <1>. SUFFICES ASSUME TxInv, Tx!OnLeaders PROVE TxInv'
    OBVIOUS
  <1>. USE ScheduleAssumption
  <1>a. /\ "leaders" \in txWire /\ "leaders" \notin txWire'
        /\ lslot_' = rslot_ /\ lrecv' = TRUE
        /\ lvec_' = [i \in 1 .. PC_LEADER_MAX |-> Leader(rslot_ + i - 1)]
        /\ UNCHANGED <<has_conn_, slot_, avec_, rslot_, chain, covered, sentTo, ended>>
    BY DEF Tx!OnLeaders
  <1>b. TxTyped /\ ScheduleTrue /\ FetchTimely /\ CoveredSent /\ Tx!LeaderReached
    BY DEF TxInv
  <1>0. TxBooleans'
    BY <1>a, <1>b DEF TxBooleans, TxTyped
  <1>1. TxTyped'
    BY <1>0, <1>a, <1>b DEF TxTyped
  <1>2. ScheduleTrue'
    BY <1>a DEF ScheduleTrue
  <1>3. FetchTimely' /\ Tx!WaitedForComes'
    BY <1>a DEF FetchTimely, Tx!WaitedForComes
  <1>4. CoveredSent' /\ Tx!LeaderReached'
    BY <1>a, <1>b DEF CoveredSent, Tx!LeaderReached
  <1>5. slot_ <= rslot_ + PC_LEADER_MIN + Timely
    BY <1>a, <1>b DEF FetchTimely, TxTyped
  <1>6. InSchedule'
    BY <1>a, <1>b, <1>5 DEF InSchedule, TxTyped
  <1>. QED
    BY <1>1, <1>2, <1>3, <1>4, <1>6 DEF TxInv

\* An error reply ends the server; nothing is waited for after it.
LEMMA OnErrorKeeps == TxInv /\ Tx!OnError => TxInv'
  <1>. SUFFICES ASSUME TxInv, Tx!OnError PROVE TxInv'
    OBVIOUS
  <1>a. /\ ended' = TRUE
        /\ UNCHANGED <<has_conn_, slot_, avec_, rslot_, chain, covered, sentTo>>
        /\ \/ /\ UNCHANGED <<lslot_, lvec_, lrecv>>
              /\ "leaders" \in txWire' <=> "leaders" \in txWire
           \/ /\ lslot_' = rslot_ /\ lvec_' = <<>> /\ lrecv' = TRUE
              /\ "leaders" \notin txWire'
    BY DEF Tx!OnError
  <1>b. TxTyped /\ ScheduleTrue /\ FetchTimely /\ CoveredSent /\ Tx!LeaderReached /\ Tx!WaitedForComes
    BY DEF TxInv
  <1>0. TxBooleans'
    BY <1>a, <1>b DEF TxBooleans, TxTyped
  <1>1. TxTyped'
    BY <1>0, <1>a, <1>b DEF TxTyped
  <1>2. ScheduleTrue'
    BY <1>a, <1>b DEF ScheduleTrue
  <1>3. FetchTimely' /\ Tx!WaitedForComes'
    BY <1>a, <1>b DEF FetchTimely, Tx!WaitedForComes
  <1>4. CoveredSent' /\ Tx!LeaderReached'
    BY <1>a, <1>b DEF CoveredSent, Tx!LeaderReached
  <1>5. InSchedule'
    BY <1>a DEF InSchedule
  <1>. QED
    BY <1>1, <1>2, <1>3, <1>4, <1>5 DEF TxInv

\* reconnect_rpc keeps the invariant: the schedule is one that may be asked for.
LEMMA ReconnectKeeps ==
    ASSUME TxInv, NEW back \in 0 .. MaxBack, Tx!reconnect_rpc(back)
    PROVE  TxInv'
  <1>. USE ScheduleAssumption
  <1>a. /\ ~ ended /\ has_conn_' = TRUE /\ slot_' = 0 /\ avec_' = {} /\ covered' = FALSE
        /\ lrecv' = TRUE /\ "leaders" \notin txWire'
        /\ chain' = IF chain > back THEN chain - back ELSE 1
        /\ UNCHANGED <<lslot_, rslot_, lvec_, sentTo, ended>>
    BY DEF Tx!reconnect_rpc
  <1>b. TxTyped /\ ScheduleTrue /\ Tx!LeaderReached
    BY DEF TxInv
  <1>c. chain' \in Nat \ {0} /\ 0 < lslot_ + PC_LEADER_MAX
    BY <1>a, <1>b DEF TxTyped
  <1>0. TxBooleans'
    BY <1>a, <1>b, <1>c DEF TxBooleans, TxTyped
  <1>1. TxTyped'
    BY <1>0, <1>a, <1>b, <1>c DEF TxTyped
  <1>2. ScheduleTrue'
    BY <1>a, <1>b DEF ScheduleTrue
  <1>3. FetchTimely' /\ Tx!WaitedForComes' /\ CoveredSent'
    BY <1>a DEF FetchTimely, Tx!WaitedForComes, CoveredSent
  <1>4. Tx!LeaderReached'
    BY <1>a, <1>b DEF Tx!LeaderReached
  <1>5. InSchedule'
    BY <1>a, <1>c DEF InSchedule
  <1>. QED
    BY <1>1, <1>2, <1>3, <1>4, <1>5 DEF TxInv

\* submit keeps the invariant: it sends to the addresses collected last.
LEMMA SubmitKeeps ==
    ASSUME TxInv, NEW c \in Client, Tx!submit(c)
    PROVE  TxInv'
  <1>a. /\ sentTo' = [addr |-> avec_, slot |-> IF covered THEN slot_ ELSE 0]
        /\ UNCHANGED <<has_conn_, slot_, avec_, lslot_, rslot_, lvec_, lrecv, chain, txWire, covered, ended>>
    BY DEF Tx!submit, Tx!lreq
  <1>1. Tx!LeaderReached'
    BY <1>a DEF TxInv, CoveredSent, Tx!LeaderReached
  <1>2. /\ TxTyped' /\ ScheduleTrue' /\ FetchTimely' /\ CoveredSent' /\ InSchedule'
        /\ Tx!WaitedForComes'
    BY <1>a DEF TxInv, TxTyped, TxBooleans, ScheduleTrue, FetchTimely, CoveredSent, InSchedule, Tx!WaitedForComes
  <1>. QED
    BY <1>1, <1>2 DEF TxInv

\* The cluster's slots go on, but not past what an answer on its way covers.
LEMMA AdvanceKeeps ==
    ASSUME TxInv, NEW n \in 1 .. MaxJump, Tx!Advance(n)
    PROVE  TxInv'
  <1>. USE ScheduleAssumption
  <1>a. /\ chain' = chain + n
        /\ "leaders" \in txWire => chain + n <= rslot_ + PC_LEADER_MIN + Timely
        /\ UNCHANGED <<has_conn_, slot_, avec_, lslot_, rslot_, lvec_, lrecv, txWire, covered, sentTo, ended>>
    BY DEF Tx!Advance, Tx!lreq
  <1>0. TxBooleans'
    BY <1>a DEF TxBooleans, TxInv, TxTyped
  <1>1. TxTyped'
    BY <1>0, <1>a DEF TxInv, TxTyped
  <1>2. FetchTimely'
    BY <1>a DEF TxInv, FetchTimely
  <1>3. ScheduleTrue' /\ CoveredSent' /\ InSchedule' /\ Tx!LeaderReached' /\ Tx!WaitedForComes'
    BY <1>a DEF TxInv, ScheduleTrue, CoveredSent, InSchedule, Tx!LeaderReached, Tx!WaitedForComes
  <1>. QED
    BY <1>1, <1>2, <1>3 DEF TxInv

\* What is left: answers about nodes and slots, a lost connection, clients.
LEMMA OthersKeep ==
    ASSUME TxInv,
           UNCHANGED <<slot_, avec_, lslot_, rslot_, lvec_, lrecv, chain, covered, sentTo, ended>>,
           \/ UNCHANGED has_conn_ /\ ("leaders" \in txWire' <=> "leaders" \in txWire)
           \/ has_conn_' = FALSE /\ txWire' = {}
    PROVE  TxInv'
  <1>1. TxTyped' /\ ScheduleTrue' /\ CoveredSent' /\ Tx!LeaderReached'
    BY DEF TxInv, TxTyped, TxBooleans, ScheduleTrue, CoveredSent, Tx!LeaderReached
  <1>2. FetchTimely' /\ InSchedule' /\ Tx!WaitedForComes'
    BY DEF TxInv, FetchTimely, InSchedule, Tx!WaitedForComes
  <1>. QED
    BY <1>1, <1>2 DEF TxInv

\* Every step of pyth_tx keeps the invariant.
LEMMA TxStep == TxInv /\ Tx!Next => TxInv'
  <1>. SUFFICES ASSUME TxInv, Tx!Next PROVE TxInv'
    OBVIOUS
  <1>. USE DEF Tx!lreq, Tx!users
  <1>1. CASE Tx!OnSubscribed
    BY <1>1, OthersKeep DEF Tx!OnSubscribed
  <1>2. CASE \E nodes \in SUBSET Node : Tx!OnNodes(nodes)
    BY <1>2, OthersKeep DEF Tx!OnNodes
  <1>3. CASE Tx!Disconnect
    BY <1>3, OthersKeep DEF Tx!Disconnect
  <1>4. CASE \E c \in Client : Tx!accept(c) \/ Tx!del_user(c)
    BY <1>4, OthersKeep DEF Tx!accept, Tx!del_user
  <1>5. CASE Tx!teardown_users \/ Tx!teardown
    BY <1>5, OthersKeep DEF Tx!teardown_users, Tx!teardown
  <1>6. CASE \E c \in Client : Tx!submit(c)
    BY <1>6, SubmitKeeps
  <1>7. CASE \E back \in 0 .. MaxBack : Tx!reconnect_rpc(back)
    BY <1>7, ReconnectKeeps
  <1>8. CASE \E n \in 1 .. MaxJump : Tx!Advance(n)
    BY <1>8, AdvanceKeeps
  <1>. QED
    BY <1>1, <1>2, <1>3, <1>4, <1>5, <1>6, <1>7, <1>8, OnSlotKeeps, OnLeadersKeeps, OnErrorKeeps
    DEF Tx!Next

\* A server that has just started is in order.
LEMMA TxInitial == Tx!Init => TxInv
  <1>. SUFFICES ASSUME Tx!Init PROVE TxInv
    OBVIOUS
  <1>a. TxBooleans
    BY DEF Tx!Init, TxBooleans
  <1>1. TxTyped
    BY <1>a, ScheduleAssumption DEF Tx!Init, TxTyped
  <1>2. ScheduleTrue /\ FetchTimely /\ CoveredSent /\ InSchedule
    BY DEF Tx!Init, ScheduleTrue, FetchTimely, CoveredSent, InSchedule
  <1>3. Tx!LeaderReached /\ Tx!WaitedForComes
    BY DEF Tx!Init, Tx!LeaderReached, Tx!WaitedForComes
  <1>. QED
    BY <1>1, <1>2, <1>3 DEF TxInv

\* The server's schedule is the cluster's, reaches past the current slot, and
\* is on its way whenever it is waited for (tx_svr::on_response).
THEOREM ScheduleKept == TransportSpec => []TxInv
  <1>1. TransportInit => TxInv
    BY TxInitial DEF TransportInit
  <1>2. ASSUME TxInv, [TransportNext]_<<part, vars, rpcVars, txVars>> PROVE TxInv'
    <2>1. CASE UNCHANGED txVars
      BY <1>2, <2>1, OthersKeep DEF txVars
    <2>2. CASE Tx!Next
      BY <1>2, <2>2, TxStep
    <2>. QED
      BY <1>2, <2>1, <2>2 DEF TransportNext
  <1>. QED
    BY <1>1, <1>2, PTL DEF TransportSpec

\* A transaction handed to pyth_tx is sent to the leader of the current slot
\* wherever the server could know it, the schedule never runs out, and no
\* schedule is waited for that is not coming (tx_svr::submit).
THEOREM LeadersAlwaysKnown == TransportSpec => []LeadersKnown
  <1>1. ASSUME TxInv PROVE LeadersKnown
    <2>1. Tx!ScheduleCovers
      BY <1>1, CoveredSlot DEF TxInv, InSchedule, TxTyped, Tx!ScheduleCovers
    <2>. QED
      BY <1>1, <2>1 DEF TxInv, LeadersKnown, Tx!LeadersKnown
  <1>. QED
    BY <1>1, ScheduleKept, PTL

-----------------------------------------------------------------------------
(* Request ids *)

\* rpc_client's ids in order: those given back (free) and those under which
\* the node has an open message are different and not above the last new one,
\* and 0, which no request gets as a new id, comes from a null id.
IdsOk(open, free, top, n) ==
    /\ top \in Nat /\ free \in Seq(Nat)
    /\ \A i, j \in 1 .. Len(free) : free[i] = free[j] => i = j
    /\ \A i \in 1 .. Len(free) : free[i] <= top /\ (free[i] = 0 => n = 1)
    /\ \A w \in open :
          /\ w.id \in Nat /\ w.id <= top /\ (w.id = 0 => n = 1)
          /\ \A i \in 1 .. Len(free) : free[i] # w.id
    /\ \A v, w \in open : v.id = w.id => v = w

\* The messages: a subscription has one request.
MessagesOk(open) ==
    \A w \in open :
        /\ w = [id |-> w.id, reqs |-> w.reqs, kind |-> w.kind]
        /\ w.kind \in Rpc!Kinds
        /\ Rpc!IsSub(w.kind) => \E r \in Nat \ {0} : w.reqs = {r}

\* What is waited for under the ids of open messages.
Waits(open) == UNION {{[id |-> w.id, req |-> r] : r \in w.reqs} : w \in open}

\* The node's subscriptions are numbered, and the client has those that live.
SubsOk ==
    /\ IsFiniteSet(subs)
    /\ \A s \in subs : s.sub \in 1 .. Cardinality(subs) /\ s.req \in Nat
    /\ \A s, t \in subs : s.sub = t.sub => s = t
    /\ DOMAIN smap_ = {s.sub : s \in {t \in subs : t.req # 0}}
    /\ \A s \in subs : s.req # 0 => smap_[s.sub] = s.req

RpcGood ==
    /\ ntok \in Nat
    /\ IdsOk(wire, reuse_, id_, nulls) /\ MessagesOk(wire) /\ rv_ = Waits(wire)
    /\ SubsOk /\ Rpc!RightReply

\* An id is given back twice only after two replies with a null id.
RpcInv == nulls \in Nat /\ (nulls <= 1 => RpcGood)

\* A sequence without its last element.
LEMMA FrontOf ==
    ASSUME NEW S, NEW s \in Seq(S), s # <<>>
    PROVE  /\ SubSeq(s, 1, Len(s) - 1) \in Seq(S)
           /\ Len(SubSeq(s, 1, Len(s) - 1)) = Len(s) - 1
           /\ \A i \in 1 .. Len(s) - 1 : SubSeq(s, 1, Len(s) - 1)[i] = s[i]
  <1>. DEFINE n == Len(s) - 1
              g == SubSeq(s, 1, n)
  <1>1. n \in Nat /\ \A i \in 1 .. n : s[i] \in S
    OBVIOUS
  <1>. HIDE DEF n
  <1>2. /\ g \in Seq(S) /\ Len(g) = IF 1 <= n THEN n - 1 + 1 ELSE 0
        /\ \A i \in 1 .. n - 1 + 1 : g[i] = s[1 + i - 1]
    BY <1>1, SubSeqProperties
  <1>. HIDE DEF g
  <1>3. Len(g) = n
    BY <1>1, <1>2
  <1>4. \A i \in 1 .. n : g[i] = s[i]
    BY <1>1, <1>2
  <1>. QED
    BY <1>2, <1>3, <1>4 DEF n, g

\* Giving back the id of a message keeps the ids in order.
LEMMA IdGivenBack ==
    ASSUME NEW open, NEW free, NEW top, NEW n, IdsOk(open, free, top, n), NEW w \in open
    PROVE  IdsOk(open \ {w}, Append(free, w.id), top, n)
  <1>. DEFINE g == Append(free, w.id)
  <1>1. /\ free \in Seq(Nat) /\ w.id \in Nat /\ top \in Nat
        /\ \A i \in 1 .. Len(free) : free[i] # w.id
    BY DEF IdsOk
  <1>2. g \in Seq(Nat) /\ Len(g) = Len(free) + 1 /\ Len(free) \in Nat
    BY <1>1
  <1>3. \A i \in 1 .. Len(g) : g[i] = IF i = Len(g) THEN w.id ELSE free[i]
    BY <1>1, <1>2
  <1>4. \A i \in 1 .. Len(g) : i # Len(g) => i \in 1 .. Len(free)
    BY <1>2
  <1>. HIDE DEF g
  <1>5. \A i, j \in 1 .. Len(g) : g[i] = g[j] => i = j
    BY <1>1, <1>3, <1>4 DEF IdsOk
  <1>6. \A i \in 1 .. Len(g) : g[i] <= top /\ (g[i] = 0 => n = 1)
    BY <1>3, <1>4 DEF IdsOk
  <1>7. \A v \in open \ {w} : \A i \in 1 .. Len(g) : g[i] # v.id
    BY <1>3, <1>4 DEF IdsOk
  <1>8. IdsOk(open \ {w}, g, top, n)
    BY <1>1, <1>2, <1>5, <1>6, <1>7 DEF IdsOk
  <1>. QED
    BY <1>8 DEF g

\* Taking an id for a new message, the last one given back or a new one,
\* keeps the ids in order.
LEMMA IdTaken ==
    ASSUME NEW open, NEW free, NEW top, NEW n, IdsOk(open, free, top, n), NEW m,
           m.id = IF free # <<>> THEN free[Len(free)] ELSE top + 1
    PROVE  /\ IdsOk(open \union {m}, IF free # <<>> THEN SubSeq(free, 1, Len(free) - 1) ELSE free,
                    IF free # <<>> THEN top ELSE top + 1, n)
           /\ \A w \in open : w.id # m.id
  <1>1. CASE free = <<>>
    <2>1. m.id = top + 1 /\ top + 1 \in Nat /\ \A w \in open : w.id # m.id
      BY <1>1 DEF IdsOk
    <2>2. IdsOk(open \union {m}, free, top + 1, n)
      BY <1>1, <2>1 DEF IdsOk
    <2>. QED
      BY <1>1, <2>1, <2>2
  <1>2. CASE free # <<>>
    <2>. DEFINE g == SubSeq(free, 1, Len(free) - 1)
    <2>1. free \in Seq(Nat) /\ Len(free) \in 1 .. Len(free) /\ Len(free) \in Nat
      BY <1>2 DEF IdsOk
    <2>2. g \in Seq(Nat) /\ Len(g) = Len(free) - 1 /\ \A i \in 1 .. Len(g) : g[i] = free[i]
      BY <2>1, <1>2, FrontOf
    <2>3. \A i \in 1 .. Len(g) : i \in 1 .. Len(free) /\ i # Len(free)
      BY <2>1, <2>2
    <2>4. m.id = free[Len(free)]
      BY <1>2
    <2>. HIDE DEF g
    <2>5. m.id \in Nat /\ m.id <= top /\ (m.id = 0 => n = 1) /\ \A w \in open : w.id # m.id
      BY <2>1, <2>4 DEF IdsOk
    <2>6. \A i \in 1 .. Len(g) : g[i] # m.id
      BY <2>1, <2>2, <2>3, <2>4 DEF IdsOk
    <2>7. IdsOk(open \union {m}, g, top, n)
      BY <2>2, <2>3, <2>5, <2>6 DEF IdsOk
    <2>. QED
      BY <1>2, <2>5, <2>7 DEF g
  <1>. QED
    BY <1>1, <1>2

\* The requests of one message.
Asked(w) == {[id |-> w.id, req |-> r] : r \in w.reqs}

\* A response finds the requests of the message it answers, and no others.
LEMMA WaitingOf ==
    ASSUME IdsOk(wire, reuse_, id_, nulls), rv_ = Waits(wire), NEW w \in wire
    PROVE  /\ Rpc!Waiting(w.id) = Asked(w)
           /\ {e.req : e \in Rpc!Waiting(w.id)} = w.reqs
           /\ rv_ \ Rpc!Waiting(w.id) = Waits(wire \ {w})
  <1>1. \A v \in wire : v.id = w.id => v = w
    BY DEF IdsOk
  <1>2. \A e : e \in rv_ <=> \E v \in wire : e \in Asked(v)
    BY DEF Waits, Asked
  <1>3. \A v : \A e \in Asked(v) : e.id = v.id
    BY DEF Asked
  <1>4. Rpc!Waiting(w.id) = Asked(w)
    BY <1>1, <1>2, <1>3 DEF Rpc!Waiting
  <1>5. {e.req : e \in Asked(w)} = w.reqs
    <2>1. \A r \in w.reqs : [id |-> w.id, req |-> r] \in Asked(w)
      BY DEF Asked
    <2>2. \A e \in Asked(w) : e.req \in w.reqs
      BY DEF Asked
    <2>3. \A r \in w.reqs : [id |-> w.id, req |-> r].req = r
      OBVIOUS
    <2>4. \A r \in w.reqs : r \in {e.req : e \in Asked(w)}
      BY <2>1, <2>3
    <2>. QED
      BY <2>2, <2>4
  <1>6. \A e : e \in Waits(wire \ {w}) <=> \E v \in wire \ {w} : e \in Asked(v)
    BY DEF Waits, Asked
  <1>7. rv_ \ Asked(w) = Waits(wire \ {w})
    <2>1. \A e : e \in rv_ /\ e \notin Asked(w) => \E v \in wire \ {w} : e \in Asked(v)
      BY <1>2
    <2>2. \A v \in wire \ {w} : \A e \in Asked(v) : e \in rv_ /\ e \notin Asked(w)
      BY <1>1, <1>2, <1>3
    <2>3. \A e : e \in rv_ \ Asked(w) <=> e \in Waits(wire \ {w})
      BY <1>6, <2>1, <2>2
    <2>. QED
      BY <2>3
  <1>. QED
    BY <1>4, <1>5, <1>7

\* One more message is waited for.
LEMMA WaitsAdd ==
    ASSUME NEW open, NEW m
    PROVE  Waits(open \union {m}) = Waits(open) \union Asked(m)
  BY DEF Waits, Asked

\* The requests of a new message.
LEMMA ReqsOk ==
    ASSUME ntok \in Nat, NEW kind \in Rpc!Kinds
    PROVE  /\ ntok + Rpc!Cardinality(Rpc!Reqs(kind)) \in Nat
           /\ Rpc!IsSub(kind) => \E r \in Nat \ {0} : Rpc!Reqs(kind) = {r}
  <1>1. \A S : Rpc!Cardinality(S) = Cardinality(S)
    BY DEF Rpc!Cardinality, Cardinality
  <1>2. PICK k \in 1 .. 2 : Rpc!Reqs(kind) = ntok + 1 .. ntok + k /\ (kind # "batch" => k = 1)
    BY DEF Rpc!Reqs
  <1>3. IsFiniteSet(Rpc!Reqs(kind))
    BY <1>2, FS_Interval
  <1>4. Cardinality(Rpc!Reqs(kind)) \in Nat
    BY <1>3, FS_CardinalityType
  <1>5. Rpc!IsSub(kind) => kind # "batch"
    BY DEF Rpc!IsSub
  <1>6. ntok + 1 .. ntok + 1 = {ntok + 1} /\ ntok + 1 \in Nat \ {0}
    OBVIOUS
  <1>. QED
    BY <1>1, <1>2, <1>4, <1>5, <1>6

\* The message that send puts under NextId.
NewMessage(kind) == [id |-> Rpc!NextId, reqs |-> Rpc!Reqs(kind), kind |-> kind]

\* send takes an id that no open message has.
LEMMA SendTakes ==
    ASSUME RpcGood, NEW kind \in Rpc!Kinds, NEW rv, NEW open, NEW ret, Rpc!Send(kind, rv, open, ret)
    PROVE  /\ ntok' \in Nat
           /\ \E front \in Seq(Nat) :
                 /\ reuse_' = front \o ret
                 /\ IdsOk(wire \union {NewMessage(kind)}, front, id_', nulls)
           /\ \A w \in wire : w.id # NewMessage(kind).id
           /\ MessagesOk({NewMessage(kind)})
           /\ wire' = open \union {NewMessage(kind)}
           /\ rv_' = rv \union Asked(NewMessage(kind))
  <1>. DEFINE m == NewMessage(kind)
              front == IF reuse_ # <<>> THEN SubSeq(reuse_, 1, Len(reuse_) - 1) ELSE reuse_
              top == IF reuse_ # <<>> THEN id_ ELSE id_ + 1
  <1>1. m.id = (IF reuse_ # <<>> THEN reuse_[Len(reuse_)] ELSE id_ + 1)
    BY DEF NewMessage, Rpc!NextId, Rpc!Last
  <1>2. IdsOk(wire, reuse_, id_, nulls)
    BY DEF RpcGood
  <1>3. IdsOk(wire \union {m}, front, top, nulls) /\ \A w \in wire : w.id # m.id
    <2>. HIDE DEF m
    <2>. QED
      BY <1>1, <1>2, IdTaken
  <1>4. reuse_' = front \o ret /\ id_' = top
    BY DEF Rpc!Send, Rpc!Front
  <1>5. ntok' \in Nat /\ MessagesOk({m})
    BY ReqsOk DEF RpcGood, Rpc!Send, MessagesOk, NewMessage
  <1>6. wire' = open \union {m} /\ rv_' = rv \union Asked(m)
    BY DEF Rpc!Send, NewMessage, Asked
  <1>7. front \in Seq(Nat)
    BY <1>3 DEF IdsOk
  <1>. HIDE DEF front, top
  <1>8. \E f \in Seq(Nat) : reuse_' = f \o ret /\ IdsOk(wire \union {m}, f, id_', nulls)
    BY <1>3, <1>4, <1>7
  <1>. QED
    BY <1>3, <1>5, <1>6, <1>8

\* A new subscription gets the next number, and is known by it.
LEMMA SubscriptionAdded ==
    ASSUME RpcGood, NEW w \in wire, Rpc!add_notify(w, Rpc!Cardinality(subs) + 1)
    PROVE  SubsOk'
  <1>0. SubsOk /\ IdsOk(wire, reuse_, id_, nulls) /\ MessagesOk(wire) /\ rv_ = Waits(wire)
    BY DEF RpcGood
  <1>1. CASE ~ Rpc!IsSub(w.kind)
    BY <1>0, <1>1 DEF Rpc!add_notify, SubsOk
  <1>2. CASE Rpc!IsSub(w.kind)
    <2>. DEFINE k == Cardinality(subs) + 1
    <2>1. Rpc!Cardinality(subs) = Cardinality(subs)
      BY DEF Rpc!Cardinality, Cardinality
    <2>2. PICK r \in Nat \ {0} : w.reqs = {r}
      BY <1>0, <1>2 DEF MessagesOk
    <2>3. {e.req : e \in Rpc!Waiting(w.id)} = {r}
      BY <1>0, <2>2, WaitingOf
    <2>4. Rpc!Max({r}) = r
      BY <2>2 DEF Rpc!Max
    <2>. DEFINE new == [sub |-> k, req |-> r, once |-> w.kind = "signature"]
    <2>5. /\ smap_' = [s \in DOMAIN smap_ \union {k} |-> IF s = k THEN r ELSE smap_[s]]
          /\ subs' = subs \union {new}
      BY <1>2, <2>1, <2>2, <2>3, <2>4 DEF Rpc!add_notify
    <2>6. IsFiniteSet(subs) /\ Cardinality(subs) \in Nat
      BY <1>0, FS_CardinalityType DEF SubsOk
    <2>7. \A s \in subs : s.sub \in 1 .. Cardinality(subs) /\ s.sub # k /\ s.sub \in 1 .. k
      BY <1>0, <2>6 DEF SubsOk
    <2>8. new \notin subs /\ new.sub = k /\ new.req = r
      BY <2>7
    <2>9. IsFiniteSet(subs') /\ Cardinality(subs') = k
      BY <2>5, <2>6, <2>8, FS_AddElement
    <2>. HIDE DEF k
    <2>10. k \in 1 .. k
      BY <2>6 DEF k
    <2>11. \A s \in subs' : s.sub \in 1 .. Cardinality(subs') /\ s.req \in Nat
      BY <1>0, <2>2, <2>5, <2>7, <2>9, <2>10 DEF SubsOk
    <2>12. \A s, t \in subs' : s.sub = t.sub => s = t
      BY <1>0, <2>5, <2>7, <2>8 DEF SubsOk
    <2>13. DOMAIN smap_' = {s.sub : s \in {t \in subs' : t.req # 0}}
      <3>1. DOMAIN smap_' = DOMAIN smap_ \union {k}
        BY <2>5
      <3>2. {t \in subs' : t.req # 0} = {t \in subs : t.req # 0} \union {new}
        BY <2>2, <2>5, <2>8
      <3>. HIDE DEF new
      <3>. QED
        BY <1>0, <3>1, <3>2, <2>8 DEF SubsOk
    <2>14. \A s \in subs : s.req # 0 => smap_'[s.sub] = s.req
      BY <1>0, <2>5, <2>7 DEF SubsOk
    <2>15. smap_'[k] = r
      BY <2>5
    <2>. HIDE DEF new
    <2>16. \A s \in subs' : s.req # 0 => smap_'[s.sub] = s.req
      BY <2>5, <2>8, <2>14, <2>15
    <2>. QED
      BY <2>9, <2>11, <2>12, <2>13, <2>16 DEF SubsOk
  <1>. QED
    BY <1>1, <1>2

\* A request is sent under a free id.
LEMMA RequestKeeps ==
    ASSUME RpcGood, NEW kind \in Rpc!Kinds, Rpc!Request(kind)
    PROVE  RpcGood'
  <1>. DEFINE m == NewMessage(kind)
  <1>0. Rpc!Send(kind, rv_, wire, <<>>) /\ UNCHANGED <<smap_, subs, last, nulls>>
    BY DEF Rpc!Request
  <1>1. PICK front \in Seq(Nat) :
            reuse_' = front \o <<>> /\ IdsOk(wire \union {m}, front, id_', nulls)
    BY <1>0, SendTakes
  <1>2. /\ ntok' \in Nat /\ MessagesOk({m})
        /\ wire' = wire \union {m} /\ rv_' = rv_ \union Asked(m)
    BY <1>0, SendTakes
  <1>. HIDE DEF m
  <1>3. reuse_' = front
    BY <1>1
  <1>4. IdsOk(wire, reuse_, id_, nulls)'
    BY <1>0, <1>1, <1>2, <1>3
  <1>5. MessagesOk(wire')
    BY <1>2 DEF MessagesOk, RpcGood
  <1>6. rv_' = Waits(wire')
    BY <1>2, WaitsAdd DEF RpcGood
  <1>7. SubsOk' /\ Rpc!RightReply'
    BY <1>0 DEF RpcGood, SubsOk, Rpc!RightReply
  <1>. QED
    BY <1>2, <1>4, <1>5, <1>6, <1>7 DEF RpcGood

\* A response reaches its requests, also when one of them sends again from
\* within, before the id is given back.
LEMMA RespondKeeps ==
    ASSUME RpcGood, NEW w \in wire, NEW again \in Rpc!Kinds \union {"none"}, Rpc!Respond(w, again)
    PROVE  RpcGood'
  <1>0. IdsOk(wire, reuse_, id_, nulls) /\ MessagesOk(wire) /\ rv_ = Waits(wire) /\ ntok \in Nat
    BY DEF RpcGood
  <1>1. /\ last' = [to |-> {e.req : e \in Rpc!Waiting(w.id)}, of |-> w.reqs]
        /\ Rpc!add_notify(w, Rpc!Cardinality(subs) + 1)
        /\ UNCHANGED nulls
    BY DEF Rpc!Respond
  <1>2. /\ {e.req : e \in Rpc!Waiting(w.id)} = w.reqs
        /\ rv_ \ Rpc!Waiting(w.id) = Waits(wire \ {w})
    BY <1>0, WaitingOf
  <1>3. SubsOk' /\ Rpc!RightReply'
    BY <1>1, <1>2, SubscriptionAdded DEF Rpc!RightReply
  <1>4. CASE again = "none"
    <2>1. /\ rv_' = rv_ \ Rpc!Waiting(w.id) /\ wire' = wire \ {w}
          /\ reuse_' = Append(reuse_, w.id) /\ UNCHANGED <<id_, ntok>>
      BY <1>4 DEF Rpc!Respond
    <2>2. IdsOk(wire, reuse_, id_, nulls)'
      BY <1>0, <1>1, <2>1, IdGivenBack
    <2>3. MessagesOk(wire') /\ rv_' = Waits(wire')
      BY <1>0, <1>2, <2>1 DEF MessagesOk
    <2>. QED
      BY <1>0, <1>3, <2>1, <2>2, <2>3 DEF RpcGood
  <1>5. CASE again # "none"
    <2>. DEFINE m == NewMessage(again)
    <2>0. again \in Rpc!Kinds
      BY <1>5
    <2>1. Rpc!Send(again, rv_ \ Rpc!Waiting(w.id), wire \ {w}, <<w.id>>)
      BY <1>5 DEF Rpc!Respond
    <2>2. PICK front \in Seq(Nat) :
              reuse_' = front \o <<w.id>> /\ IdsOk(wire \union {m}, front, id_', nulls)
      BY <2>0, <2>1, SendTakes
    <2>3. /\ ntok' \in Nat /\ MessagesOk({m}) /\ \A v \in wire : v.id # m.id
          /\ wire' = (wire \ {w}) \union {m}
          /\ rv_' = (rv_ \ Rpc!Waiting(w.id)) \union Asked(m)
      BY <2>0, <2>1, SendTakes
    <2>. HIDE DEF m
    <2>4. wire' = (wire \union {m}) \ {w}
      BY <2>3
    <2>5. w.id \in Nat /\ reuse_' = Append(front, w.id)
      BY <1>0, <2>2 DEF IdsOk
    <2>6. IdsOk((wire \union {m}) \ {w}, Append(front, w.id), id_', nulls)
      BY <2>2, IdGivenBack
    <2>7. IdsOk(wire, reuse_, id_, nulls)'
      BY <1>1, <2>4, <2>5, <2>6
    <2>8. MessagesOk(wire')
      BY <1>0, <2>3 DEF MessagesOk
    <2>9. rv_' = Waits(wire')
      BY <1>2, <2>3, WaitsAdd
    <2>. QED
      BY <1>3, <2>3, <2>7, <2>8, <2>9 DEF RpcGood
  <1>. QED
    BY <1>4, <1>5

\* The first reply with a null id is for nobody; it puts 0 among the free ids.
LEMMA FirstNullKeeps ==
    ASSUME RpcGood, nulls = 0, Rpc!RespondNull
    PROVE  RpcGood'
  <1>0. IdsOk(wire, reuse_, id_, nulls) /\ MessagesOk(wire) /\ rv_ = Waits(wire)
    BY DEF RpcGood
  <1>1. /\ last' = [to |-> {e.req : e \in Rpc!Waiting(0)}, of |-> {}]
        /\ rv_' = rv_ \ Rpc!Waiting(0)
        /\ reuse_' = Append(reuse_, 0) /\ nulls' = 1
        /\ UNCHANGED <<id_, smap_, ntok, wire, subs>>
    BY DEF Rpc!RespondNull
  <1>2. Rpc!Waiting(0) = {}
    BY <1>0 DEF IdsOk, Waits, Rpc!Waiting
  <1>3. rv_' = Waits(wire') /\ MessagesOk(wire') /\ Rpc!RightReply' /\ SubsOk'
    BY <1>0, <1>1, <1>2 DEF Rpc!RightReply, RpcGood, SubsOk
  <1>4. IdsOk(wire, Append(reuse_, 0), id_, 1)
    <2>. DEFINE g == Append(reuse_, 0)
    <2>1. /\ reuse_ \in Seq(Nat) /\ id_ \in Nat
          /\ \A i \in 1 .. Len(reuse_) : reuse_[i] # 0
      BY <1>0 DEF IdsOk
    <2>2. g \in Seq(Nat) /\ Len(g) = Len(reuse_) + 1 /\ Len(reuse_) \in Nat
      BY <2>1
    <2>3. \A i \in 1 .. Len(g) : g[i] = IF i = Len(g) THEN 0 ELSE reuse_[i]
      BY <2>1, <2>2
    <2>4. \A i \in 1 .. Len(g) : i # Len(g) => i \in 1 .. Len(reuse_)
      BY <2>2
    <2>. HIDE DEF g
    <2>5. \A i, j \in 1 .. Len(g) : g[i] = g[j] => i = j
      BY <1>0, <2>1, <2>3, <2>4 DEF IdsOk
    <2>6. \A i \in 1 .. Len(g) : g[i] <= id_
      BY <1>0, <2>1, <2>3, <2>4 DEF IdsOk
    <2>7. \A v \in wire : v.id # 0 /\ \A i \in 1 .. Len(g) : g[i] # v.id
      BY <1>0, <2>3, <2>4 DEF IdsOk
    <2>8. IdsOk(wire, g, id_, 1)
      BY <1>0, <2>2, <2>5, <2>6, <2>7 DEF IdsOk
    <2>. QED
      BY <2>8 DEF g
  <1>5. IdsOk(wire, reuse_, id_, nulls)'
    BY <1>1, <1>4
  <1>. QED
    BY <1>1, <1>3, <1>5 DEF RpcGood

\* A notification reaches its subscription, which the last one ends.
LEMMA NotifyKeeps ==
    ASSUME RpcGood, NEW s \in {t \in subs : t.req # 0}, Rpc!Notify(s)
    PROVE  RpcGood'
  <1>0. SubsOk
    BY DEF RpcGood
  <1>1. /\ last' = [to |-> IF s.sub \in DOMAIN smap_ THEN {smap_[s.sub]} ELSE {}, of |-> {s.req}]
        /\ UNCHANGED <<id_, reuse_, rv_, ntok, wire, nulls>>
    BY DEF Rpc!Notify
  <1>2. s.sub \in DOMAIN smap_ /\ smap_[s.sub] = s.req
    BY <1>0 DEF SubsOk
  <1>3. Rpc!RightReply'
    BY <1>1, <1>2 DEF Rpc!RightReply
  <1>4. SubsOk'
    <2>1. CASE ~ s.once
      <3>1. UNCHANGED <<smap_, subs>>
        BY <2>1 DEF Rpc!Notify
      <3>. QED
        BY <1>0, <3>1 DEF SubsOk
    <2>2. CASE s.once
      <3>. DEFINE old == [sub |-> s.sub, req |-> 0, once |-> FALSE]
      <3>1. /\ smap_' = [t \in DOMAIN smap_ \ {s.sub} |-> smap_[t]]
            /\ subs' = (subs \ {s}) \union {old}
        BY <2>2 DEF Rpc!Notify, Rpc!remove_notify
      <3>4. \A t \in subs \ {s} : t.sub # s.sub
        BY <1>0 DEF SubsOk
      <3>5. old.sub = s.sub /\ old.req = 0 /\ old \notin subs \ {s}
        BY <3>4
      <3>. HIDE DEF old
      <3>6. IsFiniteSet(subs) /\ IsFiniteSet(subs \ {s}) /\ Cardinality(subs) \in Nat
            /\ Cardinality(subs \ {s}) = Cardinality(subs) - 1
        BY <1>0, FS_RemoveElement, FS_CardinalityType DEF SubsOk
      <3>7. IsFiniteSet(subs') /\ Cardinality(subs') = Cardinality(subs \ {s}) + 1
        BY <3>1, <3>5, <3>6, FS_AddElement
      <3>8. Cardinality(subs') = Cardinality(subs)
        BY <3>6, <3>7
      <3>9. \A t \in subs' : t.sub \in 1 .. Cardinality(subs') /\ t.req \in Nat
        BY <1>0, <3>1, <3>5, <3>8 DEF SubsOk
      <3>10. \A t, u \in subs' : t.sub = u.sub => t = u
        BY <1>0, <3>1, <3>4, <3>5 DEF SubsOk
      <3>11. DOMAIN smap_' = {t.sub : t \in {u \in subs' : u.req # 0}}
        <4>1. DOMAIN smap_' = DOMAIN smap_ \ {s.sub}
          BY <3>1
        <4>2. {u \in subs' : u.req # 0} = {u \in subs : u.req # 0} \ {s}
          BY <3>1, <3>5
        <4>3. DOMAIN smap_ = {u.sub : u \in {t \in subs : t.req # 0}}
          BY <1>0 DEF SubsOk
        <4>4. \A x : x \in DOMAIN smap_ \ {s.sub} <=> x \in {u.sub : u \in {t \in subs : t.req # 0} \ {s}}
          BY <3>4, <4>3
        <4>. QED
          BY <4>1, <4>2, <4>4
      <3>12. \A t \in subs' : t.req # 0 => smap_'[t.sub] = t.req
        BY <1>0, <3>1, <3>4, <3>5 DEF SubsOk
      <3>. QED
        BY <3>7, <3>9, <3>10, <3>11, <3>12 DEF SubsOk
    <2>. QED
      BY <2>1, <2>2
  <1>5. IdsOk(wire, reuse_, id_, nulls)' /\ MessagesOk(wire') /\ rv_' = Waits(wire')
    BY <1>1 DEF RpcGood
  <1>. QED
    BY <1>1, <1>3, <1>4, <1>5 DEF RpcGood

\* reset forgets the requests of the old connections.
LEMMA ResetKeeps ==
    ASSUME RpcGood, nulls \in Nat, Rpc!Reset
    PROVE  RpcGood'
  <1>1. /\ rv_' = {} /\ smap_' = <<>> /\ reuse_' = <<>> /\ id_' = 0
        /\ wire' = {} /\ subs' = {} /\ UNCHANGED <<ntok, last, nulls>>
    BY DEF Rpc!Reset
  <1>2. IdsOk({}, <<>>, 0, nulls)
    BY DEF IdsOk
  <1>3. IdsOk(wire, reuse_, id_, nulls)' /\ MessagesOk(wire') /\ rv_' = Waits(wire')
    BY <1>1, <1>2 DEF MessagesOk, Waits
  <1>4. DOMAIN smap_' = {}
    BY <1>1
  <1>5. SubsOk'
    BY <1>1, <1>4, FS_EmptySet DEF SubsOk
  <1>. QED
    BY <1>1, <1>3, <1>5 DEF RpcGood, Rpc!RightReply

\* A client that has sent nothing is in order.
LEMMA RpcInitial == Rpc!Init => RpcInv
  <1>. SUFFICES ASSUME Rpc!Init PROVE RpcInv
    OBVIOUS
  <1>1. IdsOk({}, <<>>, 0, 0)
    BY DEF IdsOk
  <1>2. IdsOk(wire, reuse_, id_, nulls) /\ MessagesOk(wire) /\ rv_ = Waits(wire)
    BY <1>1 DEF MessagesOk, Waits, Rpc!Init
  <1>3. DOMAIN smap_ = {}
    BY DEF Rpc!Init
  <1>4. SubsOk
    BY <1>3, FS_EmptySet DEF SubsOk, Rpc!Init
  <1>. QED
    BY <1>2, <1>4 DEF RpcInv, RpcGood, Rpc!RightReply, Rpc!Init

\* Every step of rpc_client keeps the invariant.
LEMMA RpcStep == RpcInv /\ Rpc!Next => RpcInv'
  <1>. SUFFICES ASSUME RpcInv, Rpc!Next PROVE RpcInv'
    OBVIOUS
  <1>0. nulls \in Nat /\ (nulls <= 1 => RpcGood)
    BY DEF RpcInv
  <1>1. CASE \E kind \in Rpc!Kinds : Rpc!Request(kind)
    <2>1. nulls' = nulls
      BY <1>1 DEF Rpc!Request
    <2>. QED
      BY <1>0, <1>1, <2>1, RequestKeeps DEF RpcInv
  <1>2. CASE \E w \in wire, again \in Rpc!Kinds \union {"none"} : Rpc!Respond(w, again)
    <2>1. nulls' = nulls
      BY <1>2 DEF Rpc!Respond
    <2>. QED
      BY <1>0, <1>2, <2>1, RespondKeeps DEF RpcInv
  <1>3. CASE Rpc!RespondNull
    <2>1. nulls' = nulls + 1
      BY <1>3 DEF Rpc!RespondNull
    <2>2. nulls' \in Nat /\ (nulls' <= 1 => nulls = 0)
      BY <1>0, <2>1
    <2>. QED
      BY <1>0, <1>3, <2>2, FirstNullKeeps DEF RpcInv
  <1>4. CASE \E s \in {t \in subs : t.req # 0} : Rpc!Notify(s)
    <2>1. nulls' = nulls
      BY <1>4 DEF Rpc!Notify
    <2>. QED
      BY <1>0, <1>4, <2>1, NotifyKeeps DEF RpcInv
  <1>5. CASE Rpc!Reset
    <2>1. nulls' = nulls
      BY <1>5 DEF Rpc!Reset
    <2>. QED
      BY <1>0, <1>5, <2>1, ResetKeeps DEF RpcInv
  <1>. QED
    BY <1>1, <1>2, <1>3, <1>4, <1>5 DEF Rpc!Next

\* rpc_client's ids, waiting lists and subscriptions stay in order.
THEOREM TablesKept == TransportSpec => []RpcInv
  <1>1. TransportInit => RpcInv
    BY RpcInitial DEF TransportInit
  <1>2. ASSUME RpcInv, [TransportNext]_<<part, vars, rpcVars, txVars>> PROVE RpcInv'
    <2>1. CASE UNCHANGED rpcVars
      BY <1>2, <2>1 DEF rpcVars, RpcInv, RpcGood, SubsOk, Rpc!RightReply
    <2>2. CASE Rpc!Next
      BY <1>2, <2>2, RpcStep
    <2>. QED
      BY <1>2, <2>1, <2>2 DEF TransportNext
  <1>. QED
    BY <1>1, <1>2, PTL DEF TransportSpec

\* Up to the second reply with a null id, a reply or notification reaches the
\* requests it is for and no others, what the client waits for is what the
\* node will answer, and subscriptions live as long as the node's
\* (rpc_client::parse_response).  Two null ids put 0 twice in reuse_, and two
\* requests then get the same id.
THEOREM RepliesAlwaysRight == TransportSpec => [](nulls <= 1 => RepliesRight)
  <1>1. ASSUME RpcInv, nulls <= 1 PROVE RepliesRight
    <2>1. RpcGood /\ SubsOk
      BY <1>1 DEF RpcInv, RpcGood
    <2>2. Rpc!Outstanding
      BY <2>1 DEF RpcGood, IdsOk, Waits, Rpc!Outstanding
    <2>3. \A k \in DOMAIN smap_ : \E s \in subs : s.req # 0 /\ s.sub = k /\ smap_[k] = s.req
      BY <2>1 DEF SubsOk
    <2>4. \A s \in subs : s.req # 0 => s.sub \in DOMAIN smap_ /\ smap_[s.sub] = s.req
      BY <2>1 DEF SubsOk
    <2>5. Rpc!SubscriptionsLive
      BY <2>3, <2>4 DEF Rpc!SubscriptionsLive
    <2>. QED
      BY <2>1, <2>2, <2>5 DEF RpcGood, RepliesRight, Rpc!RepliesRight
  <1>2. RpcInv => (nulls <= 1 => RepliesRight)
    BY <1>1
  <1>. QED
    BY <1>2, TablesKept, PTL

-----------------------------------------------------------------------------
(* The bytes of a connection, on their way in *)

Octet == Nat \X Nat

\* The byte after b in what the peer sends.
Succ(b) == IF b[2] < Total(b[1]) THEN <<b[1], b[2] + 1>> ELSE <<b[1] + 1, 1>>

\* The bytes from the start of a frame to the end of frame n.
Stream(q, n) ==
    /\ q \in Seq(Octet)
    /\ \A i \in 1 .. Len(q) : q[i][1] <= n /\ q[i][2] \in 1 .. Total(q[i][1])
    /\ \A i \in 1 .. Len(q) : i + 1 <= Len(q) => q[i + 1] = Succ(q[i])
    /\ q # <<>> => q[1][2] = 1 /\ q[Len(q)] = <<n, Total(n)>>

\* What was not parsed yet, the frame it begins with, and the frames parsed.
Ahead_ == Unparsed \o inwire
Here == IF Ahead_ = <<>> THEN fsent + 1 ELSE Ahead_[1][1]
Done == IF Here = 0 THEN 0 ELSE Here - 1

InTyped ==
    /\ fsent \in 0 .. Len(Script) /\ inwire \in Seq(Octet) /\ rdr_ \in Seq(Octet)
    /\ idx \in Nat /\ rsz_ \in Nat /\ idx + rsz_ = Len(rdr_)
    /\ np_ \in {"init", "ws", "lost"} /\ pc \in {"recv", "parse"}
    /\ pc = "recv" \/ np_ = "init" => idx = 0
    /\ left \in Seq(Nat) /\ msg_ \in Seq(Nat)

\* The handshake's reply comes first.
AtReply == IF np_ = "ws" THEN Here > 0 ELSE Ahead_ # <<>> /\ Here = 0

\* The loop in poll_recv ends when the parser needs more.
Exhausted == pc = "recv" => IF np_ = "init" THEN rsz_ < Reply.status ELSE np_ = "ws" => ~ WholeFrame

\* The frames the parser keeps: those of a message that is not complete and,
\* before it has completed one in several frames, those left to it.
NoneSplit(n) == \A j \in DOMAIN Messages(n) : Len(Messages(n)[j]) = 1
Kept(n) == IF NoneSplit(n) THEN left \o Meant[n].open ELSE Meant[n].open

Assembled == sent = Received(fsent) /\ delivered = Received(Done) /\ msg_ = Kept(Done)

InInv == InTyped /\ Stream(Ahead_, fsent) /\ AtReply /\ Exhausted /\ Assembled


\* The state of the peer's meaning after some frames, and what a frame adds.
Meaning == [whole : Seq(Seq(Nat)), open : Seq(Nat)]
NoMeaning == [whole |-> <<>>, open |-> <<>>]
OneMore(x, n) ==
    IF ~ IsData(n) THEN x
    ELSE IF Script[n].fin
         THEN [whole |-> Append(x.whole, Append(x.open, n)), open |-> <<>>]
         ELSE [whole |-> x.whole, open |-> Append(x.open, n)]

\* A frame keeps the types.
LEMMA MeaningTyped ==
    /\ NoMeaning \in Meaning
    /\ \A x \in Meaning, n \in 1 .. Len(Script) : OneMore(x, n) \in Meaning
  <1>1. NoMeaning \in Meaning
    BY DEF NoMeaning, Meaning
  <1>2. ASSUME NEW x \in Meaning, NEW n \in 1 .. Len(Script) PROVE OneMore(x, n) \in Meaning
    <2>1. x.open \in Seq(Nat) /\ x.whole \in Seq(Seq(Nat)) /\ n \in Nat
      BY ScriptAssumption DEF Meaning
    <2>2. PICK o : o = Append(x.open, n)
      OBVIOUS
    <2>3. o \in Seq(Nat)
      BY <2>1, <2>2
    <2>4. PICK w : w = Append(x.whole, o)
      OBVIOUS
    <2>5. w \in Seq(Seq(Nat))
      BY <2>1, <2>3, <2>4
    <2>6. <<>> \in Seq(Nat)
      OBVIOUS
    <2>7. OneMore(x, n) = IF ~ IsData(n) THEN x
              ELSE IF Script[n].fin THEN [whole |-> w, open |-> <<>>] ELSE [whole |-> x.whole, open |-> o]
      BY <2>2, <2>4 DEF OneMore
    <2> QED
      BY <2>1, <2>3, <2>5, <2>6, <2>7 DEF Meaning
  <1> QED
    BY <1>1, <1>2

\* What the frames mean is defined frame by frame.
LEMMA MeantIs ==
    /\ Meant \in [0 .. Len(Script) -> Meaning]
    /\ Meant[0] = NoMeaning
    /\ \A n \in 1 .. Len(Script) : Meant[n] = OneMore(Meant[n - 1], n)
  <1> DEFINE N == Len(Script)
             G == [x \in Meaning \X (1 .. N) |-> OneMore(x[1], x[2])]
             Is(f) == f = [n \in 0 .. N |-> IF n = 0 THEN [whole |-> <<>>, open |-> <<>>]
                               ELSE IF ~ IsData(n) THEN f[n - 1]
                               ELSE IF Script[n].fin
                                    THEN [whole |-> Append(f[n - 1].whole, Append(f[n - 1].open, n)), open |-> <<>>]
                                    ELSE [whole |-> f[n - 1].whole, open |-> Append(f[n - 1].open, n)]]
  <1>1. N \in Nat
    BY ScriptAssumption
  <1>2. G \in [Meaning \X (1 .. N) -> Meaning]
    BY MeaningTyped
  <1>3. PICK f \in [0 .. N -> Meaning] : Loops(f, N, NoMeaning, G)
    <2> HIDE DEF G, N
    <2> QED
      BY <1>1, <1>2, MeaningTyped, LoopDefined
  <1>4. \A n \in 1 .. N : f[n] = OneMore(f[n - 1], n)
    <2> TAKE n \in 1 .. N
    <2>1. n - 1 \in 0 .. N
      BY <1>1
    <2>2. f[n - 1] \in Meaning
      BY <1>3, <2>1
    <2>3. <<f[n - 1], n>> \in Meaning \X (1 .. N)
      BY <2>2
    <2>4. G[<<f[n - 1], n>>] = OneMore(f[n - 1], n)
      BY <2>3
    <2> QED
      BY <1>3, <2>4 DEF Loops
  <1>5. Is(f)
    <2> DEFINE g == [n \in 0 .. N |-> IF n = 0 THEN NoMeaning ELSE OneMore(f[n - 1], n)]
    <2>1. \A n \in 0 .. N : f[n] = g[n]
      <3> TAKE n \in 0 .. N
      <3>1. n = 0 \/ n \in 1 .. N
        BY <1>1
      <3>2. f[0] = NoMeaning
        BY <1>3 DEF Loops
      <3>3. n \in 1 .. N => n # 0 /\ f[n] = OneMore(f[n - 1], n)
        BY <1>1, <1>4
      <3> QED
        BY <3>1, <3>2, <3>3, Zenon
    <2>2. f = g
      BY <1>3, <2>1
    <2> QED
      BY <2>2 DEF NoMeaning, OneMore
  <1>6. Meant = CHOOSE g : Is(g)
    BY DEF Meant
  <1>7. Is(CHOOSE g : Is(g))
    <2> HIDE DEF Is
    <2> QED
      BY <1>5
  <1>8. Is(Meant)
    BY <1>6, <1>7
  <1>9. Meant = [n \in 0 .. N |-> IF n = 0 THEN NoMeaning ELSE OneMore(Meant[n - 1], n)]
    BY <1>8 DEF NoMeaning, OneMore
  <1>10. \A n \in 0 .. N : Meant[n] = IF n = 0 THEN NoMeaning ELSE OneMore(Meant[n - 1], n)
    BY <1>9
  <1> DEFINE S == {n \in 0 .. N : Meant[n] \in Meaning}
  <1>11. 0 \in S
    BY <1>1, <1>10, MeaningTyped
  <1>12. \A n \in 0 .. N - 1 : n \in S => n + 1 \in S
    <2> TAKE n \in 0 .. N - 1
    <2> HAVE n \in S
    <2>1. n + 1 \in 1 .. N /\ n + 1 \in 0 .. N /\ n + 1 # 0 /\ (n + 1) - 1 = n
      BY <1>1
    <2>2. Meant[n + 1] = OneMore(Meant[n], n + 1)
      BY <1>10, <2>1
    <2>3. OneMore(Meant[n], n + 1) \in Meaning
      BY <2>1, MeaningTyped
    <2> QED
      BY <2>1, <2>2, <2>3
  <1>13. 0 .. N \subseteq S
    <2> HIDE DEF S, N
    <2> QED
      BY <1>1, <1>11, <1>12, UpTo
  <1>14. Meant \in [0 .. N -> Meaning]
    <2>1. \A n \in 0 .. N : Meant[n] \in Meaning
      BY <1>13
    <2>2. DOMAIN Meant = 0 .. N /\ Meant = [n \in DOMAIN Meant |-> Meant[n]]
      BY <1>9, Zenon
    <2> QED
      BY <2>1, <2>2
  <1> QED
    BY <1>1, <1>10, <1>14

\* What a frame adds to the messages and to the one that is not complete.
LEMMA MessagesIs ==
    /\ \A n \in 0 .. Len(Script) : Messages(n) \in Seq(Seq(Nat)) /\ Meant[n].open \in Seq(Nat)
    /\ Messages(0) = <<>> /\ Meant[0].open = <<>>
    /\ \A n \in 1 .. Len(Script) :
          /\ ~ IsData(n) => Messages(n) = Messages(n - 1) /\ Meant[n].open = Meant[n - 1].open
          /\ IsData(n) /\ Script[n].fin =>
                /\ Messages(n) = Append(Messages(n - 1), Append(Meant[n - 1].open, n))
                /\ Meant[n].open = <<>>
          /\ IsData(n) /\ ~ Script[n].fin =>
                /\ Messages(n) = Messages(n - 1)
                /\ Meant[n].open = Append(Meant[n - 1].open, n)
  <1>1. \A n \in 0 .. Len(Script) : Messages(n) \in Seq(Seq(Nat)) /\ Meant[n].open \in Seq(Nat)
    BY MeantIs DEF Messages, Meaning
  <1>2. Messages(0) = <<>> /\ Meant[0].open = <<>>
    BY MeantIs DEF Messages, NoMeaning
  <1>3. ASSUME NEW n \in 1 .. Len(Script)
        PROVE  /\ ~ IsData(n) => Messages(n) = Messages(n - 1) /\ Meant[n].open = Meant[n - 1].open
               /\ IsData(n) /\ Script[n].fin =>
                    /\ Messages(n) = Append(Messages(n - 1), Append(Meant[n - 1].open, n))
                    /\ Meant[n].open = <<>>
               /\ IsData(n) /\ ~ Script[n].fin =>
                    /\ Messages(n) = Messages(n - 1)
                    /\ Meant[n].open = Append(Meant[n - 1].open, n)
    <2>1. Meant[n] = OneMore(Meant[n - 1], n)
      BY MeantIs
    <2>2. ~ IsData(n) => Meant[n] = Meant[n - 1]
      BY <2>1 DEF OneMore
    <2>3. IsData(n) /\ Script[n].fin =>
            Meant[n] = [whole |-> Append(Meant[n - 1].whole, Append(Meant[n - 1].open, n)), open |-> <<>>]
      BY <2>1 DEF OneMore
    <2>4. IsData(n) /\ ~ Script[n].fin =>
            Meant[n] = [whole |-> Meant[n - 1].whole, open |-> Append(Meant[n - 1].open, n)]
      BY <2>1 DEF OneMore
    <2>5. ~ IsData(n) => Messages(n) = Messages(n - 1) /\ Meant[n].open = Meant[n - 1].open
      BY <2>2 DEF Messages
    <2>6. IsData(n) /\ Script[n].fin =>
            /\ Messages(n) = Append(Messages(n - 1), Append(Meant[n - 1].open, n))
            /\ Meant[n].open = <<>>
      <3> SUFFICES ASSUME IsData(n), Script[n].fin
                   PROVE  /\ Messages(n) = Append(Messages(n - 1), Append(Meant[n - 1].open, n))
                          /\ Meant[n].open = <<>>
        OBVIOUS
      <3>1. PICK w : w = Append(Meant[n - 1].whole, Append(Meant[n - 1].open, n))
        OBVIOUS
      <3>2. Meant[n] = [whole |-> w, open |-> <<>>]
        BY <2>3, <3>1
      <3>3. Meant[n].whole = w /\ Meant[n].open = <<>>
        BY <3>2
      <3> QED
        BY <3>1, <3>3 DEF Messages
    <2>7. IsData(n) /\ ~ Script[n].fin =>
            /\ Messages(n) = Messages(n - 1)
            /\ Meant[n].open = Append(Meant[n - 1].open, n)
      BY <2>4 DEF Messages
    <2> QED
      BY <2>5, <2>6, <2>7
  <1> QED
    BY <1>1, <1>2, <1>3

\* Messages once complete stay what they are.
LEMMA MessagesGrow ==
    ASSUME NEW n \in 0 .. Len(Script), NEW m \in n .. Len(Script)
    PROVE  /\ Len(Messages(n)) <= Len(Messages(m))
           /\ \A k \in 1 .. Len(Messages(n)) : Messages(m)[k] = Messages(n)[k]
  <1> DEFINE N == Len(Script) - n
             Keeps(j) == /\ Len(Messages(n)) <= Len(Messages(n + j))
                         /\ \A k \in 1 .. Len(Messages(n)) : Messages(n + j)[k] = Messages(n)[k]
             S == {j \in 0 .. N : Keeps(j)}
  <1>0. Len(Script) \in Nat /\ N \in Nat /\ n \in Nat /\ m \in Nat
    BY ScriptAssumption
  <1>1. 0 \in S
    <2>1. n + 0 = n /\ Len(Messages(n)) \in Nat
      BY <1>0, MessagesIs
    <2>2. 0 \in 0 .. N
      BY <1>0
    <2> QED
      BY <2>1, <2>2
  <1>2. ASSUME NEW j \in 0 .. N - 1, j \in S PROVE j + 1 \in S
    <2>1. n + j \in 0 .. Len(Script) /\ n + (j + 1) \in 1 .. Len(Script) /\ (n + (j + 1)) - 1 = n + j
      BY <1>0
    <2>2. PICK a : a = n + j
      OBVIOUS
    <2>3. PICK b : b = n + (j + 1)
      OBVIOUS
    <2>4. a \in 0 .. Len(Script) /\ b \in 1 .. Len(Script) /\ b - 1 = a
      BY <2>1, <2>2, <2>3
    <2>5. Messages(n) \in Seq(Seq(Nat)) /\ Messages(a) \in Seq(Seq(Nat)) /\ Meant[a].open \in Seq(Nat)
      BY <2>4, MessagesIs
    <2>6. PICK e : e = Append(Meant[a].open, b)
      OBVIOUS
    <2>7. e \in Seq(Nat)
      BY <1>0, <2>4, <2>5, <2>6
    <2>8. Messages(b) = Messages(a) \/ Messages(b) = Append(Messages(a), e)
      BY <2>4, <2>6, MessagesIs
    <2>9. /\ Len(Messages(a)) <= Len(Messages(b))
          /\ \A k \in 1 .. Len(Messages(a)) : Messages(b)[k] = Messages(a)[k]
      <3>1. PICK x : x = Messages(a)
        OBVIOUS
      <3>2. PICK y : y = Messages(b)
        OBVIOUS
      <3>3. x \in Seq(Seq(Nat)) /\ (y = x \/ y = Append(x, e))
        BY <2>5, <2>8, <3>1, <3>2
      <3>4. Len(x) <= Len(y) /\ \A k \in 1 .. Len(x) : y[k] = x[k]
        <4>1. Len(x) \in Nat
          BY <3>3
        <4>2. CASE y = x
          BY <4>1, <4>2
        <4>3. CASE y = Append(x, e)
          <5>1. Len(y) = Len(x) + 1 /\ \A k \in 1 .. Len(x) : y[k] = x[k]
            BY <2>7, <3>3, <4>3, AppendProperties
          <5> QED
            BY <4>1, <5>1
        <4> QED
          BY <3>3, <4>2, <4>3
      <3> QED
        BY <3>1, <3>2, <3>4
    <2>10. /\ Len(Messages(n)) <= Len(Messages(a))
           /\ \A k \in 1 .. Len(Messages(n)) : Messages(a)[k] = Messages(n)[k]
      BY <1>2, <2>2
    <2>11. Len(Messages(n)) \in Nat /\ Len(Messages(a)) \in Nat /\ Len(Messages(b)) \in Nat
      BY <2>4, <2>5, MessagesIs
    <2>12. Keeps(j + 1)
      BY <2>3, <2>9, <2>10, <2>11
    <2> QED
      BY <2>12, <1>0
  <1>3. 0 .. N \subseteq S
    <2> HIDE DEF S, N
    <2> QED
      BY <1>0, <1>1, <1>2, UpTo
  <1>4. m - n \in 0 .. N /\ n + (m - n) = m
    BY <1>0
  <1>5. Keeps(m - n)
    BY <1>3, <1>4
  <1> QED
    BY <1>4, <1>5

\* What the client makes of the first n frames, message by message.
LEMMA ReceivedIs ==
    ASSUME left \in Seq(Nat), NEW n \in 0 .. Len(Script)
    PROVE  /\ Received(n) \in Seq(Seq(Nat)) /\ Len(Received(n)) = Len(Messages(n))
           /\ \A k \in 1 .. Len(Messages(n)) :
                 Received(n)[k] = IF Len(Messages(n)[k]) > 1 /\ \A j \in 1 .. k - 1 : Len(Messages(n)[j]) = 1
                                  THEN left \o Messages(n)[k] ELSE Messages(n)[k]
  <1>1. PICK ms : ms = Messages(n)
    OBVIOUS
  <1>2. ms \in Seq(Seq(Nat)) /\ DOMAIN ms = 1 .. Len(ms) /\ Len(ms) \in Nat
    BY <1>1, MessagesIs
  <1> DEFINE e(k) == IF Len(ms[k]) > 1 /\ \A j \in 1 .. k - 1 : Len(ms[j]) = 1
                     THEN left \o ms[k] ELSE ms[k]
  <1>3. Received(n) = [k \in 1 .. Len(ms) |-> e(k)]
    BY <1>1, <1>2 DEF Received
  <1>4. ASSUME NEW k \in 1 .. Len(ms) PROVE e(k) \in Seq(Nat)
    <2>1. ms[k] \in Seq(Nat)
      BY <1>2
    <2> QED
      BY <2>1
  <1> HIDE DEF e
  <1>5. Received(n) \in Seq(Seq(Nat)) /\ Len(Received(n)) = Len(ms)
    BY <1>2, <1>3, <1>4
  <1>6. \A k \in 1 .. Len(ms) : Received(n)[k] = e(k)
    BY <1>3
  <1> QED
    BY <1>1, <1>5, <1>6 DEF e

\* Messages the client has been given stay what they are.
LEMMA ReceivedGrows ==
    ASSUME left \in Seq(Nat), NEW n \in 0 .. Len(Script), NEW m \in n .. Len(Script)
    PROVE  /\ Len(Received(n)) <= Len(Received(m))
           /\ \A k \in 1 .. Len(Received(n)) : Received(m)[k] = Received(n)[k]
  <1>1. Len(Script) \in Nat /\ m \in 0 .. Len(Script)
    BY ScriptAssumption
  <1>2. PICK a : a = Messages(n)
    OBVIOUS
  <1>3. PICK b : b = Messages(m)
    OBVIOUS
  <1>4. Len(a) \in Nat /\ Len(b) \in Nat
    BY <1>1, <1>2, <1>3, MessagesIs
  <1>5. Len(a) <= Len(b) /\ \A k \in 1 .. Len(a) : b[k] = a[k]
    BY <1>2, <1>3, MessagesGrow
  <1>6. \A k \in 1 .. Len(a) : Received(n)[k] = IF Len(a[k]) > 1 /\ \A j \in 1 .. k - 1 : Len(a[j]) = 1
                                                THEN left \o a[k] ELSE a[k]
    BY <1>2, ReceivedIs
  <1>7. \A k \in 1 .. Len(b) : Received(m)[k] = IF Len(b[k]) > 1 /\ \A j \in 1 .. k - 1 : Len(b[j]) = 1
                                                THEN left \o b[k] ELSE b[k]
    BY <1>1, <1>3, ReceivedIs
  <1>8. Len(Received(n)) = Len(a) /\ Len(Received(m)) = Len(b)
    BY <1>1, <1>2, <1>3, ReceivedIs
  <1>9. ASSUME NEW k \in 1 .. Len(a) PROVE Received(m)[k] = Received(n)[k]
    <2>1. k \in 1 .. Len(b) /\ b[k] = a[k]
      BY <1>4, <1>5
    <2>2. \A j \in 1 .. k - 1 : j \in 1 .. Len(a) /\ b[j] = a[j]
      BY <1>4, <1>5
    <2>3. (\A j \in 1 .. k - 1 : Len(b[j]) = 1) <=> (\A j \in 1 .. k - 1 : Len(a[j]) = 1)
      BY <2>2
    <2> QED
      BY <1>6, <1>7, <2>1, <2>3
  <1> QED
    BY <1>5, <1>8, <1>9

\* One more frame completes a message or leaves the messages as they are.
LEMMA ReceivedStep ==
    ASSUME left \in Seq(Nat), NEW n \in 1 .. Len(Script)
    PROVE  /\ ~ (IsData(n) /\ Script[n].fin) => Received(n) = Received(n - 1)
           /\ IsData(n) /\ Script[n].fin =>
                Received(n) = Append(Received(n - 1),
                                     IF Meant[n - 1].open # <<>> THEN Append(Kept(n - 1), n) ELSE <<n>>)
  <1>1. Len(Script) \in Nat /\ n \in 0 .. Len(Script) /\ n - 1 \in 0 .. Len(Script) /\ n \in Nat
    BY ScriptAssumption
  <1>2. CASE ~ (IsData(n) /\ Script[n].fin)
    <2>1. Messages(n) = Messages(n - 1)
      BY <1>2, MessagesIs
    <2> QED
      BY <1>2, <2>1 DEF Received
  <1>3. CASE IsData(n) /\ Script[n].fin
    <2>1. PICK o : o = Meant[n - 1].open
      OBVIOUS
    <2>2. PICK a : a = Messages(n - 1)
      OBVIOUS
    <2>3. PICK e : e = Append(o, n)
      OBVIOUS
    <2>4. o \in Seq(Nat) /\ a \in Seq(Seq(Nat))
      BY <1>1, <2>1, <2>2, MessagesIs
    <2>5. e \in Seq(Nat) /\ Len(e) = Len(o) + 1 /\ Len(o) \in Nat
      BY <1>1, <2>3, <2>4
    <2>6. PICK b : b = Append(a, e)
      OBVIOUS
    <2>7. Messages(n) = b
      BY <1>3, <2>1, <2>2, <2>3, <2>6, MessagesIs
    <2>8. Len(b) = Len(a) + 1 /\ b[Len(b)] = e /\ Len(a) \in Nat /\ \A k \in 1 .. Len(a) : b[k] = a[k]
      BY <2>4, <2>5, <2>6
    <2>9. (\A j \in 1 .. Len(b) - 1 : Len(b[j]) = 1) <=> NoneSplit(n - 1)
      <3>1. DOMAIN a = 1 .. Len(a) /\ Len(b) - 1 = Len(a)
        BY <2>4, <2>8
      <3> QED
        BY <2>2, <2>8, <3>1 DEF NoneSplit
    <2>10. PICK r : r = Received(n - 1)
      OBVIOUS
    <2>11. PICK q : q = Received(n)
      OBVIOUS
    <2>12. r \in Seq(Seq(Nat)) /\ Len(r) = Len(a)
      BY <1>1, <2>2, <2>10, ReceivedIs
    <2>13. /\ q \in Seq(Seq(Nat)) /\ Len(q) = Len(b)
           /\ q[Len(b)] = IF Len(e) > 1 /\ NoneSplit(n - 1) THEN left \o e ELSE e
      <3>1. q \in Seq(Seq(Nat)) /\ Len(q) = Len(b)
        BY <1>1, <2>7, <2>11, ReceivedIs
      <3>2. Len(b) \in 1 .. Len(b)
        BY <2>8
      <3>3. \A k \in 1 .. Len(b) : q[k] = IF Len(b[k]) > 1 /\ \A j \in 1 .. k - 1 : Len(b[j]) = 1
                                          THEN left \o b[k] ELSE b[k]
        BY <1>1, <2>7, <2>11, ReceivedIs
      <3>4. q[Len(b)] = IF Len(b[Len(b)]) > 1 /\ \A j \in 1 .. Len(b) - 1 : Len(b[j]) = 1
                        THEN left \o b[Len(b)] ELSE b[Len(b)]
        BY <3>2, <3>3
      <3> QED
        BY <2>8, <2>9, <3>1, <3>4
    <2>14. \A k \in 1 .. Len(r) : q[k] = r[k]
      <3>1. n \in n - 1 .. Len(Script)
        BY <1>1
      <3> QED
        BY <1>1, <2>10, <2>11, <3>1, ReceivedGrows
    <2>15. PICK z : z = q[Len(b)]
      OBVIOUS
    <2>16. q = Append(r, z)
      BY <2>8, <2>12, <2>13, <2>14, <2>15
    <2>17. z = IF o # <<>> THEN Append(Kept(n - 1), n) ELSE <<n>>
      <3>1. CASE o = <<>>
        BY <2>3, <2>5, <2>13, <2>15, <3>1
      <3>2. CASE o # <<>> /\ NoneSplit(n - 1)
        <4>1. z = left \o Append(o, n)
          BY <2>3, <2>4, <2>5, <2>13, <2>15, <3>2
        <4>2. left \o Append(o, n) = Append(left \o o, n)
          BY <1>1, <2>4
        <4> QED
          BY <2>1, <3>2, <4>1, <4>2 DEF Kept
      <3>3. CASE o # <<>> /\ ~ NoneSplit(n - 1)
        <4>1. z = Append(o, n)
          BY <2>3, <2>4, <2>5, <2>13, <2>15, <3>3
        <4> QED
          BY <2>1, <3>3, <4>1 DEF Kept
      <3> QED
        BY <3>1, <3>2, <3>3
    <2> QED
      BY <1>3, <2>1, <2>10, <2>11, <2>16, <2>17
  <1> QED
    BY <1>2, <1>3

\* The frames the parser keeps, after one more frame.
LEMMA KeptStep ==
    ASSUME left \in Seq(Nat), NEW n \in 1 .. Len(Script)
    PROVE  /\ ~ IsData(n) => Kept(n) = Kept(n - 1)
           /\ IsData(n) /\ Script[n].fin =>
                 Kept(n) = IF Meant[n - 1].open # <<>> THEN <<>> ELSE Kept(n - 1)
           /\ IsData(n) /\ ~ Script[n].fin => Kept(n) = Append(Kept(n - 1), n)
  <1>1. Len(Script) \in Nat /\ n - 1 \in 0 .. Len(Script) /\ n \in Nat
    BY ScriptAssumption
  <1>2. CASE ~ IsData(n)
    <2>1. Messages(n) = Messages(n - 1) /\ Meant[n].open = Meant[n - 1].open
      BY <1>2, MessagesIs
    <2> QED
      BY <1>2, <2>1 DEF Kept, NoneSplit
  <1>3. CASE IsData(n) /\ ~ Script[n].fin
    <2>1. PICK o : o = Meant[n - 1].open
      OBVIOUS
    <2>2. o \in Seq(Nat)
      BY <1>1, <2>1, MessagesIs
    <2>3. Messages(n) = Messages(n - 1) /\ Meant[n].open = Append(o, n)
      BY <1>3, <2>1, MessagesIs
    <2>4. NoneSplit(n) <=> NoneSplit(n - 1)
      BY <2>3 DEF NoneSplit
    <2>5. left \o Append(o, n) = Append(left \o o, n)
      BY <1>1, <2>2
    <2> QED
      BY <1>3, <2>1, <2>3, <2>4, <2>5 DEF Kept
  <1>4. CASE IsData(n) /\ Script[n].fin
    <2>1. PICK o : o = Meant[n - 1].open
      OBVIOUS
    <2>2. PICK a : a = Messages(n - 1)
      OBVIOUS
    <2>3. PICK e : e = Append(o, n)
      OBVIOUS
    <2>4. o \in Seq(Nat) /\ a \in Seq(Seq(Nat))
      BY <1>1, <2>1, <2>2, MessagesIs
    <2>5. e \in Seq(Nat) /\ Len(e) = Len(o) + 1 /\ Len(o) \in Nat /\ (o # <<>> => Len(o) > 0) /\ (o = <<>> => Len(o) = 0)
      BY <1>1, <2>3, <2>4
    <2>6. PICK b : b = Append(a, e)
      OBVIOUS
    <2>7. Messages(n) = b /\ Meant[n].open = <<>>
      BY <1>4, <2>1, <2>2, <2>3, <2>6, MessagesIs
    <2>8. /\ DOMAIN b = 1 .. Len(a) + 1 /\ DOMAIN a = 1 .. Len(a) /\ Len(a) \in Nat
          /\ b[Len(a) + 1] = e /\ \A k \in 1 .. Len(a) : b[k] = a[k]
      BY <2>4, <2>5, <2>6
    <2>9. NoneSplit(n) <=> NoneSplit(n - 1) /\ Len(e) = 1
      <3>1. NoneSplit(n) <=> \A j \in 1 .. Len(a) + 1 : Len(b[j]) = 1
        BY <2>7, <2>8 DEF NoneSplit
      <3>2. NoneSplit(n - 1) <=> \A j \in 1 .. Len(a) : Len(a[j]) = 1
        BY <2>2, <2>8 DEF NoneSplit
      <3>3. \A j \in 1 .. Len(a) + 1 : j = Len(a) + 1 \/ j \in 1 .. Len(a)
        BY <2>8
      <3>4. Len(a) + 1 \in 1 .. Len(a) + 1 /\ \A j \in 1 .. Len(a) : j \in 1 .. Len(a) + 1
        BY <2>8
      <3> QED
        BY <2>8, <3>1, <3>2, <3>3, <3>4
    <2>10. Kept(n) = IF NoneSplit(n) THEN left \o <<>> ELSE <<>>
      BY <2>7 DEF Kept
    <2>11. Kept(n - 1) = IF NoneSplit(n - 1) THEN left \o o ELSE o
      BY <2>1 DEF Kept
    <2>12. left \o <<>> = left
      OBVIOUS
    <2>13. CASE o = <<>>
      <3>1. Len(e) = 1
        BY <2>5, <2>13
      <3>2. Kept(n) = IF NoneSplit(n - 1) THEN left ELSE <<>>
        BY <2>9, <2>10, <2>12, <3>1
      <3>3. Kept(n - 1) = IF NoneSplit(n - 1) THEN left ELSE <<>>
        BY <2>11, <2>12, <2>13
      <3> QED
        BY <1>4, <2>1, <2>13, <3>2, <3>3
    <2>14. CASE o # <<>>
      <3>1. Len(e) # 1
        BY <2>5, <2>14
      <3> QED
        BY <1>4, <2>1, <2>9, <2>10, <2>14, <3>1
    <2> QED
      BY <2>13, <2>14
  <1> QED
    BY <1>2, <1>3, <1>4

\* A frame, and the handshake's reply, has at least one byte.
LEMMA TotalPositive ==
    /\ Len(Script) \in Nat /\ Reply.hdr \in Nat \ {0} /\ Total(0) = Reply.hdr
    /\ \A f \in 0 .. Len(Script) : Total(f) \in Nat \ {0}
    /\ \A f \in 1 .. Len(Script) : /\ Script[f].hdr \in Nat /\ Script[f].pay \in Nat
                                   /\ 2 <= Script[f].hdr /\ Script[f].hdr <= Total(f)
  <1>1. Len(Script) \in Nat
    BY ScriptAssumption
  <1>2. Reply.hdr \in Nat \ {0} /\ Total(0) = Reply.hdr
    BY NetAssumption DEF Total
  <1>3. ASSUME NEW f \in 1 .. Len(Script)
        PROVE  /\ Script[f].hdr \in Nat /\ Script[f].pay \in Nat
               /\ 2 <= Script[f].hdr /\ Script[f].hdr <= Total(f) /\ Total(f) \in Nat \ {0}
    <2> DEFINE D == [op : {"text", "cont", "ping", "pong", "close"}, fin : BOOLEAN,
                     hdr : Nat \ {0, 1}, pay : Nat]
    <2>0. Script[f] \in D
      <3>1. Script \in Seq(D)
        BY ScriptAssumption, Zenon
      <3> HIDE DEF D
      <3> QED
        BY <3>1
    <2>1. Script[f].hdr \in Nat \ {0, 1} /\ Script[f].pay \in Nat
      BY <2>0
    <2>2. f # 0
      BY <1>1
    <2>3. Total(f) = Script[f].hdr + Script[f].pay
      BY <2>2 DEF Total
    <2> QED
      BY <2>1, <2>3
  <1>4. \A f \in 0 .. Len(Script) : f = 0 \/ f \in 1 .. Len(Script)
    BY <1>1
  <1> QED
    BY <1>1, <1>2, <1>3, <1>4

\* The bytes of a frame.
LEMMA BytesIs ==
    ASSUME NEW f \in 0 .. Len(Script)
    PROVE  /\ BytesOf(f) \in Seq(Octet) /\ Len(BytesOf(f)) = Total(f)
           /\ \A i \in 1 .. Total(f) : BytesOf(f)[i] = <<f, i>>
  <1>1. Total(f) \in Nat /\ f \in Nat
    BY TotalPositive
  <1>2. \A i \in 1 .. Total(f) : <<f, i>> \in Octet
    BY <1>1 DEF Octet
  <1> QED
    BY <1>1, <1>2 DEF BytesOf

\* A sequence of bytes, cut in two.
LEMMA Slices ==
    ASSUME NEW s \in Seq(Octet), NEW a \in 0 .. Len(s)
    PROVE  /\ SubSeq(s, a + 1, Len(s)) \in Seq(Octet)
           /\ Len(SubSeq(s, a + 1, Len(s))) = Len(s) - a
           /\ \A i \in 1 .. Len(s) - a : SubSeq(s, a + 1, Len(s))[i] = s[a + i]
           /\ SubSeq(s, 1, a) \in Seq(Octet) /\ Len(SubSeq(s, 1, a)) = a
           /\ \A i \in 1 .. a : SubSeq(s, 1, a)[i] = s[i]
           /\ SubSeq(s, 1, Len(s)) = s
  <1>1. Len(s) \in Nat /\ a \in Nat
    OBVIOUS
  <1> QED
    BY <1>1

\* Two sequences of bytes, put together.
LEMMA Joined ==
    ASSUME NEW s \in Seq(Octet), NEW t \in Seq(Octet)
    PROVE  /\ s \o t \in Seq(Octet) /\ Len(s \o t) = Len(s) + Len(t)
           /\ Len(s) \in Nat /\ Len(t) \in Nat
           /\ \A i \in 1 .. Len(s) : (s \o t)[i] = s[i]
           /\ \A i \in 1 .. Len(t) : (s \o t)[Len(s) + i] = t[i]
           /\ (s \o t = <<>> <=> s = <<>> /\ t = <<>>)
  <1>1. Len(s) \in Nat /\ Len(t) \in Nat
    OBVIOUS
  <1>2. s \o t \in Seq(Octet) /\ Len(s \o t) = Len(s) + Len(t)
    OBVIOUS
  <1>3. \A i \in 1 .. Len(s) : (s \o t)[i] = s[i]
    OBVIOUS
  <1>4. \A i \in 1 .. Len(t) : (s \o t)[Len(s) + i] = t[i]
    OBVIOUS
  <1>5. s \o t = <<>> <=> s = <<>> /\ t = <<>>
    BY ConcatEqualIffEmpty
  <1> QED
    BY <1>1, <1>2, <1>3, <1>4, <1>5

\* Bytes taken from the front are taken from the first of two sequences.
LEMMA CutFirst ==
    ASSUME NEW s \in Seq(Octet), NEW t \in Seq(Octet), NEW a \in 0 .. Len(s)
    PROVE  SubSeq(s \o t, a + 1, Len(s \o t)) = SubSeq(s, a + 1, Len(s)) \o t
  <1>1. PICK q : q = s \o t
    OBVIOUS
  <1>2. /\ q \in Seq(Octet) /\ Len(q) = Len(s) + Len(t) /\ Len(s) \in Nat /\ Len(t) \in Nat
        /\ \A i \in 1 .. Len(s) : q[i] = s[i]
        /\ \A i \in 1 .. Len(t) : q[Len(s) + i] = t[i]
    BY <1>1, Joined
  <1>3. PICK x : x = SubSeq(q, a + 1, Len(q))
    OBVIOUS
  <1>4. a \in 0 .. Len(q) /\ a \in Nat
    BY <1>2
  <1>5. x \in Seq(Octet) /\ Len(x) = Len(q) - a /\ \A i \in 1 .. Len(q) - a : x[i] = q[a + i]
    BY <1>2, <1>3, <1>4, Slices
  <1>6. PICK u : u = SubSeq(s, a + 1, Len(s))
    OBVIOUS
  <1>7. u \in Seq(Octet) /\ Len(u) = Len(s) - a /\ \A i \in 1 .. Len(s) - a : u[i] = s[a + i]
    BY <1>6, Slices
  <1>8. PICK y : y = u \o t
    OBVIOUS
  <1>9. /\ y \in Seq(Octet) /\ Len(y) = Len(u) + Len(t)
        /\ \A i \in 1 .. Len(u) : y[i] = u[i]
        /\ \A i \in 1 .. Len(t) : y[Len(u) + i] = t[i]
    BY <1>7, <1>8, Joined
  <1>10. Len(x) = Len(y)
    BY <1>2, <1>4, <1>5, <1>7, <1>9
  <1>11. ASSUME NEW i \in 1 .. Len(x) PROVE x[i] = y[i]
    <2>1. x[i] = q[a + i]
      BY <1>5, <1>11
    <2>2. CASE i <= Len(s) - a
      <3>1. i \in 1 .. Len(u) /\ i \in 1 .. Len(s) - a /\ a + i \in 1 .. Len(s)
        BY <1>2, <1>4, <1>5, <1>7, <2>2
      <3>2. y[i] = u[i] /\ u[i] = s[a + i] /\ q[a + i] = s[a + i]
        BY <1>2, <1>7, <1>9, <3>1
      <3> QED
        BY <2>1, <3>2
    <2>3. CASE i > Len(s) - a
      <3>1. PICK j : j = i - (Len(s) - a)
        OBVIOUS
      <3>2. j \in 1 .. Len(t) /\ Len(u) + j = i /\ Len(s) + j = a + i
        BY <1>2, <1>4, <1>5, <1>7, <1>10, <1>9, <2>3, <3>1
      <3>3. y[Len(u) + j] = t[j] /\ q[Len(s) + j] = t[j]
        BY <1>2, <1>9, <3>2
      <3> QED
        BY <2>1, <3>2, <3>3
    <2>4. i <= Len(s) - a \/ i > Len(s) - a
      BY <1>2, <1>4, <1>5
    <2> QED
      BY <2>2, <2>3, <2>4
  <1>12. x = y
    BY <1>5, <1>9, <1>10, <1>11, SeqEqual
  <1> QED
    BY <1>1, <1>3, <1>6, <1>8, <1>12

\* Bytes taken from the front twice.
LEMMA CutAgain ==
    ASSUME NEW s \in Seq(Octet), NEW a \in 0 .. Len(s), NEW b \in 0 .. Len(s) - a
    PROVE  SubSeq(SubSeq(s, a + 1, Len(s)), b + 1, Len(s) - a) = SubSeq(s, a + b + 1, Len(s))
  <1>1. PICK u : u = SubSeq(s, a + 1, Len(s))
    OBVIOUS
  <1>2. u \in Seq(Octet) /\ Len(u) = Len(s) - a /\ \A i \in 1 .. Len(s) - a : u[i] = s[a + i]
    BY <1>1, Slices
  <1>3. PICK x : x = SubSeq(u, b + 1, Len(u))
    OBVIOUS
  <1>4. x \in Seq(Octet) /\ Len(x) = Len(u) - b /\ \A i \in 1 .. Len(u) - b : x[i] = u[b + i]
    BY <1>2, <1>3, Slices
  <1>5. PICK c : c = a + b
    OBVIOUS
  <1>6. c \in 0 .. Len(s) /\ Len(s) \in Nat /\ a \in Nat /\ b \in Nat
    BY <1>5
  <1>7. PICK y : y = SubSeq(s, c + 1, Len(s))
    OBVIOUS
  <1>8. y \in Seq(Octet) /\ Len(y) = Len(s) - c /\ \A i \in 1 .. Len(s) - c : y[i] = s[c + i]
    BY <1>6, <1>7, Slices
  <1>9. Len(x) = Len(y)
    BY <1>2, <1>4, <1>5, <1>6, <1>8
  <1>10. ASSUME NEW i \in 1 .. Len(x) PROVE x[i] = y[i]
    <2>1. i \in 1 .. Len(u) - b /\ i \in 1 .. Len(s) - c
      BY <1>4, <1>8, <1>9
    <2>2. b + i \in 1 .. Len(s) - a /\ a + (b + i) = c + i
      BY <1>2, <1>5, <1>6, <2>1
    <2> QED
      BY <1>2, <1>4, <1>8, <2>1, <2>2
  <1>11. x = y
    BY <1>4, <1>8, <1>9, <1>10, SeqEqual
  <1> QED
    BY <1>1, <1>2, <1>3, <1>5, <1>7, <1>11

\* Bytes that go from the front of one sequence to the end of another.
LEMMA MovedOver ==
    ASSUME NEW s \in Seq(Octet), NEW t \in Seq(Octet), NEW n \in 0 .. Len(t)
    PROVE  (s \o SubSeq(t, 1, n)) \o SubSeq(t, n + 1, Len(t)) = s \o t
  <1>1. PICK u : u = SubSeq(t, 1, n)
    OBVIOUS
  <1>2. PICK v : v = SubSeq(t, n + 1, Len(t))
    OBVIOUS
  <1>3. u \in Seq(Octet) /\ v \in Seq(Octet)
    BY <1>1, <1>2, Slices
  <1>4. u \o v = t
    <2>1. 1 \in 1 .. Len(t) + 1 /\ n \in 1 - 1 .. Len(t) /\ Len(t) \in n .. Len(t)
      OBVIOUS
    <2>2. SubSeq(t, 1, n) \o SubSeq(t, n + 1, Len(t)) = SubSeq(t, 1, Len(t))
      BY <2>1, ConcatAdjacentSubSeq
    <2> QED
      BY <1>1, <1>2, <2>2, Slices
  <1>5. (s \o u) \o v = s \o (u \o v)
    BY <1>3
  <1> QED
    BY <1>1, <1>2, <1>4, <1>5

\* The peer sends one more frame.
LEMMA StreamAdds ==
    ASSUME NEW n \in 0 .. Len(Script) - 1, NEW q, Stream(q, n)
    PROVE  Stream(q \o BytesOf(n + 1), n + 1)
  <1>1. PICK g : g = n + 1
    OBVIOUS
  <1>2. n \in Nat /\ n \in 0 .. Len(Script) /\ g \in 0 .. Len(Script) /\ n <= g /\ g \in Nat /\ g # n
    BY <1>1, TotalPositive
  <1>3. Total(g) \in Nat \ {0} /\ Total(n) \in Nat \ {0}
    BY <1>2, TotalPositive
  <1>4. PICK t : t = BytesOf(g)
    OBVIOUS
  <1>5. t \in Seq(Octet) /\ Len(t) = Total(g) /\ \A i \in 1 .. Total(g) : t[i] = <<g, i>>
    BY <1>2, <1>4, BytesIs
  <1>6. q \in Seq(Octet)
    BY DEF Stream
  <1>7. PICK r : r = q \o t
    OBVIOUS
  <1>8. /\ r \in Seq(Octet) /\ Len(r) = Len(q) + Len(t) /\ Len(q) \in Nat
        /\ \A i \in 1 .. Len(q) : r[i] = q[i]
        /\ \A i \in 1 .. Len(t) : r[Len(q) + i] = t[i]
    BY <1>5, <1>6, <1>7, Joined
  <1>9. ASSUME NEW i \in 1 .. Len(r), i > Len(q)
        PROVE  i - Len(q) \in 1 .. Total(g) /\ r[i] = <<g, i - Len(q)>>
    <2>1. PICK j : j = i - Len(q)
      OBVIOUS
    <2>2. j \in 1 .. Len(t) /\ Len(q) + j = i
      BY <1>3, <1>5, <1>8, <1>9, <2>1
    <2> QED
      BY <1>5, <1>8, <2>1, <2>2
  <1>10. \A i \in 1 .. Len(r) : i \in 1 .. Len(q) \/ i > Len(q)
    BY <1>8
  <1>11. ASSUME NEW i \in 1 .. Len(r) PROVE r[i][1] <= g /\ r[i][2] \in 1 .. Total(r[i][1])
    <2>1. CASE i \in 1 .. Len(q)
      <3>1. q[i][1] <= n /\ q[i][2] \in 1 .. Total(q[i][1]) /\ q[i] \in Octet
        BY <1>6, <2>1 DEF Stream
      <3>2. q[i][1] \in Nat
        BY <3>1 DEF Octet
      <3>3. q[i][1] <= g
        BY <1>2, <3>1, <3>2
      <3> QED
        BY <1>8, <2>1, <3>1, <3>3
    <2>2. CASE i > Len(q)
      <3>1. r[i][1] = g /\ r[i][2] \in 1 .. Total(g)
        BY <1>9, <2>2
      <3> QED
        BY <1>2, <3>1
    <2> QED
      BY <1>10, <2>1, <2>2
  <1>12. ASSUME NEW i \in 1 .. Len(r), i + 1 <= Len(r) PROVE r[i + 1] = Succ(r[i])
    <2>0. i + 1 \in 1 .. Len(r)
      BY <1>8, <1>12
    <2>1. CASE i + 1 <= Len(q)
      <3>1. i \in 1 .. Len(q) /\ i + 1 \in 1 .. Len(q)
        BY <1>8, <2>1
      <3>2. q[i + 1] = Succ(q[i])
        BY <2>1, <3>1 DEF Stream
      <3> QED
        BY <1>8, <3>1, <3>2
    <2>2. CASE i = Len(q)
      <3>1. q # <<>> /\ i \in 1 .. Len(q)
        BY <1>6, <1>8, <2>2
      <3>2. r[i] = <<n, Total(n)>>
        BY <1>8, <2>2, <3>1 DEF Stream
      <3>3. r[i + 1] = <<g, 1>>
        <4>1. i + 1 > Len(q) /\ (i + 1) - Len(q) = 1
          BY <1>8, <2>2
        <4> QED
          BY <1>9, <2>0, <4>1
      <3>4. Succ(r[i]) = <<n + 1, 1>>
        BY <1>3, <3>2 DEF Succ
      <3> QED
        BY <1>1, <3>3, <3>4
    <2>3. CASE i > Len(q)
      <3>1. i - Len(q) \in 1 .. Total(g) /\ r[i] = <<g, i - Len(q)>>
        BY <1>9, <2>3
      <3>2. i + 1 > Len(q) /\ (i + 1) - Len(q) = (i - Len(q)) + 1
        BY <1>8, <2>3
      <3>3. (i - Len(q)) + 1 \in 1 .. Total(g) /\ r[i + 1] = <<g, (i - Len(q)) + 1>>
        BY <1>9, <2>0, <3>2
      <3>4. i - Len(q) < Total(g)
        BY <1>3, <3>1, <3>3
      <3>5. Succ(r[i]) = <<g, (i - Len(q)) + 1>>
        BY <3>1, <3>4 DEF Succ
      <3> QED
        BY <3>3, <3>5
    <2> QED
      BY <1>8, <2>1, <2>2, <2>3
  <1>13. r # <<>> /\ r[Len(r)] = <<g, Total(g)>>
    <2>1. Len(r) \in 1 .. Len(r) /\ Len(r) > Len(q) /\ Len(r) - Len(q) = Total(g)
      BY <1>3, <1>5, <1>8
    <2>2. r[Len(r)] = <<g, Total(g)>>
      BY <1>9, <2>1
    <2>3. r # <<>>
      BY <2>1
    <2> QED
      BY <2>2, <2>3
  <1>14. r[1][2] = 1
    <2>1. 1 \in 1 .. Len(r)
      BY <1>3, <1>5, <1>8
    <2>2. CASE q = <<>>
      <3>1. 1 > Len(q) /\ 1 - Len(q) = 1
        BY <2>2
      <3> QED
        BY <1>9, <2>1, <3>1
    <2>3. CASE q # <<>>
      <3>1. 1 \in 1 .. Len(q)
        BY <1>6, <2>3
      <3> QED
        BY <1>8, <2>3, <3>1 DEF Stream
    <2> QED
      BY <2>2, <2>3
  <1>15. Stream(r, g)
    BY <1>8, <1>11, <1>12, <1>13, <1>14 DEF Stream
  <1> QED
    BY <1>1, <1>4, <1>7, <1>15

\* The frame that bytes begin with is there as a whole, and the next frame
\* comes after it.
LEMMA FrameAhead ==
    ASSUME NEW n \in 0 .. Len(Script), NEW q, Stream(q, n), q # <<>>
    PROVE  \E f \in 0 .. n : \E r :
             /\ r = SubSeq(q, Total(f) + 1, Len(q)) /\ Total(f) <= Len(q) /\ q[1] = <<f, 1>>
             /\ Stream(r, n)
             /\ r = <<>> => f = n
             /\ r # <<>> => r[1] = <<f + 1, 1>>
  <1>0. PICK f : f = q[1][1]
    OBVIOUS
  <1> DEFINE T == Total(f)
  <1>1. q \in Seq(Octet) /\ Len(q) \in Nat \ {0} /\ 1 \in 1 .. Len(q)
    BY DEF Stream
  <1>2. f \in 0 .. n /\ f \in Nat /\ n \in Nat /\ f \in 0 .. Len(Script)
    <2>1. q[1] \in Octet /\ q[1][1] <= n
      BY <1>1 DEF Stream
    <2>2. Len(Script) \in Nat
      BY TotalPositive
    <2> QED
      BY <1>0, <2>1, <2>2 DEF Octet
  <1>3. T \in Nat \ {0}
    BY <1>2, TotalPositive
  <1>4. q[1] = <<f, 1>>
    <2>1. q[1] \in Octet /\ q[1][2] = 1
      BY <1>1 DEF Stream
    <2> QED
      BY <1>0, <2>1 DEF Octet
  <1>5. q[Len(q)] = <<n, Total(n)>>
    BY DEF Stream
  <1> HIDE DEF T
  <1> DEFINE S == {j \in 0 .. T - 1 : j + 1 <= Len(q) /\ q[j + 1] = <<f, j + 1>>}
  <1>6. 0 \in S
    <2>1. 0 \in 0 .. T - 1 /\ 0 + 1 = 1 /\ 1 <= Len(q)
      BY <1>1, <1>3
    <2> QED
      BY <1>4, <2>1
  <1>7. ASSUME NEW j \in 0 .. (T - 1) - 1, j \in S PROVE j + 1 \in S
    <2>1. j + 1 <= Len(q) /\ q[j + 1] = <<f, j + 1>> /\ j + 1 \in 1 .. Len(q) /\ j + 1 \in 0 .. T - 1 /\ j + 1 < T
      BY <1>1, <1>3, <1>7
    <2>2. j + 1 # Len(q)
      <3>1. SUFFICES ASSUME j + 1 = Len(q) PROVE FALSE
        OBVIOUS
      <3>2. f = n /\ j + 1 = Total(n)
        BY <1>5, <2>1, <3>1
      <3> QED
        BY <2>1, <3>2, <1>3 DEF T
    <2>3. (j + 1) + 1 <= Len(q)
      BY <1>1, <2>1, <2>2
    <2>4. q[(j + 1) + 1] = Succ(q[j + 1])
      BY <2>1, <2>3 DEF Stream
    <2>5. Succ(q[j + 1]) = <<f, (j + 1) + 1>>
      BY <2>1 DEF Succ, T
    <2> QED
      BY <2>1, <2>3, <2>4, <2>5
  <1>8. 0 .. T - 1 \subseteq S
    <2>1. T - 1 \in Nat
      BY <1>3
    <2> HIDE DEF S
    <2> QED
      BY <1>6, <1>7, <2>1, UpTo
  <1>9. T <= Len(q) /\ q[T] = <<f, T>> /\ T \in 1 .. Len(q) /\ T \in 0 .. Len(q)
    <2>1. T - 1 \in 0 .. T - 1 /\ (T - 1) + 1 = T
      BY <1>3
    <2>2. T <= Len(q) /\ q[T] = <<f, T>>
      BY <1>8, <2>1
    <2> QED
      BY <1>1, <1>3, <2>2
  <1>10. PICK R : R = SubSeq(q, T + 1, Len(q))
    OBVIOUS
  <1>11. R \in Seq(Octet) /\ Len(R) = Len(q) - T /\ \A i \in 1 .. Len(q) - T : R[i] = q[T + i]
    BY <1>1, <1>9, <1>10, Slices
  <1>12. R = <<>> => f = n
    <2> SUFFICES ASSUME R = <<>> PROVE f = n
      OBVIOUS
    <2>1. T = Len(q)
      BY <1>1, <1>9, <1>11
    <2> QED
      BY <1>5, <1>9, <2>1
  <1>13. ASSUME R # <<>> PROVE Len(R) \in Nat \ {0} /\ R[1] = <<f + 1, 1>> /\ R[Len(R)] = <<n, Total(n)>>
    <2>1. Len(R) \in Nat \ {0} /\ 1 \in 1 .. Len(q) - T /\ T + 1 <= Len(q) /\ Len(R) \in 1 .. Len(q) - T
      BY <1>1, <1>9, <1>11, <1>13
    <2>2. R[1] = q[T + 1] /\ q[T + 1] = Succ(q[T])
      BY <1>9, <1>11, <2>1 DEF Stream
    <2>3. Succ(q[T]) = <<f + 1, 1>>
      BY <1>3, <1>9 DEF Succ, T
    <2>4. T + Len(R) = Len(q)
      BY <1>1, <1>9, <1>11
    <2>5. R[Len(R)] = q[Len(q)]
      BY <1>11, <2>1, <2>4
    <2> QED
      BY <1>5, <2>1, <2>2, <2>3, <2>5
  <1>14. ASSUME NEW i \in 1 .. Len(R)
         PROVE  /\ R[i][1] <= n /\ R[i][2] \in 1 .. Total(R[i][1])
                /\ i + 1 <= Len(R) => R[i + 1] = Succ(R[i])
    <2>1. T + i \in 1 .. Len(q) /\ i \in 1 .. Len(q) - T
      BY <1>1, <1>9, <1>11
    <2>2. R[i] = q[T + i]
      BY <1>11, <2>1
    <2>3. R[i][1] <= n /\ R[i][2] \in 1 .. Total(R[i][1])
      BY <2>1, <2>2 DEF Stream
    <2>4. ASSUME i + 1 <= Len(R) PROVE R[i + 1] = Succ(R[i])
      <3>1. i + 1 \in 1 .. Len(q) - T /\ T + (i + 1) = (T + i) + 1 /\ (T + i) + 1 <= Len(q)
        BY <1>1, <1>9, <1>11, <2>4
      <3>2. R[i + 1] = q[T + (i + 1)]
        BY <1>11, <3>1
      <3>3. q[(T + i) + 1] = Succ(q[T + i])
        BY <2>1, <3>1 DEF Stream
      <3> QED
        BY <2>2, <3>1, <3>2, <3>3
    <2> QED
      BY <2>3, <2>4
  <1>15. R # <<>> => R[1][2] = 1
    BY <1>13
  <1>16. Stream(R, n)
    BY <1>11, <1>13, <1>14, <1>15 DEF Stream
  <1> QED
    BY <1>2, <1>4, <1>9, <1>10, <1>12, <1>13, <1>16, Zenon DEF T

\* What was not parsed yet, in the reader's buffer and on the wire.
LEMMA AheadIs ==
    ASSUME InTyped
    PROVE  /\ Unparsed \in Seq(Octet) /\ Len(Unparsed) = rsz_
           /\ Unparsed = SubSeq(rdr_, idx + 1, Len(rdr_))
           /\ Ahead_ \in Seq(Octet) /\ Len(Ahead_) = rsz_ + Len(inwire) /\ Len(inwire) \in Nat
           /\ Unparsed # <<>> => Ahead_ # <<>> /\ Ahead_[1] = Unparsed[1]
  <1>1. /\ rdr_ \in Seq(Octet) /\ inwire \in Seq(Octet) /\ idx \in Nat /\ rsz_ \in Nat
        /\ idx + rsz_ = Len(rdr_) /\ idx \in 0 .. Len(rdr_)
    BY DEF InTyped
  <1>2. Unparsed = SubSeq(rdr_, idx + 1, Len(rdr_))
    BY <1>1 DEF Unparsed
  <1>3. PICK u : u = Unparsed
    OBVIOUS
  <1>4. u \in Seq(Octet) /\ Len(u) = Len(rdr_) - idx
    BY <1>1, <1>2, <1>3, Slices
  <1>5. PICK q : q = u \o inwire
    OBVIOUS
  <1>6. /\ q \in Seq(Octet) /\ Len(q) = Len(u) + Len(inwire) /\ Len(inwire) \in Nat
        /\ (q = <<>> <=> u = <<>> /\ inwire = <<>>)
        /\ \A i \in 1 .. Len(u) : q[i] = u[i]
    BY <1>1, <1>4, <1>5, Joined
  <1>7. u # <<>> => 1 \in 1 .. Len(u)
    BY <1>4
  <1>8. Ahead_ = q
    BY <1>3, <1>5 DEF Ahead_
  <1>9. Len(u) = rsz_
    BY <1>1, <1>4
  <1> QED
    BY <1>2, <1>3, <1>4, <1>6, <1>7, <1>8, <1>9

\* The frame the client is at is one the peer has sent, or the next one.
LEMMA HereIs ==
    ASSUME InTyped, Stream(Ahead_, fsent)
    PROVE  /\ Here \in 0 .. fsent + 1 /\ Done \in 0 .. fsent /\ fsent \in Nat /\ fsent \in 0 .. Len(Script)
           /\ Ahead_ # <<>> => Here \in 0 .. fsent /\ Ahead_[1] = <<Here, 1>>
  <1>1. fsent \in 0 .. Len(Script) /\ fsent \in Nat
    BY TotalPositive DEF InTyped
  <1>2. PICK q : q = Ahead_
    OBVIOUS
  <1>3. Stream(q, fsent)
    BY <1>2
  <1>4. CASE q = <<>>
    <2>1. Here = fsent + 1
      BY <1>2, <1>4 DEF Here
    <2> QED
      BY <1>1, <1>2, <1>4, <2>1 DEF Done
  <1>5. CASE q # <<>>
    <2>1. Here = q[1][1]
      BY <1>2, <1>5 DEF Here
    <2>2. PICK f \in 0 .. fsent : q[1] = <<f, 1>>
      BY <1>1, <1>3, <1>5, FrameAhead
    <2>3. q[1][1] = f
      BY <2>2
    <2> QED
      BY <1>1, <1>2, <2>1, <2>2, <2>3 DEF Done
  <1> QED
    BY <1>4, <1>5

\* Steps that touch none of what the client reads.
LEMMA ReadingSame ==
    ASSUME InInv, UNCHANGED <<fsent, sent, inwire, inVars, left>>
    PROVE  InInv'
  <1>1. /\ fsent' = fsent /\ sent' = sent /\ inwire' = inwire /\ np_' = np_ /\ pc' = pc /\ rdr_' = rdr_
        /\ idx' = idx /\ rsz_' = rsz_ /\ msg_' = msg_ /\ delivered' = delivered /\ left' = left
    BY DEF inVars
  <1>2. Unparsed' = Unparsed
    BY <1>1 DEF Unparsed
  <1>3. Ahead_' = Ahead_
    BY <1>1, <1>2 DEF Ahead_
  <1>4. Here' = Here
    BY <1>1, <1>3 DEF Here
  <1>5. Done' = Done
    BY <1>4 DEF Done
  <1>6. InTyped'
    BY <1>1 DEF InInv, InTyped
  <1>7. Stream(Ahead_, fsent)'
    BY <1>1, <1>3 DEF InInv
  <1>8. AtReply'
    BY <1>1, <1>3, <1>4 DEF InInv, AtReply
  <1>9. Exhausted'
    BY <1>1, <1>2 DEF InInv, Exhausted, WholeFrame, AtFrame, Current
  <1>10. Assembled'
    <2>1. Received(fsent)' = Received(fsent) /\ Received(Done)' = Received(Done) /\ Kept(Done)' = Kept(Done)
      BY <1>1, <1>5 DEF Received, Kept
    <2> QED
      BY <1>1, <2>1 DEF InInv, Assembled
  <1> QED
    BY <1>6, <1>7, <1>8, <1>9, <1>10 DEF InInv

\* The peer sends a frame.
LEMMA PeerSendReads ==
    ASSUME InInv, PeerSend
    PROVE  InInv' /\ sent' = Received(fsent + 1) /\ fsent + 1 \in 1 .. Len(Script)
  <1>1. /\ fsent < Len(Script) /\ fsent' = fsent + 1 /\ inwire' = inwire \o BytesOf(fsent + 1)
        /\ sent' = Received(fsent')
        /\ np_' = np_ /\ pc' = pc /\ rdr_' = rdr_
        /\ idx' = idx /\ rsz_' = rsz_ /\ msg_' = msg_ /\ delivered' = delivered /\ left' = left
    BY DEF PeerSend, inVars
  <1>2. InTyped /\ Stream(Ahead_, fsent) /\ AtReply /\ Exhausted /\ Assembled
    BY DEF InInv
  <1>3. fsent \in 0 .. Len(Script) - 1 /\ fsent + 1 \in 1 .. Len(Script) /\ fsent + 1 \in 0 .. Len(Script)
    BY <1>1, <1>2, TotalPositive DEF InTyped
  <1>4. PICK t : t = BytesOf(fsent + 1)
    OBVIOUS
  <1>5. /\ t \in Seq(Octet) /\ Len(t) = Total(fsent + 1) /\ Total(fsent + 1) \in Nat \ {0}
        /\ 1 \in 1 .. Len(t) /\ t[1] = <<fsent + 1, 1>>
    BY <1>3, <1>4, BytesIs, TotalPositive
  <1>6. inwire \in Seq(Octet) /\ Unparsed \in Seq(Octet)
    BY <1>2, AheadIs DEF InTyped
  <1>7. Unparsed' = Unparsed
    BY <1>1 DEF Unparsed
  <1>8. Ahead_' = Ahead_ \o t
    <2>1. Ahead_' = Unparsed \o (inwire \o t)
      BY <1>1, <1>4, <1>7 DEF Ahead_
    <2>2. PICK u : u = Unparsed
      OBVIOUS
    <2>3. u \o (inwire \o t) = (u \o inwire) \o t
      BY <1>5, <1>6, <2>2
    <2> QED
      BY <2>1, <2>2, <2>3 DEF Ahead_
  <1>9. PICK q : q = Ahead_
    OBVIOUS
  <1>10. q \in Seq(Octet)
    BY <1>2, <1>9, AheadIs
  <1>11. PICK r : r = q \o t
    OBVIOUS
  <1>12. Ahead_' = r
    BY <1>8, <1>9, <1>11
  <1>13. /\ Len(r) = Len(q) + Len(t) /\ Len(q) \in Nat
         /\ \A i \in 1 .. Len(q) : r[i] = q[i]
         /\ \A i \in 1 .. Len(t) : r[Len(q) + i] = t[i]
         /\ r # <<>>
    <2>1. t # <<>>
      BY <1>5
    <2> QED
      BY <1>5, <1>10, <1>11, <2>1, Joined
  <1>14. Here' = Here
    <2>1. Here' = r[1][1]
      BY <1>12, <1>13 DEF Here
    <2>2. CASE q = <<>>
      <3>1. Len(q) = 0 /\ Len(q) + 1 = 1
        BY <2>2
      <3>2. r[1] = <<fsent + 1, 1>>
        BY <1>5, <1>13, <3>1
      <3> QED
        BY <1>9, <2>1, <2>2, <3>2 DEF Here
    <2>3. CASE q # <<>>
      <3>1. 1 \in 1 .. Len(q)
        BY <1>10, <2>3
      <3>2. r[1] = q[1]
        BY <1>13, <3>1
      <3> QED
        BY <1>9, <2>1, <2>3, <3>2 DEF Here
    <2> QED
      BY <2>2, <2>3
  <1>15. Done' = Done
    BY <1>14 DEF Done
  <1>16. InTyped'
    <2>1. inwire' \in Seq(Octet)
      BY <1>1, <1>4, <1>5, <1>6, Joined
    <2> QED
      BY <1>1, <1>2, <1>3, <2>1 DEF InTyped
  <1>17. Stream(Ahead_, fsent)'
    <2>1. Stream(q \o BytesOf(fsent + 1), fsent + 1)
      BY <1>2, <1>3, <1>9, StreamAdds
    <2> QED
      BY <1>1, <1>4, <1>11, <1>12, <2>1
  <1>18. AtReply'
    BY <1>1, <1>2, <1>12, <1>13, <1>14 DEF AtReply
  <1>19. Exhausted'
    BY <1>1, <1>2, <1>7 DEF Exhausted, WholeFrame, AtFrame, Current
  <1>20. sent' = Received(fsent + 1)
    BY <1>1 DEF Received
  <1>21. Assembled'
    <2>1. Received(fsent)' = Received(fsent + 1) /\ Received(Done)' = Received(Done) /\ Kept(Done)' = Kept(Done)
      BY <1>1, <1>15 DEF Received, Kept
    <2> QED
      BY <1>1, <1>2, <1>20, <2>1 DEF Assembled
  <1> QED
    BY <1>3, <1>16, <1>17, <1>18, <1>19, <1>20, <1>21 DEF InInv

\* recv moves bytes from the wire to the buffer.
LEMMA RecvReads ==
    ASSUME InInv, NEW n \in Nat, Recv(n)
    PROVE  InInv'
  <1>1. /\ fsent' = fsent /\ sent' = sent /\ np_' = np_ /\ msg_' = msg_ /\ delivered' = delivered /\ left' = left
        /\ pc = "recv" /\ n \in 1 .. buf_len /\ n <= Len(inwire)
        /\ rdr_' = SubSeq(rdr_, 1, rsz_) \o SubSeq(inwire, 1, n)
        /\ rsz_' = rsz_ + n /\ idx' = 0 /\ pc' = "parse"
        /\ inwire' = SubSeq(inwire, n + 1, Len(inwire))
    BY DEF Recv
  <1>2. InTyped /\ Stream(Ahead_, fsent) /\ AtReply /\ Assembled
    BY DEF InInv
  <1>3. /\ rdr_ \in Seq(Octet) /\ inwire \in Seq(Octet) /\ idx = 0 /\ rsz_ = Len(rdr_) /\ rsz_ \in Nat
        /\ n \in 0 .. Len(inwire) /\ 0 \in 0 .. Len(rdr_)
    BY <1>1, <1>2 DEF InTyped
  <1>4. SubSeq(rdr_, 1, rsz_) = rdr_
    BY <1>3, Slices
  <1>5. PICK h : h = SubSeq(inwire, 1, n)
    OBVIOUS
  <1>6. h \in Seq(Octet) /\ Len(h) = n /\ inwire' \in Seq(Octet)
    BY <1>1, <1>3, <1>5, Slices
  <1>7. PICK b : b = rdr_ \o h
    OBVIOUS
  <1>8. b \in Seq(Octet) /\ Len(b) = rsz_ + n /\ rdr_' = b
    <2>1. b \in Seq(Octet) /\ Len(b) = Len(rdr_) + Len(h)
      BY <1>3, <1>6, <1>7, Joined
    <2>2. rdr_' = b
      BY <1>1, <1>4, <1>5, <1>7, Zenon
    <2> QED
      BY <1>3, <1>6, <2>1, <2>2
  <1>9. SubSeq(b, 1, Len(b)) = b
    BY <1>8, <1>3, Slices
  <1>10. Unparsed' = b
    BY <1>1, <1>3, <1>8, <1>9 DEF Unparsed
  <1>11. Unparsed = rdr_
    BY <1>3, <1>4 DEF Unparsed
  <1>12. Ahead_' = Ahead_
    <2>1. (rdr_ \o SubSeq(inwire, 1, n)) \o SubSeq(inwire, n + 1, Len(inwire)) = rdr_ \o inwire
      BY <1>3, MovedOver
    <2> QED
      BY <1>1, <1>5, <1>7, <1>10, <1>11, <2>1 DEF Ahead_
  <1>13. Here' = Here
    BY <1>1, <1>12 DEF Here
  <1>14. Done' = Done
    BY <1>13 DEF Done
  <1>15. InTyped'
    <2>1. idx' + rsz_' = Len(rdr_') /\ rsz_' \in Nat /\ idx' \in Nat
      BY <1>1, <1>3, <1>8
    <2> QED
      BY <1>1, <1>2, <1>6, <1>8, <2>1 DEF InTyped
  <1>16. Stream(Ahead_, fsent)'
    BY <1>1, <1>2, <1>12
  <1>17. AtReply'
    BY <1>1, <1>2, <1>12, <1>13 DEF AtReply
  <1>18. Exhausted'
    BY <1>1 DEF Exhausted
  <1>19. Assembled'
    <2>1. Received(fsent)' = Received(fsent) /\ Received(Done)' = Received(Done) /\ Kept(Done)' = Kept(Done)
      BY <1>1, <1>14 DEF Received, Kept
    <2> QED
      BY <1>1, <1>2, <2>1 DEF Assembled
  <1> QED
    BY <1>15, <1>16, <1>17, <1>18, <1>19 DEF InInv

\* The parser needs more: the bytes left move to the start of the buffer.
LEMMA ParseMoreReads ==
    ASSUME InInv, ParseMore
    PROVE  InInv'
  <1>1. /\ fsent' = fsent /\ sent' = sent /\ inwire' = inwire /\ np_' = np_ /\ rsz_' = rsz_
        /\ msg_' = msg_ /\ delivered' = delivered /\ left' = left
        /\ pc' = "recv" /\ rdr_' = Unparsed /\ idx' = 0
        /\ IF np_ = "init" THEN rsz_ < Reply.status ELSE ~ WholeFrame
    BY DEF ParseMore
  <1>2. InTyped /\ Stream(Ahead_, fsent) /\ AtReply /\ Assembled
    BY DEF InInv
  <1>3. Unparsed \in Seq(Octet) /\ Len(Unparsed) = rsz_ /\ rsz_ \in Nat
    BY <1>2, AheadIs DEF InTyped
  <1>4. Unparsed' = Unparsed
    <2>1. PICK u : u = Unparsed
      OBVIOUS
    <2>2. u \in Seq(Octet) /\ Len(u) = rsz_ /\ 0 \in 0 .. Len(u)
      BY <1>3, <2>1
    <2>3. SubSeq(u, 1, Len(u)) = u
      BY <2>2, Slices
    <2>4. Unparsed' = SubSeq(u, 1, rsz_)
      BY <1>1, <1>3, <2>1 DEF Unparsed
    <2> QED
      BY <2>1, <2>2, <2>3, <2>4
  <1>5. Ahead_' = Ahead_
    BY <1>1, <1>4 DEF Ahead_
  <1>6. Here' = Here
    BY <1>1, <1>5 DEF Here
  <1>7. Done' = Done
    BY <1>6 DEF Done
  <1>8. InTyped'
    <2>1. idx' + rsz_' = Len(rdr_') /\ rsz_' \in Nat /\ idx' \in Nat /\ rdr_' \in Seq(Octet)
      BY <1>1, <1>3
    <2> QED
      BY <1>1, <1>2, <2>1 DEF InTyped
  <1>9. Stream(Ahead_, fsent)'
    BY <1>1, <1>2, <1>5
  <1>10. AtReply'
    BY <1>1, <1>2, <1>5, <1>6 DEF AtReply
  <1>11. Exhausted'
    <2>1. WholeFrame' <=> WholeFrame
      BY <1>1, <1>4 DEF WholeFrame, AtFrame, Current
    <2> QED
      BY <1>1, <2>1 DEF Exhausted
  <1>12. Assembled'
    <2>1. Received(fsent)' = Received(fsent) /\ Received(Done)' = Received(Done) /\ Kept(Done)' = Kept(Done)
      BY <1>1, <1>7 DEF Received, Kept
    <2> QED
      BY <1>1, <1>2, <2>1 DEF Assembled
  <1> QED
    BY <1>8, <1>9, <1>10, <1>11, <1>12 DEF InInv

\* What is ahead once the frame in front was consumed.
LEMMA FrameConsumed ==
    ASSUME InInv, Ahead_ # <<>>, Total(Here) <= rsz_, Consume(Total(Here)),
           rdr_' = rdr_, inwire' = inwire, fsent' = fsent
    PROVE  /\ Stream(Ahead_, fsent)' /\ Here' = Here + 1 /\ Here \in 0 .. fsent
           /\ idx' \in Nat /\ rsz_' \in Nat /\ idx' + rsz_' = Len(rdr_')
  <1>1. InTyped /\ Stream(Ahead_, fsent)
    BY DEF InInv
  <1>2. PICK T : T = Total(Here)
    OBVIOUS
  <1>3. /\ Here \in 0 .. fsent /\ Ahead_[1] = <<Here, 1>> /\ fsent \in Nat
        /\ fsent \in 0 .. Len(Script) /\ Here \in 0 .. Len(Script) /\ Here \in Nat
    <2>1. Here \in 0 .. fsent /\ Ahead_[1] = <<Here, 1>> /\ fsent \in Nat /\ fsent \in 0 .. Len(Script)
      BY <1>1, HereIs
    <2> QED
      BY <2>1
  <1>4. T \in Nat \ {0}
    BY <1>2, <1>3, TotalPositive
  <1>5. /\ rdr_ \in Seq(Octet) /\ inwire \in Seq(Octet) /\ idx \in Nat /\ rsz_ \in Nat
        /\ idx + rsz_ = Len(rdr_) /\ idx \in 0 .. Len(rdr_) /\ T \in 0 .. Len(rdr_) - idx
        /\ T \in 0 .. rsz_ /\ Len(rdr_) \in Nat
    <2>1. /\ rdr_ \in Seq(Octet) /\ inwire \in Seq(Octet) /\ idx \in Nat /\ rsz_ \in Nat
          /\ idx + rsz_ = Len(rdr_) /\ Len(rdr_) \in Nat
      BY <1>1 DEF InTyped
    <2>2. T <= rsz_
      BY <1>2
    <2> QED
      BY <1>4, <2>1, <2>2
  <1>6. idx' = idx + T /\ rsz_' = rsz_ - T
    BY <1>2 DEF Consume
  <1>7. idx' \in Nat /\ rsz_' \in Nat /\ idx' + rsz_' = Len(rdr_)
    BY <1>4, <1>5, <1>6
  <1>8. PICK u : u = Unparsed
    OBVIOUS
  <1>9. u \in Seq(Octet) /\ Len(u) = rsz_ /\ u = SubSeq(rdr_, idx + 1, Len(rdr_)) /\ Len(u) = Len(rdr_) - idx
    <2>1. u \in Seq(Octet) /\ Len(u) = rsz_ /\ u = SubSeq(rdr_, idx + 1, Len(rdr_))
      BY <1>1, <1>8, AheadIs
    <2> QED
      BY <1>5, <2>1
  <1>10. Unparsed' = SubSeq(u, T + 1, Len(u))
    <2>1. Unparsed' = SubSeq(rdr_, idx + T + 1, Len(rdr_))
      BY <1>6, <1>7 DEF Unparsed
    <2>2. SubSeq(SubSeq(rdr_, idx + 1, Len(rdr_)), T + 1, Len(rdr_) - idx) = SubSeq(rdr_, idx + T + 1, Len(rdr_))
      BY <1>5, CutAgain
    <2> QED
      BY <1>9, <2>1, <2>2
  <1>11. PICK q : q = Ahead_
    OBVIOUS
  <1>12. q = u \o inwire
    BY <1>8, <1>11 DEF Ahead_
  <1>13. Ahead_' = SubSeq(q, T + 1, Len(q))
    <2>1. SubSeq(u \o inwire, T + 1, Len(u \o inwire)) = SubSeq(u, T + 1, Len(u)) \o inwire
      BY <1>5, <1>9, CutFirst
    <2> QED
      BY <1>10, <1>12, <2>1 DEF Ahead_
  <1>14. PICK f : f = Here
    OBVIOUS
  <1>15. q[1][1] = f /\ q # <<>> /\ Stream(q, fsent)
    BY <1>1, <1>3, <1>11, <1>14
  <1>16. PICK g \in 0 .. fsent : \E r :
            /\ r = SubSeq(q, Total(g) + 1, Len(q)) /\ q[1] = <<g, 1>>
            /\ Stream(r, fsent) /\ (r = <<>> => g = fsent) /\ (r # <<>> => r[1] = <<g + 1, 1>>)
    BY <1>3, <1>15, FrameAhead
  <1>17. PICK r :
            /\ r = SubSeq(q, Total(g) + 1, Len(q)) /\ q[1] = <<g, 1>>
            /\ Stream(r, fsent) /\ (r = <<>> => g = fsent) /\ (r # <<>> => r[1] = <<g + 1, 1>>)
    BY <1>16, Zenon
  <1>18. f = g
    BY <1>15, <1>17
  <1>19. Ahead_' = r
    BY <1>2, <1>13, <1>14, <1>17, <1>18
  <1>20. Here' = f + 1
    <2>1. CASE r = <<>>
      BY <1>17, <1>18, <1>19, <2>1 DEF Here
    <2>2. CASE r # <<>>
      <3>1. Here' = r[1][1]
        BY <1>19, <2>2 DEF Here
      <3> QED
        <4>1. r[1] = <<g + 1, 1>>
          BY <1>17, <2>2, Zenon
        <4>2. r[1][1] = g + 1
          BY <4>1
        <4> QED
          BY <1>18, <3>1, <4>2
    <2> QED
      BY <2>1, <2>2
  <1>21. Stream(Ahead_, fsent)'
    BY <1>17, <1>19
  <1> QED
    BY <1>3, <1>7, <1>14, <1>20, <1>21

\* Where a whole frame is at the front, it is the frame the client is at.
LEMMA WholeFrameIs ==
    ASSUME InInv, np_ = "ws", WholeFrame
    PROVE  /\ Ahead_ # <<>> /\ Unparsed[1][1] = Here /\ Total(Here) <= rsz_
           /\ Here \in 1 .. fsent /\ Here \in 1 .. Len(Script) /\ Done = Here - 1 /\ fsent \in 0 .. Len(Script)
  <1>1. InTyped /\ Stream(Ahead_, fsent) /\ AtReply
    BY DEF InInv
  <1>2. Unparsed # <<>> /\ rsz_ >= Total(Unparsed[1][1])
    BY DEF WholeFrame, AtFrame
  <1>3. Ahead_ # <<>> /\ Ahead_[1] = Unparsed[1]
    BY <1>1, <1>2, AheadIs
  <1>4. Here \in 0 .. fsent /\ Ahead_[1] = <<Here, 1>> /\ fsent \in Nat /\ fsent \in 0 .. Len(Script)
    BY <1>1, <1>3, HereIs
  <1>5. Here > 0
    BY <1>1 DEF AtReply
  <1>6. Unparsed[1][1] = Here
    BY <1>3, <1>4
  <1>7. Total(Here) \in Nat
    BY <1>4, TotalPositive
  <1>8. rsz_ \in Nat /\ rsz_ >= Total(Here)
    BY <1>1, <1>2, <1>6 DEF InTyped
  <1>9. Here \in 1 .. fsent /\ Here \in 1 .. Len(Script) /\ Here # 0
    BY <1>4, <1>5, TotalPositive
  <1> QED
    BY <1>3, <1>4, <1>6, <1>7, <1>8, <1>9 DEF Done

\* The handler of a frame gives parse_msg what the frame completes.
LEMMA OnFrameIs ==
    ASSUME InInv, NEW f \in 1 .. Len(Script), delivered = Received(f - 1), msg_ = Kept(f - 1), OnFrame(f)
    PROVE  delivered' = Received(f) /\ msg_' = Kept(f)
  <1>1. left \in Seq(Nat)
    BY DEF InInv, InTyped
  <1>2. f \in DOMAIN Script
    BY ScriptAssumption
  <1>3. IsData(f) => (Script[f].op = "text" <=> Meant[f - 1].open = <<>>)
    BY <1>2, ScriptAssumption
  <1>4. /\ ~ (IsData(f) /\ Script[f].fin) => Received(f) = Received(f - 1)
        /\ IsData(f) /\ Script[f].fin =>
             Received(f) = Append(Received(f - 1),
                                  IF Meant[f - 1].open # <<>> THEN Append(Kept(f - 1), f) ELSE <<f>>)
    BY <1>1, ReceivedStep
  <1>5. /\ ~ IsData(f) => Kept(f) = Kept(f - 1)
        /\ IsData(f) /\ Script[f].fin =>
              Kept(f) = IF Meant[f - 1].open # <<>> THEN <<>> ELSE Kept(f - 1)
        /\ IsData(f) /\ ~ Script[f].fin => Kept(f) = Append(Kept(f - 1), f)
    BY <1>1, KeptStep
  <1>6. CASE ~ IsData(f)
    <2>1. delivered' = delivered /\ msg_' = msg_
      BY <1>6 DEF OnFrame, IsData
    <2> QED
      BY <1>4, <1>5, <1>6, <2>1
  <1>7. CASE IsData(f) /\ ~ Script[f].fin
    <2>1. delivered' = delivered /\ msg_' = Append(msg_, f)
      BY <1>7 DEF OnFrame, IsData
    <2> QED
      BY <1>4, <1>5, <1>7, <2>1
  <1>8. CASE IsData(f) /\ Script[f].fin /\ Script[f].op = "text"
    <2>1. delivered' = Append(delivered, <<f>>) /\ msg_' = msg_
      BY <1>8 DEF OnFrame, IsData
    <2>2. Meant[f - 1].open = <<>>
      BY <1>3, <1>8
    <2> QED
      BY <1>4, <1>5, <1>8, <2>1, <2>2
  <1>9. CASE IsData(f) /\ Script[f].fin /\ Script[f].op # "text"
    <2>1. delivered' = Append(delivered, Append(msg_, f)) /\ msg_' = <<>>
      BY <1>9 DEF OnFrame, IsData
    <2>2. Meant[f - 1].open # <<>>
      BY <1>3, <1>9
    <2> QED
      BY <1>4, <1>5, <1>9, <2>1, <2>2
  <1> QED
    BY <1>6, <1>7, <1>8, <1>9

\* A frame kept is a number.
LEMMA KeptTyped ==
    ASSUME left \in Seq(Nat), NEW n \in 0 .. Len(Script)
    PROVE  Kept(n) \in Seq(Nat)
  <1>1. PICK o : o = Meant[n].open
    OBVIOUS
  <1>2. o \in Seq(Nat)
    BY <1>1, MessagesIs
  <1>3. left \o o \in Seq(Nat)
    BY <1>2
  <1> QED
    BY <1>1, <1>2, <1>3 DEF Kept

\* The websocket parser handles the frame in front.
LEMMA ParseWsReads ==
    ASSUME InInv, ParseWs
    PROVE  /\ InInv' /\ Here \in 1 .. fsent /\ fsent \in 0 .. Len(Script)
           /\ delivered = Received(Here - 1) /\ delivered' = Received(Here)
  <1>1. /\ pc = "parse" /\ np_ = "ws" /\ WholeFrame
        /\ OnFrame(Unparsed[1][1]) /\ Consume(Total(Unparsed[1][1]))
        /\ fsent' = fsent /\ sent' = sent /\ inwire' = inwire /\ np_' = np_ /\ pc' = pc /\ rdr_' = rdr_
        /\ left' = left
    BY DEF ParseWs
  <1>2. InTyped /\ Stream(Ahead_, fsent) /\ AtReply /\ Assembled
    BY DEF InInv
  <1>3. /\ Ahead_ # <<>> /\ Unparsed[1][1] = Here /\ Total(Here) <= rsz_ /\ fsent \in 0 .. Len(Script)
        /\ Here \in 1 .. fsent /\ Here \in 1 .. Len(Script) /\ Done = Here - 1
    BY <1>1, WholeFrameIs
  <1>4. OnFrame(Here) /\ Consume(Total(Here))
    BY <1>1, <1>3
  <1>5. /\ Stream(Ahead_, fsent)' /\ Here' = Here + 1
        /\ idx' \in Nat /\ rsz_' \in Nat /\ idx' + rsz_' = Len(rdr_')
    BY <1>1, <1>3, <1>4, FrameConsumed
  <1>6. delivered = Received(Here - 1) /\ msg_ = Kept(Here - 1)
    BY <1>2, <1>3 DEF Assembled
  <1>7. delivered' = Received(Here) /\ msg_' = Kept(Here)
    BY <1>3, <1>4, <1>6, OnFrameIs
  <1>8. Here' > 0 /\ Here' # 0 /\ Done' = Here
    <2>1. Here' > 0 /\ Here' # 0 /\ Here' - 1 = Here
      BY <1>3, <1>5, TotalPositive
    <2> QED
      BY <2>1 DEF Done
  <1>9. msg_' \in Seq(Nat)
    <2>1. Here \in 0 .. Len(Script) /\ left \in Seq(Nat)
      BY <1>2, <1>3, TotalPositive DEF InTyped
    <2> QED
      BY <1>7, <2>1, KeptTyped
  <1>10. InTyped'
    BY <1>1, <1>2, <1>5, <1>9 DEF InTyped
  <1>11. AtReply'
    BY <1>1, <1>8 DEF AtReply
  <1>12. Exhausted'
    BY <1>1 DEF Exhausted
  <1>13. Assembled'
    <2>1. Received(fsent)' = Received(fsent) /\ Received(Done)' = Received(Here) /\ Kept(Done)' = Kept(Here)
      BY <1>1, <1>8 DEF Received, Kept
    <2> QED
      BY <1>1, <1>2, <1>7, <2>1 DEF Assembled
  <1> QED
    BY <1>3, <1>5, <1>6, <1>7, <1>10, <1>11, <1>12, <1>13 DEF InInv

\* The handshake's reply: consumed, or left to the websocket parser.
LEMMA ParseReplyReads ==
    ASSUME InInv, ParseReply
    PROVE  InInv'
  <1>1. /\ pc = "parse" /\ np_ = "init"
        /\ fsent' = fsent /\ sent' = sent /\ inwire' = inwire /\ left' = left /\ rdr_' = rdr_
        /\ msg_' = msg_ /\ delivered' = delivered
    BY DEF ParseReply
  <1>2. InTyped /\ Stream(Ahead_, fsent) /\ AtReply /\ Assembled
    BY DEF InInv
  <1>3. Ahead_ # <<>> /\ Here = 0 /\ Done = 0
    BY <1>1, <1>2 DEF AtReply, Done
  <1>4. Total(Here) = Reply.hdr
    BY <1>3, TotalPositive
  <1>5. CASE rsz_ >= Reply.hdr
    <2>1. np_' = "ws" /\ Consume(Reply.hdr) /\ pc' = pc
      BY <1>5 DEF ParseReply
    <2>2. Total(Here) <= rsz_
      BY <1>2, <1>4, <1>5, TotalPositive DEF InTyped
    <2>3. /\ Stream(Ahead_, fsent)' /\ Here' = Here + 1
          /\ idx' \in Nat /\ rsz_' \in Nat /\ idx' + rsz_' = Len(rdr_')
      BY <1>1, <1>3, <1>4, <2>1, <2>2, FrameConsumed
    <2>4. Here' = 1 /\ Done' = 0
      <3>1. Here' = 1
        BY <1>3, <2>3
      <3> QED
        BY <3>1 DEF Done
    <2>5. InTyped'
      BY <1>1, <1>2, <2>1, <2>3 DEF InTyped
    <2>6. AtReply'
      BY <2>1, <2>4 DEF AtReply
    <2>7. Exhausted'
      BY <1>1, <2>1 DEF Exhausted
    <2>8. Assembled'
      <3>1. Received(fsent)' = Received(fsent) /\ Received(Done)' = Received(Done) /\ Kept(Done)' = Kept(Done)
        BY <1>1, <1>3, <2>4 DEF Received, Kept
      <3> QED
        BY <1>1, <1>2, <3>1 DEF Assembled
    <2> QED
      BY <2>3, <2>5, <2>6, <2>7, <2>8 DEF InInv
  <1>6. CASE ~ (rsz_ >= Reply.hdr)
    <2>1. np_' = "lost" /\ pc' = "recv" /\ idx' = idx /\ rsz_' = rsz_
      BY <1>6 DEF ParseReply
    <2>2. Unparsed' = Unparsed
      BY <1>1, <2>1 DEF Unparsed
    <2>3. Ahead_' = Ahead_
      BY <1>1, <2>2 DEF Ahead_
    <2>4. Here' = Here
      BY <1>1, <2>3 DEF Here
    <2>5. Done' = Done
      BY <2>4 DEF Done
    <2>6. InTyped'
      BY <1>1, <1>2, <2>1 DEF InTyped
    <2>7. Stream(Ahead_, fsent)'
      BY <1>1, <1>2, <2>3
    <2>8. AtReply'
      BY <1>3, <2>1, <2>3, <2>4 DEF AtReply
    <2>9. Exhausted'
      BY <2>1 DEF Exhausted
    <2>10. Assembled'
      <3>1. Received(fsent)' = Received(fsent) /\ Received(Done)' = Received(Done) /\ Kept(Done)' = Kept(Done)
        BY <1>1, <2>5 DEF Received, Kept
      <3> QED
        BY <1>1, <1>2, <3>1 DEF Assembled
    <2> QED
      BY <2>6, <2>7, <2>8, <2>9, <2>10 DEF InInv
  <1> QED
    BY <1>5, <1>6

\* A connection that has just been made, with what the parser was left.
LEMMA FreshConnection ==
    ASSUME NEW l, l \in Seq(Nat)
    PROVE  /\ BytesOf(0) \in Seq(Octet) /\ BytesOf(0) # <<>> /\ BytesOf(0)[1] = <<0, 1>>
           /\ Stream(BytesOf(0), 0)
           /\ <<>> \o BytesOf(0) = BytesOf(0) /\ SubSeq(<<>>, 1, 0) = <<>>
           /\ 0 \in 0 .. Len(Script) /\ l \o <<>> = l /\ Reply.status > 0
  <1>1. 0 \in 0 .. Len(Script) /\ Total(0) \in Nat \ {0}
    BY TotalPositive
  <1>2. PICK t : t = BytesOf(0)
    OBVIOUS
  <1>3. t \in Seq(Octet) /\ Len(t) = Total(0) /\ \A i \in 1 .. Total(0) : t[i] = <<0, i>>
    BY <1>1, <1>2, BytesIs
  <1>4. t # <<>> /\ t[1] = <<0, 1>> /\ t[Len(t)] = <<0, Total(0)>>
    BY <1>1, <1>3
  <1>5. \A i \in 1 .. Len(t) : t[i][1] <= 0 /\ t[i][2] \in 1 .. Total(t[i][1])
    <2> TAKE i \in 1 .. Len(t)
    <2>1. t[i] = <<0, i>> /\ i \in 1 .. Total(0)
      BY <1>1, <1>3
    <2> QED
      BY <2>1
  <1>6. \A i \in 1 .. Len(t) : i + 1 <= Len(t) => t[i + 1] = Succ(t[i])
    <2> TAKE i \in 1 .. Len(t)
    <2> HAVE i + 1 <= Len(t)
    <2>1. t[i] = <<0, i>> /\ t[i + 1] = <<0, i + 1>> /\ i < Total(0)
      BY <1>1, <1>3
    <2> QED
      BY <2>1 DEF Succ
  <1>7. Stream(t, 0)
    BY <1>3, <1>4, <1>5, <1>6 DEF Stream
  <1>8. <<>> \o t = t /\ SubSeq(<<>>, 1, 0) = <<>> /\ l \o <<>> = l
    BY <1>3
  <1>9. Reply.status > 0
    BY NetAssumption
  <1> QED
    BY <1>1, <1>2, <1>3, <1>4, <1>7, <1>8, <1>9

\* Nothing was received at first, and what is kept is what was left.
LEMMA NothingReceived ==
    ASSUME left \in Seq(Nat)
    PROVE  Received(0) = <<>> /\ Kept(0) = left
  <1>1. 0 \in 0 .. Len(Script) /\ Messages(0) = <<>> /\ Meant[0].open = <<>>
    BY MessagesIs, TotalPositive
  <1>2. Received(0) \in Seq(Seq(Nat)) /\ Len(Received(0)) = 0
    BY <1>1, ReceivedIs
  <1>3. NoneSplit(0)
    BY <1>1 DEF NoneSplit
  <1>4. left \o <<>> = left
    OBVIOUS
  <1> QED
    BY <1>1, <1>2, <1>3, <1>4 DEF Kept

\* The connection when the client starts.
LEMMA InitReads == Init => InInv
  <1> SUFFICES ASSUME Init PROVE InInv
    OBVIOUS
  <1>1. /\ fsent = 0 /\ sent = <<>> /\ inwire = BytesOf(0) /\ np_ = "init" /\ pc = "recv"
        /\ rdr_ = <<>> /\ idx = 0 /\ rsz_ = 0 /\ msg_ = <<>> /\ delivered = <<>> /\ left = <<>>
    BY DEF Init
  <1>2. left \in Seq(Nat)
    BY <1>1
  <1>3. /\ BytesOf(0) \in Seq(Octet) /\ BytesOf(0) # <<>> /\ BytesOf(0)[1] = <<0, 1>>
        /\ Stream(BytesOf(0), 0)
        /\ <<>> \o BytesOf(0) = BytesOf(0) /\ SubSeq(<<>>, 1, 0) = <<>>
        /\ 0 \in 0 .. Len(Script) /\ Reply.status > 0
    BY <1>2, FreshConnection
  <1>4. Unparsed = <<>>
    <2>1. Unparsed = SubSeq(<<>>, 0 + 1, 0 + 0)
      BY <1>1 DEF Unparsed
    <2> QED
      BY <2>1
  <1>5. Ahead_ = BytesOf(0)
    BY <1>1, <1>3, <1>4 DEF Ahead_
  <1>6. Here = 0
    BY <1>3, <1>5 DEF Here
  <1>7. Done = 0
    BY <1>6 DEF Done
  <1>8. InTyped
    <2>1. rdr_ \in Seq(Octet) /\ Len(rdr_) = 0 /\ msg_ \in Seq(Nat)
      BY <1>1
    <2> QED
      BY <1>1, <1>2, <1>3, <2>1 DEF InTyped
  <1>9. Received(0) = <<>> /\ Kept(0) = left
    BY <1>2, NothingReceived
  <1>10. Assembled
    BY <1>1, <1>7, <1>9 DEF Assembled
  <1>11. AtReply
    BY <1>1, <1>3, <1>5, <1>6 DEF AtReply
  <1>12. Exhausted
    BY <1>1, <1>3 DEF Exhausted
  <1> QED
    BY <1>1, <1>3, <1>5, <1>8, <1>10, <1>11, <1>12 DEF InInv

\* The connection breaks: what the parser kept is left to the next one.
LEMMA BreakReads ==
    ASSUME InInv, Break
    PROVE  InInv' /\ sent' = <<>> /\ delivered' = <<>>
  <1>1. /\ fsent' = 0 /\ sent' = <<>> /\ inwire' = BytesOf(0) /\ np_' = "init" /\ pc' = "recv"
        /\ rdr_' = <<>> /\ idx' = 0 /\ rsz_' = 0 /\ msg_' = msg_ /\ delivered' = <<>> /\ left' = msg_
    BY DEF Break
  <1>2. msg_ \in Seq(Nat)
    BY DEF InInv, InTyped
  <1>3. /\ BytesOf(0) \in Seq(Octet) /\ BytesOf(0) # <<>> /\ BytesOf(0)[1] = <<0, 1>>
        /\ Stream(BytesOf(0), 0)
        /\ <<>> \o BytesOf(0) = BytesOf(0) /\ SubSeq(<<>>, 1, 0) = <<>>
        /\ 0 \in 0 .. Len(Script) /\ Reply.status > 0
    BY <1>2, FreshConnection
  <1>4. Unparsed' = <<>>
    <2>1. Unparsed' = SubSeq(<<>>, 0 + 1, 0 + 0)
      BY <1>1 DEF Unparsed
    <2> QED
      BY <2>1
  <1>5. Ahead_' = BytesOf(0)
    BY <1>1, <1>3, <1>4 DEF Ahead_
  <1>6. Here' = 0
    BY <1>3, <1>5 DEF Here
  <1>7. Done' = 0
    BY <1>6 DEF Done
  <1>8. InTyped'
    <2>1. rdr_' \in Seq(Octet) /\ Len(rdr_') = 0
      BY <1>1
    <2> QED
      BY <1>1, <1>2, <1>3, <2>1 DEF InTyped
  <1>9. Received(0)' = <<>> /\ Kept(0)' = msg_
    <2>1. 0 \in 0 .. Len(Script) /\ Messages(0) = <<>> /\ Meant[0].open = <<>>
      BY MessagesIs, TotalPositive
    <2>2. Received(0)' = <<>>
      <3>1. DOMAIN <<>> = {}
        OBVIOUS
      <3>2. \A e, f : [k \in {} |-> e] = <<>>
        OBVIOUS
      <3> QED
        BY <2>1, <3>1, <3>2 DEF Received
    <2>3. NoneSplit(0)
      BY <2>1 DEF NoneSplit
    <2>4. msg_ \o <<>> = msg_
      BY <1>2
    <2> QED
      BY <1>1, <2>1, <2>2, <2>3, <2>4 DEF Kept
  <1>10. Assembled'
    BY <1>1, <1>7, <1>9 DEF Assembled
  <1>11. AtReply'
    BY <1>1, <1>3, <1>5, <1>6 DEF AtReply
  <1>12. Exhausted'
    BY <1>1, <1>3 DEF Exhausted
  <1> QED
    BY <1>1, <1>3, <1>5, <1>8, <1>10, <1>11, <1>12 DEF InInv

\* A step of the connection keeps what the client has read in order.
LEMMA StepReads ==
    ASSUME InInv, [Next]_vars
    PROVE  InInv'
  <1>1. CASE PeerSend
    BY <1>1, PeerSendReads
  <1>2. CASE \E n \in 1 .. buf_len : Recv(n)
    <2>1. PICK n \in 1 .. buf_len : Recv(n)
      BY <1>2
    <2>2. n \in Nat
      BY NetAssumption
    <2> QED
      BY <2>1, <2>2, RecvReads
  <1>3. CASE ParseWs
    BY <1>3, ParseWsReads
  <1>4. CASE ParseReply
    BY <1>4, ParseReplyReads
  <1>5. CASE ParseMore
    BY <1>5, ParseMoreReads
  <1>6. CASE \E size \in OutSizes : Write(size)
    <2>1. UNCHANGED <<fsent, sent, inwire, inVars, left>>
      BY <1>6 DEF Write
    <2> QED
      BY <2>1, ReadingSame
  <1>7. CASE \E n \in 1 .. net_buf_len : PollSend(n)
    <2>1. UNCHANGED <<fsent, sent, inwire, inVars, left>>
      BY <1>7 DEF PollSend
    <2> QED
      BY <2>1, ReadingSame
  <1>8. CASE Break
    BY <1>8, BreakReads
  <1>9. CASE UNCHANGED vars
    <2>1. UNCHANGED <<fsent, sent, inwire, inVars, left>>
      BY <1>9 DEF vars
    <2> QED
      BY <2>1, ReadingSame
  <1> QED
    BY <1>1, <1>2, <1>3, <1>4, <1>5, <1>6, <1>7, <1>8, <1>9 DEF Next

\* poll_recv holds nothing back: with nothing on the wire, the parser has
\* taken the last frame.
LEMMA AllTaken ==
    ASSUME InInv
    PROVE  NothingHeldBack
  <1> SUFFICES ASSUME inwire = <<>>, pc = "recv", np_ # "lost" PROVE delivered = sent
    BY DEF NothingHeldBack
  <1>1. InTyped /\ Stream(Ahead_, fsent) /\ AtReply /\ Exhausted /\ Assembled
    BY DEF InInv
  <1>2. /\ Unparsed \in Seq(Octet) /\ Len(Unparsed) = rsz_ /\ rsz_ \in Nat
        /\ fsent \in 0 .. Len(Script) /\ fsent \in Nat
    BY <1>1, AheadIs, HereIs DEF InTyped
  <1>3. Ahead_ = Unparsed
    <2>1. PICK u : u = Unparsed
      OBVIOUS
    <2>2. u \o <<>> = u
      BY <1>2, <2>1
    <2> QED
      BY <2>1, <2>2 DEF Ahead_
  <1>4. ASSUME Ahead_ # <<>> PROVE Total(Here) <= rsz_ /\ Here \in 0 .. fsent /\ Unparsed[1] = <<Here, 1>>
    <2>1. PICK q : q = Ahead_
      OBVIOUS
    <2>2. Stream(q, fsent) /\ q # <<>> /\ Len(q) = rsz_
      BY <1>1, <1>2, <1>3, <1>4, <2>1
    <2>3. PICK f \in 0 .. fsent : Total(f) <= Len(q) /\ q[1] = <<f, 1>>
      BY <1>2, <2>2, FrameAhead
    <2>4. Here \in 0 .. fsent /\ Ahead_[1] = <<Here, 1>>
      BY <1>1, <1>4, HereIs
    <2>5. Here = f
      BY <2>1, <2>3, <2>4
    <2> QED
      BY <1>3, <2>2, <2>3, <2>4, <2>5
  <1>5. CASE np_ = "init"
    <2>1. Ahead_ # <<>> /\ Here = 0 /\ rsz_ < Reply.status
      BY <1>1, <1>5 DEF AtReply, Exhausted
    <2>2. Reply.hdr <= rsz_
      BY <1>4, <2>1, TotalPositive
    <2> QED
      BY <1>2, <2>1, <2>2, NetAssumption
  <1>6. CASE np_ = "ws"
    <2>1. ~ WholeFrame /\ Here > 0
      BY <1>1, <1>6 DEF Exhausted, AtReply
    <2>2. Ahead_ = <<>>
      <3> SUFFICES ASSUME Ahead_ # <<>> PROVE FALSE
        OBVIOUS
      <3>1. Total(Here) <= rsz_ /\ Here \in 0 .. fsent /\ Unparsed[1] = <<Here, 1>>
        BY <1>4
      <3>2. Here \in 1 .. Len(Script)
        BY <1>2, <2>1, <3>1
      <3>3. 2 <= Script[Here].hdr /\ Script[Here].hdr <= Total(Here) /\ Script[Here].hdr \in Nat
        BY <3>2, TotalPositive
      <3>4. Total(Here) \in Nat
        BY <1>2, <3>1, TotalPositive
      <3>5. rsz_ >= 2 /\ rsz_ >= Script[Here].hdr /\ rsz_ >= Total(Here)
        BY <1>2, <3>1, <3>3, <3>4
      <3>6. Unparsed[1][1] = Here /\ Unparsed[1][2] = 1 /\ Unparsed # <<>>
        BY <1>3, <3>1
      <3> QED
        BY <2>1, <3>5, <3>6 DEF WholeFrame, AtFrame, Current
    <2>3. Done = fsent
      <3>1. Here = fsent + 1
        BY <2>2 DEF Here
      <3>2. Here # 0 /\ Here - 1 = fsent
        BY <1>2, <3>1
      <3> QED
        BY <3>2 DEF Done
    <2> QED
      BY <1>1, <2>3 DEF Assembled
  <1> QED
    BY <1>1, <1>5, <1>6 DEF InTyped

\* A step of the connection is one of the channel.
LEMMA StepOnChannel ==
    ASSUME InInv, [Next]_vars
    PROVE  [Channel!Next]_<<sent, delivered>>
  <1>1. InTyped /\ Assembled /\ left \in Seq(Nat) /\ fsent \in 0 .. Len(Script) /\ fsent \in Nat
    BY TotalPositive DEF InInv, InTyped
  <1>2. CASE PeerSend
    <2>1. PICK n : n = fsent + 1
      OBVIOUS
    <2>2. sent' = Received(n) /\ n \in 1 .. Len(Script) /\ n - 1 = fsent /\ delivered' = delivered
      BY <1>1, <1>2, <2>1, PeerSendReads DEF PeerSend, inVars
    <2>3. sent = Received(n - 1)
      BY <1>1, <2>2 DEF Assembled
    <2>4. PICK e : Received(n) = Received(n - 1) \/ Received(n) = Append(Received(n - 1), e)
      BY <1>1, <2>2, ReceivedStep
    <2>5. PICK s : s = Received(n - 1)
      OBVIOUS
    <2>6. s \in Seq(Seq(Nat))
      BY <1>1, <2>2, <2>5, ReceivedIs
    <2>7. sent' = sent \/ sent' = Append(sent, e)
      BY <2>2, <2>3, <2>4
    <2>8. CASE sent' = sent
      BY <2>2, <2>8
    <2>9. CASE sent' = Append(sent, e)
      <3>1. sent = s
        BY <2>3, <2>5
      <3>2. Len(Append(s, e)) = Len(s) + 1 /\ SubSeq(Append(s, e), 1, Len(s)) = s
        BY <2>6
      <3>3. Channel!Send
        BY <2>2, <2>9, <3>1, <3>2 DEF Channel!Send
      <3> QED
        BY <3>3 DEF Channel!Next
    <2> QED
      BY <2>7, <2>8, <2>9
  <1>3. CASE ParseWs
    <2>1. PICK n : n = Here
      OBVIOUS
    <2>2. /\ n \in 1 .. fsent /\ delivered = Received(n - 1) /\ delivered' = Received(n)
          /\ sent' = sent /\ sent = Received(fsent)
      BY <1>1, <1>3, <2>1, ParseWsReads DEF ParseWs, Assembled
    <2>3. n \in 1 .. Len(Script) /\ n \in 0 .. Len(Script) /\ fsent \in n .. Len(Script)
          /\ n - 1 \in 0 .. Len(Script)
      BY <1>1, <2>2, TotalPositive
    <2>4. PICK e : Received(n) = Received(n - 1) \/ Received(n) = Append(Received(n - 1), e)
      BY <1>1, <2>3, ReceivedStep
    <2>5. PICK d : d = Received(n - 1)
      OBVIOUS
    <2>6. PICK b : b = Received(n)
      OBVIOUS
    <2>7. PICK s : s = Received(fsent)
      OBVIOUS
    <2>8. d \in Seq(Seq(Nat)) /\ b \in Seq(Seq(Nat)) /\ s \in Seq(Seq(Nat))
      BY <1>1, <2>3, <2>5, <2>6, <2>7, ReceivedIs
    <2>9. Len(b) <= Len(s) /\ \A k \in 1 .. Len(b) : s[k] = b[k]
      BY <1>1, <2>3, <2>6, <2>7, ReceivedGrows
    <2>10. CASE b = d
      BY <2>2, <2>5, <2>6, <2>10
    <2>11. CASE b = Append(d, e)
      <3>1. Len(b) = Len(d) + 1 /\ b[Len(d) + 1] = e /\ Len(d) \in Nat /\ Len(s) \in Nat
        BY <2>8, <2>11
      <3>2. Len(d) + 1 \in 1 .. Len(b)
        BY <3>1
      <3>3. Len(d) < Len(s) /\ s[Len(d) + 1] = e
        BY <2>9, <3>1, <3>2
      <3>4. Channel!Deliver
        BY <2>2, <2>5, <2>6, <2>7, <2>11, <3>3 DEF Channel!Deliver
      <3> QED
        BY <3>4 DEF Channel!Next
    <2> QED
      BY <2>4, <2>5, <2>6, <2>10, <2>11
  <1>4. CASE Break
    <2>1. Channel!Break
      BY <1>4, BreakReads DEF Channel!Break
    <2> QED
      BY <2>1 DEF Channel!Next
  <1>5. CASE \E n \in 1 .. buf_len : Recv(n)
    BY <1>5 DEF Recv
  <1>6. CASE ParseReply
    BY <1>6 DEF ParseReply
  <1>7. CASE ParseMore
    BY <1>7 DEF ParseMore
  <1>8. CASE \E size \in OutSizes : Write(size)
    BY <1>8 DEF Write, inVars
  <1>9. CASE \E n \in 1 .. net_buf_len : PollSend(n)
    BY <1>9 DEF PollSend, inVars
  <1>10. CASE UNCHANGED vars
    BY <1>10 DEF vars, inVars
  <1> QED
    BY <1>2, <1>3, <1>4, <1>5, <1>6, <1>7, <1>8, <1>9, <1>10 DEF Next

-----------------------------------------------------------------------------
(* The bytes of a connection, on their way out *)

\* A byte with the mask it must have, and one before it is masked.
Masked(m, p) == [msg |-> m, pos |-> p, key |-> IF p <= HdrSize THEN -1 ELSE (p - HdrSize - 1) % 4]
Unmasked(m, p) == [msg |-> m, pos |-> p, key |-> -1]
Bytes == {Masked(m, p) : m \in Nat \ {0}, p \in Nat \ {0}}
Raw == [msg : Nat, pos : Nat, key : Int]

\* Buffers that hold the frame of message m, one after the other.
Holds(F, m, size) ==
    /\ F \in Seq(Seq(Bytes)) /\ F # <<>>
    /\ \A k \in 1 .. Len(F) :
          /\ F[k] # <<>> /\ F[k][1].msg = m
          /\ \A i \in 1 .. Len(F[k]) : F[k][i] = Masked(m, F[k][1].pos + i - 1)
          /\ IF k < Len(F) THEN F[k + 1][1].pos = F[k][Len(F[k])].pos + 1
             ELSE F[k][Len(F[k])].pos = HdrSize + size
    /\ F[1][1].pos = 1

\* A byte's fields.
LEMMA MaskedIs ==
    /\ \A m, p \in Nat \ {0} : Masked(m, p) \in Bytes /\ Masked(m, p).msg = m /\ Masked(m, p).pos = p
    /\ \A b \in Bytes : b.msg \in Nat \ {0} /\ b.pos \in Nat \ {0} /\ b = Masked(b.msg, b.pos)
  <1>1. \A m, p \in Nat \ {0} : Masked(m, p) \in Bytes /\ Masked(m, p).msg = m /\ Masked(m, p).pos = p
    BY DEF Bytes, Masked
  <1>2. ASSUME NEW b \in Bytes PROVE b.msg \in Nat \ {0} /\ b.pos \in Nat \ {0} /\ b = Masked(b.msg, b.pos)
    <2>1. PICK m \in Nat \ {0}, p \in Nat \ {0} : b = Masked(m, p)
      BY DEF Bytes
    <2>2. b.msg = m /\ b.pos = p
      BY <1>1, <2>1
    <2> QED
      BY <2>1, <2>2
  <1> QED
    BY <1>1, <1>2

\* A payload cut into buffers: where each begins, and how many there are.
LEMMA CutSizes ==
    ASSUME NEW size \in Nat \ {0}, NEW L \in Nat \ {0}, NEW C, C = (size + L - 1) \div L
    PROVE  /\ C \in Nat \ {0}
           /\ (C - 1) * L < size /\ size <= (C - 1) * L + L
           /\ \A k \in 1 .. C : /\ (k - 1) * L \in Nat /\ k * L = (k - 1) * L + L
                                /\ k < C => (k - 1) * L + L < size
                                /\ (k - 1) * L < size
  <1>1. C \in Nat /\ C * L <= size + L - 1 /\ size + L - 1 < C * L + L
    OBVIOUS
  <1>2. C # 0
    <2>1. C = 0 => C * L = 0
      OBVIOUS
    <2> QED
      BY <1>1, <2>1
  <1>3. (C - 1) * L = C * L - L /\ C * L \in Nat
    BY <1>1
  <1>4. (C - 1) * L < size /\ size <= (C - 1) * L + L
    BY <1>1, <1>3
  <1>5. ASSUME NEW k \in 1 .. C
        PROVE  /\ (k - 1) * L \in Nat /\ k * L = (k - 1) * L + L
               /\ k < C => (k - 1) * L + L < size
               /\ (k - 1) * L < size
    <2>1. k \in Nat /\ k - 1 \in Nat
      BY <1>1
    <2>2. (k - 1) * L \in Nat /\ k * L = (k - 1) * L + L
      BY <2>1
    <2>3. k < C => k * L <= (C - 1) * L
      BY <1>1, <1>2, <2>1
    <2>4. (k - 1) * L <= (C - 1) * L
      BY <1>1, <1>2, <2>1
    <2>5. (C - 1) * L \in Int
      BY <1>1
    <2> QED
      BY <1>4, <2>2, <2>3, <2>4, <2>5
  <1> QED
    BY <1>1, <1>2, <1>4, <1>5

\* The sizes of the first buffers together.
LEMMA UpToBufIs ==
    ASSUME NEW bufs \in Seq(Seq(Raw))
    PROVE  /\ UpToBuf(bufs)[0] = 0
           /\ \A k \in 1 .. Len(bufs) : UpToBuf(bufs)[k] = UpToBuf(bufs)[k - 1] + Len(bufs[k])
  <1> DEFINE N == Len(bufs)
             G == [x \in Nat \X (1 .. N) |-> x[1] + Len(bufs[x[2]])]
             Is(f) == f = [k \in 0 .. N |-> IF k = 0 THEN 0 ELSE f[k - 1] + Len(bufs[k])]
  <1>1. N \in Nat /\ 0 \in Nat
    OBVIOUS
  <1>2. G \in [Nat \X (1 .. N) -> Nat]
    <2>1. \A k \in 1 .. N : Len(bufs[k]) \in Nat
      <3> TAKE k \in 1 .. N
      <3>1. bufs[k] \in Seq(Raw)
        OBVIOUS
      <3> QED
        BY <3>1
    <2> QED
      BY <2>1
  <1>3. PICK f \in [0 .. N -> Nat] : Loops(f, N, 0, G)
    <2> HIDE DEF G, N
    <2> QED
      BY <1>1, <1>2, LoopDefined
  <1>4. \A k \in 1 .. N : f[k] = f[k - 1] + Len(bufs[k])
    <2> TAKE k \in 1 .. N
    <2>1. k - 1 \in 0 .. N
      BY <1>1
    <2>2. f[k - 1] \in Nat
      BY <1>3, <2>1
    <2>3. <<f[k - 1], k>> \in Nat \X (1 .. N)
      BY <2>2
    <2>4. G[<<f[k - 1], k>>] = f[k - 1] + Len(bufs[k])
      BY <2>3
    <2> QED
      BY <1>3, <2>4 DEF Loops
  <1>5. Is(f)
    <2> DEFINE g == [k \in 0 .. N |-> IF k = 0 THEN 0 ELSE f[k - 1] + Len(bufs[k])]
    <2>1. \A k \in 0 .. N : f[k] = g[k]
      <3> TAKE k \in 0 .. N
      <3>1. k = 0 \/ k \in 1 .. N
        BY <1>1
      <3>2. f[0] = 0
        BY <1>3 DEF Loops
      <3>3. k \in 1 .. N => k # 0 /\ f[k] = f[k - 1] + Len(bufs[k])
        BY <1>1, <1>4
      <3> QED
        BY <3>1, <3>2, <3>3, Zenon
    <2>2. f = g
      BY <1>3, <2>1
    <2> QED
      BY <2>2
  <1>6. UpToBuf(bufs) = CHOOSE g : Is(g)
    BY DEF UpToBuf
  <1>7. Is(CHOOSE g : Is(g))
    <2> HIDE DEF Is
    <2> QED
      BY <1>5
  <1>8. Is(UpToBuf(bufs))
    BY <1>6, <1>7
  <1> HIDE DEF G
  <1>9. \A k \in 0 .. N : UpToBuf(bufs)[k] = IF k = 0 THEN 0 ELSE UpToBuf(bufs)[k - 1] + Len(bufs[k])
    BY <1>8
  <1> QED
    BY <1>1, <1>9

\* The header and the payload of a frame, before it is masked.
Header(m) == [i \in 1 .. HdrSize |-> Unmasked(m, i)]
Payload(m, size) == [i \in 1 .. size |-> Unmasked(m, HdrSize + i)]

\* They are sequences of bytes, and ws_wtr masks their buffers.
LEMMA PartsIs ==
    ASSUME NEW m \in Nat \ {0}, NEW size \in Nat
    PROVE  /\ Header(m) \in Seq(Raw) /\ Len(Header(m)) = HdrSize
           /\ \A i \in 1 .. HdrSize : Header(m)[i] = Unmasked(m, i)
           /\ Payload(m, size) \in Seq(Raw) /\ Len(Payload(m, size)) = size
           /\ \A i \in 1 .. size : Payload(m, size)[i] = Unmasked(m, HdrSize + i)
           /\ Frame(m, size) = Mask(AppendBufs(Header(m), Chunks(Payload(m, size))))
  <1>1. \A p \in Nat : Unmasked(m, p) \in Raw
    BY DEF Unmasked, Raw
  <1>2. Header(m) \in Seq(Raw) /\ Len(Header(m)) = HdrSize /\ \A i \in 1 .. HdrSize : Header(m)[i] = Unmasked(m, i)
    BY <1>1 DEF Header, HdrSize
  <1>3. /\ Payload(m, size) \in Seq(Raw) /\ Len(Payload(m, size)) = size
        /\ \A i \in 1 .. size : Payload(m, size)[i] = Unmasked(m, HdrSize + i)
    BY <1>1 DEF Payload, HdrSize
  <1>4. Frame(m, size) = Mask(AppendBufs(Header(m), Chunks(Payload(m, size))))
    BY DEF Frame, Header, Payload, Unmasked
  <1> QED
    BY <1>2, <1>3, <1>4

\* The buffers of a payload: buffer k begins after position P[k].
CutUp(c, P, m, size) ==
    /\ c \in Seq(Seq(Raw)) /\ Len(c) \in Nat \ {0} /\ P \in [1 .. Len(c) -> Nat] /\ P[1] = 0
    /\ \A k \in 1 .. Len(c) :
          /\ k < Len(c) => P[k + 1] = P[k] + net_buf_len
          /\ Len(c[k]) = IF k < Len(c) THEN net_buf_len ELSE size - P[k]
          /\ Len(c[k]) \in Nat \ {0}
          /\ \A i \in 1 .. Len(c[k]) : c[k][i] = Unmasked(m, HdrSize + P[k] + i)

\* net_wtr::add cuts a payload up so.
LEMMA ChunksIs ==
    ASSUME NEW m \in Nat \ {0}, NEW size \in Nat \ {0}
    PROVE  \E P : CutUp(Chunks(Payload(m, size)), P, m, size)
  <1> DEFINE L == net_buf_len
  <1>1. L \in Nat \ {0}
    BY NetAssumption
  <1>2. PICK C : C = (size + L - 1) \div L
    OBVIOUS
  <1>3. /\ C \in Nat \ {0}
        /\ (C - 1) * L < size /\ size <= (C - 1) * L + L
        /\ \A k \in 1 .. C : /\ (k - 1) * L \in Nat /\ k * L = (k - 1) * L + L
                             /\ k < C => (k - 1) * L + L < size
                             /\ (k - 1) * L < size
    BY <1>1, <1>2, CutSizes
  <1>4. PICK P : P = [k \in 1 .. C |-> (k - 1) * L]
    OBVIOUS
  <1>5. /\ P \in [1 .. C -> Nat] /\ \A k \in 1 .. C : P[k] = (k - 1) * L
    BY <1>3, <1>4
  <1>6. P[1] = 0 /\ \A k \in 1 .. C : k < C => P[k + 1] = P[k] + L
    <2>1. 1 \in 1 .. C /\ (1 - 1) * L = 0
      BY <1>1, <1>3
    <2>2. ASSUME NEW k \in 1 .. C, k < C PROVE P[k + 1] = P[k] + L
      <3>1. k + 1 \in 1 .. C /\ (k + 1) - 1 = k
        BY <1>3, <2>2
      <3>2. P[k + 1] = k * L
        BY <1>5, <3>1
      <3> QED
        BY <1>3, <1>5, <3>2
    <2> QED
      BY <1>5, <2>1, <2>2
  <1>7. PICK body : body = Payload(m, size)
    OBVIOUS
  <1>8. /\ body \in Seq(Raw) /\ Len(body) = size
        /\ \A i \in 1 .. size : body[i] = Unmasked(m, HdrSize + i)
    BY <1>7, PartsIs
  <1>9. body # <<>>
    BY <1>8
  <1> DEFINE End(k) == IF k * L < size THEN k * L ELSE size
             Cut(k) == SubSeq(body, (k - 1) * L + 1, End(k))
  <1>10. Chunks(body) = [k \in 1 .. C |-> Cut(k)]
    BY <1>2, <1>8, <1>9 DEF Chunks
  <1>11. ASSUME NEW k \in 1 .. C
         PROVE  /\ Cut(k) \in Seq(Raw)
                /\ Len(Cut(k)) = IF k < C THEN L ELSE size - P[k]
                /\ Len(Cut(k)) \in Nat \ {0}
                /\ \A i \in 1 .. Len(Cut(k)) : Cut(k)[i] = Unmasked(m, HdrSize + P[k] + i)
    <2>1. PICK a : a = P[k]
      OBVIOUS
    <2>2. /\ a \in Nat /\ (k - 1) * L = a /\ k * L = a + L /\ a < size
          /\ k < C => a + L < size
          /\ k = C => size <= a + L
      BY <1>3, <1>5, <2>1
    <2>3. PICK e : e = End(k)
      OBVIOUS
    <2>4. e = IF a + L < size THEN a + L ELSE size
      BY <2>2, <2>3
    <2>5. e = IF k < C THEN a + L ELSE size
      BY <1>1, <1>3, <2>2, <2>4
    <2>6. e \in Nat /\ a + 1 <= e /\ e <= size
      BY <1>1, <2>2, <2>4
    <2>7. PICK s : s = SubSeq(body, a + 1, e)
      OBVIOUS
    <2>8. /\ s \in Seq(Raw) /\ Len(s) = e - a
          /\ \A i \in 1 .. e - a : s[i] = body[a + i]
      BY <1>8, <2>2, <2>6, <2>7
    <2>9. Cut(k) = s
      BY <2>2, <2>3, <2>7
    <2>10. Len(s) = IF k < C THEN L ELSE size - a
      BY <1>1, <2>2, <2>5, <2>8
    <2>11. Len(s) \in Nat \ {0}
      BY <2>2, <2>6, <2>8
    <2>12. ASSUME NEW i \in 1 .. Len(s) PROVE s[i] = Unmasked(m, HdrSize + a + i)
      <3>1. i \in 1 .. e - a /\ a + i \in 1 .. size
        BY <2>2, <2>6, <2>8
      <3>2. s[i] = Unmasked(m, HdrSize + (a + i))
        BY <1>8, <2>8, <3>1
      <3>3. HdrSize + (a + i) = HdrSize + a + i
        BY <2>2, <3>1 DEF HdrSize
      <3> QED
        BY <3>2, <3>3
    <2> HIDE DEF Cut
    <2> QED
      BY <2>1, <2>8, <2>9, <2>10, <2>11, <2>12
  <1> HIDE DEF Cut
  <1>12. PICK w : w = Chunks(body)
    OBVIOUS
  <1>13. w \in Seq(Seq(Raw)) /\ Len(w) = C /\ \A k \in 1 .. C : w[k] = Cut(k)
    BY <1>3, <1>10, <1>11, <1>12
  <1>14. \A k \in 1 .. C :
            /\ Len(w[k]) = IF k < C THEN net_buf_len ELSE size - P[k]
            /\ Len(w[k]) \in Nat \ {0}
            /\ \A i \in 1 .. Len(w[k]) : w[k][i] = Unmasked(m, HdrSize + P[k] + i)
    BY <1>11, <1>13
  <1>15. CutUp(w, P, m, size)
    BY <1>3, <1>5, <1>6, <1>13, <1>14 DEF CutUp
  <1> QED
    BY <1>7, <1>12, <1>15

\* Buffers are masked in place: their sizes are kept.
LEMMA MaskIs ==
    ASSUME NEW w \in Seq(Seq(Raw))
    PROVE  /\ DOMAIN Mask(w) = 1 .. Len(w) /\ Mask(w) = [k \in 1 .. Len(w) |-> Mask(w)[k]]
           /\ \A k \in 1 .. Len(w) :
                 /\ Mask(w)[k] = [i \in 1 .. Len(w[k]) |-> Mask(w)[k][i]]
                 /\ \A i \in 1 .. Len(w[k]) :
                       Mask(w)[k][i] = IF k = 1 /\ i <= HdrSize THEN w[k][i]
                                       ELSE [w[k][i] EXCEPT !.key = (UpToBuf(w)[k - 1] + i - 1 - HdrSize) % 4]
  <1> DEFINE e(k, i) == IF k = 1 /\ i <= HdrSize THEN w[k][i]
                        ELSE [w[k][i] EXCEPT !.key = (UpToBuf(w)[k - 1] + i - 1 - HdrSize) % 4]
             b(k) == [i \in DOMAIN w[k] |-> e(k, i)]
  <1>1. Mask(w) = [k \in DOMAIN w |-> b(k)]
    BY DEF Mask
  <1>2. DOMAIN w = 1 .. Len(w) /\ \A k \in 1 .. Len(w) : DOMAIN w[k] = 1 .. Len(w[k])
    OBVIOUS
  <1> HIDE DEF b
  <1>3. DOMAIN Mask(w) = 1 .. Len(w) /\ Mask(w) = [k \in 1 .. Len(w) |-> Mask(w)[k]]
    BY <1>1, <1>2
  <1>4. ASSUME NEW k \in 1 .. Len(w)
        PROVE  /\ Mask(w)[k] = [i \in 1 .. Len(w[k]) |-> Mask(w)[k][i]]
               /\ \A i \in 1 .. Len(w[k]) : Mask(w)[k][i] = e(k, i)
    <2>1. Mask(w)[k] = b(k)
      BY <1>1, <1>2
    <2> HIDE DEF e
    <2>2. Mask(w)[k] = [i \in 1 .. Len(w[k]) |-> e(k, i)]
      BY <1>2, <2>1 DEF b
    <2> QED
      BY <2>2
  <1> QED
    BY <1>3, <1>4

\* The buffers of a frame before they are masked: buffer k begins after
\* position O[k].
Laid(w, O, m, size) ==
    /\ w \in Seq(Seq(Raw)) /\ w # <<>> /\ O \in [1 .. Len(w) -> Nat] /\ O[1] = 0
    /\ \A k \in 1 .. Len(w) :
          /\ Len(w[k]) \in Nat \ {0}
          /\ k = 1 => Len(w[k]) >= HdrSize
          /\ IF k < Len(w) THEN O[k + 1] = O[k] + Len(w[k]) ELSE O[k] + Len(w[k]) = HdrSize + size
          /\ \A i \in 1 .. Len(w[k]) : w[k][i] = Unmasked(m, O[k] + i)

\* Two sequences of bytes that are not masked yet, put together.
LEMMA JoinedRaw ==
    ASSUME NEW s \in Seq(Raw), NEW t \in Seq(Raw)
    PROVE  /\ s \o t \in Seq(Raw) /\ Len(s \o t) = Len(s) + Len(t)
           /\ \A i \in 1 .. Len(s) : (s \o t)[i] = s[i]
           /\ \A i \in 1 .. Len(t) : (s \o t)[Len(s) + i] = t[i]
  OBVIOUS

\* The header in a buffer of its own, before those of the payload, or in one
\* with the payload where that fits.
LEMMA LaidOut ==
    ASSUME NEW m \in Nat \ {0}, NEW size \in Nat
    PROVE  \E w : \E O : w = AppendBufs(Header(m), Chunks(Payload(m, size))) /\ Laid(w, O, m, size)
  <1>0. HdrSize = 6 /\ net_buf_len \in Nat /\ net_buf_len >= 6
    BY NetAssumption DEF HdrSize
  <1>1. PICK h : h = Header(m)
    OBVIOUS
  <1>2. PICK body : body = Payload(m, size)
    OBVIOUS
  <1>3. /\ h \in Seq(Raw) /\ Len(h) = 6 /\ \A i \in 1 .. 6 : h[i] = Unmasked(m, i)
        /\ body \in Seq(Raw) /\ Len(body) = size
    BY <1>0, <1>1, <1>2, PartsIs
  <1>4. PICK c : c = Chunks(body)
    OBVIOUS
  <1>5. PICK w : w = AppendBufs(h, c)
    OBVIOUS
  <1>6. CASE size = 0
    <2>1. body = <<>>
      BY <1>3, <1>6
    <2>2. c = << <<>> >>
      BY <1>4, <2>1 DEF Chunks
    <2>3. c[1] = <<>> /\ Len(c[1]) = 0 /\ Tail(c) = <<>>
      BY <2>2
    <2>4. h \o <<>> = h
      BY <1>3
    <2>5. w = <<h>>
      <3>1. Len(h) + Len(c[1]) <= net_buf_len
        BY <1>0, <1>3, <2>3
      <3>2. w = <<h \o c[1]>> \o Tail(c)
        BY <1>5, <3>1 DEF AppendBufs
      <3>3. w = <<h>> \o <<>>
        BY <2>3, <2>4, <3>2
      <3> QED
        BY <3>3
    <2>6. w \in Seq(Seq(Raw)) /\ Len(w) = 1 /\ w[1] = h /\ w # <<>>
      BY <1>3, <2>5
    <2>7. PICK O : O = [k \in 1 .. 1 |-> 0]
      OBVIOUS
    <2>8. O \in [1 .. 1 -> Nat] /\ O[1] = 0
      BY <2>7
    <2>9. \A i \in 1 .. 6 : O[1] + i = i
      BY <2>8
    <2>10. ASSUME NEW k \in 1 .. Len(w)
           PROVE  /\ Len(w[k]) \in Nat \ {0}
                  /\ k = 1 => Len(w[k]) >= HdrSize
                  /\ IF k < Len(w) THEN O[k + 1] = O[k] + Len(w[k]) ELSE O[k] + Len(w[k]) = HdrSize + size
                  /\ \A i \in 1 .. Len(w[k]) : w[k][i] = Unmasked(m, O[k] + i)
      <3>1. k = 1 /\ ~ (k < Len(w))
        BY <2>6
      <3>2. Len(w[k]) = 6 /\ O[k] = 0
        BY <1>3, <2>6, <2>8, <3>1
      <3>3. O[k] + Len(w[k]) = HdrSize + size /\ Len(w[k]) >= HdrSize
        BY <1>0, <1>6, <3>2
      <3>4. \A i \in 1 .. Len(w[k]) : w[k][i] = Unmasked(m, O[k] + i)
        BY <1>3, <2>6, <2>9, <3>1, <3>2
      <3> QED
        BY <3>1, <3>2, <3>3, <3>4
    <2>11. Laid(w, O, m, size)
      BY <2>6, <2>8, <2>10 DEF Laid
    <2> QED
      BY <1>1, <1>2, <1>4, <1>5, <2>11
  <1>7. CASE size # 0
    <2>1. PICK P : CutUp(c, P, m, size)
      <3>1. size \in Nat \ {0}
        BY <1>7
      <3>2. \E P : CutUp(Chunks(Payload(m, size)), P, m, size)
        BY <3>1, ChunksIs
      <3> QED
        BY <1>2, <1>4, <3>2
    <2> DEFINE C == Len(c)
    <2>2. /\ C \in Nat \ {0} /\ P \in [1 .. C -> Nat]
          /\ P[1] = 0 /\ (\A k \in 1 .. C : k < C => P[k + 1] = P[k] + net_buf_len)
          /\ c \in Seq(Seq(Raw))
          /\ \A k \in 1 .. C :
                /\ Len(c[k]) = IF k < C THEN net_buf_len ELSE size - P[k]
                /\ Len(c[k]) \in Nat \ {0}
                /\ \A i \in 1 .. Len(c[k]) : c[k][i] = Unmasked(m, HdrSize + P[k] + i)
      BY <2>1 DEF CutUp
    <2>3. 1 \in 1 .. C /\ Len(c[1]) \in Nat \ {0}
      BY <2>2
    <2>4. CASE 6 + Len(c[1]) <= net_buf_len
      <3>1. C = 1 /\ Len(c[1]) = size
        <4>1. Len(c[1]) = IF 1 < C THEN net_buf_len ELSE size - P[1]
          BY <2>2, <2>3, Zenon
        <4>2. ~ (1 < C)
          BY <1>0, <2>3, <2>4, <4>1
        <4>3. C \in Nat \ {0} /\ P[1] = 0
          BY <2>2
        <4> HIDE DEF C
        <4>4. C = 1
          BY <4>2, <4>3
        <4> QED
          BY <4>1, <4>2, <4>3, <4>4
      <3>2. PICK b : b = h \o c[1]
        OBVIOUS
      <3>3. c[1] \in Seq(Raw) /\ Tail(c) = <<>>
        <4>1. c[1] \in Seq(Raw)
          BY <2>2, <2>3
        <4>2. c # <<>>
          BY <2>2
        <4>3. Tail(c) \in Seq(Seq(Raw)) /\ Len(Tail(c)) = 0
          BY <2>2, <3>1, <4>2
        <4>4. PICK t : t = Tail(c)
          OBVIOUS
        <4>5. t = <<>>
          BY <4>3, <4>4
        <4> QED
          BY <4>1, <4>4, <4>5
      <3>4. w = <<b>>
        <4>1. w = <<b>> \o <<>>
          BY <1>3, <1>5, <2>4, <3>2, <3>3 DEF AppendBufs
        <4> QED
          BY <4>1
      <3>5. /\ b \in Seq(Raw) /\ Len(b) = 6 + size
            /\ \A i \in 1 .. 6 : b[i] = h[i]
            /\ \A i \in 1 .. size : b[6 + i] = c[1][i]
        <4>1. PICK d : d = c[1]
          OBVIOUS
        <4>2. d \in Seq(Raw) /\ Len(d) = size
          BY <3>1, <3>3, <4>1
        <4>3. b = h \o d
          BY <3>2, <4>1
        <4>4. h \in Seq(Raw) /\ Len(h) = 6
          BY <1>3
        <4>5. /\ b \in Seq(Raw) /\ Len(b) = Len(h) + Len(d)
              /\ \A i \in 1 .. Len(h) : b[i] = h[i]
              /\ \A i \in 1 .. Len(d) : b[Len(h) + i] = d[i]
          BY <4>2, <4>3, <4>4, JoinedRaw
        <4> QED
          BY <4>1, <4>2, <4>4, <4>5
      <3>6. ASSUME NEW i \in 1 .. Len(b) PROVE b[i] = Unmasked(m, 0 + i)
        <4>0. 0 + i = i
          BY <3>5
        <4>1. CASE i <= 6
          <5>1. i \in 1 .. 6
            BY <3>5, <4>1
          <5> QED
            BY <1>3, <3>5, <4>0, <5>1
        <4>2. CASE i > 6
          <5>1. PICK j \in 1 .. size : j = i - 6
            BY <3>5, <4>2
          <5>2. 6 + j = i /\ 6 + 0 + j = i
            BY <3>5, <5>1
          <5>3. c[1][j] = Unmasked(m, 6 + 0 + j)
            BY <1>0, <2>2, <2>3, <3>1
          <5> QED
            BY <3>5, <4>0, <5>2, <5>3
        <4> QED
          BY <3>5, <4>1, <4>2
      <3>7. w \in Seq(Seq(Raw)) /\ Len(w) = 1 /\ w[1] = b /\ w # <<>>
        BY <3>4, <3>5
      <3>8. PICK O : O = [k \in 1 .. 1 |-> 0]
        OBVIOUS
      <3>9. O \in [1 .. 1 -> Nat] /\ O[1] = 0
        BY <3>8
      <3>10. ASSUME NEW k \in 1 .. Len(w)
             PROVE  /\ Len(w[k]) \in Nat \ {0}
                    /\ k = 1 => Len(w[k]) >= HdrSize
                    /\ IF k < Len(w) THEN O[k + 1] = O[k] + Len(w[k]) ELSE O[k] + Len(w[k]) = HdrSize + size
                    /\ \A i \in 1 .. Len(w[k]) : w[k][i] = Unmasked(m, O[k] + i)
        <4>1. k = 1 /\ ~ (k < Len(w))
          BY <3>7
        <4>2. Len(w[k]) = 6 + size /\ O[k] = 0
          BY <3>5, <3>7, <3>9, <4>1
        <4>3. O[k] + Len(w[k]) = HdrSize + size /\ Len(w[k]) >= HdrSize
          BY <1>0, <4>2
        <4>4. \A i \in 1 .. Len(w[k]) : w[k][i] = Unmasked(m, O[k] + i)
          BY <3>6, <3>7, <3>9, <4>1
        <4> QED
          BY <4>1, <4>2, <4>3, <4>4
      <3>11. Laid(w, O, m, size)
        BY <3>7, <3>9, <3>10 DEF Laid
      <3> QED
        BY <1>1, <1>2, <1>4, <1>5, <3>11
    <2>5. CASE ~ (6 + Len(c[1]) <= net_buf_len)
      <3>1. w = <<h>> \o c
        BY <1>3, <1>5, <2>5 DEF AppendBufs
      <3>2. /\ w \in Seq(Seq(Raw)) /\ Len(w) = C + 1 /\ w[1] = h /\ w # <<>>
            /\ \A k \in 1 .. C : w[k + 1] = c[k]
        BY <1>3, <2>2, <3>1
      <3>3. PICK O : O = [k \in 1 .. C + 1 |-> IF k = 1 THEN 0 ELSE 6 + P[k - 1]]
        OBVIOUS
      <3>4. O \in [1 .. C + 1 -> Nat] /\ O[1] = 0 /\ \A k \in 1 .. C : O[k + 1] = 6 + P[k]
        <4>1. \A k \in 1 .. C + 1 : k # 1 => k - 1 \in 1 .. C
          OBVIOUS
        <4>2. \A k \in 1 .. C : k + 1 \in 1 .. C + 1 /\ k + 1 # 1 /\ (k + 1) - 1 = k
          OBVIOUS
        <4>3. \A k \in 1 .. C : P[k] \in Nat
          BY <2>2
        <4> QED
          BY <3>3, <4>1, <4>2, <4>3
      <3>5. ASSUME NEW k \in 1 .. Len(w)
            PROVE  /\ Len(w[k]) \in Nat \ {0}
                   /\ k = 1 => Len(w[k]) >= HdrSize
                   /\ IF k < Len(w) THEN O[k + 1] = O[k] + Len(w[k]) ELSE O[k] + Len(w[k]) = HdrSize + size
                   /\ \A i \in 1 .. Len(w[k]) : w[k][i] = Unmasked(m, O[k] + i)
        <4>1. CASE k = 1
          <5>1. k < Len(w) /\ O[k + 1] = 6 + P[1] /\ Len(w[k]) = 6
            BY <1>3, <2>3, <3>2, <3>4, <4>1
          <5>2. O[k + 1] = O[k] + Len(w[k])
            BY <2>2, <3>4, <4>1, <5>1
          <5>3. \A i \in 1 .. 6 : O[k] + i = i
            BY <3>4, <4>1
          <5>4. \A i \in 1 .. Len(w[k]) : w[k][i] = Unmasked(m, O[k] + i)
            BY <1>3, <3>2, <4>1, <5>1, <5>3
          <5> QED
            BY <1>0, <4>1, <5>1, <5>2, <5>4
        <4>2. CASE k # 1
          <5>1. PICK j \in 1 .. C : k = j + 1
            <6>1. k - 1 \in 1 .. C /\ k = (k - 1) + 1
              BY <3>2, <4>2
            <6> QED
              BY <6>1
          <5>2. w[k] = c[j] /\ O[k] = 6 + P[j] /\ P[j] \in Nat /\ Len(w) = C + 1
            <6>1. P[j] \in Nat
              BY <2>2
            <6>2. w[j + 1] = c[j] /\ O[j + 1] = 6 + P[j] /\ Len(w) = C + 1
              BY <3>2, <3>4
            <6> QED
              BY <5>1, <6>1, <6>2
          <5>3. Len(w[k]) \in Nat \ {0} /\ Len(w[k]) = IF j < C THEN net_buf_len ELSE size - P[j]
            BY <2>2, <5>2
          <5>4. \A i \in 1 .. Len(w[k]) : w[k][i] = Unmasked(m, O[k] + i)
            BY <1>0, <2>2, <5>2
          <5>5. CASE k < Len(w)
            <6>1. j < C /\ j + 1 \in 1 .. C
              BY <5>1, <5>2, <5>5
            <6>2. O[k + 1] = 6 + P[j + 1] /\ P[j + 1] = P[j] + net_buf_len
              BY <2>2, <3>4, <5>1, <6>1
            <6>3. O[k + 1] = O[k] + Len(w[k])
              BY <1>0, <5>2, <5>3, <6>1, <6>2
            <6> QED
              BY <4>2, <5>3, <5>4, <5>5, <6>3
          <5>6. CASE ~ (k < Len(w))
            <6>1. ~ (j < C)
              BY <5>1, <5>2, <5>6
            <6>2. O[k] + Len(w[k]) = HdrSize + size
              BY <1>0, <5>2, <5>3, <6>1
            <6> QED
              BY <4>2, <5>3, <5>4, <5>6, <6>2
          <5> QED
            BY <5>5, <5>6
        <4> QED
          BY <4>1, <4>2
      <3>6. Laid(w, O, m, size)
        BY <3>2, <3>4, <3>5 DEF Laid
      <3> QED
        BY <1>1, <1>2, <1>4, <1>5, <3>6
    <2> QED
      BY <2>4, <2>5
  <1> QED
    BY <1>6, <1>7

\* The running size at a buffer is where it begins.
LEMMA RunningSize ==
    ASSUME NEW w, NEW O, NEW m, NEW size, Laid(w, O, m, size)
    PROVE  \A k \in 1 .. Len(w) : UpToBuf(w)[k - 1] = O[k]
  <1>1. /\ w \in Seq(Seq(Raw)) /\ w # <<>> /\ O \in [1 .. Len(w) -> Nat] /\ O[1] = 0
        /\ \A k \in 1 .. Len(w) : k < Len(w) => O[k + 1] = O[k] + Len(w[k])
    BY DEF Laid
  <1>2. PICK N : N = Len(w) - 1
    OBVIOUS
  <1>3. N \in Nat /\ Len(w) = N + 1
    BY <1>1, <1>2
  <1>4. UpToBuf(w)[0] = 0 /\ \A k \in 1 .. Len(w) : UpToBuf(w)[k] = UpToBuf(w)[k - 1] + Len(w[k])
    BY <1>1, UpToBufIs
  <1> DEFINE S == {j \in 0 .. N : UpToBuf(w)[j] = O[j + 1]}
  <1>5. 0 \in S
    <2>1. 0 \in 0 .. N /\ 0 + 1 = 1
      BY <1>3
    <2> QED
      BY <1>1, <1>4, <2>1
  <1>6. ASSUME NEW j \in 0 .. N - 1, j \in S PROVE j + 1 \in S
    <2>1. j + 1 \in 0 .. N /\ j + 1 \in 1 .. Len(w) /\ (j + 1) - 1 = j /\ j + 1 < Len(w)
      BY <1>3
    <2>2. UpToBuf(w)[j + 1] = UpToBuf(w)[j] + Len(w[j + 1])
      BY <1>4, <2>1
    <2>3. O[(j + 1) + 1] = O[j + 1] + Len(w[j + 1])
      BY <1>1, <2>1
    <2> QED
      BY <1>6, <2>1, <2>2, <2>3
  <1>7. 0 .. N \subseteq S
    <2> HIDE DEF S
    <2> QED
      BY <1>3, <1>5, <1>6, UpTo
  <1>8. ASSUME NEW k \in 1 .. Len(w) PROVE UpToBuf(w)[k - 1] = O[k]
    <2>1. k - 1 \in 0 .. N /\ (k - 1) + 1 = k
      BY <1>3
    <2> QED
      BY <1>7, <2>1
  <1> QED
    BY <1>8

\* The buffers of ws_wtr hold the frame, each byte with its own byte of the
\* mask.
LEMMA FrameIs ==
    ASSUME NEW m \in Nat \ {0}, NEW size \in Nat
    PROVE  Holds(Frame(m, size), m, size)
  <1>1. PICK w : \E O : w = AppendBufs(Header(m), Chunks(Payload(m, size))) /\ Laid(w, O, m, size)
    BY LaidOut
  <1>2. PICK O : w = AppendBufs(Header(m), Chunks(Payload(m, size))) /\ Laid(w, O, m, size)
    BY <1>1
  <1>3. PICK F : F = Mask(w)
    OBVIOUS
  <1>4. Frame(m, size) = F
    BY <1>2, <1>3, PartsIs
  <1>5. /\ w \in Seq(Seq(Raw)) /\ w # <<>> /\ O \in [1 .. Len(w) -> Nat] /\ O[1] = 0
        /\ Len(w) \in Nat \ {0}
        /\ \A k \in 1 .. Len(w) :
          /\ Len(w[k]) \in Nat \ {0}
          /\ k = 1 => Len(w[k]) >= HdrSize
          /\ IF k < Len(w) THEN O[k + 1] = O[k] + Len(w[k]) ELSE O[k] + Len(w[k]) = HdrSize + size
          /\ \A i \in 1 .. Len(w[k]) : w[k][i] = Unmasked(m, O[k] + i)
    BY <1>2 DEF Laid
  <1>6. /\ F = [k \in 1 .. Len(w) |-> F[k]]
        /\ \A k \in 1 .. Len(w) :
              /\ F[k] = [i \in 1 .. Len(w[k]) |-> F[k][i]]
              /\ \A i \in 1 .. Len(w[k]) :
                    F[k][i] = IF k = 1 /\ i <= HdrSize THEN w[k][i]
                              ELSE [w[k][i] EXCEPT !.key = (UpToBuf(w)[k - 1] + i - 1 - HdrSize) % 4]
    <2>1. w \in Seq(Seq(Raw))
      BY <1>5
    <2> QED
      BY <1>3, <2>1, MaskIs, Zenon
  <1>7. \A k \in 1 .. Len(w) : UpToBuf(w)[k - 1] = O[k]
    BY <1>2, RunningSize
  <1>8. HdrSize = 6
    BY DEF HdrSize
  \* A later buffer begins after the header.
  <1>9. \A k \in 1 .. Len(w) : O[k] \in Nat /\ (k # 1 => O[k] >= 6)
    <2> DEFINE S == {j \in 0 .. Len(w) - 1 : j # 0 => O[j + 1] >= 6}
    <2>1. 0 \in S
      BY <1>5
    <2>2. ASSUME NEW j \in 0 .. (Len(w) - 1) - 1, j \in S PROVE j + 1 \in S
      <3>1. j + 1 \in 1 .. Len(w) /\ j + 1 < Len(w) /\ j + 1 \in 0 .. Len(w) - 1
        BY <1>5
      <3>2. O[(j + 1) + 1] = O[j + 1] + Len(w[j + 1]) /\ Len(w[j + 1]) \in Nat /\ O[j + 1] \in Nat
        BY <1>5, <3>1
      <3>3. CASE j = 0
        <4>1. j + 1 = 1
          BY <3>3
        <4>2. Len(w[j + 1]) >= 6
          BY <1>5, <1>8, <3>1, <4>1
        <4> QED
          BY <3>1, <3>2, <4>2
      <3>4. CASE j # 0
        BY <2>2, <3>1, <3>2, <3>4
      <3> QED
        BY <3>3, <3>4
    <2>3. 0 .. Len(w) - 1 \subseteq S
      <3>1. Len(w) - 1 \in Nat
        BY <1>5
      <3> HIDE DEF S
      <3> QED
        BY <2>1, <2>2, <3>1, UpTo
    <2>4. ASSUME NEW k \in 1 .. Len(w) PROVE O[k] \in Nat /\ (k # 1 => O[k] >= 6)
      <3>1. k - 1 \in 0 .. Len(w) - 1 /\ (k - 1) + 1 = k /\ (k # 1 => k - 1 # 0)
        BY <1>5
      <3>2. O[k] \in Nat
        BY <1>5
      <3> QED
        BY <2>3, <3>1, <3>2
    <2> QED
      BY <2>4
  <1>10. ASSUME NEW k \in 1 .. Len(w), NEW i \in 1 .. Len(w[k]) PROVE F[k][i] = Masked(m, O[k] + i)
    <2>1. PICK p : p = O[k] + i
      OBVIOUS
    <2>2. w[k][i] = Unmasked(m, p) /\ O[k] \in Nat /\ i \in Nat \ {0} /\ p \in Nat
      BY <1>5, <1>9, <2>1
    <2>3. CASE k = 1 /\ i <= 6
      <3>1. F[k][i] = Unmasked(m, p) /\ p <= 6
        <4>1. O[k] = 0
          BY <1>5, <2>3
        <4>2. p <= 6
          BY <2>1, <2>2, <2>3, <4>1
        <4>3. F[k][i] = w[k][i]
          BY <1>6, <1>8, <2>3
        <4> QED
          BY <2>2, <4>2, <4>3
      <3> QED
        BY <1>8, <2>1, <3>1 DEF Masked, Unmasked
    <2>4. CASE ~ (k = 1 /\ i <= 6)
      <3>1. F[k][i] = [Unmasked(m, p) EXCEPT !.key = (O[k] + i - 1 - HdrSize) % 4]
        BY <1>6, <1>7, <1>8, <2>2, <2>4
      <3>2. O[k] + i - 1 - HdrSize = p - HdrSize - 1 /\ ~ (p <= HdrSize)
        BY <1>8, <1>9, <2>1, <2>2, <2>4
      <3> QED
        BY <2>1, <3>1, <3>2 DEF Masked, Unmasked
    <2> QED
      BY <2>3, <2>4
  <1>11. ASSUME NEW k \in 1 .. Len(w)
         PROVE  F[k] \in Seq(Bytes) /\ Len(F[k]) = Len(w[k]) /\ Len(w[k]) \in Nat \ {0} /\ O[k] \in Nat
    <2>1. \A i \in 1 .. Len(w[k]) : F[k][i] \in Bytes
      <3> TAKE i \in 1 .. Len(w[k])
      <3>1. O[k] + i \in Nat \ {0}
        BY <1>5, <1>9
      <3>2. Masked(m, O[k] + i) \in Bytes
        BY <3>1, MaskedIs
      <3> QED
        BY <1>10, <3>2
    <2>2. F[k] = [i \in 1 .. Len(w[k]) |-> F[k][i]]
      BY <1>6
    <2>3. Len(w[k]) \in Nat \ {0} /\ O[k] \in Nat
      BY <1>5, <1>9
    <2>4. PICK n : n = Len(w[k])
      OBVIOUS
    <2>5. PICK b : b = F[k]
      OBVIOUS
    <2>6. b = [i \in 1 .. n |-> b[i]] /\ n \in Nat /\ \A i \in 1 .. n : b[i] \in Bytes
      BY <2>1, <2>2, <2>3, <2>4, <2>5
    <2>7. b \in Seq(Bytes) /\ Len(b) = n
      BY <2>6
    <2> QED
      BY <2>3, <2>4, <2>5, <2>7
  <1>12. F \in Seq(Seq(Bytes)) /\ Len(F) = Len(w)
    <2>1. PICK n : n = Len(w)
      OBVIOUS
    <2>2. F = [k \in 1 .. n |-> F[k]] /\ n \in Nat /\ \A k \in 1 .. n : F[k] \in Seq(Bytes)
      BY <1>5, <1>6, <1>11, <2>1
    <2>3. F \in Seq(Seq(Bytes)) /\ Len(F) = n
      BY <2>2
    <2> QED
      BY <2>1, <2>3
  <1>13. ASSUME NEW k \in 1 .. Len(w)
         PROVE  /\ F[k] # <<>> /\ F[k][1].msg = m /\ F[k][1].pos = O[k] + 1
                /\ F[k][Len(F[k])].pos = O[k] + Len(w[k])
                /\ \A i \in 1 .. Len(F[k]) : F[k][i] = Masked(m, F[k][1].pos + i - 1)
    <2>1. Len(F[k]) = Len(w[k]) /\ Len(w[k]) \in Nat \ {0} /\ O[k] \in Nat /\ F[k] \in Seq(Bytes)
      BY <1>11
    <2>2. PICK n : n = Len(w[k])
      OBVIOUS
    <2>3. n \in Nat \ {0} /\ 1 \in 1 .. n /\ n \in 1 .. n /\ O[k] + 1 \in Nat \ {0} /\ O[k] + n \in Nat \ {0}
      BY <2>1, <2>2
    <2>4. F[k][1] = Masked(m, O[k] + 1) /\ F[k][n] = Masked(m, O[k] + n)
      BY <1>10, <2>2, <2>3
    <2>5. F[k][1].msg = m /\ F[k][1].pos = O[k] + 1 /\ F[k][n].pos = O[k] + n
      BY <2>3, <2>4, MaskedIs
    <2>6. ASSUME NEW i \in 1 .. n PROVE F[k][i] = Masked(m, F[k][1].pos + i - 1)
      <3>1. F[k][1].pos + i - 1 = O[k] + i
        BY <2>1, <2>3, <2>5
      <3> QED
        BY <1>10, <2>2, <3>1
    <2>7. F[k] # <<>>
      BY <2>1
    <2> QED
      BY <2>1, <2>2, <2>5, <2>6, <2>7
  <1>14. ASSUME NEW k \in 1 .. Len(w)
         PROVE  IF k < Len(w) THEN F[k + 1][1].pos = F[k][Len(F[k])].pos + 1
                ELSE F[k][Len(F[k])].pos = HdrSize + size
    <2>1. CASE k < Len(w)
      <3>1. k + 1 \in 1 .. Len(w) /\ O[k + 1] = O[k] + Len(w[k])
        <4>1. Len(w) \in Nat
          BY <1>5
        <4>2. k + 1 \in 1 .. Len(w)
          BY <2>1, <4>1
        <4>3. O[k + 1] = O[k] + Len(w[k])
          BY <1>5, <2>1, Zenon
        <4> QED
          BY <4>2, <4>3
      <3>2. F[k + 1][1].pos = O[k + 1] + 1 /\ F[k][Len(F[k])].pos = O[k] + Len(w[k])
        BY <1>13, <3>1
      <3> QED
        BY <2>1, <3>1, <3>2
    <2>2. CASE ~ (k < Len(w))
      <3>1. F[k][Len(F[k])].pos = O[k] + Len(w[k])
        BY <1>13
      <3>2. O[k] + Len(w[k]) = HdrSize + size
        BY <1>5, <2>2
      <3> QED
        BY <2>2, <3>1, <3>2
    <2> QED
      BY <2>1, <2>2
  <1>15. F[1][1].pos = 1 /\ F # <<>>
    <2>1. 1 \in 1 .. Len(w)
      BY <1>5
    <2>2. F[1][1].pos = O[1] + 1
      BY <1>13, <2>1
    <2> QED
      BY <1>5, <1>12, <2>2
  <1>16. Holds(F, m, size)
    BY <1>12, <1>13, <1>14, <1>15 DEF Holds
  <1> QED
    BY <1>4, <1>16

\* The byte after a, where messages of sizes q were written, and their last.
After(q, b, a) ==
    \/ b.msg = a.msg /\ b.pos = a.pos + 1
    \/ b.msg = a.msg + 1 /\ b.pos = 1 /\ a.pos = HdrSize + q[a.msg]
Final(q, b) == q # <<>> /\ b.msg = Len(q) /\ b.pos = HdrSize + q[Len(q)]

\* A buffer is a piece of one frame.
Piece(q, b) ==
    /\ b \in Seq(Bytes) /\ b # <<>> /\ b[1].msg \in 1 .. Len(q)
    /\ \A i \in 1 .. Len(b) : b[i] = Masked(b[1].msg, b[1].pos + i - 1)

OutTyped(q, w, z, o) ==
    /\ q \in Seq(Nat) /\ w \in Seq(Seq(Bytes)) /\ o \in Seq(Bytes) /\ z \in Nat
    /\ \A k \in 1 .. Len(w) : Piece(q, w[k])
    /\ IF w = <<>> THEN z = 0 ELSE z < Len(w[1])
    /\ \A k \in 1 .. Len(o) : o[k].msg \in 1 .. Len(q)

\* The buffers follow each other, up to the end of the last message.
Chained(q, w) ==
    \A k \in 1 .. Len(w) :
        IF k < Len(w) THEN After(q, w[k + 1][1], w[k][Len(w[k])])
        ELSE Final(q, w[k][Len(w[k])])

\* What is to be sent next follows what was sent.
Continued(q, w, z, o) ==
    IF w = <<>> THEN IF o = <<>> THEN q = <<>> ELSE Final(q, o[Len(o)])
    ELSE IF o = <<>> THEN w[1][z + 1].msg = 1 /\ w[1][z + 1].pos = 1
         ELSE After(q, w[1][z + 1], o[Len(o)])

\* The bytes that were sent follow each other.
Linked(q, o) ==
    \A k \in 1 .. Len(o) :
        IF k = 1 THEN o[k].msg = 1 /\ o[k].pos = 1 ELSE After(q, o[k], o[k - 1])

\* Messages of sizes q were written; w are the buffers to send, z bytes of the
\* first one are sent, and o was sent.
OutOk(q, w, z, o) ==
    OutTyped(q, w, z, o) /\ Chained(q, w) /\ Continued(q, w, z, o) /\ Linked(q, o)

OutInv == OutOk(queued, whd_, wsz_, outwire)

\* Two sequences of bytes to send, put together.
LEMMA JoinedBytes ==
    ASSUME NEW s \in Seq(Bytes), NEW t \in Seq(Bytes)
    PROVE  /\ s \o t \in Seq(Bytes) /\ Len(s \o t) = Len(s) + Len(t)
           /\ Len(s) \in Nat /\ Len(t) \in Nat
           /\ \A i \in 1 .. Len(s) : (s \o t)[i] = s[i]
           /\ \A i \in 1 .. Len(t) : (s \o t)[Len(s) + i] = t[i]
  OBVIOUS

\* Two sequences of buffers, put together.
LEMMA JoinedBuffers ==
    ASSUME NEW s \in Seq(Seq(Bytes)), NEW t \in Seq(Seq(Bytes))
    PROVE  /\ s \o t \in Seq(Seq(Bytes)) /\ Len(s \o t) = Len(s) + Len(t)
           /\ Len(s) \in Nat /\ Len(t) \in Nat
           /\ \A i \in 1 .. Len(s) : (s \o t)[i] = s[i]
           /\ \A i \in 1 .. Len(t) : (s \o t)[Len(s) + i] = t[i]
  OBVIOUS

\* The bytes of a buffer.
LEMMA PieceIs ==
    ASSUME NEW q, NEW b, Piece(q, b)
    PROVE  /\ b \in Seq(Bytes) /\ Len(b) \in Nat \ {0} /\ b[1].msg \in 1 .. Len(q)
           /\ \A i \in 1 .. Len(b) : b[i].msg = b[1].msg /\ b[i].pos = b[1].pos + i - 1 /\ b[1].pos \in Nat \ {0}
           /\ \A i \in 1 .. Len(b) : i + 1 <= Len(b) => After(q, b[i + 1], b[i])
  <1>1. b \in Seq(Bytes) /\ Len(b) \in Nat \ {0} /\ b[1].msg \in 1 .. Len(q) /\ b[1] \in Bytes
    BY DEF Piece
  <1>2. b[1].msg \in Nat \ {0} /\ b[1].pos \in Nat \ {0}
    BY <1>1, MaskedIs
  <1>3. ASSUME NEW i \in 1 .. Len(b) PROVE b[i].msg = b[1].msg /\ b[i].pos = b[1].pos + i - 1
    <2>1. PICK p : p = b[1].pos + i - 1
      OBVIOUS
    <2>2. p \in Nat \ {0}
      BY <1>1, <1>2, <2>1
    <2>3. b[i] = Masked(b[1].msg, p)
      BY <2>1 DEF Piece
    <2> QED
      BY <1>2, <2>1, <2>2, <2>3, MaskedIs
  <1>4. ASSUME NEW i \in 1 .. Len(b), i + 1 <= Len(b) PROVE After(q, b[i + 1], b[i])
    <2>1. i + 1 \in 1 .. Len(b)
      BY <1>1, <1>4
    <2>2. b[i + 1].msg = b[i].msg /\ b[i + 1].pos = b[1].pos + (i + 1) - 1 /\ b[i].pos = b[1].pos + i - 1
      BY <1>3, <2>1
    <2>3. b[i + 1].pos = b[i].pos + 1
      BY <1>1, <1>2, <2>2
    <2> QED
      BY <2>2, <2>3 DEF After
  <1> QED
    BY <1>1, <1>2, <1>3, <1>4

\* One more message is written.
LEMMA OneMoreMessage ==
    ASSUME NEW q \in Seq(Nat), NEW size \in Nat, NEW r, r = Append(q, size)
    PROVE  /\ r \in Seq(Nat) /\ Len(r) = Len(q) + 1 /\ Len(q) \in Nat /\ r # <<>> /\ r[Len(q) + 1] = size
           /\ \A i \in 1 .. Len(q) : r[i] = q[i]
           /\ \A a, b : a.msg \in 1 .. Len(q) /\ After(q, b, a) => After(r, b, a)
           /\ \A b : Piece(q, b) => Piece(r, b)
           /\ \A a, b : Final(q, a) /\ b.msg = Len(q) + 1 /\ b.pos = 1 => After(r, b, a)
  <1>1. r \in Seq(Nat) /\ Len(r) = Len(q) + 1 /\ Len(q) \in Nat /\ r # <<>> /\ r[Len(q) + 1] = size
    OBVIOUS
  <1>2. \A i \in 1 .. Len(q) : r[i] = q[i]
    OBVIOUS
  <1>3. \A a, b : a.msg \in 1 .. Len(q) /\ After(q, b, a) => After(r, b, a)
    BY <1>2 DEF After
  <1>4. \A i \in 1 .. Len(q) : i \in 1 .. Len(r)
    BY <1>1
  <1>5. \A b : Piece(q, b) => Piece(r, b)
    BY <1>4 DEF Piece
  <1>6. ASSUME NEW a, NEW b, Final(q, a), b.msg = Len(q) + 1, b.pos = 1 PROVE After(r, b, a)
    <2>1. Len(q) \in 1 .. Len(q)
      BY <1>1, <1>6 DEF Final
    <2>2. r[Len(q)] = q[Len(q)]
      BY <1>2, <2>1
    <2> QED
      BY <1>6, <2>2 DEF Final, After
  <1> QED
    BY <1>1, <1>2, <1>3, <1>5, <1>6

\* A message is written: its buffers go to the end.
LEMMA WriteFollows ==
    ASSUME NEW q, NEW w, NEW z, NEW o, OutOk(q, w, z, o), NEW size \in Nat
    PROVE  OutOk(Append(q, size), w \o Frame(Len(q) + 1, size), z, o)
  <1>1. /\ q \in Seq(Nat) /\ w \in Seq(Seq(Bytes)) /\ o \in Seq(Bytes) /\ z \in Nat
        /\ Len(q) \in Nat /\ Len(w) \in Nat /\ Len(o) \in Nat
        /\ \A k \in 1 .. Len(w) : Piece(q, w[k])
        /\ IF w = <<>> THEN z = 0 ELSE z < Len(w[1])
        /\ \A k \in 1 .. Len(o) : o[k].msg \in 1 .. Len(q)
    <2>1. /\ q \in Seq(Nat) /\ w \in Seq(Seq(Bytes)) /\ o \in Seq(Bytes) /\ z \in Nat
          /\ \A k \in 1 .. Len(w) : Piece(q, w[k])
          /\ IF w = <<>> THEN z = 0 ELSE z < Len(w[1])
          /\ \A k \in 1 .. Len(o) : o[k].msg \in 1 .. Len(q)
      BY DEF OutOk, OutTyped
    <2>2. q \in Seq(Nat) /\ w \in Seq(Seq(Bytes)) /\ o \in Seq(Bytes)
      BY <2>1
    <2>3. Len(q) \in Nat /\ Len(w) \in Nat /\ Len(o) \in Nat
      BY <2>2
    <2> QED
      BY <2>1, <2>3
  <1>2. Chained(q, w) /\ Continued(q, w, z, o) /\ Linked(q, o)
    BY DEF OutOk
  <1>3. PICK r : r = Append(q, size)
    OBVIOUS
  <1>4. /\ r \in Seq(Nat) /\ Len(r) = Len(q) + 1 /\ r # <<>> /\ r[Len(q) + 1] = size
        /\ \A a, b : a.msg \in 1 .. Len(q) /\ After(q, b, a) => After(r, b, a)
        /\ \A b : Piece(q, b) => Piece(r, b)
        /\ \A a, b : Final(q, a) /\ b.msg = Len(q) + 1 /\ b.pos = 1 => After(r, b, a)
    BY <1>1, <1>3, OneMoreMessage
  <1>5. PICK m : m = Len(q) + 1
    OBVIOUS
  <1>6. m \in Nat \ {0} /\ m \in 1 .. Len(r) /\ m = Len(r)
    BY <1>1, <1>4, <1>5
  <1>7. PICK F : F = Frame(m, size)
    OBVIOUS
  <1>8. Holds(F, m, size)
    BY <1>6, <1>7, FrameIs
  <1>9. /\ F \in Seq(Seq(Bytes)) /\ F # <<>> /\ Len(F) \in Nat \ {0} /\ F[1][1].pos = 1
        /\ \A k \in 1 .. Len(F) :
              /\ F[k] # <<>> /\ F[k][1].msg = m /\ F[k] \in Seq(Bytes)
              /\ \A i \in 1 .. Len(F[k]) : F[k][i] = Masked(m, F[k][1].pos + i - 1)
              /\ IF k < Len(F) THEN F[k + 1][1].pos = F[k][Len(F[k])].pos + 1
                 ELSE F[k][Len(F[k])].pos = HdrSize + size
    BY <1>8 DEF Holds
  <1>10. \A k \in 1 .. Len(F) : Piece(r, F[k])
    BY <1>6, <1>9 DEF Piece
  <1>11. \A k \in 1 .. Len(F) : F[k][Len(F[k])].msg = m
    <2> TAKE k \in 1 .. Len(F)
    <2>1. Piece(r, F[k]) /\ F[k][1].msg = m
      BY <1>9, <1>10
    <2>2. PICK b : b = F[k]
      OBVIOUS
    <2>3. Piece(r, b) /\ b[1].msg = m
      BY <2>1, <2>2
    <2>4. Len(b) \in 1 .. Len(b)
      BY <2>3, PieceIs
    <2>5. b[Len(b)].msg = m
      BY <2>3, <2>4, PieceIs
    <2> QED
      BY <2>2, <2>5
  <1>12. PICK v : v = w \o F
    OBVIOUS
  <1>13. /\ v \in Seq(Seq(Bytes)) /\ Len(v) = Len(w) + Len(F)
         /\ \A i \in 1 .. Len(w) : v[i] = w[i]
         /\ \A i \in 1 .. Len(F) : v[Len(w) + i] = F[i]
    <2>1. F \in Seq(Seq(Bytes)) /\ w \in Seq(Seq(Bytes))
      BY <1>1, <1>9
    <2> QED
      BY <1>12, <2>1, JoinedBuffers
  <1>14. v # <<>> /\ 1 \in 1 .. Len(F)
    BY <1>1, <1>9, <1>13
  <1>15. Len(v) = Len(w) + Len(F) /\ Len(w) \in Nat /\ Len(F) \in Nat \ {0}
    BY <1>1, <1>9, <1>13
  <1>16. \A k \in 1 .. Len(v) : k \in 1 .. Len(w) \/ \E j \in 1 .. Len(F) : k = Len(w) + j
    <2> TAKE k \in 1 .. Len(v)
    <2>1. k > Len(w) => k - Len(w) \in 1 .. Len(F) /\ k = Len(w) + (k - Len(w))
      BY <1>1, <1>9, <1>13
    <2>2. k > Len(w) \/ k \in 1 .. Len(w)
      BY <1>1, <1>9, <1>13
    <2> QED
      BY <2>1, <2>2
  <1>17. \A k \in 1 .. Len(v) : Piece(r, v[k])
    <2> TAKE k \in 1 .. Len(v)
    <2>1. CASE k \in 1 .. Len(w)
      BY <1>1, <1>4, <1>13, <2>1
    <2>2. CASE \E j \in 1 .. Len(F) : k = Len(w) + j
      BY <1>10, <1>13, <2>2
    <2> QED
      BY <1>16, <2>1, <2>2
  <1>18. ASSUME NEW k \in 1 .. Len(w) PROVE w[k][Len(w[k])].msg \in 1 .. Len(q)
    <2>1. PICK b : b = w[k]
      OBVIOUS
    <2>2. Piece(q, b)
      BY <1>1, <2>1
    <2>3. Len(b) \in 1 .. Len(b)
      BY <2>2, PieceIs
    <2>4. b[Len(b)].msg \in 1 .. Len(q)
      BY <2>2, <2>3, PieceIs
    <2> QED
      BY <2>1, <2>4
  <1>19. Chained(r, v)
    <2> SUFFICES ASSUME NEW k \in 1 .. Len(v)
                 PROVE  IF k < Len(v) THEN After(r, v[k + 1][1], v[k][Len(v[k])])
                        ELSE Final(r, v[k][Len(v[k])])
      BY DEF Chained
    <2>1. CASE k \in 1 .. Len(w) /\ k < Len(w)
      <3>1. k < Len(v) /\ k + 1 \in 1 .. Len(w) /\ v[k] = w[k]
        <4>1. k < Len(v) /\ k + 1 \in 1 .. Len(w)
          BY <1>15, <2>1
        <4>2. v[k] = w[k]
          BY <1>13, <2>1
        <4> QED
          BY <4>1, <4>2
      <3>2. v[k + 1] = w[k + 1]
        BY <1>13, <3>1
      <3>3. After(q, w[k + 1][1], w[k][Len(w[k])])
        BY <1>2, <2>1 DEF Chained
      <3>4. After(r, w[k + 1][1], w[k][Len(w[k])])
        BY <1>4, <1>18, <2>1, <3>3
      <3> QED
        BY <3>1, <3>2, <3>4
    <2>2. CASE k \in 1 .. Len(w) /\ ~ (k < Len(w))
      <3>1. k = Len(w) /\ k < Len(v) /\ v[k] = w[k]
        <4>1. k = Len(w) /\ k < Len(v)
          BY <1>15, <2>2
        <4>2. v[k] = w[k]
          BY <1>13, <2>2
        <4> QED
          BY <4>1, <4>2
      <3>2. v[k + 1] = F[1]
        BY <1>13, <1>14, <3>1
      <3>3. Final(q, w[k][Len(w[k])])
        BY <1>2, <2>2 DEF Chained
      <3>4. F[1][1].msg = Len(q) + 1 /\ F[1][1].pos = 1
        BY <1>5, <1>9, <1>14
      <3>5. After(r, F[1][1], w[k][Len(w[k])])
        BY <1>4, <3>3, <3>4
      <3> QED
        BY <3>1, <3>2, <3>5
    <2>3. CASE \E j \in 1 .. Len(F) : k = Len(w) + j
      <3>1. PICK j \in 1 .. Len(F) : k = Len(w) + j
        BY <2>3
      <3>2. v[k] = F[j] /\ F[j][Len(F[j])].msg = m
        BY <1>11, <1>13, <3>1
      <3>3. CASE j < Len(F)
        <4>1. k < Len(v) /\ j + 1 \in 1 .. Len(F) /\ k + 1 = Len(w) + (j + 1)
          BY <1>15, <3>1, <3>3
        <4>2. v[k + 1] = F[j + 1]
          <5>1. v[Len(w) + (j + 1)] = F[j + 1]
            BY <1>13, <4>1
          <5> QED
            BY <4>1, <5>1
        <4>3. F[j + 1][1].msg = m
          BY <1>9, <4>1
        <4>4. F[j + 1][1].pos = F[j][Len(F[j])].pos + 1
          BY <1>9, <3>3
        <4>5. After(r, F[j + 1][1], F[j][Len(F[j])])
          BY <3>2, <4>3, <4>4 DEF After
        <4> QED
          BY <3>2, <4>1, <4>2, <4>5
      <3>4. CASE ~ (j < Len(F))
        <4>1. ~ (k < Len(v))
          BY <1>15, <3>1, <3>4
        <4>2. F[j][Len(F[j])].pos = HdrSize + size
          BY <1>9, <3>4
        <4>3. r[Len(r)] = size
          BY <1>4
        <4>4. Final(r, F[j][Len(F[j])])
          BY <1>4, <1>6, <3>2, <4>2, <4>3 DEF Final
        <4> QED
          BY <3>2, <4>1, <4>4
      <3> QED
        BY <3>3, <3>4
    <2> QED
      BY <1>16, <2>1, <2>2, <2>3
  <1>20. o # <<>> => Len(o) \in 1 .. Len(o) /\ o[Len(o)].msg \in 1 .. Len(q)
    BY <1>1
  <1>21. Continued(r, v, z, o)
    <2>1. CASE w = <<>>
      <3>1. z + 1 = 1 /\ Len(w) + 1 = 1 /\ v[1] = F[1]
        BY <1>1, <1>13, <1>14, <2>1
      <3>2. F[1][1].msg = m /\ F[1][1].pos = 1
        BY <1>9, <1>14
      <3>3. CASE o = <<>>
        <4>1. q = <<>>
          BY <1>2, <2>1, <3>3 DEF Continued
        <4>2. m = 1
          BY <1>5, <4>1
        <4> QED
          BY <1>14, <3>1, <3>2, <3>3, <4>2 DEF Continued
      <3>4. CASE o # <<>>
        <4>1. Final(q, o[Len(o)])
          BY <1>2, <2>1, <3>4 DEF Continued
        <4>2. After(r, F[1][1], o[Len(o)])
          BY <1>4, <1>5, <3>2, <4>1
        <4> QED
          BY <1>14, <3>1, <3>4, <4>2 DEF Continued
      <3> QED
        BY <3>3, <3>4
    <2>2. CASE w # <<>>
      <3>1. 1 \in 1 .. Len(w)
        BY <1>1, <2>2
      <3>2. v[1] = w[1]
        BY <1>13, <3>1
      <3>3. CASE o = <<>>
        <4>1. w[1][z + 1].msg = 1 /\ w[1][z + 1].pos = 1
          BY <1>2, <2>2, <3>3 DEF Continued
        <4> QED
          BY <1>14, <3>2, <3>3, <4>1 DEF Continued
      <3>4. CASE o # <<>>
        <4>1. After(q, w[1][z + 1], o[Len(o)])
          BY <1>2, <2>2, <3>4 DEF Continued
        <4>2. After(r, w[1][z + 1], o[Len(o)])
          BY <1>4, <1>20, <3>4, <4>1
        <4> QED
          BY <1>14, <3>2, <3>4, <4>2 DEF Continued
      <3> QED
        BY <3>3, <3>4
    <2> QED
      BY <2>1, <2>2
  <1>22. Linked(r, o)
    <2> SUFFICES ASSUME NEW k \in 1 .. Len(o)
                 PROVE  IF k = 1 THEN o[k].msg = 1 /\ o[k].pos = 1 ELSE After(r, o[k], o[k - 1])
      BY DEF Linked
    <2>1. CASE k = 1
      BY <1>2, <2>1 DEF Linked
    <2>2. CASE k # 1
      <3>1. k - 1 \in 1 .. Len(o)
        BY <1>1, <2>2
      <3>2. After(q, o[k], o[k - 1])
        BY <1>2, <2>2 DEF Linked
      <3>3. After(r, o[k], o[k - 1])
        BY <1>1, <1>4, <3>1, <3>2
      <3> QED
        BY <2>2, <3>3
    <2> QED
      BY <2>1, <2>2
  <1>23. OutTyped(r, v, z, o)
    <2>1. z < Len(v[1])
      <3>1. CASE w = <<>>
        <4>1. z = 0 /\ Len(w) + 1 = 1 /\ v[1] = F[1]
          BY <1>1, <1>13, <1>14, <3>1
        <4>2. F[1] \in Seq(Bytes) /\ F[1] # <<>>
          BY <1>9, <1>14
        <4>3. Len(F[1]) > 0
          BY <4>2
        <4> QED
          BY <4>1, <4>3
      <3>2. CASE w # <<>>
        <4>1. 1 \in 1 .. Len(w)
          BY <1>1, <3>2
        <4> QED
          BY <1>1, <1>13, <3>2, <4>1
      <3> QED
        BY <3>1, <3>2
    <2>2. \A k \in 1 .. Len(o) : o[k].msg \in 1 .. Len(r)
      BY <1>1, <1>4
    <2> QED
      BY <1>1, <1>4, <1>13, <1>14, <1>17, <2>1, <2>2 DEF OutTyped
  <1>24. OutOk(r, v, z, o)
    BY <1>19, <1>21, <1>22, <1>23 DEF OutOk
  <1> QED
    BY <1>3, <1>5, <1>7, <1>12, <1>24

\* One send takes n bytes of the first buffer.
LEMMA SendFollows ==
    ASSUME NEW q, NEW w, NEW z, NEW o, OutOk(q, w, z, o), w # <<>>, NEW n \in 1 .. Len(w[1]) - z
    PROVE  IF z + n = Len(w[1]) THEN OutOk(q, Tail(w), 0, o \o SubSeq(w[1], z + 1, z + n))
           ELSE OutOk(q, w, z + n, o \o SubSeq(w[1], z + 1, z + n))
  <1>1. /\ q \in Seq(Nat) /\ w \in Seq(Seq(Bytes)) /\ o \in Seq(Bytes) /\ z \in Nat
        /\ \A k \in 1 .. Len(w) : Piece(q, w[k])
        /\ z < Len(w[1])
        /\ \A k \in 1 .. Len(o) : o[k].msg \in 1 .. Len(q)
    BY DEF OutOk, OutTyped
  <1>2. Chained(q, w) /\ Continued(q, w, z, o) /\ Linked(q, o)
    BY DEF OutOk
  <1>3. Len(w) \in Nat \ {0} /\ 1 \in 1 .. Len(w) /\ Len(o) \in Nat
    BY <1>1
  <1>4. PICK b : b = w[1]
    OBVIOUS
  <1>5. Piece(q, b)
    BY <1>1, <1>3, <1>4
  <1>6. /\ b \in Seq(Bytes) /\ Len(b) \in Nat \ {0} /\ b[1].msg \in 1 .. Len(q)
        /\ \A i \in 1 .. Len(b) : b[i].msg = b[1].msg
        /\ \A i \in 1 .. Len(b) : i + 1 <= Len(b) => After(q, b[i + 1], b[i])
    BY <1>5, PieceIs
  <1>7. n \in Nat \ {0} /\ z + n \in 1 .. Len(b) /\ z + 1 \in 1 .. Len(b) /\ z \in Nat
    <2>1. z \in Nat /\ z < Len(b)
      BY <1>1, <1>4
    <2>2. Len(b) \in Nat
      BY <1>6
    <2>3. n \in 1 .. Len(b) - z
      BY <1>4
    <2> QED
      BY <2>1, <2>2, <2>3
  <1>8. PICK s : s = SubSeq(b, z + 1, z + n)
    OBVIOUS
  <1>9. /\ s \in Seq(Bytes) /\ Len(s) = n
        /\ \A i \in 1 .. n : s[i] = b[z + i]
    <2>1. b \in Seq(Bytes)
      BY <1>6
    <2> QED
      BY <1>7, <1>8, <2>1
  <1>10. PICK g : g = o \o s
    OBVIOUS
  <1>11. g = o \o SubSeq(w[1], z + 1, z + n)
    BY <1>4, <1>8, <1>10
  <1>12. /\ g \in Seq(Bytes) /\ Len(g) = Len(o) + n
         /\ \A i \in 1 .. Len(o) : g[i] = o[i]
         /\ \A i \in 1 .. n : g[Len(o) + i] = s[i]
    <2>1. o \in Seq(Bytes) /\ s \in Seq(Bytes) /\ Len(s) = n
      BY <1>1, <1>9
    <2> QED
      BY <1>10, <2>1, JoinedBytes
  <1>13. /\ Len(g) \in Nat \ {0} /\ g # <<>> /\ g[Len(g)] = b[z + n]
    <2>1. n \in 1 .. n /\ Len(g) \in Nat \ {0}
      BY <1>3, <1>7, <1>12
    <2>2. g[Len(o) + n] = b[z + n]
      BY <1>9, <1>12, <2>1
    <2>3. g # <<>>
      BY <2>1
    <2> QED
      BY <1>12, <2>1, <2>2, <2>3
  <1>14. ASSUME NEW k \in 1 .. Len(g)
         PROVE  k \in 1 .. Len(o) \/ \E i \in 1 .. n : k = Len(o) + i /\ g[k] = b[z + i] /\ z + i \in 1 .. Len(b)
    <2>1. CASE k <= Len(o)
      BY <1>3, <2>1
    <2>2. CASE k > Len(o)
      <3>1. PICK i \in 1 .. n : k = Len(o) + i
        <4>1. k - Len(o) \in 1 .. n /\ k = Len(o) + (k - Len(o))
          BY <1>3, <1>7, <1>12, <2>2
        <4> QED
          BY <4>1
      <3>2. z + i \in 1 .. Len(b)
        BY <1>6, <1>7
      <3>3. g[k] = b[z + i]
        BY <1>9, <1>12, <3>1
      <3> QED
        BY <3>1, <3>2, <3>3
    <2> QED
      BY <1>3, <2>1, <2>2
  <1>15. \A k \in 1 .. Len(g) : g[k].msg \in 1 .. Len(q)
    <2> TAKE k \in 1 .. Len(g)
    <2>1. CASE k \in 1 .. Len(o)
      BY <1>1, <1>12, <2>1
    <2>2. CASE \E i \in 1 .. n : k = Len(o) + i /\ g[k] = b[z + i] /\ z + i \in 1 .. Len(b)
      BY <1>6, <2>2
    <2> QED
      BY <1>14, <2>1, <2>2
  <1>16. Linked(q, g)
    <2> SUFFICES ASSUME NEW k \in 1 .. Len(g)
                 PROVE  IF k = 1 THEN g[k].msg = 1 /\ g[k].pos = 1 ELSE After(q, g[k], g[k - 1])
      BY DEF Linked
    <2>1. CASE k \in 1 .. Len(o)
      <3>1. g[k] = o[k]
        BY <1>12, <2>1
      <3>2. IF k = 1 THEN o[k].msg = 1 /\ o[k].pos = 1 ELSE After(q, o[k], o[k - 1])
        BY <1>2, <2>1 DEF Linked
      <3>3. k # 1 => k - 1 \in 1 .. Len(o)
        BY <1>3, <2>1
      <3>4. k # 1 => g[k - 1] = o[k - 1]
        BY <1>12, <3>3
      <3> QED
        BY <3>1, <3>2, <3>4
    <2>2. CASE \E i \in 1 .. n : k = Len(o) + i /\ g[k] = b[z + i] /\ z + i \in 1 .. Len(b)
      <3>1. PICK i \in 1 .. n : k = Len(o) + i /\ g[k] = b[z + i] /\ z + i \in 1 .. Len(b)
        BY <2>2
      <3>2. CASE i = 1 /\ o = <<>>
        <4>1. k = 1 /\ g[k] = b[z + 1]
          BY <3>1, <3>2
        <4>2. b[z + 1].msg = 1 /\ b[z + 1].pos = 1
          BY <1>2, <1>4, <3>2 DEF Continued
        <4> QED
          BY <4>1, <4>2
      <3>3. CASE i = 1 /\ o # <<>>
        <4>1. Len(o) \in 1 .. Len(o) /\ k - 1 = Len(o) /\ k # 1 /\ g[k] = b[z + 1]
          BY <1>1, <1>3, <3>1, <3>3
        <4>2. g[k - 1] = o[Len(o)]
          BY <1>12, <4>1
        <4>3. After(q, b[z + 1], o[Len(o)])
          BY <1>2, <1>4, <3>3 DEF Continued
        <4> QED
          BY <4>1, <4>2, <4>3
      <3>4. CASE i # 1
        <4>1. PICK j \in 1 .. n : j = i - 1
          BY <1>7, <3>4
        <4>2. k - 1 = Len(o) + j /\ k # 1 /\ z + i = (z + j) + 1 /\ z + j \in 1 .. Len(b) /\ (z + j) + 1 <= Len(b)
          BY <1>3, <1>6, <1>7, <3>1, <4>1
        <4>3. g[k - 1] = b[z + j]
          BY <1>9, <1>12, <4>2
        <4>4. After(q, b[(z + j) + 1], b[z + j])
          BY <1>6, <4>2
        <4> QED
          BY <3>1, <4>2, <4>3, <4>4
      <3> QED
        BY <3>2, <3>3, <3>4
    <2> QED
      BY <1>14, <2>1, <2>2
  <1>17. CASE z + n = Len(b)
    <2>1. PICK t : t = Tail(w)
      OBVIOUS
    <2>2. z + n = Len(w[1])
      BY <1>4, <1>17
    <2>3. t \in Seq(Seq(Bytes)) /\ Len(t) = Len(w) - 1 /\ \A k \in 1 .. Len(w) - 1 : t[k] = w[k + 1]
      BY <1>1, <2>1
    <2>4. ASSUME NEW k \in 1 .. Len(t) PROVE k + 1 \in 1 .. Len(w) /\ t[k] = w[k + 1] /\ (k + 1 < Len(w) <=> k < Len(t))
      BY <1>3, <2>3
    <2>5. \A k \in 1 .. Len(t) : Piece(q, t[k])
      BY <1>1, <2>4
    <2>6. t # <<>> => 0 < Len(t[1])
      <3> SUFFICES ASSUME t # <<>> PROVE 0 < Len(t[1])
        OBVIOUS
      <3>1. 1 \in 1 .. Len(t)
        BY <2>3
      <3>2. PICK c : c = t[1]
        OBVIOUS
      <3>3. Piece(q, c)
        BY <2>5, <3>1, <3>2
      <3>4. Len(c) \in Nat \ {0}
        BY <3>3, PieceIs
      <3> QED
        BY <3>2, <3>4
    <2>7. OutTyped(q, t, 0, g)
      BY <1>1, <1>12, <1>15, <2>3, <2>5, <2>6 DEF OutTyped
    <2>8. Chained(q, t)
      <3> SUFFICES ASSUME NEW k \in 1 .. Len(t)
                   PROVE  IF k < Len(t) THEN After(q, t[k + 1][1], t[k][Len(t[k])])
                          ELSE Final(q, t[k][Len(t[k])])
        BY DEF Chained
      <3>1. k + 1 \in 1 .. Len(w) /\ t[k] = w[k + 1] /\ (k + 1 < Len(w) <=> k < Len(t))
        BY <2>4
      <3>2. IF k + 1 < Len(w) THEN After(q, w[(k + 1) + 1][1], w[k + 1][Len(w[k + 1])])
            ELSE Final(q, w[k + 1][Len(w[k + 1])])
        BY <1>2, <3>1 DEF Chained
      <3>3. k < Len(t) => t[k + 1] = w[(k + 1) + 1]
        <4> SUFFICES ASSUME k < Len(t) PROVE t[k + 1] = w[(k + 1) + 1]
          OBVIOUS
        <4>1. k + 1 \in 1 .. Len(t)
          BY <1>3, <2>3
        <4> QED
          BY <2>4, <4>1
      <3> QED
        BY <3>1, <3>2, <3>3
    <2>9. Continued(q, t, 0, g)
      <3>1. IF 1 < Len(w) THEN After(q, w[1 + 1][1], b[Len(b)]) ELSE Final(q, b[Len(b)])
        BY <1>2, <1>3, <1>4 DEF Chained
      <3>2. g[Len(g)] = b[Len(b)] /\ g # <<>>
        BY <1>13, <1>17
      <3>3. CASE t = <<>>
        <4>1. ~ (1 < Len(w))
          <5>1. Len(t) = Len(w) - 1
            BY <2>3
          <5>2. Len(t) = 0
            BY <3>3
          <5>3. PICK a : a = Len(w)
            OBVIOUS
          <5>4. a \in Nat /\ a - 1 = 0
            BY <1>3, <5>1, <5>2, <5>3
          <5>5. ~ (1 < a)
            BY <5>4
          <5> QED
            BY <5>3, <5>5
        <4> QED
          BY <3>1, <3>2, <3>3, <4>1 DEF Continued
      <3>4. CASE t # <<>>
        <4>1. 1 < Len(w) /\ 1 \in 1 .. Len(t) /\ 0 + 1 = 1
          BY <1>3, <2>3, <3>4
        <4>2. t[1] = w[1 + 1]
          BY <2>4, <4>1
        <4>3. After(q, t[1][0 + 1], g[Len(g)])
          BY <3>1, <3>2, <4>1, <4>2
        <4> QED
          BY <3>2, <3>4, <4>3 DEF Continued
      <3> QED
        BY <3>3, <3>4
    <2>10. OutOk(q, t, 0, g)
      BY <1>16, <2>7, <2>8, <2>9 DEF OutOk
    <2> QED
      BY <1>11, <2>1, <2>2, <2>10
  <1>18. CASE z + n # Len(b)
    <2>1. z + n # Len(w[1])
      BY <1>4, <1>18
    <2>2. PICK x : x = z + n
      OBVIOUS
    <2>3. x \in Nat /\ x < Len(b) /\ x \in 1 .. Len(b) /\ x + 1 <= Len(b)
      BY <1>6, <1>7, <1>18, <2>2
    <2>4. OutTyped(q, w, x, g)
      BY <1>1, <1>4, <1>12, <1>15, <2>3 DEF OutTyped
    <2>5. After(q, b[x + 1], b[x])
      BY <1>6, <2>3
    <2>6. g[Len(g)] = b[x] /\ g # <<>>
      BY <1>13, <2>2
    <2>7. Continued(q, w, x, g)
      BY <1>4, <2>5, <2>6 DEF Continued
    <2>8. OutOk(q, w, x, g)
      BY <1>2, <1>16, <2>4, <2>7 DEF OutOk
    <2> QED
      BY <1>11, <2>1, <2>2, <2>8
  <1> QED
    BY <1>17, <1>18

\* A message is added to what is to be sent.
LEMMA AddSend ==
    ASSUME OutInv, NEW size \in Nat, queued' = Append(queued, size),
           whd_' = whd_ \o Frame(Len(queued'), size), wsz_' = wsz_, outwire' = outwire
    PROVE  OutInv'
  <1>1. queued \in Seq(Nat)
    BY DEF OutInv, OutOk, OutTyped
  <1>2. Len(queued') = Len(queued) + 1
    BY <1>1
  <1>3. OutOk(Append(queued, size), whd_ \o Frame(Len(queued) + 1, size), wsz_, outwire)
    BY WriteFollows DEF OutInv
  <1>4. OutOk(queued', whd_', wsz_', outwire')
    BY <1>2, <1>3
  <1> QED
    BY <1>4 DEF OutInv

\* The first bytes of a connection are still to be written.
LEMMA NothingSent == OutOk(<<>>, <<>>, 0, <<>>)
  BY DEF OutOk, OutTyped, Chained, Continued, Linked

\* A step of the connection keeps what the client writes in order.
LEMMA StepWrites ==
    ASSUME InInv, OutInv, [Next]_vars
    PROVE  OutInv'
  <1>1. CASE UNCHANGED outVars
    BY <1>1 DEF outVars, OutInv
  <1>2. CASE ParseWs
    <2>1. PICK f : f = Unparsed[1][1]
      OBVIOUS
    <2>2. f \in 1 .. Len(Script)
      BY <1>2, <2>1, WholeFrameIs DEF ParseWs
    <2>3. AnswerSize(f) \in Nat
      BY <2>2, TotalPositive DEF AnswerSize
    <2>4. wsz_' = wsz_ /\ outwire' = outwire
      BY <1>2 DEF ParseWs
    <2>5. IF Answers(f)
          THEN queued' = Append(queued, AnswerSize(f)) /\ whd_' = whd_ \o Frame(Len(queued'), AnswerSize(f))
          ELSE queued' = queued /\ whd_' = whd_
      BY <1>2, <2>1 DEF ParseWs
    <2>6. CASE Answers(f)
      BY <2>3, <2>4, <2>5, <2>6, AddSend
    <2>7. CASE ~ Answers(f)
      BY <2>4, <2>5, <2>7 DEF OutInv
    <2> QED
      BY <2>6, <2>7
  <1>3. CASE \E size \in OutSizes : Write(size)
    <2>1. PICK size \in OutSizes : Write(size)
      BY <1>3
    <2>2. size \in Nat
      BY NetAssumption
    <2>3. /\ queued' = Append(queued, size) /\ whd_' = whd_ \o Frame(Len(queued'), size)
          /\ wsz_' = wsz_ /\ outwire' = outwire
      BY <2>1 DEF Write
    <2> QED
      BY <2>2, <2>3, AddSend
  <1>4. CASE \E n \in 1 .. net_buf_len : PollSend(n)
    <2>1. PICK n \in 1 .. net_buf_len : PollSend(n)
      BY <1>4
    <2>2. whd_ # <<>> /\ n \in 1 .. Len(Head(whd_)) - wsz_ /\ queued' = queued
      BY <2>1 DEF PollSend
    <2>3. whd_ \in Seq(Seq(Bytes))
      BY DEF OutInv, OutOk, OutTyped
    <2>4. Head(whd_) = whd_[1]
      BY <2>2, <2>3
    <2>5. n \in 1 .. Len(whd_[1]) - wsz_
      BY <2>2, <2>4
    <2>6. IF wsz_ + n = Len(whd_[1])
          THEN OutOk(queued, Tail(whd_), 0, outwire \o SubSeq(whd_[1], wsz_ + 1, wsz_ + n))
          ELSE OutOk(queued, whd_, wsz_ + n, outwire \o SubSeq(whd_[1], wsz_ + 1, wsz_ + n))
      BY <2>2, <2>5, SendFollows DEF OutInv
    <2>7. outwire' = outwire \o SubSeq(whd_[1], wsz_ + 1, wsz_ + n)
      BY <2>1, <2>4 DEF PollSend
    <2>8. IF wsz_ + n = Len(whd_[1]) THEN whd_' = Tail(whd_) /\ wsz_' = 0
          ELSE wsz_' = wsz_ + n /\ whd_' = whd_
      BY <2>1, <2>4 DEF PollSend
    <2>9. OutOk(queued', whd_', wsz_', outwire')
      BY <2>2, <2>6, <2>7, <2>8
    <2> QED
      BY <2>9 DEF OutInv
  <1>5. CASE Break
    <2>1. whd_' = <<>> /\ wsz_' = 0 /\ outwire' = <<>> /\ queued' = <<>>
      BY <1>5 DEF Break
    <2> QED
      BY <2>1, NothingSent DEF OutInv
  <1>6. CASE PeerSend
    BY <1>1, <1>6 DEF PeerSend
  <1>7. CASE \E n \in 1 .. buf_len : Recv(n)
    BY <1>1, <1>7 DEF Recv
  <1>8. CASE ParseReply
    BY <1>1, <1>8 DEF ParseReply
  <1>9. CASE ParseMore
    BY <1>1, <1>9 DEF ParseMore
  <1>10. CASE UNCHANGED vars
    BY <1>1, <1>10 DEF vars
  <1> QED
    BY <1>2, <1>3, <1>4, <1>5, <1>6, <1>7, <1>8, <1>9, <1>10 DEF Next

\* What was sent can be read by the peer.
LEMMA SentReadable ==
    ASSUME OutInv
    PROVE  FramesReadable
  <1>1. outwire \in Seq(Bytes) /\ Linked(queued, outwire)
    BY DEF OutInv, OutOk, OutTyped
  <1>2. ASSUME NEW k \in DOMAIN outwire
        PROVE  /\ IF k = 1 THEN outwire[k].msg = 1 /\ outwire[k].pos = 1 ELSE Follows(outwire[k], outwire[k - 1])
               /\ outwire[k].key = IF outwire[k].pos <= HdrSize THEN -1 ELSE (outwire[k].pos - HdrSize - 1) % 4
    <2>1. k \in 1 .. Len(outwire)
      BY <1>1
    <2>2. IF k = 1 THEN outwire[k].msg = 1 /\ outwire[k].pos = 1 ELSE After(queued, outwire[k], outwire[k - 1])
      BY <1>1, <2>1 DEF Linked
    <2>3. IF k = 1 THEN outwire[k].msg = 1 /\ outwire[k].pos = 1 ELSE Follows(outwire[k], outwire[k - 1])
      BY <2>2 DEF After, Follows
    <2>4. PICK b : b = outwire[k]
      OBVIOUS
    <2>5. b \in Bytes
      BY <1>1, <2>1, <2>4
    <2>6. b = Masked(b.msg, b.pos)
      BY <2>5, MaskedIs
    <2>7. Masked(b.msg, b.pos).key = IF b.pos <= HdrSize THEN -1 ELSE (b.pos - HdrSize - 1) % 4
      BY DEF Masked
    <2> QED
      BY <2>3, <2>4, <2>6, <2>7
  <1> QED
    BY <1>2 DEF FramesReadable

\* What the client has read, kept and written of the bytes of a connection
\* stays in order (net_connect::poll_recv, poll_send, ws_parser, ws_wtr).
THEOREM BytesKept == TransportSpec => [](InInv /\ OutInv)
  <1>1. TransportInit => InInv /\ OutInv
    <2> SUFFICES ASSUME TransportInit PROVE InInv /\ OutInv
      OBVIOUS
    <2>1. Init
      BY DEF TransportInit
    <2>2. OutInv
      BY <2>1, NothingSent DEF Init, OutInv
    <2> QED
      BY <2>1, <2>2, InitReads
  <1>2. InInv /\ OutInv /\ [TransportNext]_<<part, vars, rpcVars, txVars>> => (InInv /\ OutInv)'
    <2> SUFFICES ASSUME InInv, OutInv, [TransportNext]_<<part, vars, rpcVars, txVars>> PROVE (InInv /\ OutInv)'
      OBVIOUS
    <2>1. [Next]_vars
      BY DEF TransportNext
    <2> QED
      BY <2>1, StepReads, StepWrites
  <1> QED
    BY <1>1, <1>2, PTL DEF TransportSpec

\* Both directions of a connection, for any script of the peer's, any sizes of
\* frames and buffers, and however recv and send cut the bytes up: poll_recv
\* holds no complete message back, and the frames that ws_wtr and poll_send put
\* on the wire can be read, each byte masked with its own byte of the key.
THEOREM StreamAlwaysSound == TransportSpec => []StreamSound
  <1>1. InInv /\ OutInv => StreamSound
    BY AllTaken, SentReadable DEF StreamSound
  <1> QED
    BY <1>1, BytesKept, PTL

\* The connection implements the channel: messages come out whole, once and in
\* order, each connection afresh but for the frames left in the parser.
THEOREM ImplementsChannel == TransportSpec => InOrder
  <1>1. TransportInit => Channel!Init
    BY DEF TransportInit, Init, Channel!Init
  <1>2. InInv /\ [TransportNext]_<<part, vars, rpcVars, txVars>> => [Channel!Next]_<<sent, delivered>>
    <2> SUFFICES ASSUME InInv, [TransportNext]_<<part, vars, rpcVars, txVars>>
                 PROVE  [Channel!Next]_<<sent, delivered>>
      OBVIOUS
    <2>1. [Next]_vars
      BY DEF TransportNext
    <2> QED
      BY <2>1, StepOnChannel
  <1> QED
    BY <1>1, <1>2, BytesKept, PTL DEF TransportSpec, InOrder, Channel!Spec
=============================================================================
