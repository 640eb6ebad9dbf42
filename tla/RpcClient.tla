------------------------------ MODULE RpcClient ------------------------------
(***************************************************************************)
(* How rpc_client matches what the node sends with what was asked: request *)
(* ids that are used again, transactions of several prices under one id,   *)
(* subscriptions by the node's own ids, and callbacks that send again from *)
(* within a response.                                                      *)
(*                                                                         *)
(* A request is a number, given in the order of sending.  The node answers *)
(* in any order (there are two connections); it may also refuse a message  *)
(* it could not read, with a null id.                                      *)
(***************************************************************************)
EXTENDS Integers, Sequences, FiniteSets, FiniteSetsExt, SequencesExt

CONSTANTS
    MaxSend,     \* bound: requests sent
    MaxNull,     \* bound: replies with a null id
    MaxReset     \* bound: connections made again

VARIABLES
    id_, reuse_,
    rv_,         \* requests waiting: [id, req]
    smap_,       \* subscriptions: the node's id -> request
    ntok,        \* requests sent so far
    wire,        \* the node's open requests: [id, reqs, kind]
    subs,        \* the node's subscriptions: [sub, req, once]
    last,        \* history: who the last message was for, and who got it
    nulls, resets

vars == <<id_, reuse_, rv_, smap_, ntok, wire, subs, last, nulls, resets>>

Kinds == {"call", "batch", "slot", "signature"}
IsSub(kind) == kind \in {"slot", "signature"}

-----------------------------------------------------------------------------
\* The id of the next request: the last one given back, or a new one.
NextId == IF reuse_ # <<>> THEN Last(reuse_) ELSE id_ + 1

\* The requests of one message: a transaction of prices has several.
Reqs(kind) == ntok + 1 .. ntok + (IF kind = "batch" THEN 2 ELSE 1)

\* send, which leaves given back the ids of ret, on a waiting list rv
Send(kind, rv, open, ret) ==
    /\ ntok < MaxSend
    /\ reuse_' = (IF reuse_ # <<>> THEN Front(reuse_) ELSE reuse_) \o ret
    /\ id_' = IF reuse_ # <<>> THEN id_ ELSE id_ + 1
    /\ rv_' = rv \union {[id |-> NextId, req |-> r] : r \in Reqs(kind)}
    /\ ntok' = ntok + Cardinality(Reqs(kind))
    /\ wire' = open \union {[id |-> NextId, reqs |-> Reqs(kind), kind |-> kind]}

Request(kind) ==
    /\ Send(kind, rv_, wire, <<>>)
    /\ UNCHANGED <<smap_, subs, last, nulls, resets>>

\* The requests waiting under an id.
Waiting(id) == {e \in rv_ : e.id = id}

\* rpc_subscription::add_notify: the request is known by the id in the result.
add_notify(w, sub) ==
    IF IsSub(w.kind)
    THEN /\ smap_' = [s \in DOMAIN smap_ \union {sub} |->
                        IF s = sub THEN Max({e.req : e \in Waiting(w.id)}) ELSE smap_[s]]
         /\ subs' = subs \union {[sub |-> sub, req |-> Max(w.reqs), once |-> w.kind = "signature"]}
    ELSE UNCHANGED <<smap_, subs>>

\* Mutant: the id is given back before the requests are told.
RespondEarlyReuse(w, again) ==
    /\ last' = [to |-> {e.req : e \in Waiting(w.id)}, of |-> w.reqs]
    /\ IF again = "none"
         THEN /\ rv_' = rv_ \ Waiting(w.id) /\ wire' = wire \ {w}
              /\ reuse_' = Append(reuse_, w.id) /\ UNCHANGED <<id_, ntok>>
         ELSE /\ ntok < MaxSend /\ ntok' = ntok + Cardinality(Reqs(again))
              /\ rv_' = rv_ \ Waiting(w.id)
              /\ wire' = (wire \ {w}) \union {[id |-> w.id, reqs |-> Reqs(again), kind |-> again]}
              /\ UNCHANGED <<id_, reuse_>>
    /\ add_notify(w, Cardinality(subs) + 1)
    /\ UNCHANGED <<nulls, resets>>

\* parse_response to an id: every request waiting under it is told, and one of
\* them may send again; then the id is given back and the requests forgotten.
Respond(w, again) ==
    /\ last' = [to |-> {e.req : e \in Waiting(w.id)}, of |-> w.reqs]
    /\ IF again = "none"
         THEN /\ rv_' = rv_ \ Waiting(w.id) /\ wire' = wire \ {w}
              /\ reuse_' = Append(reuse_, w.id) /\ UNCHANGED <<id_, ntok>>
         ELSE Send(again, rv_ \ Waiting(w.id), wire \ {w}, <<w.id>>)
    /\ add_notify(w, Cardinality(subs) + 1)
    /\ UNCHANGED <<nulls, resets>>

\* parse_response to an id of null, which is read as 0.
RespondNull ==
    /\ nulls < MaxNull /\ nulls' = nulls + 1
    /\ last' = [to |-> {e.req : e \in Waiting(0)}, of |-> {}]
    /\ rv_' = rv_ \ Waiting(0)
    /\ reuse_' = Append(reuse_, 0)
    /\ UNCHANGED <<id_, smap_, ntok, wire, subs, resets>>

\* Mutant: a subscription stays in the map after its last notification.
remove_notify_never(s) == smap_' = smap_

\* A request whose notify returns true is taken out of the map.
remove_notify(s) == smap_' = [t \in DOMAIN smap_ \ {s.sub} |-> smap_[t]]

\* parse_response to a notification.
Notify(s) ==
    /\ last' = [to |-> IF s.sub \in DOMAIN smap_ THEN {smap_[s.sub]} ELSE {}, of |-> {s.req}]
    /\ IF s.once
         THEN remove_notify(s) /\ subs' = (subs \ {s}) \union {[sub |-> s.sub, req |-> 0, once |-> FALSE]}
         ELSE UNCHANGED <<smap_, subs>>
    /\ UNCHANGED <<id_, reuse_, rv_, ntok, wire, nulls, resets>>

\* Mutant: the requests waiting stay.
ResetKeeps ==
    /\ resets < MaxReset /\ resets' = resets + 1
    /\ smap_' = <<>> /\ reuse_' = <<>> /\ id_' = 0
    /\ wire' = {} /\ subs' = {}
    /\ UNCHANGED <<rv_, ntok, last, nulls>>

\* The connections broke and were made again; reset forgets everything.
Reset ==
    /\ resets < MaxReset /\ resets' = resets + 1
    /\ rv_' = {} /\ smap_' = <<>> /\ reuse_' = <<>> /\ id_' = 0
    /\ wire' = {} /\ subs' = {}
    /\ UNCHANGED <<ntok, last, nulls>>

-----------------------------------------------------------------------------
Init ==
    /\ id_ = 0 /\ reuse_ = <<>> /\ rv_ = {} /\ smap_ = <<>>
    /\ ntok = 0 /\ wire = {} /\ subs = {}
    /\ last = [to |-> {}, of |-> {}] /\ nulls = 0 /\ resets = 0

Next ==
    \/ \E kind \in Kinds : Request(kind)
    \/ \E w \in wire, again \in Kinds \union {"none"} : Respond(w, again)
    \/ RespondNull
    \/ \E s \in {t \in subs : t.req # 0} : Notify(s)
    \/ Reset

Spec == Init /\ [][Next]_vars

-----------------------------------------------------------------------------
(* Properties *)

\* "parse and redirect response to corresponding request" (parse_response):
\* a response or notification goes to the requests it answers, to all of them
\* and to no other, though ids are used again, and a callback may take one.
RightReply == last.to = last.of

\* The client waits for exactly what the node has still to answer, each
\* message under its own id: no response will find nobody waiting.
Outstanding ==
    /\ rv_ = UNION {{[id |-> w.id, req |-> r] : r \in w.reqs} : w \in wire}
    /\ \A v, w \in wire : v.id = w.id => v = w

\* No subscription outlives the node's: a request that got its last
\* notification is not in the map, where its address would go stale.
SubscriptionsLive ==
    {smap_[s] : s \in DOMAIN smap_} = {s.req : s \in {t \in subs : t.req # 0}}

\* rpc_client's tables: replies reach their requests, what is waited for comes,
\* and subscriptions live as long as the node's.
RepliesRight == RightReply /\ Outstanding /\ SubscriptionsLive
=============================================================================
