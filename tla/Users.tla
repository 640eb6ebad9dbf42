-------------------------------- MODULE Users --------------------------------
(***************************************************************************)
(* pythd's websocket users: the requests of one message, subscriptions to  *)
(* prices and to their schedules, notifications, and users that go away.   *)
(*                                                                         *)
(* A product has one price, and both are named by the price.  The primary  *)
(* and the secondary manager each know some of them.  A message to a user  *)
(* is what it tells: the subscriptions it announces, or a subscription's   *)
(* notification and its value; what a user has heard is kept as history.   *)
(***************************************************************************)
EXTENDS Integers, Sequences

CONSTANTS
    User,        \* user objects; an address is used again after delete
    Price,       \* prices
    Secondary,   \* is there a secondary manager?
    MaxBatch,    \* bound: requests of one message
    MaxSubs,     \* bound: subscriptions of a user
    MaxUpdates   \* bound: updates of the prices, and of the managers' lists

ASSUME UsersAssumption == MaxBatch \in Nat

VARIABLES
    olist_, dlist_,    \* users open, and users to be deleted
    svec_,             \* a user's subscriptions: sequence of [kind, price]
    slist_,            \* a request's subscribers: set of [user, sidx]
    known,             \* prices each manager knows
    value,             \* a price's value
    dirty,             \* prices with an update to send, by manager
    heard,             \* history: ids announced, last values, ids used too early
    told, refused,     \* history: prices a user was told of; updates of them refused
    updates

vars == <<olist_, dlist_, svec_, slist_, known, value, dirty, heard, told, refused, updates>>

Managers == {"primary", "secondary"}
Request == {"price", "sched"} \X Price

\* What a user has heard: a reply announces subscriptions; notifications, one
\* for each subscription in the domain of notes, tell the values.
Silence == [ids |-> {}, last |-> <<>>, early |-> {}]
HearReply(h, subs) == [ids |-> h.ids \union subs, last |-> h.last, early |-> h.early]
HearNotes(h, notes) ==
    [ids |-> h.ids,
     last |-> [k \in DOMAIN h.last \union DOMAIN notes |-> IF k \in DOMAIN notes THEN notes[k] ELSE h.last[k]],
     early |-> h.early \union (DOMAIN notes \ h.ids)]

\* What an open user has: nothing said, nothing subscribed.
Fresh(u) ==
    /\ svec_' = [svec_ EXCEPT ![u] = <<>>] /\ heard' = [heard EXCEPT ![u] = Silence]
    /\ told' = [told EXCEPT ![u] = {}] /\ refused' = [refused EXCEPT ![u] = {}]

accept(u) ==
    /\ u \notin olist_ \union dlist_
    /\ olist_' = olist_ \union {u}
    /\ Fresh(u)
    /\ UNCHANGED <<dlist_, slist_, known, value, dirty, updates>>

-----------------------------------------------------------------------------
(* The requests of a message *)

\* get_product_list and get_all_products: the secondary's only if the primary has none.
Listed ==
    IF known["primary"] = {} /\ Secondary THEN known["secondary"] ELSE known["primary"]

Known(p) == p \in known["primary"] \/ (Secondary /\ p \in known["secondary"])

\* Mutant: no first notification is kept for later.
parse_sub_silent(s, u, kind, p) == [s EXCEPT !.subs = Append(@, <<kind, p>>)]

\* A session: what the requests of a message have done so far.
\* subs: new subscriptions; dvec_: those of them with a deferred notification
parse_sub(s, u, kind, p) ==
    [subs |-> Append(s.subs, <<kind, p>>),
     dvec_ |-> IF kind = "price" THEN s.dvec_ \union {Len(svec_[u]) + Len(s.subs)} ELSE s.dvec_,
     dirty |-> s.dirty, unknown |-> s.unknown, listed |-> s.listed]

\* Mutant: the price is looked for in the primary manager only.
parse_upd_price_primary(s, p) ==
    IF p \in known["primary"]
    THEN [s EXCEPT !.dirty = @ \union ({m \in Managers : p \in known[m]} \X {p})]
    ELSE [s EXCEPT !.unknown = @ \union {p}]

\* An update is for both managers, as far as they know the price.
parse_upd_price(s, p) ==
    IF Known(p)
    THEN [s EXCEPT !.dirty = @ \union ({m \in Managers : p \in known[m]} \X {p})]
    ELSE [s EXCEPT !.unknown = @ \union {p}]

\* subscribe_price knows the primary's prices only
parse_sub_price(s, u, p) ==
    IF p \in known["primary"] THEN parse_sub(s, u, "price", p) ELSE s

parse_sub_price_sched(s, u, p) ==
    IF Known(p) THEN parse_sub(s, u, "sched", p) ELSE s

parse_get_product(s, p) == IF Known(p) THEN [s EXCEPT !.listed = @ \union {p}] ELSE s

parse_get_product_list(s) == [s EXCEPT !.listed = @ \union Listed]

parse_get_all_products(s) == [s EXCEPT !.listed = @ \union Listed]

\* parse_request; a request that is not understood gets an error, and does nothing.
parse_request(s, u, r) ==
    CASE r.method = "update_price"          -> parse_upd_price(s, r.p)
      [] r.method = "subscribe_price"       -> parse_sub_price(s, u, r.p)
      [] r.method = "subscribe_price_sched" -> parse_sub_price_sched(s, u, r.p)
      [] r.method = "get_product"           -> parse_get_product(s, r.p)
      [] r.method = "get_product_list"      -> parse_get_product_list(s)
      [] r.method = "get_all_products"      -> parse_get_all_products(s)
      [] r.method = "unreadable"            -> s

\* The requests of a message one after the other: the session after each.
ParseLoop(u, reqs) ==
    LET none == [subs |-> <<>>, dvec_ |-> {}, dirty |-> {}, unknown |-> {}, listed |-> {}]
        s[n \in 0 .. Len(reqs)] == IF n = 0 THEN none ELSE parse_request(s[n - 1], u, reqs[n])
    IN  s

\* The ids of the new subscriptions, and the price's value for those deferred.
NewIds(u, s) == {Len(svec_[u]) + i - 1 : i \in DOMAIN s.subs}
FirstNotes(u, s) == [k \in s.dvec_ |-> value[s.subs[k - Len(svec_[u]) + 1][2]]]

\* request_sub_set::add puts the subscription in the request's list.
add_subs(u, subs) ==
    slist_' = [r \in Request |->
        slist_[r] \union {[user |-> u, sidx |-> Len(svec_[u]) + i - 1] :
                            i \in {j \in DOMAIN subs : subs[j] = r}}]

\* Mutant: a subscription's first notification does not wait for the reply.
DeferredBefore(u, s) == HearReply(HearNotes(heard[u], FirstNotes(u, s)), NewIds(u, s))

\* The reply to the whole message, then the values of the prices subscribed to.
Deferred(u, s) == HearNotes(HearReply(heard[u], NewIds(u, s)), FirstNotes(u, s))

\* parse_msg
parse_msg(u, reqs) ==
    LET s == ParseLoop(u, reqs)[Len(reqs)]
    IN  /\ u \in olist_
        /\ Len(svec_[u]) + Len(s.subs) <= MaxSubs
        /\ svec_' = [svec_ EXCEPT ![u] = @ \o s.subs]
        /\ add_subs(u, s.subs)
        /\ dirty' = dirty \union s.dirty
        /\ heard' = [heard EXCEPT ![u] = Deferred(u, s)]
        /\ refused' = [refused EXCEPT ![u] = @ \union (s.unknown \intersect told[u])]
        /\ told' = [told EXCEPT ![u] = @ \union s.listed]
        /\ UNCHANGED <<olist_, dlist_, known, value, updates>>

-----------------------------------------------------------------------------
(* Notifications *)

\* user::on_response: a message to the user, with the price's value if it has one.
NoteOf(r, val) == IF r[1] = "price" THEN val[r[2]] ELSE 0

\* on_response_sub: every subscriber of the request is told, under each of
\* the subscriptions it has.
on_response_sub(r, val) ==
    heard' = [u \in User |-> HearNotes(heard[u],
        [k \in {e.sidx : e \in {f \in slist_[r] : f.user = u}} |-> NoteOf(r, val)])]

\* price::update with a new aggregate, which is one with another pub_slot_;
\* an account with the same aggregate changes nothing here.
UpdatePrice(p) ==
    /\ updates < MaxUpdates /\ updates' = updates + 1
    /\ p \in known["primary"]
    /\ value' = [value EXCEPT ![p] = 1 - @]
    /\ on_response_sub(<<"price", p>>, value')
    /\ UNCHANGED <<olist_, dlist_, svec_, slist_, known, dirty, told, refused>>

\* price_sched::schedule
Schedule(p) ==
    /\ updates < MaxUpdates /\ updates' = updates + 1
    /\ slist_[<<"sched", p>>] # {}
    /\ on_response_sub(<<"sched", p>>, value)
    /\ UNCHANGED <<olist_, dlist_, svec_, slist_, known, value, dirty, told, refused>>

\* A manager learns of a price; send_pending_ups sends what is dirty.
Learn(m, p) ==
    /\ updates < MaxUpdates /\ updates' = updates + 1
    /\ (m = "secondary" => Secondary) /\ p \notin known[m]
    /\ known' = [known EXCEPT ![m] = @ \union {p}]
    /\ UNCHANGED <<olist_, dlist_, svec_, slist_, value, dirty, heard, told, refused>>

SendPending ==
    /\ dirty # {} /\ dirty' = {}
    /\ UNCHANGED <<olist_, dlist_, svec_, slist_, known, value, heard, told, refused, updates>>

-----------------------------------------------------------------------------
(* Users that go away *)

\* Mutant: the user's subscriptions are left in the prices' lists.
psub_teardown_not(u) == svec_' = [svec_ EXCEPT ![u] = <<>>] /\ UNCHANGED slist_

\* request_sub_set::teardown
psub_teardown(u) ==
    /\ svec_' = [svec_ EXCEPT ![u] = <<>>]
    /\ slist_' = [r \in Request |-> {e \in slist_[r] : e.user # u}]

\* net_loop::poll finds the user's connection in error.
teardown(u) ==
    /\ u \in olist_
    /\ olist_' = olist_ \ {u} /\ dlist_' = dlist_ \union {u}
    /\ psub_teardown(u)
    /\ heard' = [heard EXCEPT ![u] = Silence]
    /\ UNCHANGED <<known, value, dirty, told, refused, updates>>

\* teardown_users, at the end of poll; ~request_sub_set finds nothing more.
teardown_users ==
    /\ dlist_ # {} /\ dlist_' = {}
    /\ UNCHANGED <<olist_, svec_, slist_, known, value, dirty, heard, told, refused, updates>>

-----------------------------------------------------------------------------
Init ==
    /\ olist_ = {} /\ dlist_ = {}
    /\ svec_ = [u \in User |-> <<>>] /\ slist_ = [r \in Request |-> {}]
    /\ known = [m \in Managers |-> {}] /\ value = [p \in Price |-> 0]
    /\ dirty = {} /\ heard = [u \in User |-> Silence]
    /\ told = [u \in User |-> {}] /\ refused = [u \in User |-> {}]
    /\ updates = 0

Requests ==
    [method : {"update_price", "subscribe_price", "subscribe_price_sched", "get_product"}, p : Price]
        \union [method : {"get_product_list", "get_all_products", "unreadable"}, p : {"none"}]

Next ==
    \/ \E u \in User : accept(u) \/ teardown(u)
    \/ \E u \in User, n \in 1 .. MaxBatch : \E reqs \in [1 .. n -> Requests] : parse_msg(u, reqs)
    \/ \E p \in Price : UpdatePrice(p) \/ Schedule(p)
    \/ \E m \in Managers, p \in Price : Learn(m, p)
    \/ SendPending
    \/ teardown_users

Spec == Init /\ [][Next]_vars

-----------------------------------------------------------------------------
(* Properties *)

\* A request's list holds the subscriptions of open users and nothing else:
\* user::teardown takes a user out of every list, so no notification is sent
\* to a user that was deleted, and none that is subscribed is left out.
SubscribersOpen ==
    \A r \in Request :
        slist_[r] = UNION {{[user |-> u, sidx |-> i - 1] :
            i \in {j \in DOMAIN svec_[u] : svec_[u][j] = r}} : u \in olist_}

\* A user learns of a subscription's id before anything is sent under it
\* (the deferred notifications of parse_msg).
AnnouncedFirst == \A u \in User : heard[u].early = {}

\* The last notification of a price subscription has the price's value:
\* subscribing sends it at once, and every update after that.
LastNoteCurrent ==
    \A u \in olist_ : \A k \in DOMAIN svec_[u] :
        svec_[u][k][1] = "price" =>
            k - 1 \in DOMAIN heard[u].last /\ heard[u].last[k - 1] = value[svec_[u][k][2]]

\* A price that a user was told of, by whichever manager, takes the user's
\* updates: "published to both networks if possible" (parse_upd_price).
ToldIsKnown == \A u \in User : refused[u] = {}

\* What a user of pythd relies on: it is told of what it subscribed to and
\* of nothing else, in an order it can follow, up to the last value, and
\* prices it was told of are taken.
UsersServed == SubscribersOpen /\ AnnouncedFirst /\ LastNoteCurrent /\ ToldIsKnown
=============================================================================
