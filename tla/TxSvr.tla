-------------------------------- MODULE TxSvr --------------------------------
(***************************************************************************)
(* The pyth_tx server: it follows the slots of the cluster, keeps a window *)
(* of the leader schedule and the addresses of the nodes, and forwards     *)
(* every transaction it is given to the leaders of the slots around now.   *)
(*                                                                         *)
(* A leader is its own address once its node is known.  Requests to the    *)
(* node are in flight until answered, or lost with the connection.         *)
(***************************************************************************)
EXTENDS Integers, Sequences, FiniteSets, SequencesExt

CONSTANTS
    Node,             \* leaders
    Leader(_),        \* the leader of a slot
    PC_LEADER_MAX,    \* slots of a schedule: 256 in the code
    PC_LEADER_MIN,    \* slots before the end at which it is asked for: 32
    Ahead,            \* slots looked ahead: 5
    Client,           \* connected clients
    MaxSlot,          \* bound: slots
    MaxJump,          \* bound: slots a notification may skip
    Timely,           \* bound: slots until the schedule is answered
    MaxBack,          \* bound: slots a node may be behind the one before
    MaxBreaks         \* bound: lost connections

VARIABLES
    has_conn_, slot_, avec_,
    lslot_, rslot_, lvec_, lrecv,  \* lreq_: schedule from lslot_, asked for rslot_; answered?
    nmap_, crecv,                  \* creq_: nodes known; answered?
    chain,                         \* the cluster's slot
    wire,                          \* requests the node has still to answer
    olist_, dlist_,
    covered,                       \* history: did lvec_ and nmap_ give the leader of slot_?
    sentTo,                        \* history: the last transaction's addresses, and its slot
    ended,                         \* has an error reply ended the program?
    breaks

lreq == <<lslot_, rslot_, lvec_, lrecv>>
users == <<olist_, dlist_>>
vars == <<has_conn_, slot_, avec_, lreq, nmap_, crecv, chain, wire, users, covered, sentTo, ended, breaks>>

-----------------------------------------------------------------------------
(* The schedule *)

get_last_slot == lslot_ + PC_LEADER_MAX

\* get_leader: no leader before the schedule (the index wraps) or after it
get_leader(slot) ==
    IF slot - lslot_ \in 0 .. Len(lvec_) - 1 THEN {lvec_[slot - lslot_ + 1]} ELSE {}

\* Mutant: the schedule is asked for when it has run out.
NeedsScheduleLate(slot) == lrecv /\ slot > get_last_slot

\* "request next slot leader schedule"
NeedsSchedule(slot) == lrecv /\ slot > get_last_slot - PC_LEADER_MIN

\* Mutant: the current slot's leader is taken to be too late.
WindowNext(slot) ==
    slot + 1 .. (IF slot + Ahead < get_last_slot THEN slot + Ahead ELSE get_last_slot) - 1

\* The slots whose leaders are sent to, from the one before.
Window(slot) ==
    slot - 1 .. (IF slot + Ahead < get_last_slot THEN slot + Ahead ELSE get_last_slot) - 1

Leaders(slot) == UNION {get_leader(s) : s \in Window(slot)}

\* A leader without an address has both the nodes and the schedule asked for.
Missing(slot) == Leaders(slot) \ nmap_ # {}

\* The cluster has moved on; the node notifies.  Slots that go back are ignored.
OnSlot ==
    /\ has_conn_ /\ ~ ended /\ "slots" \notin wire /\ chain > slot_
    /\ LET slot == chain
           ask == NeedsSchedule(slot) \/ (lrecv /\ Missing(slot))
           askNodes == crecv /\ Missing(slot)
       IN  /\ slot_' = slot
           /\ avec_' = Leaders(slot) \intersect nmap_
           /\ covered' = (get_leader(slot) # {} /\ Leader(slot) \in nmap_)
           /\ rslot_' = IF ask THEN slot - PC_LEADER_MIN ELSE rslot_
           /\ lrecv' = (lrecv /\ ~ ask)
           /\ crecv' = (crecv /\ ~ askNodes)
           /\ wire' = wire \union (IF ask THEN {"leaders"} ELSE {})
                          \union (IF askNodes THEN {"nodes"} ELSE {})
    /\ UNCHANGED <<has_conn_, lslot_, lvec_, nmap_, chain, users, sentTo, ended, breaks>>

\* slot_subscribe::response: notifications follow.
OnSubscribed ==
    /\ has_conn_ /\ ~ ended /\ "slots" \in wire
    /\ wire' = wire \ {"slots"}
    /\ UNCHANGED <<has_conn_, slot_, avec_, lreq, nmap_, crecv, chain, users, covered, sentTo, ended, breaks>>

\* get_slot_leaders::response
OnLeaders ==
    /\ has_conn_ /\ ~ ended /\ "leaders" \in wire
    /\ lslot_' = rslot_ /\ lrecv' = TRUE
    /\ lvec_' = [i \in 1 .. PC_LEADER_MAX |-> Leader(rslot_ + i - 1)]
    /\ wire' = wire \ {"leaders"}
    /\ UNCHANGED <<has_conn_, slot_, avec_, rslot_, nmap_, crecv, chain, users, covered, sentTo, ended, breaks>>

\* get_cluster_nodes::response adds nodes, of those there are now.
OnNodes(nodes) ==
    /\ has_conn_ /\ ~ ended /\ "nodes" \in wire
    /\ nmap_' = nmap_ \union nodes /\ crecv' = TRUE
    /\ wire' = wire \ {"nodes"}
    /\ UNCHANGED <<has_conn_, slot_, avec_, lreq, chain, users, covered, sentTo, ended, breaks>>

\* An error reply to any of them: set_err_msg, which ends the main loop.
OnError ==
    /\ has_conn_ /\ ~ ended /\ wire # {}
    /\ ended' = TRUE
    /\ \/ "slots" \in wire /\ wire' = wire \ {"slots"} /\ UNCHANGED <<lslot_, lvec_, lrecv, crecv>>
       \/ "leaders" \in wire /\ lslot_' = rslot_ /\ lvec_' = <<>> /\ lrecv' = TRUE
          /\ wire' = wire \ {"leaders"} /\ UNCHANGED crecv
       \/ "nodes" \in wire /\ crecv' = TRUE /\ wire' = wire \ {"nodes"} /\ UNCHANGED <<lslot_, lvec_, lrecv>>
    /\ UNCHANGED <<has_conn_, slot_, avec_, rslot_, nmap_, chain, users, covered, sentTo, breaks>>

-----------------------------------------------------------------------------
(* Connections *)

\* A connection to the node is lost with what was in flight.
Disconnect ==
    /\ has_conn_ /\ ~ ended /\ breaks < MaxBreaks /\ breaks' = breaks + 1
    /\ has_conn_' = FALSE /\ wire' = {}
    /\ UNCHANGED <<slot_, avec_, lreq, nmap_, crecv, chain, users, covered, sentTo, ended>>

\* Mutant: a schedule that was asked for on the old connection is waited for.
reconnect_rpc_waits(back) ==
    /\ ~ has_conn_ /\ ~ ended
    /\ has_conn_' = TRUE /\ slot_' = 0 /\ avec_' = {} /\ covered' = FALSE
    /\ crecv' = FALSE /\ wire' = {"slots", "nodes"}
    /\ chain' = IF chain > back THEN chain - back ELSE 1
    /\ UNCHANGED <<lreq, nmap_, users, sentTo, ended, breaks>>

\* reconnect_rpc: set_recv_time makes the schedule one that may be asked for;
\* slots and nodes are asked for.  The node may be behind the one before.
reconnect_rpc(back) ==
    /\ ~ has_conn_ /\ ~ ended
    /\ has_conn_' = TRUE /\ slot_' = 0 /\ avec_' = {} /\ covered' = FALSE
    /\ lrecv' = TRUE
    /\ crecv' = FALSE /\ wire' = {"slots", "nodes"}
    /\ chain' = IF chain > back THEN chain - back ELSE 1
    /\ UNCHANGED <<lslot_, rslot_, lvec_, nmap_, users, sentTo, ended, breaks>>

-----------------------------------------------------------------------------
(* Clients *)

accept(c) ==
    /\ ~ ended /\ c \notin olist_ \union dlist_
    /\ olist_' = olist_ \union {c}
    /\ UNCHANGED <<has_conn_, slot_, avec_, lreq, nmap_, crecv, chain, wire, dlist_, covered, sentTo, ended, breaks>>

\* tx_user::parse of a transaction: submit sends it to every address known.
submit(c) ==
    /\ ~ ended /\ c \in olist_
    /\ sentTo' = [addr |-> avec_, slot |-> IF covered THEN slot_ ELSE 0]
    /\ UNCHANGED <<has_conn_, slot_, avec_, lreq, nmap_, crecv, chain, wire, users, covered, ended, breaks>>

\* The client's connection ends: teardown, del_user.
del_user(c) ==
    /\ ~ ended /\ c \in olist_
    /\ olist_' = olist_ \ {c} /\ dlist_' = dlist_ \union {c}
    /\ UNCHANGED <<has_conn_, slot_, avec_, lreq, nmap_, crecv, chain, wire, covered, sentTo, ended, breaks>>

teardown_users ==
    /\ dlist_ # {} /\ dlist_' = {}
    /\ UNCHANGED <<has_conn_, slot_, avec_, lreq, nmap_, crecv, chain, wire, olist_, covered, sentTo, ended, breaks>>

\* ~tx_svr: the rest of the clients are closed.
teardown ==
    /\ ended /\ olist_ # {}
    /\ olist_' = {} /\ dlist_' = {}
    /\ UNCHANGED <<has_conn_, slot_, avec_, lreq, nmap_, crecv, chain, wire, covered, sentTo, ended, breaks>>

\* The cluster's next slots; an answer takes less than Timely of them.
Advance(n) ==
    /\ chain + n <= MaxSlot
    /\ "leaders" \in wire => chain + n <= rslot_ + PC_LEADER_MIN + Timely
    /\ chain' = chain + n
    /\ UNCHANGED <<has_conn_, slot_, avec_, lreq, nmap_, crecv, wire, users, covered, sentTo, ended, breaks>>

-----------------------------------------------------------------------------
Init ==
    /\ has_conn_ = FALSE /\ slot_ = 0 /\ avec_ = {}
    /\ lslot_ = 0 /\ rslot_ = 0 /\ lvec_ = <<>> /\ lrecv = TRUE
    /\ nmap_ = {} /\ crecv = TRUE /\ chain = 1 /\ wire = {}
    /\ olist_ = {} /\ dlist_ = {}
    /\ covered = FALSE /\ sentTo = [addr |-> {}, slot |-> 0]
    /\ ended = FALSE /\ breaks = 0

Next ==
    \/ OnSubscribed \/ OnSlot \/ OnLeaders \/ OnError
    \/ \E nodes \in SUBSET Node : OnNodes(nodes)
    \/ Disconnect \/ \E back \in 0 .. MaxBack : reconnect_rpc(back)
    \/ \E c \in Client : accept(c) \/ submit(c) \/ del_user(c)
    \/ teardown_users \/ teardown
    \/ \E n \in 1 .. MaxJump : Advance(n)

Spec == Init /\ [][Next]_vars

-----------------------------------------------------------------------------
(* Properties *)

\* A transaction handed in while the server could know the leader of its
\* current slot is sent to that leader, though the schedule may be replaced,
\* and the addresses collected anew, at any time.
LeaderReached == sentTo.slot # 0 => Leader(sentTo.slot) \in sentTo.addr

\* The schedule does not run out: with none being fetched, the current slot
\* is in the schedule the server has, unless the node went back before it.
ScheduleCovers ==
    has_conn_ /\ ~ ended /\ lrecv /\ lvec_ # <<>> /\ slot_ >= lslot_ =>
        get_leader(slot_) # {}

\* A schedule that is waited for is on its way: an answer lost with the
\* connection is not waited for, or no schedule would ever be asked for again.
WaitedForComes == has_conn_ /\ ~ lrecv => "leaders" \in wire

\* tx_svr::submit reaches the leaders, and the schedule it depends on neither
\* runs out nor is waited for in vain.
LeadersKnown == LeaderReached /\ ScheduleCovers /\ WaitedForComes
=============================================================================
