------------------------------ MODULE Reconnect ------------------------------
(***************************************************************************)
(* A connection that is kept up (tx_connect over tcp_connect): the state   *)
(* of connecting without blocking, the growing pause between attempts, and *)
(* the callbacks the user of the connection sees.  manager::reconnect_rpc  *)
(* and tx_svr::reconnect_rpc pause in the same way.                        *)
(***************************************************************************)
EXTENDS Naturals

CONSTANTS
    timeout_,     \* how long to wait for a connection
    MaxPause,     \* longest pause between attempts: 120 s
    MaxChanges    \* bound: changes of the host

VARIABLES
    host,         \* up, down (does not answer), refuses, or unknown (does not resolve)
    err, wait_,   \* the socket
    has_conn_, wait_conn_, ctimeout_,
    elapsed,      \* time since the last attempt (cts_)
    callback,     \* history: the last callback: none, on_connect or on_disconnect
    twice,        \* history: was a callback made twice in a row?
    pauses,       \* history: pauses since the connection was last up
    hasty,        \* history: was an attempt made too soon?
    changes

vars == <<host, err, wait_, has_conn_, wait_conn_, ctimeout_, elapsed, callback, twice, pauses, hasty, changes>>

Hosts == {"up", "down", "refuses", "unknown"}
MinOf(a, b) == IF a < b THEN a ELSE b

\* elapsed is told apart up to this
MaxTime == (IF MaxPause > timeout_ THEN MaxPause ELSE timeout_) + 1

Call(cb) ==
    /\ callback' = cb
    /\ twice' = (twice \/ callback = cb \/ (callback = "none" /\ cb = "on_disconnect"))

-----------------------------------------------------------------------------
\* Mutant: the error of the last attempt is not reset.
init_keeps_error ==
    \/ host \in {"unknown", "refuses"} /\ err' = TRUE /\ wait_' = FALSE
    \/ host # "unknown" /\ err' = err /\ wait_' = TRUE
    \/ host = "up" /\ err' = err /\ wait_' = FALSE

\* tcp_connect::init: the connection may take time, or fail at once.
init ==
    \/ host \in {"unknown", "refuses"} /\ err' = TRUE /\ wait_' = FALSE
    \/ host # "unknown" /\ err' = FALSE /\ wait_' = TRUE
    \/ host = "up" /\ err' = FALSE /\ wait_' = FALSE

\* tcp_connect::check, of a connection that is waited for
check ==
    \/ host = "up" /\ wait_' = FALSE /\ err' = err
    \/ host \in {"refuses", "unknown"} /\ wait_' = FALSE /\ err' = TRUE
    \/ host = "down" /\ elapsed > timeout_ /\ wait_' = FALSE /\ err' = TRUE

\* reconnect, while the connection is waited for
Wait ==
    /\ ~ has_conn_ /\ wait_
    /\ check
    /\ UNCHANGED <<host, has_conn_, wait_conn_, ctimeout_, elapsed, callback, twice, pauses, hasty, changes>>

\* reconnect: the connection is there.
Connected ==
    /\ ~ has_conn_ /\ ~ wait_ /\ ~ err
    /\ has_conn_' = TRUE /\ ctimeout_' = 1 /\ pauses' = 0
    /\ Call("on_connect")
    /\ UNCHANGED <<host, err, wait_, wait_conn_, elapsed, hasty, changes>>

\* Mutant: the callback does not depend on there having been a connection.
LostAlways ==
    /\ err /\ (wait_conn_ \/ has_conn_)
    /\ wait_conn_' = FALSE /\ has_conn_' = FALSE
    /\ Call("on_disconnect")
    /\ UNCHANGED <<host, err, wait_, ctimeout_, elapsed, pauses, hasty, changes>>

\* reconnect: it is not, and this is the first poll to see it.
Lost ==
    /\ err /\ (wait_conn_ \/ has_conn_)
    /\ wait_conn_' = FALSE /\ has_conn_' = FALSE
    /\ IF has_conn_ THEN Call("on_disconnect") ELSE UNCHANGED <<callback, twice>>
    /\ UNCHANGED <<host, err, wait_, ctimeout_, elapsed, pauses, hasty, changes>>

\* Mutant: the pause is set back at every attempt.
PauseReset == 1

\* The pause before the next attempt: twice the last one.
Pause == MinOf(2 * ctimeout_, MaxPause)

\* reconnect: the pause is over, try again.
Attempt ==
    /\ err /\ ~ wait_conn_ /\ ~ has_conn_ /\ ctimeout_ <= elapsed
    /\ elapsed' = 0 /\ ctimeout_' = Pause /\ wait_conn_' = TRUE
    /\ pauses' = MinOf(pauses + 1, MaxPause)
    /\ hasty' = (hasty \/ elapsed < MinOf(2 ^ pauses, MaxPause))
    /\ init
    /\ UNCHANGED <<host, has_conn_, callback, twice, changes>>

\* net_loop finds the socket in error.
Fails ==
    /\ has_conn_ /\ ~ err /\ host # "up"
    /\ err' = TRUE
    /\ UNCHANGED <<host, wait_, has_conn_, wait_conn_, ctimeout_, elapsed, callback, twice, pauses, hasty, changes>>

\* The host comes and goes.
Change(h) ==
    /\ changes < MaxChanges /\ changes' = changes + 1
    /\ h # host /\ host' = h
    /\ UNCHANGED <<err, wait_, has_conn_, wait_conn_, ctimeout_, elapsed, callback, twice, pauses, hasty>>

Tick ==
    /\ elapsed < MaxTime /\ elapsed' = elapsed + 1
    /\ UNCHANGED <<host, err, wait_, has_conn_, wait_conn_, ctimeout_, callback, twice, pauses, hasty, changes>>

-----------------------------------------------------------------------------
\* The state after the first call of init, when cts_ is long ago; the timeout
\* of that first connection, which has its own time, may come at any moment.
Init ==
    /\ host \in Hosts
    /\ \/ err = FALSE /\ wait_ = TRUE
       \/ err = TRUE /\ wait_ = FALSE
    /\ has_conn_ = FALSE /\ wait_conn_ = TRUE /\ ctimeout_ = 1 /\ elapsed = MaxTime
    /\ callback = "none" /\ twice = FALSE /\ pauses = 0 /\ hasty = FALSE /\ changes = 0

Next ==
    \/ Wait \/ Connected \/ Lost \/ Attempt \/ Fails \/ Tick
    \/ \E h \in Hosts : Change(h)

\* poll is called for ever, and time passes.
Fairness == WF_vars(Wait) /\ WF_vars(Connected) /\ WF_vars(Lost) /\ WF_vars(Attempt) /\ WF_vars(Tick)

Spec == Init /\ [][Next]_vars /\ Fairness

-----------------------------------------------------------------------------
(* Properties *)

\* on_connect and on_disconnect alternate, starting with on_connect, however
\* attempts fail (tx_connect::reconnect).
CallbacksAlternate == ~ twice

\* Attempts are as far apart as the failures before them demand: the pauses
\* double up to the longest, and start again once the connection was up.
SpacedOut == ~ hasty

\* A host that stays up is connected to.
Recovers == (changes = MaxChanges /\ host = "up") ~> has_conn_

\* tx_connect keeps its connection up: callbacks in turns, attempts spaced out,
\* and success once the host stays up.
ConnectionKept == [](CallbacksAlternate /\ SpacedOut) /\ Recovers
=============================================================================
