------------------------------- MODULE MCPythd -------------------------------
(***************************************************************************)
(* What pythd does for its users, for model checking: their requests and   *)
(* subscriptions (Users), the publishing schedule (PriceSched), and the    *)
(* connection to pyth_tx that is kept up meanwhile (Reconnect).  A         *)
(* behaviour is one of one of them.                                        *)
(***************************************************************************)
EXTENDS Users

CONSTANTS SchedPrice, Hash(_), fraction, pub_int_, MaxElapsed, timeout_, MaxPause, MaxChanges

\* The schedule divides its interval by the hashes, all of them below fraction.
ASSUME SchedAssumption ==
    /\ fraction \in Nat \ {0} /\ pub_int_ \in Nat /\ MaxElapsed \in Nat
    /\ \A p \in SchedPrice : Hash(p) \in 0 .. fraction - 1

VARIABLES
    part,
    kvec_, kidx_, is_pub_, elapsed, first, asked, last,
    host, err, wait_, has_conn_, wait_conn_, ctimeout_, since, callback, twice, pauses, hasty, changes

\* Three prices whose hashes are not in the order they enter in.
MCHash(p) == IF p = 1 THEN 2 ELSE IF p = 2 THEN 0 ELSE 1

Sched == INSTANCE PriceSched WITH Price <- SchedPrice
Conn == INSTANCE Reconnect WITH elapsed <- since

schedVars == <<kvec_, kidx_, is_pub_, elapsed, first, asked, last>>
connVars == <<host, err, wait_, has_conn_, wait_conn_, ctimeout_, since, callback, twice,
              pauses, hasty, changes>>

-----------------------------------------------------------------------------
PythdInit ==
    /\ Init /\ Sched!Init /\ Conn!Init
    /\ part \in {"users", "schedule", "connection"}
    /\ part # "connection" => host = "up" /\ ~ err

InSchedule(A) == part = "schedule" /\ A /\ UNCHANGED <<part, vars, connVars>>
InConnection(A) == part = "connection" /\ A /\ UNCHANGED <<part, vars, schedVars>>

PythdNext ==
    \/ part = "users" /\ Next /\ UNCHANGED <<part, schedVars, connVars>>
    \/ InSchedule(Sched!Next)
    \/ InConnection(Conn!Next)

PythdVars == <<part, vars, schedVars, connVars>>

\* The fairness of the instances: the poll loop and the clock.
PythdFairness ==
    /\ WF_PythdVars(InSchedule(Sched!Start)) /\ WF_PythdVars(InSchedule(Sched!Ask))
    /\ WF_PythdVars(InSchedule(Sched!Tick))
    /\ WF_PythdVars(InConnection(Conn!Wait)) /\ WF_PythdVars(InConnection(Conn!Connected))
    /\ WF_PythdVars(InConnection(Conn!Lost)) /\ WF_PythdVars(InConnection(Conn!Attempt))
    /\ WF_PythdVars(InConnection(Conn!Tick))

PythdSpec == PythdInit /\ [][PythdNext]_PythdVars /\ PythdFairness

-----------------------------------------------------------------------------
(* The properties of the instances *)

\* manager::poll_schedule and manager::schedule leave out no price of an
\* interval, and let none wait for one that is due later.
IntervalComplete == Sched!IntervalComplete

\* Every price in kvec_ is asked for again.
AskedForEver == part = "schedule" => Sched!AskedForEver

\* tx_connect::reconnect: callbacks in turns, growing pauses, and a connection
\* to a host that stays up.
ConnectionKept == part = "connection" => Conn!ConnectionKept
=============================================================================
