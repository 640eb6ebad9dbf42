------------------------------ MODULE PriceSched ------------------------------
(***************************************************************************)
(* The staggered publishing schedule of a manager: in every interval each  *)
(* price is asked for once, at a point given by the hash of its account    *)
(* (poll_schedule).  Prices enter the schedule while an interval is being  *)
(* worked through.                                                         *)
(*                                                                         *)
(* Time is what has passed since the interval began (curr_ts_ - pub_ts_).  *)
(* It advances in steps of one and stops to matter past MaxElapsed.        *)
(***************************************************************************)
EXTENDS Naturals, Sequences, FiniteSets, SequencesExt

CONSTANTS
    Price,
    Hash(_),     \* price_sched::get_hash, below fraction
    fraction,
    pub_int_,    \* the publishing interval
    MaxElapsed      \* bound: time that is told apart

VARIABLES
    kvec_, kidx_, is_pub_,
    elapsed,     \* curr_ts_ - pub_ts_
    first,       \* history: the prices in the schedule when the interval began
    asked,       \* history: how often each was asked for in this interval
    last         \* history: the price the last step asked for, if it did

vars == <<kvec_, kidx_, is_pub_, elapsed, first, asked, last>>

\* Mutant: the new price stays at the end.
schedule_unsorted(p) == Append(kvec_, p)

\* manager::schedule: the new price, put at the end, moves down past those
\* with a larger hash; the others are in order, and stay where they are.
schedule(p) ==
    LET n == CHOOSE n \in 0 .. Len(kvec_) :
                /\ n > 0 => Hash(kvec_[n]) <= Hash(p)
                /\ \A i \in n + 1 .. Len(kvec_) : Hash(kvec_[i]) > Hash(p)
    IN  InsertAt(kvec_, n + 1, p)

Enter(p) ==
    /\ p \notin ToSet(kvec_)
    /\ kvec_' = schedule(p)
    /\ last' = {}
    /\ UNCHANGED <<kidx_, is_pub_, elapsed, first, asked>>

\* When a price's time comes; the conditions of poll_schedule.
Due(p) == (pub_int_ * Hash(p)) \div fraction
CanStart == ~ is_pub_ /\ elapsed > pub_int_
CanAsk == is_pub_ /\ kidx_ < Len(kvec_) /\ elapsed > Due(kvec_[kidx_ + 1])

\* Mutant: the interval starts where the last one ended.
Start_stale ==
    /\ CanStart
    /\ is_pub_' = TRUE /\ kidx_' = kidx_ /\ elapsed' = 0
    /\ first' = ToSet(kvec_) /\ asked' = [p \in Price |-> 0] /\ last' = {}
    /\ UNCHANGED kvec_

\* poll_schedule: an interval begins.
Start ==
    /\ CanStart
    /\ is_pub_' = TRUE /\ kidx_' = 0 /\ elapsed' = 0
    /\ first' = ToSet(kvec_) /\ asked' = [p \in Price |-> 0] /\ last' = {}
    /\ UNCHANGED kvec_

\* Mutant: the last price of the vector is left out.
Ends_early == kidx_ + 2 >= Len(kvec_)

\* ++kidx_ >= kvec_.size()
Ends == kidx_ + 1 >= Len(kvec_)

\* poll_schedule: the next price's time has come.
Ask ==
    /\ CanAsk
    /\ last' = {kvec_[kidx_ + 1]}
    /\ asked' = [asked EXCEPT ![kvec_[kidx_ + 1]] = @ + 1]
    /\ kidx_' = kidx_ + 1
    /\ is_pub_' = ~ Ends
    /\ UNCHANGED <<kvec_, elapsed, first>>

\* The clock, after a poll that found nothing more to do.
Tick ==
    /\ ~ CanStart /\ ~ CanAsk
    /\ elapsed < MaxElapsed
    /\ elapsed' = elapsed + 1 /\ last' = {}
    /\ UNCHANGED <<kvec_, kidx_, is_pub_, first, asked>>

-----------------------------------------------------------------------------
Init ==
    /\ kvec_ = <<>> /\ kidx_ = 0 /\ is_pub_ = FALSE
    /\ elapsed = MaxElapsed
    /\ first = {} /\ asked = [p \in Price |-> 0] /\ last = {}

Next == (\E p \in Price : Enter(p)) \/ Start \/ Ask \/ Tick

\* poll runs for ever, and the clock goes on.
Fairness == WF_vars(Start) /\ WF_vars(Ask) /\ WF_vars(Tick)

Spec == Init /\ [][Next]_vars /\ Fairness

-----------------------------------------------------------------------------
(* Properties *)

\* An interval that has ended asked for every price that was there when it
\* began, whatever entered the vector before or behind kidx_ meanwhile.
EachAsked == ~ is_pub_ /\ first # {} => \A p \in first : asked[p] > 0

\* Prices keep being asked for: no interval gets stuck on an index or a
\* price that moved.
AskedForEver == \A p \in Price : p \in ToSet(kvec_) ~> last = {p}

\* A price is asked for as soon as its part of the interval has passed: none
\* of those the interval began with waits behind one that is due later.
NoneOverdue ==
    is_pub_ /\ elapsed > 0 /\ ~ CanAsk =>
        \A p \in first : asked[p] = 0 => elapsed <= Due(p)

\* An interval of poll_schedule leaves no price out and none behind.
IntervalComplete == EachAsked /\ NoneOverdue
=============================================================================
