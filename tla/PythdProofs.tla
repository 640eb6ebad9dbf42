----------------------------- MODULE PythdProofs -----------------------------
(***************************************************************************)
(* Proofs about what pythd does for its users: for any number of users,    *)
(* prices, requests and subscriptions, any hashes of the scheduled prices, *)
(* and any host that the connection to pyth_tx is kept up to.              *)
(***************************************************************************)
EXTENDS MCPythd, BoundedInduction, SequenceTheorems, TLAPS

-----------------------------------------------------------------------------
(* The schedule *)

SchedTyped ==
    /\ kvec_ \in Seq(SchedPrice) /\ kidx_ \in Nat /\ kidx_ <= Len(kvec_)
    /\ first \subseteq SchedPrice /\ asked \in [SchedPrice -> Nat] /\ elapsed \in Nat

\* kvec_ is in the order of the hashes.
Sorted == \A i, j \in DOMAIN kvec_ : i <= j => Hash(kvec_[i]) <= Hash(kvec_[j])

\* A price of the interval that was not asked for is still to come, wherever
\* prices have entered since.
StillToCome ==
    \A p \in first : asked[p] = 0 => \E i \in DOMAIN kvec_ : i > kidx_ /\ kvec_[i] = p

\* An interval that has ended has asked for all.
AllAsked == ~ is_pub_ => \A p \in first : asked[p] # 0

SchedInv == SchedTyped /\ Sorted /\ StillToCome /\ AllAsked

\* What two sequences with an element between them hold.
LEMMA Between ==
    ASSUME NEW a \in Seq(SchedPrice), NEW b \in Seq(SchedPrice), NEW e \in SchedPrice
    PROVE  /\ (a \o <<e>>) \o b \in Seq(SchedPrice)
           /\ Len((a \o <<e>>) \o b) = Len(a) + 1 + Len(b)
           /\ \A i \in 1 .. Len(a) : ((a \o <<e>>) \o b)[i] = a[i]
           /\ ((a \o <<e>>) \o b)[Len(a) + 1] = e
           /\ \A i \in 1 .. Len(b) : ((a \o <<e>>) \o b)[Len(a) + 1 + i] = b[i]
  <1>. DEFINE c == a \o <<e>>
              t == c \o b
  <1>1. c \in Seq(SchedPrice) /\ Len(c) = Len(a) + 1 /\ (\A i \in 1 .. Len(a) : c[i] = a[i]) /\ c[Len(a) + 1] = e
    OBVIOUS
  <1>. HIDE DEF c
  <1>2. t \in Seq(SchedPrice) /\ Len(t) = Len(c) + Len(b)
    BY <1>1
  <1>3. \A i \in 1 .. Len(c) : t[i] = c[i]
    BY <1>1
  <1>4. \A i \in 1 .. Len(b) : t[Len(c) + i] = b[i]
    BY <1>1
  <1>5. Len(a) \in Nat /\ Len(b) \in Nat
    OBVIOUS
  <1>. HIDE DEF t
  <1>6. Len(t) = Len(a) + 1 + Len(b)
    BY <1>1, <1>2, <1>5
  <1>7. (\A i \in 1 .. Len(a) : t[i] = a[i]) /\ t[Len(a) + 1] = e
    BY <1>1, <1>3, <1>5
  <1>8. \A i \in 1 .. Len(b) : t[Len(a) + 1 + i] = b[i]
    BY <1>1, <1>4
  <1>. QED
    BY <1>2, <1>6, <1>7, <1>8 DEF t, c

\* manager::schedule finds a place.
LEMMA PlaceFound ==
    ASSUME SchedTyped, NEW p \in SchedPrice
    PROVE  \E n \in 0 .. Len(kvec_) :
              /\ n > 0 => Hash(kvec_[n]) <= Hash(p)
              /\ \A i \in n + 1 .. Len(kvec_) : Hash(kvec_[i]) > Hash(p)
  <1>. DEFINE N == Len(kvec_)
              T == {k \in 0 .. N : \A i \in k + 1 .. N : Hash(kvec_[i]) > Hash(p)}
  <1>1. N \in Nat /\ \A i \in 1 .. N : kvec_[i] \in SchedPrice
    BY DEF SchedTyped
  <1>2. T \subseteq Nat /\ N \in T
    BY <1>1
  <1>3. PICK n \in T : \A y \in T : n <= y
    <2>. HIDE DEF T
    <2>. QED
      BY <1>2, Least
  <1>4. ASSUME n > 0, ~ (Hash(kvec_[n]) <= Hash(p)) PROVE FALSE
    <2>1. n \in 1 .. N /\ Hash(kvec_[n]) \in Nat /\ Hash(p) \in Nat
      BY <1>1, <1>3, <1>4, SchedAssumption
    <2>2. \A i \in n .. N : Hash(kvec_[i]) > Hash(p)
      <3>. TAKE i \in n .. N
      <3>1. i = n \/ i \in n + 1 .. N
        BY <2>1
      <3>. QED
        BY <1>3, <1>4, <2>1, <3>1
    <2>3. (n - 1) + 1 = n /\ n - 1 \in 0 .. N
      BY <1>1, <2>1
    <2>4. n - 1 \in T
      BY <2>2, <2>3
    <2>5. n <= n - 1 /\ n \in Nat
      <3>. HIDE DEF T
      <3>. QED
        BY <1>3, <2>1, <2>4
    <2>. QED
      BY <2>5
  <1>. QED
    BY <1>1, <1>3, <1>4

\* A price enters the schedule in its place.
LEMMA EnterKeeps ==
    ASSUME SchedInv, NEW p \in SchedPrice, Sched!Enter(p)
    PROVE  SchedInv'
  <1>. DEFINE N == Len(kvec_)
              Place(n) == /\ n > 0 => Hash(kvec_[n]) <= Hash(p)
                          /\ \A i \in n + 1 .. N : Hash(kvec_[i]) > Hash(p)
  <1>1. SchedTyped /\ kvec_ \in Seq(SchedPrice) /\ N \in Nat
    BY DEF SchedInv, SchedTyped
  <1>2. \E n \in 0 .. N : Place(n)
    BY <1>1, PlaceFound
  <1>3. /\ kvec_' = Sched!InsertAt(kvec_, (CHOOSE n \in 0 .. N : Place(n)) + 1, p)
        /\ UNCHANGED <<kidx_, is_pub_, elapsed, first, asked>>
    BY DEF Sched!Enter, Sched!schedule
  <1>4. PICK n \in 0 .. N : Place(n) /\ kvec_' = Sched!InsertAt(kvec_, n + 1, p)
    <2>. HIDE DEF Place, N
    <2>. QED
      BY <1>2, <1>3
  <1>5. /\ kvec_' \in Seq(SchedPrice) /\ Len(kvec_') = N + 1
        /\ \A i \in 1 .. n : kvec_'[i] = kvec_[i]
        /\ kvec_'[n + 1] = p
        /\ \A i \in n + 1 .. N : kvec_'[i + 1] = kvec_[i]
    <2>. DEFINE a == SubSeq(kvec_, 1, n)
                b == SubSeq(kvec_, n + 1, N)
                t == (a \o <<p>>) \o b
    <2>1. (n + 1) - 1 = n
      OBVIOUS
    <2>2. kvec_' = t
      BY <1>4, <2>1 DEF Sched!InsertAt
    <2>3. a \in Seq(SchedPrice) /\ Len(a) = n /\ \A i \in 1 .. n : a[i] = kvec_[i]
      BY <1>1
    <2>4. b \in Seq(SchedPrice) /\ Len(b) = N - n /\ \A i \in 1 .. N - n : b[i] = kvec_[n + i]
      BY <1>1
    <2>. HIDE DEF a, b, N, Place
    <2>5. /\ t \in Seq(SchedPrice) /\ Len(t) = Len(a) + 1 + Len(b)
          /\ \A i \in 1 .. Len(a) : t[i] = a[i]
          /\ t[Len(a) + 1] = p
          /\ \A i \in 1 .. Len(b) : t[Len(a) + 1 + i] = b[i]
      BY <2>3, <2>4, Between
    <2>. HIDE DEF t
    <2>6. Len(t) = N + 1 /\ t[n + 1] = p /\ \A i \in 1 .. n : t[i] = kvec_[i]
      BY <1>1, <2>3, <2>4, <2>5
    <2>7. ASSUME NEW i \in n + 1 .. N PROVE t[i + 1] = kvec_[i]
      <3>1. i - n \in 1 .. N - n /\ n + (i - n) = i /\ n + 1 + (i - n) = i + 1
        BY <1>1
      <3>2. t[n + 1 + (i - n)] = b[i - n]
        BY <2>3, <2>4, <2>5, <3>1
      <3>. QED
        BY <2>4, <3>1, <3>2
    <2>. QED
      BY <2>2, <2>5, <2>6, <2>7
  <1>6. DOMAIN kvec_' = 1 .. N + 1 /\ DOMAIN kvec_ = 1 .. N
    BY <1>1, <1>5
  <1>7. SchedTyped'
    <2>1. kidx_ <= N + 1
      BY <1>1 DEF SchedTyped
    <2>. QED
      BY <1>1, <1>3, <1>5, <2>1 DEF SchedTyped
  <1>8. \A i \in 1 .. N : kvec_[i] \in SchedPrice /\ Hash(kvec_[i]) \in Nat
    BY <1>1, SchedAssumption
  <1>9. Hash(p) \in Nat
    BY SchedAssumption
  <1>10. \A i, j \in 1 .. N : i <= j => Hash(kvec_[i]) <= Hash(kvec_[j])
    BY <1>6 DEF SchedInv, Sorted
  <1>11. /\ \A i \in 1 .. n : Hash(kvec_[i]) <= Hash(p)
         /\ \A i \in n + 1 .. N : Hash(p) <= Hash(kvec_[i])
    <2>1. ASSUME NEW i \in 1 .. n PROVE Hash(kvec_[i]) <= Hash(p)
      <3>1. i \in 1 .. N /\ n \in 1 .. N /\ i <= n /\ n > 0
        BY <1>1
      <3>2. Hash(kvec_[i]) <= Hash(kvec_[n])
        BY <1>10, <3>1
      <3>3. Hash(kvec_[n]) <= Hash(p)
        BY <1>4, <3>1
      <3>. QED
        BY <1>8, <1>9, <3>1, <3>2, <3>3
    <2>2. ASSUME NEW i \in n + 1 .. N PROVE Hash(p) <= Hash(kvec_[i])
      <3>1. i \in 1 .. N /\ Hash(kvec_[i]) > Hash(p)
        BY <1>1, <1>4
      <3>. QED
        BY <1>8, <1>9, <3>1
    <2>. QED
      BY <2>1, <2>2
  <1>12. Sorted'
    <2>. SUFFICES ASSUME NEW i \in 1 .. N + 1, NEW j \in 1 .. N + 1, i <= j
                  PROVE  Hash(kvec_'[i]) <= Hash(kvec_'[j])
      BY <1>6 DEF Sorted
    <2>. DEFINE Old(k) == IF k <= n THEN k ELSE k - 1
    <2>1. \A k \in 1 .. N + 1 :
             k # n + 1 => Old(k) \in 1 .. N /\ kvec_'[k] = kvec_[Old(k)]
      <3>. TAKE k \in 1 .. N + 1
      <3>1. CASE k <= n
        BY <1>1, <1>5, <3>1
      <3>2. CASE k > n + 1
        <4>1. k - 1 \in n + 1 .. N /\ (k - 1) + 1 = k
          BY <1>1, <3>2
        <4>2. kvec_'[k] = kvec_[k - 1]
          BY <1>5, <4>1
        <4>. QED
          BY <1>1, <3>2, <4>1, <4>2
      <3>. QED
        BY <1>1, <3>1, <3>2
    <2>2. CASE i # n + 1 /\ j # n + 1
      <3>1. Old(i) <= Old(j)
        BY <1>1, <2>2
      <3>. HIDE DEF Old
      <3>. QED
        BY <1>10, <2>1, <2>2, <3>1
    <2>3. CASE i = n + 1 /\ j # n + 1
      <3>1. Old(j) \in n + 1 .. N
        BY <1>1, <2>3
      <3>. HIDE DEF Old
      <3>. QED
        BY <1>5, <1>11, <2>1, <2>3, <3>1
    <2>4. CASE i # n + 1 /\ j = n + 1
      <3>1. Old(i) \in 1 .. n
        BY <1>1, <2>4
      <3>. HIDE DEF Old
      <3>. QED
        BY <1>5, <1>11, <2>1, <2>4, <3>1
    <2>5. CASE i = n + 1 /\ j = n + 1
      BY <1>5, <1>9, <2>5
    <2>. QED
      BY <2>2, <2>3, <2>4, <2>5
  <1>13. StillToCome'
    <2>. SUFFICES ASSUME NEW q \in first, asked[q] = 0
                  PROVE  \E i \in 1 .. N + 1 : i > kidx_ /\ kvec_'[i] = q
      BY <1>3, <1>6 DEF StillToCome
    <2>1. PICK i \in 1 .. N : i > kidx_ /\ kvec_[i] = q
      BY <1>6 DEF SchedInv, StillToCome
    <2>2. CASE i <= n
      <3>1. i \in 1 .. n /\ i \in 1 .. N + 1
        BY <1>1, <2>2
      <3>. QED
        BY <1>5, <2>1, <3>1
    <2>3. CASE ~ (i <= n)
      <3>1. i \in n + 1 .. N /\ i + 1 \in 1 .. N + 1 /\ i + 1 > kidx_
        BY <1>1, <2>1, <2>3 DEF SchedTyped
      <3>2. kvec_'[i + 1] = q
        BY <1>5, <2>1, <3>1
      <3>. QED
        BY <3>1, <3>2
    <2>. QED
      BY <2>2, <2>3
  <1>14. AllAsked'
    BY <1>3 DEF SchedInv, AllAsked
  <1>. QED
    BY <1>7, <1>12, <1>13, <1>14 DEF SchedInv

\* An interval begins, a price is asked for, or time passes.
LEMMA PollKeeps ==
    ASSUME SchedInv, Sched!Start \/ Sched!Ask \/ Sched!Tick
    PROVE  SchedInv'
  <1>1. /\ SchedTyped /\ kvec_ \in Seq(SchedPrice) /\ Len(kvec_) \in Nat
        /\ DOMAIN kvec_ = 1 .. Len(kvec_)
    BY DEF SchedInv, SchedTyped
  <1>2. CASE Sched!Start
    <2>1. /\ is_pub_' = TRUE /\ kidx_' = 0 /\ elapsed' = 0
          /\ first' = {kvec_[i] : i \in DOMAIN kvec_} /\ asked' = [p \in SchedPrice |-> 0]
          /\ UNCHANGED kvec_
      BY <1>2 DEF Sched!Start, Sched!ToSet
    <2>2. SchedTyped'
      BY <1>1, <2>1 DEF SchedTyped
    <2>3. StillToCome'
      BY <1>1, <2>1 DEF StillToCome
    <2>4. Sorted' /\ AllAsked'
      BY <2>1 DEF SchedInv, Sorted, AllAsked
    <2>. QED
      BY <2>2, <2>3, <2>4 DEF SchedInv
  <1>3. CASE Sched!Ask
    <2>. DEFINE q == kvec_[kidx_ + 1]
    <2>1. /\ kidx_ < Len(kvec_) /\ asked' = [asked EXCEPT ![q] = @ + 1]
          /\ kidx_' = kidx_ + 1 /\ (is_pub_' <=> ~ (kidx_ + 1 >= Len(kvec_)))
          /\ UNCHANGED <<kvec_, elapsed, first>>
      BY <1>3 DEF Sched!Ask, Sched!CanAsk, Sched!Ends
    <2>2. kidx_ + 1 \in DOMAIN kvec_ /\ q \in SchedPrice
      BY <1>1, <2>1 DEF SchedTyped
    <2>. HIDE DEF q
    <2>3. /\ asked' \in [SchedPrice -> Nat] /\ asked'[q] # 0
          /\ \A p \in SchedPrice : p # q => asked'[p] = asked[p]
      BY <1>1, <2>1, <2>2 DEF SchedTyped
    <2>4. SchedTyped'
      BY <1>1, <2>1, <2>3 DEF SchedTyped
    <2>5. Sorted'
      BY <2>1 DEF SchedInv, Sorted
    <2>6. StillToCome'
      <3>. SUFFICES ASSUME NEW p \in first, asked'[p] = 0
                    PROVE  \E i \in DOMAIN kvec_ : i > kidx_ + 1 /\ kvec_[i] = p
        BY <2>1 DEF StillToCome
      <3>1. p \in SchedPrice /\ p # q /\ asked[p] = 0
        BY <1>1, <2>3 DEF SchedTyped
      <3>2. PICK i \in DOMAIN kvec_ : i > kidx_ /\ kvec_[i] = p
        BY <3>1 DEF SchedInv, StillToCome
      <3>3. i # kidx_ + 1
        BY <3>1, <3>2 DEF q
      <3>4. i > kidx_ + 1
        BY <1>1, <3>2, <3>3 DEF SchedTyped
      <3>. QED
        BY <3>2, <3>4
    <2>7. AllAsked'
      <3>. SUFFICES ASSUME ~ is_pub_', NEW p \in first, asked'[p] = 0 PROVE FALSE
        BY <2>1 DEF AllAsked
      <3>1. PICK i \in DOMAIN kvec_ : i > kidx_ + 1
        BY <2>1, <2>6 DEF StillToCome
      <3>2. kidx_ + 1 >= Len(kvec_)
        BY <2>1
      <3>. QED
        BY <1>1, <3>1, <3>2 DEF SchedTyped
    <2>. QED
      BY <2>4, <2>5, <2>6, <2>7 DEF SchedInv
  <1>4. CASE Sched!Tick
    <2>1. elapsed' = elapsed + 1 /\ UNCHANGED <<kvec_, kidx_, is_pub_, first, asked>>
      BY <1>4 DEF Sched!Tick
    <2>2. SchedTyped'
      BY <1>1, <2>1 DEF SchedTyped
    <2>3. Sorted' /\ StillToCome' /\ AllAsked'
      BY <2>1 DEF SchedInv, Sorted, StillToCome, AllAsked
    <2>. QED
      BY <2>2, <2>3 DEF SchedInv
  <1>. QED
    BY <1>2, <1>3, <1>4

\* A larger product is no smaller when it is divided.
LEMMA DivMonotone ==
    ASSUME NEW a \in Nat, NEW b \in Nat, NEW f \in Nat \ {0}, a <= b
    PROVE  a \div f <= b \div f
  OBVIOUS

\* A price with a larger hash is due no earlier.
LEMMA DueMonotone ==
    ASSUME NEW p \in SchedPrice, NEW q \in SchedPrice, Hash(p) <= Hash(q)
    PROVE  Sched!Due(p) <= Sched!Due(q) /\ Sched!Due(p) \in Nat /\ Sched!Due(q) \in Nat
  <1>1. /\ Hash(p) \in Nat /\ Hash(q) \in Nat /\ pub_int_ \in Nat /\ fraction \in Nat \ {0}
    BY SchedAssumption
  <1>. DEFINE a == pub_int_ * Hash(p)
              b == pub_int_ * Hash(q)
  <1>2. a \in Nat /\ b \in Nat
    BY <1>1
  <1>3. a <= b
    BY <1>1
  <1>4. Sched!Due(p) = a \div fraction /\ Sched!Due(q) = b \div fraction
    BY DEF Sched!Due
  <1>. HIDE DEF a, b
  <1>5. a \div fraction \in Nat /\ b \div fraction \in Nat
    BY <1>1, <1>2
  <1>. QED
    BY <1>1, <1>2, <1>3, <1>4, <1>5, DivMonotone

\* The schedule's invariant: kvec_ stays sorted, and no price of the running
\* interval falls behind kidx_ without having been asked for.
THEOREM ScheduleKept == PythdSpec => []SchedInv
  <1>1. PythdInit => SchedInv
    <2>. SUFFICES ASSUME PythdInit PROVE SchedInv
      OBVIOUS
    <2>1. /\ kvec_ = <<>> /\ kidx_ = 0 /\ elapsed = MaxElapsed
          /\ first = {} /\ asked = [p \in SchedPrice |-> 0]
      BY DEF PythdInit, Sched!Init
    <2>2. SchedTyped
      BY <2>1, SchedAssumption DEF SchedTyped
    <2>. QED
      BY <2>1, <2>2 DEF SchedInv, Sorted, StillToCome, AllAsked
  <1>2. ASSUME SchedInv, [PythdNext]_PythdVars PROVE SchedInv'
    <2>1. CASE Sched!Next
      <3>1. CASE \E p \in SchedPrice : Sched!Enter(p)
        BY <1>2, <3>1, EnterKeeps
      <3>2. CASE Sched!Start \/ Sched!Ask \/ Sched!Tick
        BY <1>2, <3>2, PollKeeps
      <3>. QED
        BY <2>1, <3>1, <3>2 DEF Sched!Next
    <2>2. CASE UNCHANGED schedVars
      <3>1. UNCHANGED <<kvec_, kidx_, is_pub_, elapsed, first, asked>>
        BY <2>2 DEF schedVars
      <3>. QED
        BY <1>2, <3>1 DEF SchedInv, SchedTyped, Sorted, StillToCome, AllAsked
    <2>. QED
      BY <1>2, <2>1, <2>2 DEF PythdNext, PythdVars, InSchedule, InConnection
  <1>. QED
    BY <1>1, <1>2, PTL DEF PythdSpec

\* An interval of poll_schedule leaves no price out and none behind, whatever
\* the hashes are and whenever prices enter kvec_.
THEOREM IntervalsComplete == PythdSpec => []IntervalComplete
  <1>1. SchedInv => IntervalComplete
    <2>. SUFFICES ASSUME SchedInv PROVE IntervalComplete
      OBVIOUS
    <2>1. /\ kvec_ \in Seq(SchedPrice) /\ kidx_ \in Nat /\ Len(kvec_) \in Nat
          /\ DOMAIN kvec_ = 1 .. Len(kvec_) /\ first \subseteq SchedPrice
          /\ asked \in [SchedPrice -> Nat] /\ elapsed \in Nat
      BY DEF SchedInv, SchedTyped
    <2>2. Sched!EachAsked
      <3>. SUFFICES ASSUME ~ is_pub_, NEW p \in first PROVE asked[p] > 0
        BY DEF Sched!EachAsked
      <3>1. asked[p] # 0 /\ asked[p] \in Nat
        BY <2>1 DEF SchedInv, AllAsked
      <3>. QED
        BY <3>1
    <2>3. Sched!NoneOverdue
      <3>. SUFFICES ASSUME is_pub_, ~ Sched!CanAsk, NEW p \in first, asked[p] = 0
                    PROVE  elapsed <= Sched!Due(p)
        BY DEF Sched!NoneOverdue
      <3>1. PICK i \in DOMAIN kvec_ : i > kidx_ /\ kvec_[i] = p
        BY DEF SchedInv, StillToCome
      <3>2. kidx_ < Len(kvec_) /\ kidx_ + 1 \in DOMAIN kvec_ /\ kidx_ + 1 <= i
        BY <2>1, <3>1
      <3>3. PICK q : q = kvec_[kidx_ + 1]
        OBVIOUS
      <3>4. p \in SchedPrice /\ q \in SchedPrice
        BY <2>1, <3>2, <3>3
      <3>5. Hash(q) <= Hash(p)
        BY <3>1, <3>2, <3>3 DEF SchedInv, Sorted
      <3>6. Sched!Due(q) <= Sched!Due(p) /\ Sched!Due(q) \in Nat /\ Sched!Due(p) \in Nat
        BY <3>4, <3>5, DueMonotone
      <3>7. ~ (elapsed > Sched!Due(q))
        BY <3>2, <3>3 DEF Sched!CanAsk
      <3>. QED
        BY <2>1, <3>6, <3>7
    <2>. QED
      BY <2>2, <2>3 DEF IntervalComplete, Sched!IntervalComplete
  <1>. QED
    BY <1>1, ScheduleKept, PTL

-----------------------------------------------------------------------------
(* The connection to pyth_tx *)

\* What the next callback may be follows from has_conn_.
CallbackInv ==
    /\ twice = FALSE /\ has_conn_ \in BOOLEAN
    /\ callback \in {"none", "on_connect", "on_disconnect"}
    /\ has_conn_ = TRUE <=> callback = "on_connect"

\* tx_connect::reconnect calls on_connect and on_disconnect in turns, starting
\* with on_connect, however attempts fail and hosts come and go.
THEOREM CallbacksInTurn == PythdSpec => []Conn!CallbacksAlternate
  <1>1. PythdInit => CallbackInv
    BY DEF PythdInit, Conn!Init, CallbackInv
  <1>2. ASSUME CallbackInv, [PythdNext]_PythdVars PROVE CallbackInv'
    <2>1. CASE Conn!Next
      <3>1. CASE Conn!Connected
        BY <1>2, <3>1 DEF CallbackInv, Conn!Connected, Conn!Call
      <3>2. CASE Conn!Lost
        BY <1>2, <3>2 DEF CallbackInv, Conn!Lost, Conn!Call
      <3>3. CASE UNCHANGED <<has_conn_, callback, twice>>
        BY <1>2, <3>3 DEF CallbackInv
      <3>. QED
        BY <2>1, <3>1, <3>2, <3>3 DEF Conn!Next, Conn!Wait, Conn!Attempt, Conn!Fails, Conn!Tick, Conn!Change
    <2>2. CASE UNCHANGED connVars
      BY <1>2, <2>2 DEF CallbackInv, connVars
    <2>. QED
      BY <1>2, <2>1, <2>2 DEF PythdNext, PythdVars, InSchedule, InConnection
  <1>3. CallbackInv => Conn!CallbacksAlternate
    BY DEF CallbackInv, Conn!CallbacksAlternate
  <1>. QED
    BY <1>1, <1>2, <1>3, PTL DEF PythdSpec

-----------------------------------------------------------------------------
(* The users *)

UsersTyped ==
    /\ olist_ \subseteq User /\ svec_ \in [User -> Seq(Request)]
    /\ DOMAIN slist_ = Request /\ DOMAIN heard = User
    /\ known \in [Managers -> SUBSET Price] /\ DOMAIN value = Price
    /\ told \in [User -> SUBSET Price] /\ refused \in [User -> SUBSET Price]

\* A request's list, element by element.
Subscribes(e, r, u) == \E i \in DOMAIN svec_[u] : svec_[u][i] = r /\ e = [user |-> u, sidx |-> i - 1]
Lists == \A r \in Request : \A e : e \in slist_[r] <=> \E u \in olist_ : Subscribes(e, r, u)

\* The ids of an open user's subscriptions were announced.
Announced == \A u \in olist_ : \A i \in DOMAIN svec_[u] : i - 1 \in heard[u].ids

\* Prices that a user was told of are known to a manager, and stay so.
ToldAreKnown == \A u \in User : \A p \in told[u] : Known(p)

UsersInv ==
    UsersTyped /\ Lists /\ Announced /\ AnnouncedFirst /\ LastNoteCurrent /\ ToldAreKnown /\ ToldIsKnown

\* The lists as SubscribersOpen puts them.
LEMMA ListsAre ==
    ASSUME UsersTyped, Lists
    PROVE  SubscribersOpen
  <1>. SUFFICES ASSUME NEW r \in Request
                PROVE  slist_[r] = UNION {{[user |-> u, sidx |-> i - 1] :
                           i \in {j \in DOMAIN svec_[u] : svec_[u][j] = r}} : u \in olist_}
    BY DEF SubscribersOpen
  <1>. DEFINE Of(u) == {[user |-> u, sidx |-> i - 1] : i \in {j \in DOMAIN svec_[u] : svec_[u][j] = r}}
  <1>1. \A u : \A e : e \in Of(u) <=> Subscribes(e, r, u)
    BY DEF Subscribes
  <1>2. \A e : e \in slist_[r] <=> \E u \in olist_ : Subscribes(e, r, u)
    BY DEF Lists
  <1>. HIDE DEF Of
  <1>3. slist_[r] = UNION {Of(u) : u \in olist_}
    BY <1>1, <1>2
  <1>. QED
    BY <1>3 DEF Of

\* What the requests of a message may have done.
Session ==
    [subs : Seq(Request), dvec_ : SUBSET Nat, dirty : SUBSET (Managers \X Price),
     unknown : SUBSET Price, listed : SUBSET Price]
None == [subs |-> <<>>, dvec_ |-> {}, dirty |-> {}, unknown |-> {}, listed |-> {}]

\* A price subscription is deferred, prices refused are unknown, and prices
\* listed are known.
SessionOk(s, u) ==
    /\ \A k : k \in s.dvec_ <=>
                  \E i \in DOMAIN s.subs : s.subs[i][1] = "price" /\ k = Len(svec_[u]) + i - 1
    /\ \A p \in s.unknown : ~ Known(p)
    /\ \A p \in s.listed : Known(p)

\* A subscription is added to a session.
LEMMA SubAdded ==
    ASSUME UsersTyped, NEW u \in User, NEW s \in Session, SessionOk(s, u),
           NEW kind \in {"price", "sched"}, NEW p \in Price
    PROVE  parse_sub(s, u, kind, p) \in Session /\ SessionOk(parse_sub(s, u, kind, p), u)
  <1>. DEFINE t == parse_sub(s, u, kind, p)
              x == <<kind, p>>
              L == Len(svec_[u])
              N == Len(s.subs)
              d == IF kind = "price" THEN s.dvec_ \union {L + N} ELSE s.dvec_
              a == Append(s.subs, x)
  <1>1. /\ s.subs \in Seq(Request) /\ s.dvec_ \in SUBSET Nat /\ N \in Nat /\ x \in Request
        /\ s.dirty \in SUBSET (Managers \X Price) /\ s.unknown \in SUBSET Price /\ s.listed \in SUBSET Price
    BY DEF Session, Request
  <1>2. L \in Nat
    BY DEF UsersTyped
  <1>3. t = [subs |-> a, dvec_ |-> d, dirty |-> s.dirty, unknown |-> s.unknown, listed |-> s.listed]
    BY DEF parse_sub
  <1>5. d \in SUBSET Nat /\ a \in Seq(Request)
    <2>2. a \in Seq(Request)
      BY <1>1
    <2>. HIDE DEF L, N
    <2>1. L + N \in Nat
      BY <1>1, <1>2
    <2>3. d \in SUBSET Nat
      BY <1>1, <2>1
    <2>. QED
      BY <2>2, <2>3
  <1>7. /\ DOMAIN a = 1 .. N + 1 /\ DOMAIN s.subs = 1 .. N
        /\ (\A i \in 1 .. N : a[i] = s.subs[i]) /\ a[N + 1] = x
    BY <1>1
  <1>8. x[1] = kind
    OBVIOUS
  <1>9. \A k : k \in d <=> k \in s.dvec_ \/ (kind = "price" /\ k = L + N)
    OBVIOUS
  <1>. HIDE DEF t, d, a, L, N, x
  <1>4. t.subs = a /\ t.dvec_ = d /\ t.unknown = s.unknown /\ t.listed = s.listed
    BY <1>3
  <1>6. t \in Session
    BY <1>1, <1>3, <1>5 DEF Session
  <1>10. \A k : k \in s.dvec_ <=> \E i \in 1 .. N : s.subs[i][1] = "price" /\ k = L + i - 1
    BY <1>7 DEF SessionOk, L
  <1>11. \A k : k \in d <=> \E i \in 1 .. N + 1 : a[i][1] = "price" /\ k = L + i - 1
    <2>. TAKE k
    <2>1. ASSUME k \in s.dvec_ PROVE \E i \in 1 .. N + 1 : a[i][1] = "price" /\ k = L + i - 1
      <3>1. PICK i \in 1 .. N : s.subs[i][1] = "price" /\ k = L + i - 1
        BY <1>10, <2>1
      <3>2. i \in 1 .. N + 1 /\ a[i] = s.subs[i]
        BY <1>1, <1>7
      <3>. QED
        BY <3>1, <3>2
    <2>2. ASSUME kind = "price", k = L + N PROVE \E i \in 1 .. N + 1 : a[i][1] = "price" /\ k = L + i - 1
      <3>1. N + 1 \in 1 .. N + 1 /\ L + N = L + (N + 1) - 1
        BY <1>1, <1>2
      <3>. QED
        BY <1>7, <1>8, <2>2, <3>1
    <2>3. ASSUME NEW i \in 1 .. N + 1, a[i][1] = "price", k = L + i - 1
          PROVE  k \in s.dvec_ \/ (kind = "price" /\ k = L + N)
      <3>1. CASE i = N + 1
        <4>1. L + (N + 1) - 1 = L + N
          BY <1>1, <1>2
        <4>. QED
          BY <1>7, <1>8, <2>3, <3>1, <4>1
      <3>2. CASE i # N + 1
        <4>1. i \in 1 .. N
          BY <1>1, <3>2
        <4>. QED
          BY <1>7, <1>10, <2>3, <4>1
      <3>. QED
        BY <3>1, <3>2
    <2>. QED
      BY <1>9, <2>1, <2>2, <2>3
  <1>12. SessionOk(t, u)
    BY <1>4, <1>7, <1>11 DEF SessionOk, L
  <1>. QED
    BY <1>6, <1>12 DEF t

\* A request leaves a session that is in order in order.
LEMMA RequestKeeps ==
    ASSUME UsersTyped, NEW u \in User, NEW s \in Session, SessionOk(s, u), NEW r \in Requests
    PROVE  parse_request(s, u, r) \in Session /\ SessionOk(parse_request(s, u, r), u)
  <1>. DEFINE t == parse_request(s, u, r)
  <1>0. /\ s.subs \in Seq(Request) /\ s.dvec_ \in SUBSET Nat
        /\ s.dirty \in SUBSET (Managers \X Price) /\ s.unknown \in SUBSET Price /\ s.listed \in SUBSET Price
        /\ s = [subs |-> s.subs, dvec_ |-> s.dvec_, dirty |-> s.dirty, unknown |-> s.unknown, listed |-> s.listed]
    BY DEF Session
  <1>1. known["primary"] \subseteq Price /\ known["secondary"] \subseteq Price
    BY DEF UsersTyped, Managers
  <1>2. ASSUME NEW D \in SUBSET (Managers \X Price), t = [s EXCEPT !.dirty = @ \union D]
        PROVE  t \in Session /\ SessionOk(t, u)
    <2>1. /\ t = [subs |-> s.subs, dvec_ |-> s.dvec_, dirty |-> s.dirty \union D, unknown |-> s.unknown, listed |-> s.listed]
      BY <1>0, <1>2
    <2>. HIDE DEF t
    <2>2. t.subs = s.subs /\ t.dvec_ = s.dvec_ /\ t.unknown = s.unknown /\ t.listed = s.listed
      BY <2>1
    <2>3. t \in Session
      BY <1>0, <2>1 DEF Session
    <2>. QED
      BY <2>2, <2>3 DEF SessionOk
  <1>3. ASSUME NEW p \in Price, ~ Known(p), t = [s EXCEPT !.unknown = @ \union {p}]
        PROVE  t \in Session /\ SessionOk(t, u)
    <2>1. /\ t = [subs |-> s.subs, dvec_ |-> s.dvec_, dirty |-> s.dirty, unknown |-> s.unknown \union {p}, listed |-> s.listed]
      BY <1>0, <1>3
    <2>. HIDE DEF t
    <2>2. t.subs = s.subs /\ t.dvec_ = s.dvec_ /\ t.unknown = s.unknown \union {p} /\ t.listed = s.listed
      BY <2>1
    <2>3. t \in Session
      BY <1>0, <2>1 DEF Session
    <2>. QED
      BY <1>3, <2>2, <2>3 DEF SessionOk
  <1>4. ASSUME NEW P \in SUBSET Price, \A p \in P : Known(p), t = [s EXCEPT !.listed = @ \union P]
        PROVE  t \in Session /\ SessionOk(t, u)
    <2>1. /\ t = [subs |-> s.subs, dvec_ |-> s.dvec_, dirty |-> s.dirty, unknown |-> s.unknown, listed |-> s.listed \union P]
      BY <1>0, <1>4
    <2>. HIDE DEF t
    <2>2. t.subs = s.subs /\ t.dvec_ = s.dvec_ /\ t.unknown = s.unknown /\ t.listed = s.listed \union P
      BY <2>1
    <2>3. t \in Session
      BY <1>0, <2>1 DEF Session
    <2>. QED
      BY <1>4, <2>2, <2>3 DEF SessionOk
  <1>5. \/ r.p \in Price /\ r.method \in {"update_price", "subscribe_price", "subscribe_price_sched", "get_product"}
        \/ r.method \in {"get_product_list", "get_all_products", "unreadable"}
    BY DEF Requests
  <1>6. CASE r.method = "update_price" /\ r.p \in Price
    <2>1. t = parse_upd_price(s, r.p)
      BY <1>6 DEF parse_request
    <2>2. {m \in Managers : r.p \in known[m]} \X {r.p} \in SUBSET (Managers \X Price)
      BY <1>6
    <2>. HIDE DEF t
    <2>3. CASE Known(r.p)
      <3>1. t = [s EXCEPT !.dirty = @ \union ({m \in Managers : r.p \in known[m]} \X {r.p})]
        BY <2>1, <2>3 DEF parse_upd_price
      <3>. QED
        BY <1>2, <2>2, <3>1 DEF t
    <2>4. CASE ~ Known(r.p)
      <3>1. t = [s EXCEPT !.unknown = @ \union {r.p}]
        BY <2>1, <2>4 DEF parse_upd_price
      <3>. QED
        BY <1>3, <1>6, <2>4, <3>1 DEF t
    <2>. QED
      BY <2>3, <2>4 DEF t
  <1>7. CASE r.method = "subscribe_price" /\ r.p \in Price
    <2>1. t = parse_sub_price(s, u, r.p)
      BY <1>7 DEF parse_request
    <2>2. t \in {parse_sub(s, u, "price", r.p), s}
      BY <2>1 DEF parse_sub_price
    <2>. HIDE DEF t
    <2>3. t \in Session /\ SessionOk(t, u)
      BY <1>7, <2>2, SubAdded
    <2>. QED
      BY <2>3 DEF t
  <1>8. CASE r.method = "subscribe_price_sched" /\ r.p \in Price
    <2>1. t = parse_sub_price_sched(s, u, r.p)
      BY <1>8 DEF parse_request
    <2>2. t \in {parse_sub(s, u, "sched", r.p), s}
      BY <2>1 DEF parse_sub_price_sched
    <2>. HIDE DEF t
    <2>3. t \in Session /\ SessionOk(t, u)
      BY <1>8, <2>2, SubAdded
    <2>. QED
      BY <2>3 DEF t
  <1>9. CASE r.method = "get_product" /\ r.p \in Price
    <2>1. t = parse_get_product(s, r.p)
      BY <1>9 DEF parse_request
    <2>. HIDE DEF t
    <2>2. CASE Known(r.p)
      <3>1. t = [s EXCEPT !.listed = @ \union {r.p}]
        BY <2>1, <2>2 DEF parse_get_product
      <3>. QED
        BY <1>4, <1>9, <2>2, <3>1 DEF t
    <2>3. CASE ~ Known(r.p)
      <3>1. t = s
        BY <2>1, <2>3 DEF parse_get_product
      <3>. QED
        BY <3>1 DEF t
    <2>. QED
      BY <2>2, <2>3
  <1>10. CASE r.method \in {"get_product_list", "get_all_products"}
    <2>1. t = [s EXCEPT !.listed = @ \union Listed]
      BY <1>10 DEF parse_request, parse_get_product_list, parse_get_all_products
    <2>2. Listed \in SUBSET Price /\ \A p \in Listed : Known(p)
      BY <1>1 DEF Listed, Known
    <2>. HIDE DEF t
    <2>. QED
      BY <1>4, <2>1, <2>2 DEF t
  <1>11. CASE r.method = "unreadable"
    BY <1>11 DEF parse_request
  <1>. HIDE DEF t
  <1>. QED
    BY <1>5, <1>6, <1>7, <1>8, <1>9, <1>10, <1>11 DEF t

\* The requests of a message, one after the other, leave a session in order.
LEMMA Parsed ==
    ASSUME UsersTyped, NEW u \in User, NEW q \in Seq(Requests)
    PROVE  ParseLoop(u, q)[Len(q)] \in Session /\ SessionOk(ParseLoop(u, q)[Len(q)], u)
  <1>. DEFINE N == Len(q)
              D == {s \in Session : SessionOk(s, u)}
              G == [x \in D \X (1 .. N) |-> parse_request(x[1], u, q[x[2]])]
              Is(f) == f = [n \in 0 .. N |->
                              IF n = 0 THEN [subs |-> <<>>, dvec_ |-> {}, dirty |-> {}, unknown |-> {}, listed |-> {}]
                              ELSE parse_request(f[n - 1], u, q[n])]
              g == ParseLoop(u, q)
  <1>1. N \in Nat /\ DOMAIN q = 1 .. N /\ \A i \in 1 .. N : q[i] \in Requests
    OBVIOUS
  <1>2. None \in D
    <2>1. None \in Session
      BY DEF None, Session
    <2>2. None.dvec_ = {} /\ DOMAIN None.subs = {} /\ None.unknown = {} /\ None.listed = {}
      BY DEF None
    <2>3. SessionOk(None, u)
      BY <2>2 DEF SessionOk
    <2>. QED
      BY <2>1, <2>3
  <1>3. \A s \in D, i \in 1 .. N : parse_request(s, u, q[i]) \in D
    <2>. TAKE s \in D, i \in 1 .. N
    <2>1. s \in Session /\ SessionOk(s, u) /\ q[i] \in Requests
      BY <1>1
    <2>2. parse_request(s, u, q[i]) \in Session /\ SessionOk(parse_request(s, u, q[i]), u)
      BY <2>1, RequestKeeps
    <2>. QED
      BY <2>2
  <1>. HIDE DEF D, N
  <1>4. G \in [D \X (1 .. N) -> D]
    BY <1>3
  <1>5. PICK f \in [0 .. N -> D] : Loops(f, N, None, G)
    <2>. HIDE DEF G
    <2>. QED
      BY <1>1, <1>2, <1>4, LoopDefined
  <1>6. \A i \in 1 .. N : f[i] = parse_request(f[i - 1], u, q[i])
    <2>. TAKE i \in 1 .. N
    <2>1. i - 1 \in 0 .. N
      BY <1>1
    <2>2. f[i - 1] \in D
      BY <1>5, <2>1
    <2>3. <<f[i - 1], i>> \in D \X (1 .. N)
      BY <2>2
    <2>4. G[<<f[i - 1], i>>] = parse_request(f[i - 1], u, q[i])
      BY <2>3
    <2>. QED
      BY <1>5, <2>4 DEF Loops
  <1>7. Is(f)
    <2>. DEFINE h == [n \in 0 .. N |-> IF n = 0 THEN None ELSE parse_request(f[n - 1], u, q[n])]
    <2>1. \A n \in 0 .. N : f[n] = h[n]
      BY <1>1, <1>5, <1>6 DEF Loops
    <2>2. f = h
      BY <1>5, <2>1
    <2>. QED
      BY <2>2 DEF None
  <1>8. g = CHOOSE x : Is(x)
    BY DEF ParseLoop, N
  <1>9. Is(CHOOSE x : Is(x))
    <2>. HIDE DEF Is
    <2>. QED
      BY <1>7
  <1>10. Is(g)
    BY <1>8, <1>9
  <1>. HIDE DEF g, G
  <1>11. \A n \in 0 .. N : g[n] = IF n = 0 THEN None ELSE parse_request(g[n - 1], u, q[n])
    BY <1>10 DEF None
  <1>. DEFINE S == {n \in 0 .. N : g[n] \in D}
  <1>12. 0 \in S
    BY <1>1, <1>2, <1>11
  <1>13. ASSUME NEW n \in 0 .. N - 1, n \in S PROVE n + 1 \in S
    <2>1. n + 1 \in 0 .. N /\ n + 1 # 0 /\ (n + 1) - 1 = n /\ n + 1 \in 1 .. N
      BY <1>1
    <2>2. g[n + 1] = parse_request(g[n], u, q[n + 1])
      BY <1>11, <2>1
    <2>. QED
      BY <1>3, <1>13, <2>1, <2>2
  <1>. HIDE DEF S
  <1>14. 0 .. N \subseteq S
    BY <1>1, <1>12, <1>13, UpTo
  <1>15. g[N] \in D
    BY <1>1, <1>14 DEF S
  <1>. QED
    BY <1>15 DEF D, g, N

\* A request's subscribers are told under ids that they know.
LEMMA SubscribersTold ==
    ASSUME UsersInv, NEW r \in Request, NEW val, DOMAIN val = Price, value' = val, on_response_sub(r, val),
           \A p \in Price : <<"price", p>> # r => val[p] = value[p],
           UNCHANGED <<olist_, svec_, slist_, known, told, refused>>
    PROVE  UsersInv'
  <1>. DEFINE K(w) == {e.sidx : e \in {f \in slist_[r] : f.user = w}}
  <1>1. /\ olist_ \subseteq User /\ svec_ \in [User -> Seq(Request)] /\ DOMAIN heard = User
        /\ DOMAIN slist_ = Request
    BY DEF UsersInv, UsersTyped
  <1>2. \A w \in User : \A k : k \in K(w) <=> w \in olist_ /\ \E i \in DOMAIN svec_[w] : svec_[w][i] = r /\ k = i - 1
    <2>. TAKE w \in User
    <2>. TAKE k
    <2>1. ASSUME k \in K(w) PROVE w \in olist_ /\ \E i \in DOMAIN svec_[w] : svec_[w][i] = r /\ k = i - 1
      <3>1. PICK e \in slist_[r] : e.user = w /\ k = e.sidx
        BY <2>1
      <3>2. PICK x \in olist_ : Subscribes(e, r, x)
        BY <3>1 DEF UsersInv, Lists
      <3>3. PICK i \in DOMAIN svec_[x] : svec_[x][i] = r /\ e = [user |-> x, sidx |-> i - 1]
        BY <3>2 DEF Subscribes
      <3>. QED
        BY <3>1, <3>2, <3>3
    <2>2. ASSUME w \in olist_, NEW i \in DOMAIN svec_[w], svec_[w][i] = r, k = i - 1 PROVE k \in K(w)
      <3>. DEFINE e == [user |-> w, sidx |-> i - 1]
      <3>1. e.user = w /\ e.sidx = k
        BY <2>2
      <3>2. Subscribes(e, r, w)
        BY <2>2 DEF Subscribes
      <3>. HIDE DEF e
      <3>3. e \in slist_[r]
        BY <2>2, <3>2 DEF UsersInv, Lists
      <3>. QED
        BY <3>1, <3>3
    <2>. QED
      BY <2>1, <2>2
  <1>3. \A w \in User : heard'[w] = HearNotes(heard[w], [k \in K(w) |-> NoteOf(r, val)])
    BY DEF on_response_sub
  <1>4. DOMAIN heard' = User
    BY DEF on_response_sub
  <1>. HIDE DEF K
  <1>5. \A w \in User : /\ heard'[w].ids = heard[w].ids
                        /\ heard'[w].early = heard[w].early \union (K(w) \ heard[w].ids)
                        /\ heard'[w].last = [k \in DOMAIN heard[w].last \union K(w) |->
                                                IF k \in K(w) THEN NoteOf(r, val) ELSE heard[w].last[k]]
    <2>. TAKE w \in User
    <2>. DEFINE notes == [k \in K(w) |-> NoteOf(r, val)]
    <2>1. DOMAIN notes = K(w) /\ \A k \in K(w) : notes[k] = NoteOf(r, val)
      OBVIOUS
    <2>2. heard'[w] = HearNotes(heard[w], notes)
      BY <1>3
    <2>. HIDE DEF notes
    <2>. QED
      BY <2>1, <2>2 DEF HearNotes
  <1>6. UsersTyped'
    BY <1>4 DEF UsersInv, UsersTyped
  <1>7. Lists' /\ ToldAreKnown' /\ ToldIsKnown'
    BY DEF UsersInv, Lists, Subscribes, ToldAreKnown, ToldIsKnown, Known
  <1>8. Announced'
    BY <1>1, <1>5 DEF UsersInv, Announced
  <1>9. AnnouncedFirst'
    <2>. SUFFICES ASSUME NEW w \in User PROVE heard'[w].early = {}
      BY DEF AnnouncedFirst
    <2>1. K(w) \subseteq heard[w].ids
      BY <1>2 DEF UsersInv, Announced
    <2>. QED
      BY <1>5, <2>1 DEF UsersInv, AnnouncedFirst
  <1>10. LastNoteCurrent'
    <2>. SUFFICES ASSUME NEW w \in olist_, NEW k \in DOMAIN svec_[w], svec_[w][k][1] = "price"
                  PROVE  k - 1 \in DOMAIN heard'[w].last /\ heard'[w].last[k - 1] = val[svec_[w][k][2]]
      BY DEF LastNoteCurrent
    <2>1. w \in User /\ svec_[w] \in Seq(Request)
      BY <1>1
    <2>2. k \in Nat /\ svec_[w][k] \in Request
      BY <2>1
    <2>3. PICK p \in Price : svec_[w][k] = <<"price", p>>
      BY <2>2 DEF Request
    <2>. DEFINE j == k - 1
                new == heard'[w].last
                old == heard[w].last
    <2>7. /\ svec_[w][k][2] = p
          /\ new = [n \in DOMAIN old \union K(w) |-> IF n \in K(w) THEN NoteOf(r, val) ELSE old[n]]
      BY <1>5, <2>1, <2>3
    <2>4. k - 1 \in DOMAIN heard[w].last /\ heard[w].last[k - 1] = value[p]
      BY <2>3 DEF UsersInv, LastNoteCurrent
    <2>5. CASE svec_[w][k] = r
      <3>1. k - 1 \in K(w)
        BY <1>2, <2>1, <2>5
      <3>2. NoteOf(r, val) = val[p]
        BY <2>3, <2>5 DEF NoteOf
      <3>. HIDE DEF new, old, j
      <3>3. j \in DOMAIN new /\ new[j] = val[p]
        BY <2>7, <3>1, <3>2 DEF j
      <3>. QED
        BY <2>7, <3>3 DEF new, j
    <2>6. CASE svec_[w][k] # r
      <3>1. \A i \in DOMAIN svec_[w] : k - 1 = i - 1 => i = k
        BY <2>1
      <3>2. k - 1 \notin K(w)
        BY <1>2, <2>1, <2>6, <3>1
      <3>3. val[p] = value[p]
        BY <2>3, <2>6
      <3>4. j \in DOMAIN old /\ old[j] = val[p]
        BY <2>4, <3>3
      <3>. HIDE DEF new, old, j
      <3>5. j \in DOMAIN new /\ new[j] = val[p]
        BY <2>7, <3>2, <3>4 DEF j
      <3>. QED
        BY <2>7, <3>5 DEF new, j
    <2>. QED
      BY <2>5, <2>6
  <1>. QED
    BY <1>6, <1>7, <1>8, <1>9, <1>10 DEF UsersInv

\* The requests of a message keep what users rely on.
LEMMA MessageKeeps ==
    ASSUME UsersInv, NEW u \in User, NEW q \in Seq(Requests), parse_msg(u, q)
    PROVE  UsersInv'
  <1>1. /\ olist_ \subseteq User /\ svec_ \in [User -> Seq(Request)] /\ DOMAIN heard = User
        /\ DOMAIN slist_ = Request /\ told \in [User -> SUBSET Price] /\ refused \in [User -> SUBSET Price]
    BY DEF UsersInv, UsersTyped
  <1>2. PICK s : s = ParseLoop(u, q)[Len(q)]
    OBVIOUS
  <1>3. s \in Session /\ SessionOk(s, u)
    BY <1>2, Parsed DEF UsersInv
  <1>4. /\ u \in olist_ /\ svec_' = [svec_ EXCEPT ![u] = @ \o s.subs] /\ add_subs(u, s.subs)
        /\ heard' = [heard EXCEPT ![u] = Deferred(u, s)]
        /\ refused' = [refused EXCEPT ![u] = @ \union (s.unknown \intersect told[u])]
        /\ told' = [told EXCEPT ![u] = @ \union s.listed]
        /\ UNCHANGED <<olist_, dlist_, known, value, updates>>
    BY <1>2 DEF parse_msg
  <1>5. PICK a \in Seq(Request) : a = svec_[u]
    BY <1>1
  <1>6. PICK b \in Seq(Request) : b = s.subs
    BY <1>3 DEF Session
  <1>7. PICK L \in Nat : L = Len(a)
    OBVIOUS
  <1>8. PICK N \in Nat : N = Len(b)
    OBVIOUS
  <1>9. PICK c : c = a \o b
    OBVIOUS
  <1>10. /\ c \in Seq(Request) /\ DOMAIN c = 1 .. L + N /\ DOMAIN a = 1 .. L /\ DOMAIN b = 1 .. N
         /\ (\A i \in 1 .. L : c[i] = a[i]) /\ (\A i \in 1 .. N : c[L + i] = b[i])
    BY <1>7, <1>8, <1>9
  <1>11. svec_' \in [User -> Seq(Request)] /\ svec_'[u] = c /\ \A w \in User \ {u} : svec_'[w] = svec_[w]
    BY <1>1, <1>4, <1>5, <1>6, <1>9, <1>10
  <1>12. PICK d : d = s.dvec_
    OBVIOUS
  <1>13. \A k : k \in d <=> \E i \in 1 .. N : b[i][1] = "price" /\ k = L + i - 1
    BY <1>3, <1>5, <1>6, <1>7, <1>10, <1>12 DEF SessionOk
  <1>14. PICK new : new = NewIds(u, s)
    OBVIOUS
  <1>15. \A k : k \in new <=> \E i \in 1 .. N : k = L + i - 1
    BY <1>5, <1>6, <1>7, <1>10, <1>14 DEF NewIds
  <1>16. PICK h : h = heard[u]
    OBVIOUS
  <1>17. PICK notes : notes = FirstNotes(u, s)
    OBVIOUS
  <1>18. notes = [k \in d |-> value[b[k - L + 1][2]]]
    BY <1>5, <1>6, <1>7, <1>12, <1>17 DEF FirstNotes
  <1>19. heard'[u] = HearNotes(HearReply(h, new), notes)
    BY <1>1, <1>4, <1>14, <1>16, <1>17 DEF Deferred
  <1>20. /\ heard'[u].ids = h.ids \union new
         /\ heard'[u].early = h.early \union (d \ (h.ids \union new))
         /\ heard'[u].last = [k \in DOMAIN h.last \union d |-> IF k \in d THEN notes[k] ELSE h.last[k]]
    <2>1. DOMAIN notes = d
      BY <1>18
    <2>2. PICK g : g = HearReply(h, new)
      OBVIOUS
    <2>3. g.ids = h.ids \union new /\ g.last = h.last /\ g.early = h.early
      BY <2>2 DEF HearReply
    <2>4. heard'[u] = HearNotes(g, notes)
      BY <1>19, <2>2
    <2>. QED
      BY <2>1, <2>3, <2>4 DEF HearNotes
  <1>21. DOMAIN heard' = User /\ \A w \in User \ {u} : heard'[w] = heard[w]
    BY <1>1, <1>4
  <1>22. DOMAIN slist_' = Request
    BY <1>4 DEF add_subs
  <1>23. ToldAreKnown' /\ ToldIsKnown' /\ told' \in [User -> SUBSET Price] /\ refused' \in [User -> SUBSET Price]
    <2>1. s.unknown \in SUBSET Price /\ s.listed \in SUBSET Price
      BY <1>3 DEF Session
    <2>2. \A p \in told[u] : Known(p)
      BY DEF UsersInv, ToldAreKnown
    <2>3. s.unknown \intersect told[u] = {}
      BY <1>3, <2>2 DEF SessionOk
    <2>4. refused' \in [User -> SUBSET Price] /\ \A w \in User : refused'[w] = refused[w]
      BY <1>1, <1>4, <2>3
    <2>5. /\ told' \in [User -> SUBSET Price] /\ told'[u] = told[u] \union s.listed
          /\ \A w \in User \ {u} : told'[w] = told[w]
      BY <1>1, <1>4, <2>1
    <2>6. \A p : Known(p)' <=> Known(p)
      BY <1>4 DEF Known
    <2>7. \A p \in s.listed : Known(p)
      BY <1>3 DEF SessionOk
    <2>8. \A w \in User : \A p \in told'[w] : Known(p)
      BY <2>5, <2>7 DEF UsersInv, ToldAreKnown
    <2>9. ToldAreKnown'
      BY <2>6, <2>8 DEF ToldAreKnown
    <2>10. ToldIsKnown'
      BY <2>4 DEF UsersInv, ToldIsKnown
    <2>. QED
      BY <2>4, <2>5, <2>9, <2>10
  <1>24. UsersTyped'
    BY <1>4, <1>11, <1>21, <1>22, <1>23 DEF UsersInv, UsersTyped
  <1>25. Lists'
    <2>. SUFFICES ASSUME NEW r \in Request, NEW e
                  PROVE  e \in slist_'[r] <=> \E w \in olist_ : Subscribes(e, r, w)'
      BY <1>4 DEF Lists
    <2>1. e \in slist_'[r] <=> \/ e \in slist_[r]
                               \/ \E i \in 1 .. N : b[i] = r /\ e = [user |-> u, sidx |-> L + i - 1]
      <3>1. slist_'[r] = slist_[r] \union {[user |-> u, sidx |-> L + i - 1] : i \in {j \in 1 .. N : b[j] = r}}
        BY <1>4, <1>5, <1>6, <1>7, <1>10 DEF add_subs
      <3>. QED
        BY <3>1
    <2>2. e \in slist_[r] <=> \E w \in olist_ : Subscribes(e, r, w)
      BY DEF UsersInv, Lists
    <2>3. \A w \in olist_ \ {u} : Subscribes(e, r, w)' <=> Subscribes(e, r, w)
      BY <1>1, <1>11 DEF Subscribes
    <2>4. Subscribes(e, r, u) <=> \E i \in 1 .. L : a[i] = r /\ e = [user |-> u, sidx |-> i - 1]
      BY <1>5, <1>10 DEF Subscribes
    <2>5. Subscribes(e, r, u)' <=> \E i \in 1 .. L + N : c[i] = r /\ e = [user |-> u, sidx |-> i - 1]
      BY <1>10, <1>11 DEF Subscribes
    <2>6. ASSUME NEW i \in 1 .. L, a[i] = r, e = [user |-> u, sidx |-> i - 1] PROVE Subscribes(e, r, u)'
      <3>1. i \in 1 .. L + N /\ c[i] = r
        BY <1>10, <2>6
      <3>. QED
        BY <2>5, <2>6, <3>1
    <2>7. ASSUME NEW i \in 1 .. N, b[i] = r, e = [user |-> u, sidx |-> L + i - 1] PROVE Subscribes(e, r, u)'
      <3>1. L + i \in 1 .. L + N /\ c[L + i] = r
        BY <1>10, <2>7
      <3>2. PICK j \in 1 .. L + N : j = L + i
        BY <3>1
      <3>3. c[j] = r /\ e = [user |-> u, sidx |-> j - 1]
        BY <2>7, <3>1, <3>2
      <3>. QED
        BY <2>5, <3>3
    <2>8. ASSUME NEW i \in 1 .. L + N, c[i] = r, e = [user |-> u, sidx |-> i - 1]
          PROVE  \/ \E j \in 1 .. L : a[j] = r /\ e = [user |-> u, sidx |-> j - 1]
                 \/ \E j \in 1 .. N : b[j] = r /\ e = [user |-> u, sidx |-> L + j - 1]
      <3>1. CASE i <= L
        <4>1. i \in 1 .. L
          BY <3>1
        <4>. QED
          BY <1>10, <2>8, <4>1
      <3>2. CASE i > L
        <4>1. i - L \in 1 .. N
          BY <3>2
        <4>2. PICK j \in 1 .. N : j = i - L
          BY <4>1
        <4>3. L + j = i
          BY <4>2
        <4>4. b[j] = r
          BY <1>10, <2>8, <4>3
        <4>5. e = [user |-> u, sidx |-> L + j - 1]
          BY <2>8, <4>3
        <4>. QED
          BY <4>4, <4>5
      <3>. QED
        BY <3>1, <3>2
    <2>9. (\E w \in olist_ : Subscribes(e, r, w))
          <=> Subscribes(e, r, u) \/ \E w \in olist_ \ {u} : Subscribes(e, r, w)
      BY <1>4
    <2>10. Subscribes(e, r, u)' <=>
               \/ Subscribes(e, r, u)
               \/ \E i \in 1 .. N : b[i] = r /\ e = [user |-> u, sidx |-> L + i - 1]
      BY <2>4, <2>5, <2>6, <2>7, <2>8
    <2>11. (\E w \in olist_ : Subscribes(e, r, w)')
           <=> Subscribes(e, r, u)' \/ \E w \in olist_ \ {u} : Subscribes(e, r, w)
      BY <1>4, <2>3
    <2>. QED
      BY <2>1, <2>2, <2>9, <2>10, <2>11
  <1>26. Announced'
    <2>. SUFFICES ASSUME NEW w \in olist_, NEW i \in DOMAIN svec_'[w] PROVE i - 1 \in heard'[w].ids
      BY <1>4 DEF Announced
    <2>1. CASE w # u
      BY <1>1, <1>11, <1>21, <2>1 DEF UsersInv, Announced
    <2>2. CASE w = u
      <3>1. i \in 1 .. L + N
        BY <1>10, <1>11, <2>2
      <3>2. CASE i <= L
        <4>1. i \in DOMAIN svec_[u]
          BY <1>5, <1>10, <3>1, <3>2
        <4>2. i - 1 \in h.ids
          BY <1>4, <1>16, <4>1 DEF UsersInv, Announced
        <4>. QED
          BY <1>20, <2>2, <4>2
      <3>3. CASE i > L
        <4>1. i - L \in 1 .. N /\ i - 1 = L + (i - L) - 1
          BY <3>1, <3>3
        <4>2. i - 1 \in new
          BY <1>15, <4>1
        <4>. QED
          BY <1>20, <2>2, <4>2
      <3>. QED
        BY <3>1, <3>2, <3>3
    <2>. QED
      BY <2>1, <2>2
  <1>27. AnnouncedFirst'
    <2>1. d \subseteq new
      BY <1>13, <1>15
    <2>2. h.early = {}
      BY <1>16 DEF UsersInv, AnnouncedFirst
    <2>3. heard'[u].early = {}
      BY <1>20, <2>1, <2>2
    <2>. QED
      BY <1>21, <2>3 DEF UsersInv, AnnouncedFirst
  <1>28. LastNoteCurrent'
    <2>0. olist_' = olist_ /\ value' = value
      BY <1>4
    <2>. SUFFICES ASSUME NEW w \in olist_, NEW k \in DOMAIN svec_'[w], svec_'[w][k][1] = "price"
                  PROVE  k - 1 \in DOMAIN heard'[w].last /\ heard'[w].last[k - 1] = value[svec_'[w][k][2]]
      BY <2>0 DEF LastNoteCurrent
    <2>1. CASE w # u
      BY <1>1, <1>11, <1>21, <2>1 DEF UsersInv, LastNoteCurrent
    <2>2. CASE w = u
      <3>1. k \in 1 .. L + N /\ c[k][1] = "price" /\ svec_'[w][k] = c[k]
        BY <1>10, <1>11, <2>2
      <3>2. PICK now : now = heard'[u].last
        OBVIOUS
      <3>3. PICK j \in Int : j = k - 1
        BY <3>1
      <3>4. now = [n \in DOMAIN h.last \union d |-> IF n \in d THEN notes[n] ELSE h.last[n]]
        BY <1>20, <3>2
      <3>5. CASE k <= L
        <4>1. k \in DOMAIN svec_[u] /\ svec_[u][k] = c[k]
          BY <1>5, <1>10, <3>1, <3>5
        <4>2. j \in DOMAIN h.last /\ h.last[j] = value[c[k][2]]
          BY <1>4, <1>16, <3>1, <3>3, <4>1 DEF UsersInv, LastNoteCurrent
        <4>3. \A i \in 1 .. N : j # L + i - 1
          BY <3>1, <3>3, <3>5
        <4>4. j \notin d
          BY <1>13, <4>3
        <4>5. j \in DOMAIN now /\ now[j] = value[c[k][2]]
          BY <3>4, <4>2, <4>4
        <4>. QED
          BY <2>2, <3>1, <3>2, <3>3, <4>5
      <3>6. CASE k > L
        <4>1. k - L \in 1 .. N /\ j = L + (k - L) - 1 /\ j - L + 1 = k - L /\ L + (k - L) = k
          BY <3>1, <3>3, <3>6
        <4>2. b[k - L] = c[k]
          BY <1>10, <4>1
        <4>3. j \in d
          BY <1>13, <3>1, <4>1, <4>2
        <4>4. notes[j] = value[c[k][2]]
          BY <1>18, <4>1, <4>2, <4>3
        <4>5. j \in DOMAIN now /\ now[j] = value[c[k][2]]
          BY <3>4, <4>3, <4>4
        <4>. QED
          BY <2>2, <3>1, <3>2, <3>3, <4>5
      <3>. QED
        BY <3>1, <3>5, <3>6
    <2>. QED
      BY <2>1, <2>2
  <1>. QED
    BY <1>23, <1>24, <1>25, <1>26, <1>27, <1>28 DEF UsersInv

\* A user that is closed, or opened anew, takes nothing from the others.
LEMMA OthersKept ==
    ASSUME UsersInv, NEW u \in User, NEW O \in SUBSET User, O \ {u} = olist_ \ {u}, olist_' = O,
           svec_' = [svec_ EXCEPT ![u] = <<>>], heard' = [heard EXCEPT ![u] = Silence],
           UNCHANGED <<known, value>>,
           DOMAIN slist_' = Request,
           \A r \in Request : \A e : e \in slist_'[r] <=> \E w \in olist_ \ {u} : Subscribes(e, r, w),
           told' \in [User -> SUBSET Price], refused' \in [User -> SUBSET Price],
           \A w \in User : told'[w] \subseteq told[w] /\ refused'[w] \subseteq refused[w]
    PROVE  UsersInv'
  <1>1. /\ olist_ \subseteq User /\ svec_ \in [User -> Seq(Request)] /\ DOMAIN heard = User
        /\ DOMAIN slist_ = Request
    BY DEF UsersInv, UsersTyped
  <1>2. <<>> \in Seq(Request) /\ DOMAIN <<>> = {}
    OBVIOUS
  <1>3. PICK z : z = <<>>
    OBVIOUS
  <1>4. z \in Seq(Request) /\ DOMAIN z = {} /\ svec_' = [svec_ EXCEPT ![u] = z]
    BY <1>2, <1>3
  <1>5. svec_' \in [User -> Seq(Request)] /\ svec_'[u] = z /\ \A w \in User \ {u} : svec_'[w] = svec_[w]
    BY <1>1, <1>4
  <1>6. DOMAIN heard' = User /\ heard'[u] = Silence /\ \A w \in User \ {u} : heard'[w] = heard[w]
    BY <1>1
  <1>7. UsersTyped'
    BY <1>5, <1>6 DEF UsersInv, UsersTyped
  <1>8. Lists'
    <2>. SUFFICES ASSUME NEW r \in Request, NEW e
                  PROVE  e \in slist_'[r] <=> \E w \in O : Subscribes(e, r, w)'
      BY DEF Lists
    <2>1. ~ Subscribes(e, r, u)'
      BY <1>4, <1>5 DEF Subscribes
    <2>2. \A w \in User \ {u} : Subscribes(e, r, w)' <=> Subscribes(e, r, w)
      BY <1>5 DEF Subscribes
    <2>3. \A w \in User : w # u => (w \in O <=> w \in olist_)
      OBVIOUS
    <2>. QED
      BY <1>1, <2>1, <2>2, <2>3
  <1>9. Announced'
    <2>. SUFFICES ASSUME NEW w \in O, NEW i \in DOMAIN svec_'[w] PROVE i - 1 \in heard'[w].ids
      BY DEF Announced
    <2>1. w \in User /\ w # u /\ w \in olist_
      BY <1>4, <1>5
    <2>. QED
      BY <1>5, <1>6, <2>1 DEF UsersInv, Announced
  <1>10. AnnouncedFirst'
    <2>1. Silence.early = {}
      BY DEF Silence
    <2>. QED
      BY <1>6, <2>1 DEF UsersInv, AnnouncedFirst
  <1>11. LastNoteCurrent'
    <2>0. value' = value
      OBVIOUS
    <2>. SUFFICES ASSUME NEW w \in O, NEW k \in DOMAIN svec_'[w], svec_'[w][k][1] = "price"
                  PROVE  k - 1 \in DOMAIN heard'[w].last /\ heard'[w].last[k - 1] = value[svec_'[w][k][2]]
      BY <2>0 DEF LastNoteCurrent
    <2>1. w \in User /\ w # u /\ w \in olist_
      BY <1>4, <1>5
    <2>. QED
      BY <1>5, <1>6, <2>1 DEF UsersInv, LastNoteCurrent
  <1>12. ToldAreKnown' /\ ToldIsKnown'
    <2>1. \A p : Known(p)' <=> Known(p)
      BY DEF Known
    <2>2. ToldAreKnown'
      BY <2>1 DEF UsersInv, ToldAreKnown
    <2>3. \A w \in User : refused'[w] = {}
      BY DEF UsersInv, ToldIsKnown
    <2>4. ToldIsKnown'
      BY <2>3 DEF ToldIsKnown
    <2>. QED
      BY <2>2, <2>4
  <1>. QED
    BY <1>7, <1>8, <1>9, <1>10, <1>11, <1>12 DEF UsersInv

\* What holds of the users, for any number of them: every action of Users
\* keeps UsersInv, and the schedule and the connection do not touch it.
THEOREM UsersKept == PythdSpec => []UsersInv
  <1>1. PythdInit => UsersInv
    <2>. SUFFICES ASSUME Init PROVE UsersInv
      BY DEF PythdInit
    <2>1. <<>> \in Seq(Request) /\ DOMAIN <<>> = {}
      OBVIOUS
    <2>2. svec_ \in [User -> Seq(Request)]
      BY <2>1 DEF Init
    <2>3. UsersTyped
      BY <2>2 DEF Init, UsersTyped
    <2>4. Lists
      BY DEF Init, Lists
    <2>5. Announced /\ LastNoteCurrent
      BY DEF Init, Announced, LastNoteCurrent
    <2>6. AnnouncedFirst
      BY DEF Init, AnnouncedFirst, Silence
    <2>7. ToldAreKnown /\ ToldIsKnown
      BY DEF Init, ToldAreKnown, ToldIsKnown
    <2>. QED
      BY <2>3, <2>4, <2>5, <2>6, <2>7 DEF UsersInv
  <1>2. ASSUME UsersInv, [PythdNext]_PythdVars PROVE UsersInv'
    <2>0. /\ olist_ \subseteq User /\ svec_ \in [User -> Seq(Request)] /\ DOMAIN heard = User
          /\ DOMAIN slist_ = Request /\ told \in [User -> SUBSET Price] /\ refused \in [User -> SUBSET Price]
          /\ known \in [Managers -> SUBSET Price] /\ DOMAIN value = Price
      BY <1>2 DEF UsersInv, UsersTyped
    <2>1. ASSUME NEW u \in User, accept(u) PROVE UsersInv'
      <3>1. olist_ \union {u} \in SUBSET User /\ (olist_ \union {u}) \ {u} = olist_ \ {u}
        BY <2>0
      <3>2. /\ olist_' = olist_ \union {u} /\ svec_' = [svec_ EXCEPT ![u] = <<>>]
            /\ heard' = [heard EXCEPT ![u] = Silence] /\ UNCHANGED <<known, value>>
            /\ slist_' = slist_ /\ u \notin olist_
            /\ told' = [told EXCEPT ![u] = {}] /\ refused' = [refused EXCEPT ![u] = {}]
        BY <2>1 DEF accept, Fresh
      <3>3. \A r \in Request : \A e : e \in slist_'[r] <=> \E w \in olist_ \ {u} : Subscribes(e, r, w)
        BY <1>2, <3>2 DEF UsersInv, Lists
      <3>4. /\ told' \in [User -> SUBSET Price] /\ refused' \in [User -> SUBSET Price]
            /\ \A w \in User : told'[w] \subseteq told[w] /\ refused'[w] \subseteq refused[w]
        BY <2>0, <3>2
      <3>5. DOMAIN slist_' = Request
        BY <2>0, <3>2
      <3>. QED
        BY <1>2, <3>1, <3>2, <3>3, <3>4, <3>5, OthersKept
    <2>2. ASSUME NEW u \in User, teardown(u) PROVE UsersInv'
      <3>1. olist_ \ {u} \in SUBSET User /\ (olist_ \ {u}) \ {u} = olist_ \ {u}
        BY <2>0
      <3>2. /\ olist_' = olist_ \ {u} /\ svec_' = [svec_ EXCEPT ![u] = <<>>]
            /\ heard' = [heard EXCEPT ![u] = Silence] /\ UNCHANGED <<known, value>>
            /\ slist_' = [r \in Request |-> {e \in slist_[r] : e.user # u}]
            /\ told' = told /\ refused' = refused
        BY <2>2 DEF teardown, psub_teardown
      <3>3. \A r \in Request : \A e : e \in slist_'[r] <=> \E w \in olist_ \ {u} : Subscribes(e, r, w)
        <4>. TAKE r \in Request
        <4>. TAKE e
        <4>1. e \in slist_'[r] <=> e \in slist_[r] /\ e.user # u
          BY <3>2
        <4>2. e \in slist_[r] <=> \E w \in olist_ : Subscribes(e, r, w)
          BY <1>2 DEF UsersInv, Lists
        <4>3. \A w : Subscribes(e, r, w) => e.user = w
          BY DEF Subscribes
        <4>. QED
          BY <4>1, <4>2, <4>3
      <3>4. /\ told' \in [User -> SUBSET Price] /\ refused' \in [User -> SUBSET Price]
            /\ \A w \in User : told'[w] \subseteq told[w] /\ refused'[w] \subseteq refused[w]
        BY <2>0, <3>2
      <3>5. DOMAIN slist_' = Request
        BY <3>2
      <3>. QED
        BY <1>2, <3>1, <3>2, <3>3, <3>4, <3>5, OthersKept
    <2>3. ASSUME NEW u \in User, NEW n \in 1 .. MaxBatch, NEW q \in [1 .. n -> Requests], parse_msg(u, q)
          PROVE  UsersInv'
      <3>1. q \in Seq(Requests)
        BY UsersAssumption
      <3>. QED
        BY <1>2, <2>3, <3>1, MessageKeeps
    <2>4. ASSUME NEW p \in Price, UpdatePrice(p) PROVE UsersInv'
      <3>1. PICK val : val = [value EXCEPT ![p] = 1 - @]
        OBVIOUS
      <3>2. /\ value' = val /\ on_response_sub(<<"price", p>>, val)
            /\ UNCHANGED <<olist_, svec_, slist_, known, told, refused>>
        BY <2>4, <3>1 DEF UpdatePrice
      <3>3. DOMAIN val = Price /\ \A x \in Price : x # p => val[x] = value[x]
        BY <2>0, <3>1
      <3>4. <<"price", p>> \in Request
        BY DEF Request
      <3>5. \A x \in Price : <<"price", x>> # <<"price", p>> => val[x] = value[x]
        BY <3>3
      <3>. QED
        BY <1>2, <3>2, <3>3, <3>4, <3>5, SubscribersTold
    <2>5. ASSUME NEW p \in Price, Schedule(p) PROVE UsersInv'
      <3>1. PICK val : val = value
        OBVIOUS
      <3>2. /\ value' = val /\ on_response_sub(<<"sched", p>>, val)
            /\ UNCHANGED <<olist_, svec_, slist_, known, told, refused>>
        BY <2>5, <3>1 DEF Schedule
      <3>3. DOMAIN val = Price /\ \A x \in Price : <<"price", x>> # <<"sched", p>> => val[x] = value[x]
        BY <2>0, <3>1
      <3>4. <<"sched", p>> \in Request
        BY DEF Request
      <3>. QED
        BY <1>2, <3>2, <3>3, <3>4, SubscribersTold
    <2>6. ASSUME NEW m \in Managers, NEW p \in Price, Learn(m, p) PROVE UsersInv'
      <3>1. /\ known' = [known EXCEPT ![m] = @ \union {p}]
            /\ UNCHANGED <<olist_, svec_, slist_, value, heard, told, refused>>
        BY <2>6 DEF Learn
      <3>2. known' \in [Managers -> SUBSET Price] /\ \A x \in Managers : known[x] \subseteq known'[x]
        BY <2>0, <3>1
      <3>3. \A x : Known(x) => Known(x)'
        BY <3>2 DEF Known, Managers
      <3>4. ToldAreKnown'
        BY <1>2, <3>1, <3>3 DEF UsersInv, ToldAreKnown
      <3>5. UsersTyped'
        BY <1>2, <3>1, <3>2 DEF UsersInv, UsersTyped
      <3>6. Lists'
        BY <1>2, <3>1 DEF UsersInv, Lists, Subscribes
      <3>7. Announced' /\ AnnouncedFirst' /\ ToldIsKnown'
        BY <1>2, <3>1 DEF UsersInv, Announced, AnnouncedFirst, ToldIsKnown
      <3>8. LastNoteCurrent'
        BY <1>2, <3>1 DEF UsersInv, LastNoteCurrent
      <3>. QED
        BY <3>4, <3>5, <3>6, <3>7, <3>8 DEF UsersInv
    <2>7. CASE UNCHANGED <<olist_, svec_, slist_, known, value, heard, told, refused>>
      BY <1>2, <2>7 DEF UsersInv, UsersTyped, Lists, Subscribes, Announced, AnnouncedFirst, LastNoteCurrent,
                        ToldAreKnown, ToldIsKnown, Known
    <2>8. CASE Next
      <3>1. CASE SendPending \/ teardown_users
        BY <2>7, <3>1 DEF SendPending, teardown_users
      <3>. QED
        BY <2>1, <2>2, <2>3, <2>4, <2>5, <2>6, <2>8, <3>1 DEF Next
    <2>9. CASE UNCHANGED vars
      BY <2>7, <2>9 DEF vars
    <2>. QED
      BY <1>2, <2>8, <2>9 DEF PythdNext, PythdVars, InSchedule, InConnection
  <1>. QED
    BY <1>1, <1>2, PTL DEF PythdSpec

\* A user of pythd is told of what it subscribed to and of nothing else, after
\* the subscription was announced and up to the last value, and prices it was
\* told of are taken (user::parse_request, request_sub_set, user::teardown).
THEOREM UsersAlwaysServed == PythdSpec => []UsersServed
  <1>1. UsersInv => UsersServed
    BY ListsAre DEF UsersInv, UsersServed
  <1>. QED
    BY <1>1, UsersKept, PTL
=============================================================================
