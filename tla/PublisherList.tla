---------------------------- MODULE PublisherList ----------------------------
(***************************************************************************)
(* The component array of a price account: comp_[0 .. num_ - 1], kept      *)
(* sorted by publisher key so that a publisher can be found by binary      *)
(* search, in accounts whose list may predate the sorting.                 *)
(*                                                                         *)
(* A component is its publisher key pub_ and its quote latest_; keys are   *)
(* numbers, compared as sol_memcmp compares them, 0 is Pubkey::default().  *)
(***************************************************************************)
EXTENDS Naturals, FiniteSets

CONSTANTS
    Keys,         \* the publisher keys, Pubkey::default() among them or not
    Quotes,       \* the quotes
    Capacity,     \* most publishers: PC_NUM_COMP, 64 in the code
    MaxLegacy     \* bound: longest list that was never sorted

\* Keys are numbers, for the order sol_memcmp gives them.
ASSUME ListAssumption ==
    Keys \subseteq Nat /\ Capacity \in Nat /\ MaxLegacy \in 0 .. Capacity

VARIABLES
    num_, comp_,
    done           \* history: the last instruction that succeeded

listVars == <<num_, comp_, done>>

Empty == 0

NoComp == [pub_ |-> 0, latest_ |-> Empty]

Component == [pub_: Keys \union {0}, latest_: Quotes \union {Empty}]

NotFound == Capacity

Listed == {comp_[i].pub_ : i \in 0 .. num_ - 1}

Swap(v, i, j) == [v EXCEPT ![i] = v[j], ![j] = v[i]]

-----------------------------------------------------------------------------
(* find_publisher_index *)

\* One turn of the binary search, which is over when found is a place.
SearchStep(comps, key, s) ==
    LET mid == s.left + (s.right - s.left) \div 2 IN
    IF s.left >= s.right \/ s.found # NotFound THEN s
    ELSE IF comps[mid].pub_ = key THEN [s EXCEPT !.found = mid]
    ELSE IF comps[mid].pub_ < key THEN [s EXCEPT !.left = mid + 1]
    ELSE [s EXCEPT !.right = mid]

\* Every turn but the last makes the range smaller: n turns are enough.
BinarySearch(comps, key, n) ==
    LET s[t \in 0 .. n] ==
            IF t = 0 THEN [left |-> 0, right |-> n, found |-> NotFound]
            ELSE SearchStep(comps, key, s[t - 1])
    IN  s[n].found

LinearSearch(comps, key, n) ==
    LET hits == {i \in 0 .. n - 1 : comps[i].pub_ = key} IN
    IF hits = {} THEN NotFound ELSE CHOOSE i \in hits : \A j \in hits : i <= j

\* Mutant: no linear search after the binary search.
find_publisher_index_binary(comps, key, n) == BinarySearch(comps, key, n)

find_publisher_index(comps, key, n) ==
    LET i == BinarySearch(comps, key, n) IN
    IF i # NotFound THEN i ELSE LinearSearch(comps, key, n)

-----------------------------------------------------------------------------
(* sort_price_comps: a heap sort of the keys, then a permutation of the     *)
(* components in place along the chains of the swaps already done.          *)

\* One turn of sift_down: the element at node and its greater child change
\* places unless the heap is in order there.
SiftStep(s, len) ==
    LET left == 2 * s.node + 1
        child == IF left + 1 < len /\ s.v[left].key < s.v[left + 1].key THEN left + 1 ELSE left
    IN  IF left >= len THEN s
        ELSE IF s.v[s.node].key >= s.v[child].key THEN s
        ELSE [v |-> Swap(s.v, s.node, child), node |-> child]

\* node grows with every turn: len turns are enough.
SiftDown(v, len, node) ==
    LET s[t \in 0 .. len] ==
            IF t = 0 THEN [v |-> v, node |-> node] ELSE SiftStep(s[t - 1], len)
    IN  s[len].v

\* The loop that builds the heap, and the one that pops the largest element
\* of the first m + 1, from the last place down to the second.
Build(v, len) ==
    LET w[t \in 0 .. len \div 2] ==
            IF t = 0 THEN v ELSE SiftDown(w[t - 1], len, len \div 2 - t)
    IN  w[len \div 2]

Pop(v, m) == SiftDown(Swap(v, 0, m), m, 0)

heapsort(v, len) ==
    LET w[t \in 0 .. len - 1] ==
            IF t = 0 THEN Build(v, len) ELSE Pop(w[t - 1], len - t)
    IN  w[len - 1]

\* The chain of the swaps from index on, to the first place that is not
\* before i; it visits a place once, so i turns are enough.
FollowSwaps(keys, i, index) ==
    LET at[t \in 0 .. i] ==
            IF t = 0 THEN index
            ELSE IF at[t - 1] < i THEN keys[at[t - 1]].index ELSE at[t - 1]
    IN  at[i]

\* Mutant: the chain of swaps is not followed.
PlaceWithoutChain(s, i) == [s EXCEPT !.comps = Swap(@, i, s.keys[i].index)]

\* One iteration of the loop that puts the i-th smallest component at i.
Place(s, i) ==
    LET index == FollowSwaps(s.keys, i, s.keys[i].index) IN
    [keys |-> [s.keys EXCEPT ![i].index = index], comps |-> Swap(s.comps, i, index)]

\* The keys are taken in reverse; n is at least 1.
ReversedKeys(comps, n) ==
    [i \in 0 .. n - 1 |-> [key |-> comps[n - 1 - i].pub_, index |-> n - 1 - i]]

sort_price_comps(comps, n) ==
    LET s[t \in 0 .. n] ==
            IF t = 0 THEN [keys |-> heapsort(ReversedKeys(comps, n), n), comps |-> comps]
            ELSE Place(s[t - 1], t - 1)
    IN  s[n].comps

-----------------------------------------------------------------------------
\* Mutant: a publisher may be added twice.
AddComponentTwice(k) ==
    /\ num_ < Capacity
    /\ num_' = num_ + 1
    /\ comp_' = sort_price_comps([comp_ EXCEPT ![num_] = [NoComp EXCEPT !.pub_ = k]], num_ + 1)
    /\ done' = <<"add_publisher", k>>

\* add_publisher; nothing keeps Pubkey::default() out.
AddComponent(k) ==
    /\ num_ < Capacity
    /\ k \notin Listed
    /\ num_' = num_ + 1
    /\ comp_' = sort_price_comps([comp_ EXCEPT ![num_] = [NoComp EXCEPT !.pub_ = k]], num_ + 1)
    /\ done' = <<"add_publisher", k>>

\* Mutant: the shift starts one component too late.
DelComponentLate(k) ==
    /\ k # 0
    /\ k \in Listed
    /\ LET i == LinearSearch(comp_, k, num_) IN
       comp_' = [j \in DOMAIN comp_ |->
                    IF j \in i + 1 .. num_ - 2 THEN comp_[j + 1]
                    ELSE IF j = num_ - 1 THEN NoComp
                    ELSE comp_[j]]
    /\ num_' = num_ - 1
    /\ done' = <<"del_publisher", k>>

\* del_publisher: the later components move down, the last place is zeroed.
DelComponent(k) ==
    /\ k # 0
    /\ k \in Listed
    /\ LET i == LinearSearch(comp_, k, num_) IN
       comp_' = [j \in DOMAIN comp_ |->
                    IF j \in i .. num_ - 2 THEN comp_[j + 1]
                    ELSE IF j = num_ - 1 THEN NoComp
                    ELSE comp_[j]]
    /\ num_' = num_ - 1
    /\ done' = <<"del_publisher", k>>

\* upd_price: the quote goes to the component the search finds.
WriteComponent(k, q) ==
    LET i == find_publisher_index(comp_, k, num_) IN
    /\ i # NotFound
    /\ comp_' = [comp_ EXCEPT ![i].latest_ = q]
    /\ done' = <<"upd_price", k>>
    /\ UNCHANGED num_

\* A list of distinct publishers in any order, as accounts from before the
\* sorting have it.
ListInit ==
    /\ \E n \in 0 .. MaxLegacy :
          \E keys \in [0 .. n - 1 -> Keys] :
              /\ \A i, j \in 0 .. n - 1 : i # j => keys[i] # keys[j]
              /\ num_ = n
              /\ comp_ = [i \in 0 .. Capacity - 1 |->
                             IF i < n THEN [NoComp EXCEPT !.pub_ = keys[i]] ELSE NoComp]
    /\ done = <<>>

ListNext == \E k \in Keys : AddComponent(k) \/ DelComponent(k) \/ \E q \in Quotes : WriteComponent(k, q)

ListSpec == ListInit /\ [][ListNext]_listVars

-----------------------------------------------------------------------------
(* Properties *)

\* The array implements a set of publishers with a quote each: adding,
\* removing and sorting never lose, swap or revive another publisher's quote,
\* and a quote is only ever written to its own publisher's component.
Set == INSTANCE PublisherSet
    WITH quoteOf <- [k \in Listed |-> comp_[LinearSearch(comp_, k, num_)].latest_]

ImplementsSet == Set!Spec

\* No publisher is listed twice (a second component would count its quote
\* twice in the aggregate), and nothing is left behind the list.
OneComponentEach ==
    /\ Cardinality(Listed) = num_
    /\ \A i \in num_ .. Capacity - 1 : comp_[i] = NoComp

\* The search finds every listed publisher, and nobody else, in lists that
\* are sorted, never were, or were and had publishers removed.
FindsExactly ==
    \A k \in Keys :
        LET i == find_publisher_index(comp_, k, num_) IN
        IF k \in Listed THEN i < num_ /\ comp_[i].pub_ = k ELSE i = NotFound

\* Whatever the order of the list, add_publisher leaves it sorted, and no
\* other instruction unsorts it.
SortedList(n, comps) == \A i, j \in 0 .. n - 1 : i < j => comps[i].pub_ < comps[j].pub_

StaysSorted ==
    [][(num_' > num_ \/ SortedList(num_, comp_)) => SortedList(num_', comp_')]_listVars

\* add_publisher, del_publisher and upd_price treat the array as a set with a
\* quote for each publisher, and leave it sorted once it was.
ListImplementsSet == ImplementsSet /\ StaysSorted
=============================================================================
