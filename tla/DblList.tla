------------------------------- MODULE DblList -------------------------------
(***************************************************************************)
(* dbl_list with the links of its elements in prev_next: the lists of      *)
(* users, of pending requests and of subscriptions.  Null ends a list in   *)
(* both directions.  Elements keep their links when they are deleted.      *)
(***************************************************************************)
EXTENDS Integers, Sequences

CONSTANTS Elements, Null

EmptyLists == [hd |-> Null, tl |-> Null]

Unlinked == [e \in Elements |-> [prev |-> Null, next |-> Null]]

\* Mutant: the links of the element are those it had in its last list.
list_add_stale(s, n) ==
    [hd |-> IF s.tl = Null THEN n ELSE s.hd, tl |-> n,
     link |-> IF s.tl = Null THEN [s.link EXCEPT ![n].prev = Null]
              ELSE [s.link EXCEPT ![n].prev = s.tl, ![s.tl].next = n]]

\* A list and the links of all elements, s.link, are updated together.
list_add(s, n) ==
    LET own == [s.link EXCEPT ![n] = [prev |-> s.tl, next |-> Null]]
    IN  [hd |-> IF s.tl = Null THEN n ELSE s.hd, tl |-> n,
         link |-> IF s.tl = Null THEN own ELSE [own EXCEPT ![s.tl].next = n]]

list_del(s, t) ==
    LET p == s.link[t].prev
        n == s.link[t].next
        fwd == IF p = Null THEN s.link ELSE [s.link EXCEPT ![p].next = n]
    IN  [hd |-> IF p = Null THEN n ELSE s.hd,
         tl |-> IF n = Null THEN p ELSE s.tl,
         link |-> IF n = Null THEN fwd ELSE [fwd EXCEPT ![n].prev = p]]
=============================================================================
