---------------------------- MODULE PublisherSet ----------------------------
(***************************************************************************)
(* What the component array of a price account promises: a set of          *)
(* authorised publishers, each with its own latest quote, where an         *)
(* instruction touches the publisher it names and nobody else.             *)
(***************************************************************************)
EXTENDS FiniteSets, Naturals

CONSTANTS
    Keys,       \* the publisher keys
    Quotes,     \* the quotes
    Empty,      \* the zeroed quote
    Capacity    \* most publishers

VARIABLES
    quoteOf,    \* a function from the authorised publishers to their quotes
    done        \* the last instruction that succeeded

Authorise(k) ==
    /\ k \notin DOMAIN quoteOf
    /\ Cardinality(DOMAIN quoteOf) < Capacity
    /\ quoteOf' = [j \in DOMAIN quoteOf \union {k} |-> IF j = k THEN Empty ELSE quoteOf[j]]
    /\ done' = <<"add_publisher", k>>

Revoke(k) ==
    /\ k \in DOMAIN quoteOf
    /\ quoteOf' = [j \in DOMAIN quoteOf \ {k} |-> quoteOf[j]]
    /\ done' = <<"del_publisher", k>>

Quote(k, q) ==
    /\ k \in DOMAIN quoteOf
    /\ quoteOf' = [quoteOf EXCEPT ![k] = q]
    /\ done' = <<"upd_price", k>>

Init ==
    /\ \E S \in SUBSET Keys : Cardinality(S) <= Capacity /\ quoteOf = [k \in S |-> Empty]
    /\ done = <<>>

Next == \E k \in Keys : Authorise(k) \/ Revoke(k) \/ \E q \in Quotes : Quote(k, q)

Spec == Init /\ [][Next]_<<quoteOf, done>>
=============================================================================
