-------------------------------- MODULE Attrs --------------------------------
(***************************************************************************)
(* A product's attributes in the client: attr_id_set numbers every key the *)
(* process ever saw, attr_dict holds the values of one product by key      *)
(* number, and both are filled from and written to the account's bytes,    *)
(* where every string follows its length in one char.                      *)
(***************************************************************************)
EXTENDS Integers, Sequences, SequencesExt, FiniteSets, TLC

CONSTANT SCHAR_MAX \* 127: the largest char, which is signed

Str(s) == <<Len(s)>> \o s

NoAttrs == [vals |-> <<>>, num |-> 0]

\* The keys by number; a new key gets the next one.
add_attr_id(ids, key) ==
    IF \E i \in DOMAIN ids : ids[i] = key THEN ids ELSE Append(ids, key)

get_attr_id(ids, key) == CHOOSE i \in DOMAIN ids : ids[i] = key

\* The last value given for a key counts, num_ counts them all.
add_ref(dict, aid, val) == [vals |-> (aid :> val) @@ dict.vals, num |-> dict.num + 1]

get_attr(dict, aid) == IF aid \in DOMAIN dict.vals THEN dict.vals[aid] ELSE <<>>

\* The keys and values in the bytes, and whether they end where the bytes do.
\* The reader gives up at a string that goes past the end.  A length that is a
\* negative char takes it out of the account's memory, and a key that ends with
\* the bytes has its value's length read behind them, which is undefined: the
\* model gives up there, too.  Pairs read before are in the dictionary by then.
ReadPairs(bytes) ==
    LET end == Len(bytes) + 1
        after(p) == p + 1 + bytes[p]
        pairs[p \in 1 .. end] ==
            IF p = end THEN [ok |-> TRUE, list |-> <<>>]
            ELSE IF \/ bytes[p] > SCHAR_MAX \/ after(p) >= end
                    \/ bytes[after(p)] > SCHAR_MAX \/ after(after(p)) > end
            THEN [ok |-> FALSE, list |-> <<>>]
            ELSE LET v == after(p)
                     rest == pairs[after(v)]
                     pair == [key |-> SubSeq(bytes, p + 1, v - 1),
                              val |-> SubSeq(bytes, v + 1, after(v) - 1)]
                 IN  [ok |-> rest.ok, list |-> <<pair>> \o rest.list]
    IN  pairs[1]

\* init_from_account: the new numbering, the dictionary and the return value.
init_from_account(ids, bytes) ==
    LET read == ReadPairs(bytes)
        newIds == FoldLeft(LAMBDA n, pair : add_attr_id(n, pair.key), ids, read.list)
    IN  [ids |-> newIds, ok |-> read.ok,
         dict |-> FoldLeft(LAMBDA d, pair : add_ref(d, get_attr_id(newIds, pair.key), pair.val),
                           NoAttrs, read.list)]

\* Mutant: attributes are written in the order of the dictionary's own size.
write_account_num(ids, dict) ==
    FlattenSeq([aid \in 1 .. dict.num |->
        IF get_attr(dict, aid) = <<>> THEN <<>> ELSE Str(ids[aid]) \o Str(dict.vals[aid])])

\* By key number, without the keys whose value is empty.
write_account(ids, dict) ==
    FlattenSeq([aid \in DOMAIN ids |->
        IF get_attr(dict, aid) = <<>> THEN <<>> ELSE Str(ids[aid]) \o Str(dict.vals[aid])])
=============================================================================
