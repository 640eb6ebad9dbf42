----------------------------- MODULE SortStable -----------------------------
(***************************************************************************)
(* The merge sort behind the pricing model, with its two arrays: the keys  *)
(* x and the scratch space t.  Every subsort leaves its result in one or   *)
(* the other, and the merge of two subsorts may overwrite the array one of *)
(* them is in.                                                             *)
(***************************************************************************)
EXTENDS Naturals, Sequences, SequencesExt

CONSTANT BASE   \* the longest run the sorting network handles: 7 in the code

\* A key is a record of its value and of the place it started from.

\* SORT_BEFORE
Before(u, v) == u.val < v.val

\* SORT_STABLE_CE on elements i and i + 1.
CompareExchange(x, i) ==
    IF Before(x[i + 1], x[i]) THEN [x EXCEPT ![i] = x[i + 1], ![i + 1] = x[i]] ELSE x

\* sort_stable_base.c: the comparators of case n, falling through to case 1.
SortNetwork(x, off, n) ==
    LET Pass(m) == [i \in 1 .. m - 1 |-> off + i]
    IN  FoldLeft(CompareExchange, x, FlattenSeq([p \in 1 .. n |-> Pass(n + 1 - p)]))

\* The merge loop and its stragglers: element after element from mem[l] and
\* mem[r] to mem[out], reading what earlier writes have left there.
RECURSIVE Merge(_, _, _, _, _, _, _, _, _)
Merge(mem, out, l, r, off, nl, nr, j, k) ==
    LET right == j = nl \/ (k < nr /\ Before(mem[r][off + nl + k + 1], mem[l][off + j + 1]))
        v == IF right THEN mem[r][off + nl + k + 1] ELSE mem[l][off + j + 1]
    IN  IF j = nl /\ k = nr THEN mem
        ELSE Merge([mem EXCEPT ![out][off + j + k + 1] = v], out, l, r, off, nl, nr,
                   IF right THEN j ELSE j + 1, IF right THEN k + 1 ELSE k)

\* Mutant: the merge always goes to the scratch array.
MergeTargetScratch(yl) == "t"

\* Away from where the left half ended up.
MergeTarget(yl) == IF yl = "x" THEN "t" ELSE "x"

\* stable_node: the arrays after sorting n keys at off, and the array y the
\* sorted keys are in.
RECURSIVE StableNode(_, _, _)
StableNode(mem, off, n) ==
    LET nl == n \div 2
        left == StableNode(mem, off, nl)
        right == StableNode(left.mem, off + nl, n - nl)
        out == MergeTarget(left.y)
    IN  IF n <= BASE
        THEN [mem |-> [mem EXCEPT !.x = SortNetwork(@, off, n)], y |-> "x"]
        ELSE [mem |-> Merge(right.mem, out, left.y, right.y, off, nl, n - nl, 0, 0), y |-> out]

\* The scratch space holds whatever it held before: keys with no tag.
Stable(s) ==
    LET scratch == [i \in DOMAIN s |-> [val |-> 0, tag |-> 0]]
        node == StableNode([x |-> s, t |-> scratch], 0, Len(s))
    IN  node.mem[node.y]
=============================================================================
