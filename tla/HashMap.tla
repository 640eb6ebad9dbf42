------------------------------- MODULE HashMap -------------------------------
(***************************************************************************)
(* hash_map, behind every table of the client: a vector of nodes chained   *)
(* from hsize_ buckets, with the nodes of deleted keys chained for reuse.  *)
(* An iterator is the place of a link: a bucket, or the next field of the  *)
(* node before.  Index 0 ends a chain.                                     *)
(***************************************************************************)
EXTENDS Integers, Sequences, FiniteSets, SequencesExt

CONSTANT hsize_ \* the number of buckets

\* Node i of the code is nvec[i]; node 0 is never used.
hash_map == [nvec |-> <<>>, htab |-> [b \in 0 .. hsize_ - 1 |-> 0], rhd |-> 0, nval |-> 0]

Bucket(b) == [in |-> "htab", at |-> b]

NextOf(i) == [in |-> "nvec", at |-> i]

\* The index a link holds, and the map with the link set to i.
At(m, link) == IF link.in = "htab" THEN m.htab[link.at] ELSE m.nvec[link.at].nxt

SetLink(m, link, i) ==
    IF link.in = "htab" THEN [m EXCEPT !.htab[link.at] = i]
    ELSE [m EXCEPT !.nvec[link.at].nxt = i]

\* The links along the chain of a bucket, the last one holding 0.
Links(m, b) ==
    LET walk[n \in 0 .. Len(m.nvec)] ==
            IF n = 0 THEN <<Bucket(b)>>
            ELSE LET w == walk[n - 1]
                 IN  IF At(m, Last(w)) = 0 THEN w ELSE Append(w, NextOf(At(m, Last(w))))
    IN  walk[Len(m.nvec)]

\* The link to the node of key k, or none.
find(m, k) ==
    LET links == Links(m, k % hsize_)
        p == SelectInSeq(links, LAMBDA l : At(m, l) # 0 /\ m.nvec[At(m, l)].key = k)
    IN  IF p = 0 THEN <<>> ELSE <<links[p]>>

\* Mutant: the freed node keeps its place in the chain of its bucket.
del_keeps_next(m, link) ==
    LET it == At(m, link)
    IN  [SetLink(m, link, m.nvec[it].nxt) EXCEPT !.rhd = it, !.nval = @ - 1]

del(m, link) ==
    LET it == At(m, link)
    IN  [SetLink(m, link, m.nvec[it].nxt)
            EXCEPT !.nvec[it].nxt = m.rhd, !.rhd = it, !.nval = @ - 1]

\* The node is taken from the free chain, or is a new one, and goes to the
\* front of its bucket.  Its value is whatever the node held before.
add(m, k) ==
    LET fresh == m.rhd = 0
        res == IF fresh THEN Len(m.nvec) + 1 ELSE m.rhd
        b == k % hsize_
        grown == IF fresh THEN Append(m.nvec, [nxt |-> 0, key |-> k, val |-> 0]) ELSE m.nvec
    IN  [nvec |-> [grown EXCEPT ![res].nxt = m.htab[b], ![res].key = k],
         htab |-> [m.htab EXCEPT ![b] = res],
         rhd |-> IF fresh THEN 0 ELSE m.nvec[m.rhd].nxt,
         nval |-> m.nval + 1]

\* ref( it ) = val
Assign(m, link, val) == [m EXCEPT !.nvec[At(m, link)].val = val]

obj(m, link) == m.nvec[At(m, link)].val

\* The nodes in use: those on some bucket's chain.
Used(m) == {At(m, l) : l \in UNION {ToSet(Links(m, b)) : b \in 0 .. hsize_ - 1}} \ {0}
=============================================================================
