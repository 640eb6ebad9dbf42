----------------------------- MODULE StakeCaps -----------------------------
(***************************************************************************)
(* compute_publisher_stake_caps of the validator: how much stake each      *)
(* publisher may have, from the price accounts it publishes to.  An        *)
(* account is whether it loads as a price account, and the publishers of   *)
(* its first num_ components, of which it has one each (PublisherList).    *)
(***************************************************************************)
EXTENDS Integers, Sequences, FiniteSets, SequencesExt

CONSTANT U64_MAX

saturating_add(a, b) == IF a + b > U64_MAX THEN U64_MAX ELSE a + b

\* Mutant: the smaller of the two divides.
Cap_min(account, m, z) ==
    LET num_ == Cardinality(account.pubs)
        by == IF num_ < z THEN num_ ELSE z
    IN  IF by = 0 THEN 0 ELSE m \div by

\* m split among the publishers, or among z where they are fewer; 0 where
\* there is nothing to divide by.
Cap(account, m, z) ==
    LET num_ == Cardinality(account.pubs)
        by == IF num_ > z THEN num_ ELSE z
    IN  IF by = 0 THEN 0 ELSE m \div by

compute_publisher_stake_caps(account_datas, m, z) ==
    FoldLeft(LAMBDA caps, account :
                 IF ~ account.loads THEN caps
                 ELSE LET cap == Cap(account, m, z)
                      IN  [p \in DOMAIN caps \cup account.pubs |->
                              IF p \notin account.pubs THEN caps[p]
                              ELSE IF p \in DOMAIN caps THEN saturating_add(caps[p], cap)
                              ELSE cap],
             <<>>, account_datas)
=============================================================================
