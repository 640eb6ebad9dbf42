--------------------------- MODULE AccountRegistry ---------------------------
(***************************************************************************)
(* The oracle program's directory: mapping accounts list product accounts, *)
(* a product account heads a linked list of price accounts, and the        *)
(* permissions account says who may change them and numbers the feeds.     *)
(*                                                                         *)
(* An account at an address is fresh (zeroed, owned by the program) until  *)
(* an instruction initialises it, and fresh again once its lamports are    *)
(* gone: the runtime reclaims it at the end of the transaction.  Fields of *)
(* fresh accounts are zero.  Each instruction is atomic, and one that      *)
(* returns an error is no step.                                            *)
(***************************************************************************)
EXTENDS Naturals, FiniteSets

CONSTANTS
    Accts,              \* addresses of the program's accounts
    Keys,               \* keys that sign and fund instructions
    UpgradeAuthority,   \* the upgrade authority of the program
    Null,               \* Pubkey::default()
    Root,               \* address of a mapping account from before the table grew
    PC_MAP_TABLE_SIZE,  \* products in a mapping account: 5000 in the code
    MAX_FEED_INDEX,     \* largest feed index: 2^28 - 1 in the code
    MaxMissing          \* bound: resizes the old mapping account needs

ASSUME RegistryAssumption ==
    /\ Null \notin Accts
    /\ Root \in Accts /\ IsFiniteSet(Accts)
    /\ UpgradeAuthority \in Keys
    /\ PC_MAP_TABLE_SIZE \in Nat /\ MAX_FEED_INDEX \in Nat /\ MaxMissing \in Nat

VARIABLES
    kind,       \* type of the account at each address
    missing,    \* mapping: reallocations until data_len reaches size_of::<MappingAccount>()
    number_of_products,
    products_list,
    first_price_account,
    product_account,
    next_price_account,
    feed_index,
    perm,       \* the permissions account
    issued      \* history: the feed indices handed out so far

mappingVars == <<missing, number_of_products, products_list>>
priceVars == <<product_account, next_price_account, feed_index>>
vars == <<kind, mappingVars, first_price_account, priceVars, perm, issued>>

Kinds == {"fresh", "mapping", "product", "price"}

Slots == 0 .. PC_MAP_TABLE_SIZE - 1

Live(k) == {a \in Accts : kind[a] = k}

\* exists: data_len > 0; extended: the account has room for the feed index;
\* rent: its lamports make the extended size rent exempt.
Permission ==
    [exists: BOOLEAN, extended: BOOLEAN, rent: BOOLEAN, last_feed_index: Nat,
     master_authority: Keys \union {Null}, data_curation_authority: Keys \union {Null},
     security_authority: Keys \union {Null}]

\* No permissions account, or one from before feed indices existed.
NoPermission ==
    [exists |-> FALSE, extended |-> FALSE, rent |-> FALSE, last_feed_index |-> 0,
     master_authority |-> Null, data_curation_authority |-> Null,
     security_authority |-> Null]

LegacyPermission(k) ==
    [NoPermission EXCEPT !.exists = TRUE, !.master_authority = k,
                         !.data_curation_authority = k, !.security_authority = k]

-----------------------------------------------------------------------------
(* Checks the instructions share *)

is_authorized(key, command) ==
    \/ key = perm.master_authority
    \/ key = perm.security_authority /\ command = "ResizePriceAccount"

check_permissioned_funding_account(key, command) ==
    perm.exists /\ is_authorized(key, command)

\* load_checked::<MappingAccount>: the header and the full size.
LoadMapping(m) == kind[m] = "mapping" /\ missing[m] = 0

\* Mutant: the limit is checked before the increment.
CanReserveLate ==
    /\ perm.extended \/ perm.rent
    /\ perm.last_feed_index <= MAX_FEED_INDEX

\* reserve_new_price_feed_index succeeds and returns ...
CanReserve ==
    /\ perm.extended \/ perm.rent
    /\ perm.last_feed_index + 1 <= MAX_FEED_INDEX

NewFeedIndex == perm.last_feed_index + 1

-----------------------------------------------------------------------------
(* The permissions account *)

\* Mutant: the account is initialised again on every update.
UpdPermissionsReinit(signer, master, curation, security) ==
    /\ signer = UpgradeAuthority
    /\ perm' = [exists |-> TRUE, extended |-> TRUE, rent |-> TRUE, last_feed_index |-> 0,
                master_authority |-> master, data_curation_authority |-> curation,
                security_authority |-> security]
    /\ UNCHANGED <<kind, mappingVars, first_price_account, priceVars, issued>>

\* upd_permissions creates the account at its new size when it is not there,
\* and otherwise leaves its size and its feed index alone.
UpdPermissions(signer, master, curation, security) ==
    /\ signer = UpgradeAuthority
    /\ perm' = [exists |-> TRUE,
                extended |-> perm.exists => perm.extended,
                rent |-> perm.exists => perm.rent,
                last_feed_index |-> perm.last_feed_index,
                master_authority |-> master, data_curation_authority |-> curation,
                security_authority |-> security]
    /\ UNCHANGED <<kind, mappingVars, first_price_account, priceVars, issued>>

\* Anyone may send lamports to the old account.
FundPermissions ==
    /\ perm.exists /\ ~ perm.rent
    /\ perm' = [perm EXCEPT !.rent = TRUE]
    /\ UNCHANGED <<kind, mappingVars, first_price_account, priceVars, issued>>

-----------------------------------------------------------------------------
(* Mapping accounts *)

InitMapping(signer, m) ==
    /\ check_permissioned_funding_account(signer, "InitMapping")
    /\ kind[m] = "fresh"
    /\ kind' = [kind EXCEPT ![m] = "mapping"]
    /\ UNCHANGED <<mappingVars, first_price_account, priceVars, perm, issued>>

\* resize_mapping asks for no signature.
ResizeMapping(m) ==
    /\ kind[m] = "mapping"
    /\ missing[m] > 0
    /\ missing' = [missing EXCEPT ![m] = @ - 1]
    /\ UNCHANGED <<kind, number_of_products, products_list, first_price_account, priceVars,
                   perm, issued>>

-----------------------------------------------------------------------------
(* Product accounts *)

\* add_product; the metadata it writes is left out.
AddProduct(signer, m, p) ==
    /\ check_permissioned_funding_account(signer, "AddProduct")
    /\ LoadMapping(m)
    /\ number_of_products[m] < PC_MAP_TABLE_SIZE
    /\ kind[p] = "fresh"
    /\ kind' = [kind EXCEPT ![p] = "product"]
    /\ products_list' = [products_list EXCEPT ![m][number_of_products[m]] = p]
    /\ number_of_products' = [number_of_products EXCEPT ![m] = @ + 1]
    /\ UNCHANGED <<missing, first_price_account, priceVars, perm, issued>>

\* products_list.iter().position(): the first place, searched in all of the list.
FirstPlace(m, p, i) ==
    /\ products_list[m][i] = p
    /\ \A j \in Slots : j < i => products_list[m][j] # p

\* Mutant: the last product is not moved to the free place.
RemovedWithoutSwap(m, i) ==
    [products_list EXCEPT ![m] = [@ EXCEPT ![i] = Null]]

\* The last product moves to the free place, and its own is zeroed.
Removed(m, i) ==
    LET last == number_of_products[m] - 1 IN
    [products_list EXCEPT ![m] = [@ EXCEPT ![i] = products_list[m][last], ![last] = Null]]

\* Mutant: a product with price accounts can be deleted.
DelProductWithPrices(signer, m, p) ==
    /\ check_permissioned_funding_account(signer, "DelProduct")
    /\ LoadMapping(m)
    /\ kind[p] = "product"
    /\ number_of_products[m] >= 1
    /\ \E i \in Slots : FirstPlace(m, p, i) /\ products_list' = Removed(m, i)
    /\ number_of_products' = [number_of_products EXCEPT ![m] = @ - 1]
    /\ kind' = [kind EXCEPT ![p] = "fresh"]
    /\ first_price_account' = [first_price_account EXCEPT ![p] = Null]
    /\ UNCHANGED <<missing, priceVars, perm, issued>>

DelProduct(signer, m, p) ==
    /\ check_permissioned_funding_account(signer, "DelProduct")
    /\ LoadMapping(m)
    /\ kind[p] = "product"
    /\ number_of_products[m] >= 1
    /\ first_price_account[p] = Null
    /\ \E i \in Slots : FirstPlace(m, p, i) /\ products_list' = Removed(m, i)
    /\ number_of_products' = [number_of_products EXCEPT ![m] = @ - 1]
    /\ kind' = [kind EXCEPT ![p] = "fresh"]
    /\ UNCHANGED <<missing, first_price_account, priceVars, perm, issued>>

-----------------------------------------------------------------------------
(* Price accounts *)

\* add_price puts the new account at the head of its product's list.
AddPrice(signer, p, a) ==
    /\ check_permissioned_funding_account(signer, "AddPrice")
    /\ kind[p] = "product"
    /\ kind[a] = "fresh"
    /\ CanReserve
    /\ kind' = [kind EXCEPT ![a] = "price"]
    /\ product_account' = [product_account EXCEPT ![a] = p]
    /\ next_price_account' = [next_price_account EXCEPT ![a] = first_price_account[p]]
    /\ feed_index' = [feed_index EXCEPT ![a] = NewFeedIndex]
    /\ first_price_account' = [first_price_account EXCEPT ![p] = a]
    /\ perm' = [perm EXCEPT !.extended = TRUE, !.last_feed_index = NewFeedIndex]
    /\ issued' = issued \union {NewFeedIndex}
    /\ UNCHANGED mappingVars

\* Mutant: any price account of the product can be deleted.
DelPriceAnywhere(signer, p, a) ==
    /\ check_permissioned_funding_account(signer, "DelPrice")
    /\ kind[p] = "product" /\ kind[a] = "price"
    /\ product_account[a] = p
    /\ first_price_account' = [first_price_account EXCEPT ![p] = next_price_account[a]]
    /\ kind' = [kind EXCEPT ![a] = "fresh"]
    /\ product_account' = [product_account EXCEPT ![a] = Null]
    /\ next_price_account' = [next_price_account EXCEPT ![a] = Null]
    /\ feed_index' = [feed_index EXCEPT ![a] = 0]
    /\ UNCHANGED <<mappingVars, perm, issued>>

\* del_price only takes the head of the list.
DelPrice(signer, p, a) ==
    /\ check_permissioned_funding_account(signer, "DelPrice")
    /\ kind[p] = "product" /\ kind[a] = "price"
    /\ first_price_account[p] = a
    /\ product_account[a] = p
    /\ first_price_account' = [first_price_account EXCEPT ![p] = next_price_account[a]]
    /\ kind' = [kind EXCEPT ![a] = "fresh"]
    /\ product_account' = [product_account EXCEPT ![a] = Null]
    /\ next_price_account' = [next_price_account EXCEPT ![a] = Null]
    /\ feed_index' = [feed_index EXCEPT ![a] = 0]
    /\ UNCHANGED <<mappingVars, perm, issued>>

-----------------------------------------------------------------------------
Init ==
    /\ kind = [a \in Accts |-> IF a = Root THEN "mapping" ELSE "fresh"]
    /\ \E n \in 0 .. MaxMissing : missing = [a \in Accts |-> IF a = Root THEN n ELSE 0]
    /\ number_of_products = [a \in Accts |-> 0]
    /\ products_list = [a \in Accts |-> [i \in Slots |-> Null]]
    /\ first_price_account = [a \in Accts |-> Null]
    /\ product_account = [a \in Accts |-> Null]
    /\ next_price_account = [a \in Accts |-> Null]
    /\ feed_index = [a \in Accts |-> 0]
    /\ perm \in {NoPermission} \union {LegacyPermission(k) : k \in Keys}
    /\ issued = {}

Next ==
    \/ \E s, k, c, u \in Keys : UpdPermissions(s, k, c, u)
    \/ FundPermissions
    \/ \E m \in Accts : ResizeMapping(m)
    \/ \E s \in Keys, a \in Accts :
          \/ InitMapping(s, a)
          \/ \E b \in Accts :
                \/ AddProduct(s, a, b)
                \/ DelProduct(s, a, b)
                \/ AddPrice(s, a, b)
                \/ DelPrice(s, a, b)

Spec == Init /\ [][Next]_vars

-----------------------------------------------------------------------------
(* Properties *)

\* Every field of every account keeps its type.
TypeOK ==
    /\ kind \in [Accts -> Kinds]
    /\ missing \in [Accts -> Nat]
    /\ number_of_products \in [Accts -> 0 .. PC_MAP_TABLE_SIZE]
    /\ products_list \in [Accts -> [Slots -> Accts \union {Null}]]
    /\ first_price_account \in [Accts -> Accts \union {Null}]
    /\ product_account \in [Accts -> Accts \union {Null}]
    /\ next_price_account \in [Accts -> Accts \union {Null}]
    /\ feed_index \in [Accts -> 0 .. MAX_FEED_INDEX]
    /\ perm \in Permission
    /\ issued \subseteq 1 .. MAX_FEED_INDEX

\* The mapping accounts list exactly the live products, each one once, in the
\* first number_of_products places; the places behind them are zero.  This is
\* what del_product's swap with the last product must keep.
MappingsExact ==
    /\ \A m \in Accts, i \in Slots :
          IF kind[m] = "mapping" /\ i < number_of_products[m]
            THEN /\ products_list[m][i] \in Accts
                 /\ kind[products_list[m][i]] = "product"
            ELSE products_list[m][i] = Null
    /\ \A p \in Live("product") : \E m \in Accts, i \in Slots : products_list[m][i] = p
    /\ \A m, n \in Accts, i, j \in Slots :
          products_list[m][i] # Null /\ products_list[m][i] = products_list[n][j]
          => m = n /\ i = j

\* The price accounts of a product form one list: a head or a next pointer is
\* zero or leads to a live price account of the same product with a smaller
\* feed index, and every live price account is led to.  add_price and
\* del_price only see the head.
PriceLists ==
    /\ \A p \in Live("product") :
          first_price_account[p] # Null =>
              /\ first_price_account[p] \in Live("price")
              /\ product_account[first_price_account[p]] = p
    /\ \A a \in Live("price") :
          /\ product_account[a] \in Live("product")
          /\ feed_index[a] \in issued
          /\ next_price_account[a] # Null =>
                /\ next_price_account[a] \in Live("price")
                /\ product_account[next_price_account[a]] = product_account[a]
                /\ feed_index[next_price_account[a]] < feed_index[a]
          /\ \/ first_price_account[product_account[a]] = a
             \/ \E b \in Live("price") : next_price_account[b] = a

\* What a client sees that starts at the mapping accounts: a walk along
\* next_price_account from the head of a product's list.
WalkFrom(p) ==
    LET walk[n \in 0 .. Cardinality(Accts)] ==
            IF n = 0 THEN first_price_account[p]
            ELSE IF walk[n - 1] = Null THEN Null ELSE next_price_account[walk[n - 1]]
    IN  walk

\* The walk ends, meets no account twice, and finds every live price account
\* of the product: no history of additions and deletions hides a feed.
WalkFindsEveryFeed ==
    \A p \in Live("product") :
        LET walk == WalkFrom(p)
            steps == {n \in DOMAIN walk : walk[n] # Null}
        IN  /\ walk[Cardinality(Accts)] = Null
            /\ \A i, j \in steps : walk[i] = walk[j] => i = j
            /\ {walk[n] : n \in steps} = {a \in Live("price") : product_account[a] = p}

\* A feed index is never handed out twice, whatever accounts were deleted and
\* whatever the upgrade authority does to the permissions account in between.
FeedIndexFresh ==
    [][\A a \in Accts : kind[a] # "price" /\ kind'[a] = "price" => feed_index'[a] \notin issued]_vars

\* Feeds can be found: the price lists are sound (del_price unlinks at the head
\* only), and the walk of a client from the mapping finds every feed.
FeedsReachable == PriceLists /\ WalkFindsEveryFeed
=============================================================================
