----------------------- MODULE AccountRegistryProofs -----------------------
(***************************************************************************)
(* Proofs about AccountRegistry, for every finite set of addresses, every  *)
(* set of keys, every size of the mapping table and every largest feed     *)
(* index.                                                                  *)
(***************************************************************************)
EXTENDS AccountRegistry, BoundedInduction, FiniteSetTheorems, TLAPS

-----------------------------------------------------------------------------
(* The inductive invariant *)

\* Fields of an account of another type are zero: an address that is used
\* again starts as init_mapping, add_product and add_price expect it.
ZeroElsewhere ==
    \A a \in Accts :
        /\ kind[a] # "mapping" => number_of_products[a] = 0
        /\ kind[a] # "product" => first_price_account[a] = Null

\* What has been handed out is below the counter.
CounterAhead ==
    /\ perm.last_feed_index <= MAX_FEED_INDEX
    /\ \A f \in issued : f <= perm.last_feed_index

OneFeedEach ==
    \A a, b \in Live("price") : feed_index[a] = feed_index[b] => a = b

\* A product's list is in the order in which the prices were added: its head
\* is the newest, and the next of a price is the newest of the older ones.
NewestFirst ==
    \A a \in Live("price") :
        /\ first_price_account[product_account[a]] # Null
        /\ feed_index[a] <= feed_index[first_price_account[product_account[a]]]
        /\ \A b \in Live("price") :
              product_account[b] = product_account[a] /\ feed_index[b] < feed_index[a] =>
                  /\ next_price_account[a] # Null
                  /\ feed_index[b] <= feed_index[next_price_account[a]]

ListInv == PriceLists /\ OneFeedEach /\ NewestFirst

IInv == TypeOK /\ ZeroElsewhere /\ CounterAhead /\ MappingsExact /\ ListInv

-----------------------------------------------------------------------------
(* Types *)

\* The accounts a program starts with are of their types.
LEMMA InitType == Init => TypeOK
  <1> SUFFICES ASSUME Init PROVE TypeOK
    OBVIOUS
  <1>1. perm \in Permission
    <2>1. NoPermission \in Permission
      BY DEF NoPermission, Permission
    <2>2. ASSUME NEW k \in Keys PROVE LegacyPermission(k) \in Permission
      BY <2>1 DEF LegacyPermission, Permission, NoPermission
    <2> QED
      BY <2>1, <2>2 DEF Init
  <1>2. missing \in [Accts -> Nat]
    BY RegistryAssumption DEF Init
  <1> QED
    BY <1>1, <1>2, RegistryAssumption DEF Init, TypeOK, Kinds, Slots

\* No instruction takes a field out of its type: number_of_products stays
\* within the table and the feed index within its limit.
LEMMA NextType == TypeOK /\ CounterAhead /\ [Next]_vars => TypeOK'
  <1> SUFFICES ASSUME TypeOK, CounterAhead, [Next]_vars PROVE TypeOK'
    OBVIOUS
  <1> USE RegistryAssumption
  <1>1. ASSUME NEW s \in Keys, NEW k \in Keys, NEW c \in Keys, NEW u \in Keys,
               UpdPermissions(s, k, c, u)
        PROVE  TypeOK'
    <2>1. perm' \in Permission
      BY <1>1 DEF UpdPermissions, TypeOK, Permission
    <2> QED
      BY <1>1, <2>1 DEF UpdPermissions, TypeOK, mappingVars, priceVars
  <1>2. CASE FundPermissions
    <2>1. perm' \in Permission
      BY <1>2 DEF FundPermissions, TypeOK, Permission
    <2> QED
      BY <1>2, <2>1 DEF FundPermissions, TypeOK, mappingVars, priceVars
  <1>3. ASSUME NEW m \in Accts, ResizeMapping(m) PROVE TypeOK'
    <2>1. missing' \in [Accts -> Nat]
      BY <1>3 DEF ResizeMapping, TypeOK
    <2> QED
      BY <1>3, <2>1 DEF ResizeMapping, TypeOK, priceVars
  <1>4. ASSUME NEW s \in Keys, NEW m \in Accts, InitMapping(s, m) PROVE TypeOK'
    BY <1>4 DEF InitMapping, TypeOK, mappingVars, priceVars, Kinds
  <1>5. ASSUME NEW s \in Keys, NEW m \in Accts, NEW p \in Accts, AddProduct(s, m, p)
        PROVE  TypeOK'
    <2>1. number_of_products[m] \in Slots
      BY <1>5 DEF AddProduct, TypeOK, Slots
    <2>2. products_list' \in [Accts -> [Slots -> Accts \union {Null}]]
      BY <1>5, <2>1 DEF AddProduct, TypeOK
    <2>3. number_of_products' \in [Accts -> 0 .. PC_MAP_TABLE_SIZE]
      BY <1>5, <2>1 DEF AddProduct, TypeOK, Slots
    <2>4. kind' \in [Accts -> Kinds]
      BY <1>5 DEF AddProduct, TypeOK, Kinds
    <2> QED
      BY <1>5, <2>2, <2>3, <2>4 DEF AddProduct, TypeOK, priceVars
  <1>6. ASSUME NEW s \in Keys, NEW m \in Accts, NEW p \in Accts, DelProduct(s, m, p)
        PROVE  TypeOK'
    <2>1. PICK i \in Slots : products_list' = Removed(m, i)
      BY <1>6 DEF DelProduct
    <2>2. number_of_products[m] - 1 \in Slots
      BY <1>6 DEF DelProduct, TypeOK, Slots
    <2>3. products_list' \in [Accts -> [Slots -> Accts \union {Null}]]
      <3>1. products_list[m][number_of_products[m] - 1] \in Accts \union {Null}
        BY <2>2 DEF TypeOK
      <3> QED
        BY <2>1, <2>2, <3>1 DEF Removed, TypeOK
    <2>4. number_of_products' \in [Accts -> 0 .. PC_MAP_TABLE_SIZE]
      BY <1>6, <2>2 DEF DelProduct, TypeOK, Slots
    <2>5. kind' \in [Accts -> Kinds]
      BY <1>6 DEF DelProduct, TypeOK, Kinds
    <2> QED
      BY <1>6, <2>3, <2>4, <2>5 DEF DelProduct, TypeOK, priceVars
  <1>7. ASSUME NEW s \in Keys, NEW p \in Accts, NEW a \in Accts, AddPrice(s, p, a)
        PROVE  TypeOK'
    <2>1. NewFeedIndex \in 1 .. MAX_FEED_INDEX
      BY <1>7 DEF AddPrice, CanReserve, NewFeedIndex, TypeOK, Permission
    <2>2. perm' \in Permission
      <3>1. NewFeedIndex \in Nat /\ perm \in Permission
        BY <2>1 DEF TypeOK
      <3>2. perm' = [perm EXCEPT !.extended = TRUE, !.last_feed_index = NewFeedIndex]
        BY <1>7 DEF AddPrice
      <3> QED
        BY <3>1, <3>2 DEF Permission
    <2>3. feed_index' \in [Accts -> 0 .. MAX_FEED_INDEX] /\ issued' \subseteq 1 .. MAX_FEED_INDEX
      BY <1>7, <2>1 DEF AddPrice, TypeOK
    <2>4. kind' \in [Accts -> Kinds]
      BY <1>7 DEF AddPrice, TypeOK, Kinds
    <2> QED
      BY <1>7, <2>2, <2>3, <2>4 DEF AddPrice, TypeOK, mappingVars
  <1>8. ASSUME NEW s \in Keys, NEW p \in Accts, NEW a \in Accts, DelPrice(s, p, a)
        PROVE  TypeOK'
    BY <1>8 DEF DelPrice, TypeOK, mappingVars, Kinds
  <1>9. CASE UNCHANGED vars
    BY <1>9 DEF vars, mappingVars, priceVars, TypeOK
  <1> QED
    BY <1>1, <1>2, <1>3, <1>4, <1>5, <1>6, <1>7, <1>8, <1>9 DEF Next

-----------------------------------------------------------------------------
(* Addresses that are used again, and the counter of feed indices *)

\* add_product and add_price find zeroes in what they initialise: del_product
\* and del_price only release an account whose list or place is empty.
LEMMA NextZero == TypeOK /\ ZeroElsewhere /\ [Next]_vars => ZeroElsewhere'
  <1> SUFFICES ASSUME TypeOK, ZeroElsewhere, [Next]_vars PROVE ZeroElsewhere'
    OBVIOUS
  <1> USE DEF ZeroElsewhere, TypeOK
  <1>1. ASSUME NEW s \in Keys, NEW k \in Keys, NEW c \in Keys, NEW u \in Keys,
               UpdPermissions(s, k, c, u)
        PROVE  ZeroElsewhere'
    BY <1>1 DEF UpdPermissions, mappingVars
  <1>2. CASE FundPermissions
    BY <1>2 DEF FundPermissions, mappingVars
  <1>3. ASSUME NEW m \in Accts, ResizeMapping(m) PROVE ZeroElsewhere'
    BY <1>3 DEF ResizeMapping
  <1>4. ASSUME NEW s \in Keys, NEW m \in Accts, InitMapping(s, m) PROVE ZeroElsewhere'
    BY <1>4 DEF InitMapping, mappingVars
  <1>5. ASSUME NEW s \in Keys, NEW m \in Accts, NEW p \in Accts, AddProduct(s, m, p)
        PROVE  ZeroElsewhere'
    BY <1>5 DEF AddProduct, LoadMapping
  <1>6. ASSUME NEW s \in Keys, NEW m \in Accts, NEW p \in Accts, DelProduct(s, m, p)
        PROVE  ZeroElsewhere'
    BY <1>6 DEF DelProduct, LoadMapping
  <1>7. ASSUME NEW s \in Keys, NEW p \in Accts, NEW a \in Accts, AddPrice(s, p, a)
        PROVE  ZeroElsewhere'
    BY <1>7 DEF AddPrice, mappingVars
  <1>8. ASSUME NEW s \in Keys, NEW p \in Accts, NEW a \in Accts, DelPrice(s, p, a)
        PROVE  ZeroElsewhere'
    BY <1>8 DEF DelPrice, mappingVars
  <1>9. CASE UNCHANGED vars
    BY <1>9 DEF vars, mappingVars
  <1> QED
    BY <1>1, <1>2, <1>3, <1>4, <1>5, <1>6, <1>7, <1>8, <1>9 DEF Next

\* upd_permissions never sets the counter back, not even when it creates the
\* account, because a counter that is not there yet is zero.
LEMMA NextCounter == TypeOK /\ CounterAhead /\ [Next]_vars => CounterAhead'
  <1> SUFFICES ASSUME TypeOK, CounterAhead, [Next]_vars PROVE CounterAhead'
    OBVIOUS
  <1>1. ASSUME NEW s \in Keys, NEW k \in Keys, NEW c \in Keys, NEW u \in Keys,
               UpdPermissions(s, k, c, u)
        PROVE  CounterAhead'
    BY <1>1 DEF UpdPermissions, CounterAhead
  <1>2. CASE FundPermissions
    BY <1>2 DEF FundPermissions, CounterAhead, TypeOK, Permission
  <1>3. ASSUME NEW s \in Keys, NEW p \in Accts, NEW a \in Accts, AddPrice(s, p, a)
        PROVE  CounterAhead'
    <2>1. perm'.last_feed_index = perm.last_feed_index + 1
      BY <1>3 DEF AddPrice, NewFeedIndex, TypeOK, Permission
    <2>2. perm.last_feed_index \in Nat /\ perm.last_feed_index + 1 <= MAX_FEED_INDEX
      BY <1>3 DEF AddPrice, CanReserve, TypeOK, Permission
    <2>3. issued' = issued \union {perm.last_feed_index + 1} /\ issued \subseteq Nat
      BY <1>3 DEF AddPrice, NewFeedIndex, TypeOK
    <2> QED
      BY <2>1, <2>2, <2>3, RegistryAssumption DEF CounterAhead
  <1>4. CASE UNCHANGED <<perm, issued>>
    BY <1>4 DEF CounterAhead
  <1> QED
    BY <1>1, <1>2, <1>3, <1>4 DEF Next, vars, ResizeMapping, InitMapping, AddProduct,
       DelProduct, DelPrice

-----------------------------------------------------------------------------
(* The mapping tables *)

\* add_product appends to the table of m.
LEMMA AddProductMappings ==
    ASSUME TypeOK, ZeroElsewhere, MappingsExact,
           NEW s \in Keys, NEW m \in Accts, NEW p \in Accts, AddProduct(s, m, p)
    PROVE  MappingsExact'
  <1> DEFINE n == number_of_products[m]
  <1>1. /\ n \in Slots /\ n \in Nat /\ kind[m] = "mapping" /\ kind[p] = "fresh" /\ m # p
        /\ kind' = [kind EXCEPT ![p] = "product"]
        /\ number_of_products' = [number_of_products EXCEPT ![m] = n + 1]
        /\ products_list' = [products_list EXCEPT ![m][n] = p]
    <2>1. kind[m] = "mapping" /\ kind[p] = "fresh" /\ kind' = [kind EXCEPT ![p] = "product"]
      BY DEF AddProduct, LoadMapping
    <2>2. n \in Slots /\ n \in Nat
      BY RegistryAssumption DEF AddProduct, TypeOK, Slots
    <2>3. number_of_products' = [number_of_products EXCEPT ![m] = n + 1]
      BY DEF AddProduct
    <2>4. products_list' = [products_list EXCEPT ![m][n] = p]
      BY DEF AddProduct
    <2> QED
      BY <2>1, <2>2, <2>3, <2>4
  <1>2. \A k \in Accts, i \in Slots :
          products_list'[k][i] = IF k = m /\ i = n THEN p ELSE products_list[k][i]
    BY <1>1 DEF TypeOK
  <1>3. \A k \in Accts, i \in Slots : products_list[k][i] # p
    BY <1>1, RegistryAssumption DEF MappingsExact
  <1>4. products_list[m][n] = Null
    BY <1>1 DEF MappingsExact
  <1>5. ASSUME NEW k \in Accts, NEW i \in Slots
        PROVE  IF kind'[k] = "mapping" /\ i < number_of_products'[k]
                 THEN /\ products_list'[k][i] \in Accts
                      /\ kind'[products_list'[k][i]] = "product"
                 ELSE products_list'[k][i] = Null
    <2>1. i \in Int
      BY DEF Slots
    <2>2. CASE k = m /\ i = n
      BY <1>1, <1>2, <2>2 DEF TypeOK
    <2>3. CASE ~ (k = m /\ i = n)
      <3>1. products_list'[k][i] = products_list[k][i] /\ products_list[k][i] # p
        BY <1>2, <1>3, <2>3
      <3>2. (kind'[k] = "mapping" /\ i < number_of_products'[k])
              <=> (kind[k] = "mapping" /\ i < number_of_products[k])
        <4>1. CASE k = m
          <5>1. kind'[m] = kind[m] /\ number_of_products'[m] = number_of_products[m] + 1
            BY <1>1 DEF TypeOK
          <5>2. number_of_products[m] \in Nat /\ i # number_of_products[m]
            BY <1>1, <2>3, <4>1
          <5> QED
            BY <2>1, <4>1, <5>1, <5>2
        <4>2. CASE k # m
          BY <1>1, <2>1, <4>2 DEF TypeOK, ZeroElsewhere, Slots
        <4> QED
          BY <4>1, <4>2
      <3> QED
        BY <1>1, <3>1, <3>2 DEF MappingsExact, TypeOK
    <2> QED
      BY <2>2, <2>3
  <1>6. ASSUME NEW q \in Live("product")'
        PROVE  \E k \in Accts, i \in Slots : products_list'[k][i] = q
    <2>1. CASE q = p
      BY <1>1, <1>2, <2>1
    <2>2. CASE q # p
      <3>1. q \in Live("product")
        BY <1>1, <2>2 DEF Live, TypeOK
      <3>2. PICK k \in Accts, i \in Slots : products_list[k][i] = q
        BY <3>1 DEF MappingsExact
      <3>3. q # Null
        BY <3>1, RegistryAssumption DEF Live
      <3> QED
        BY <1>2, <1>4, <3>2, <3>3
    <2> QED
      BY <2>1, <2>2
  <1>7. ASSUME NEW k \in Accts, NEW l \in Accts, NEW i \in Slots, NEW j \in Slots,
               products_list'[k][i] # Null, products_list'[k][i] = products_list'[l][j]
        PROVE  k = l /\ i = j
    BY <1>2, <1>3, <1>7 DEF MappingsExact
  <1> QED
    BY <1>5, <1>6, <1>7 DEF MappingsExact

\* del_product moves the last product of m over the one it takes out.
LEMMA DelProductMappings ==
    ASSUME TypeOK, ZeroElsewhere, MappingsExact,
           NEW s \in Keys, NEW m \in Accts, NEW p \in Accts, DelProduct(s, m, p)
    PROVE  MappingsExact'
  <1> DEFINE last == number_of_products[m] - 1
  <1>1. /\ last \in Slots /\ last \in Nat /\ number_of_products[m] = last + 1
        /\ kind[m] = "mapping" /\ kind[p] = "product" /\ m # p
        /\ kind' = [kind EXCEPT ![p] = "fresh"]
        /\ number_of_products' = [number_of_products EXCEPT ![m] = last]
    <2>1. kind[m] = "mapping" /\ kind[p] = "product" /\ kind' = [kind EXCEPT ![p] = "fresh"]
      BY DEF DelProduct, LoadMapping
    <2>2. last \in Slots /\ last \in Nat /\ number_of_products[m] = last + 1
      BY RegistryAssumption DEF DelProduct, TypeOK, Slots
    <2>3. number_of_products' = [number_of_products EXCEPT ![m] = last]
      BY DEF DelProduct
    <2> QED
      BY <2>1, <2>2, <2>3
  <1>2. PICK i \in Slots : products_list[m][i] = p /\ products_list' = Removed(m, i)
    BY DEF DelProduct, FirstPlace
  <1> DEFINE q == products_list[m][last]
  <1>3. i \in Nat /\ i <= last
    <2>1. p # Null
      BY RegistryAssumption
    <2> QED
      BY <1>1, <1>2, <2>1 DEF MappingsExact, Slots
  <1>4. q \in Accts /\ kind[q] = "product" /\ (q = p => i = last)
    BY <1>1, <1>2, RegistryAssumption DEF MappingsExact
  <1>5. \A k \in Accts, j \in Slots :
          products_list'[k][j] = IF k # m THEN products_list[k][j]
                                 ELSE IF j = last THEN Null
                                 ELSE IF j = i THEN q ELSE products_list[k][j]
    BY <1>1, <1>2 DEF Removed, TypeOK
  <1>6. \A k \in Accts, j \in Slots : products_list[k][j] = p => k = m /\ j = i
    BY <1>2, RegistryAssumption DEF MappingsExact
  <1> HIDE DEF last, q
  <1>7. ASSUME NEW k \in Accts, NEW j \in Slots
        PROVE  IF kind'[k] = "mapping" /\ j < number_of_products'[k]
                 THEN /\ products_list'[k][j] \in Accts
                      /\ kind'[products_list'[k][j]] = "product"
                 ELSE products_list'[k][j] = Null
    <2>1. j \in Int
      BY DEF Slots
    <2>2. CASE k # m
      <3>1. products_list'[k][j] = products_list[k][j] /\ products_list[k][j] # p
        BY <1>5, <1>6, <2>2
      <3>2. (kind'[k] = "mapping" /\ j < number_of_products'[k])
              <=> (kind[k] = "mapping" /\ j < number_of_products[k])
        BY <1>1, <2>1, <2>2 DEF TypeOK
      <3> QED
        BY <1>1, <3>1, <3>2 DEF MappingsExact, TypeOK
    <2>3. CASE k = m /\ j < last
      <3>1. kind'[k] = "mapping" /\ number_of_products'[k] = last
        BY <1>1, <2>3 DEF TypeOK
      <3>2. products_list[m][j] \in Accts /\ kind[products_list[m][j]] = "product"
        BY <1>1, <2>1, <2>3 DEF MappingsExact
      <3>3. CASE j = i
        BY <1>1, <1>3, <1>4, <1>5, <2>3, <3>1, <3>3 DEF TypeOK
      <3>4. CASE j # i
        <4>1. products_list'[k][j] = products_list[m][j] /\ products_list[m][j] # p
          BY <1>1, <1>5, <1>6, <2>1, <2>3, <3>4
        <4> QED
          BY <1>1, <2>3, <3>1, <3>2, <4>1 DEF TypeOK
      <3> QED
        BY <3>3, <3>4
    <2>4. CASE k = m /\ ~ (j < last)
      <3>1. number_of_products'[k] = last
        BY <1>1, <2>4 DEF TypeOK
      <3>2. j # last => products_list[m][j] = Null
        BY <1>1, <2>1, <2>4 DEF MappingsExact
      <3>3. j # last => j # i
        BY <1>1, <1>3, <2>1, <2>4
      <3>4. products_list'[k][j] = Null
        BY <1>5, <2>4, <3>2, <3>3
      <3> QED
        BY <2>4, <3>1, <3>4
    <2> QED
      BY <2>2, <2>3, <2>4
  <1>8. ASSUME NEW x \in Live("product")'
        PROVE  \E k \in Accts, j \in Slots : products_list'[k][j] = x
    <2>1. x \in Live("product") /\ x # p
      BY <1>1 DEF Live, TypeOK
    <2>2. PICK k \in Accts, j \in Slots : products_list[k][j] = x
      BY <2>1 DEF MappingsExact
    <2>3. CASE k = m /\ j = last
      <3>1. x = q /\ i # last
        BY <1>2, <1>4, <2>1, <2>2, <2>3 DEF q
      <3> QED
        BY <1>5, <3>1
    <2>4. CASE ~ (k = m /\ j = last)
      BY <1>2, <1>5, <2>1, <2>2, <2>4
    <2> QED
      BY <2>3, <2>4
  <1>9. ASSUME NEW k \in Accts, NEW l \in Accts, NEW x \in Slots, NEW y \in Slots,
               products_list'[k][x] # Null, products_list'[k][x] = products_list'[l][y]
        PROVE  k = l /\ x = y
    <2>1. \A c, d \in Accts, u, v \in Slots :
            products_list[c][u] # Null /\ products_list[c][u] = products_list[d][v]
            => c = d /\ u = v
      BY DEF MappingsExact
    <2>2. q = products_list[m][last] /\ q # Null /\ last \in Slots
      BY <1>1, <1>4, RegistryAssumption DEF q
    <2> QED
      BY <1>5, <1>9, <2>1, <2>2
  <1> QED
    BY <1>7, <1>8, <1>9 DEF MappingsExact

\* The other instructions leave the tables alone; init_mapping makes a mapping
\* account whose table is empty.
LEMMA MappingsFrame ==
    ASSUME TypeOK, ZeroElsewhere, MappingsExact,
           UNCHANGED <<number_of_products, products_list>>,
           \A a \in Accts : (kind'[a] = "product") <=> (kind[a] = "product"),
           \A a \in Accts : kind[a] = "mapping" => kind'[a] = "mapping"
    PROVE  MappingsExact'
  <1>1. ASSUME NEW m \in Accts, NEW i \in Slots
        PROVE  IF kind'[m] = "mapping" /\ i < number_of_products[m]
                 THEN /\ products_list[m][i] \in Accts
                      /\ kind'[products_list[m][i]] = "product"
                 ELSE products_list[m][i] = Null
    <2>1. kind[m] # "mapping" => ~ (i < number_of_products[m])
      BY DEF ZeroElsewhere, Slots
    <2> QED
      BY <2>1 DEF MappingsExact
  <1>2. Live("product")' = Live("product")
    BY DEF Live
  <1> QED
    BY <1>1, <1>2 DEF MappingsExact

\* Every instruction keeps the mapping tables exact.
LEMMA NextMappings == TypeOK /\ ZeroElsewhere /\ MappingsExact /\ [Next]_vars => MappingsExact'
  <1> SUFFICES ASSUME TypeOK, ZeroElsewhere, MappingsExact, [Next]_vars PROVE MappingsExact'
    OBVIOUS
  <1>1. ASSUME NEW s \in Keys, NEW m \in Accts, NEW p \in Accts, AddProduct(s, m, p)
        PROVE  MappingsExact'
    BY <1>1, AddProductMappings
  <1>2. ASSUME NEW s \in Keys, NEW m \in Accts, NEW p \in Accts, DelProduct(s, m, p)
        PROVE  MappingsExact'
    BY <1>2, DelProductMappings
  <1>3. ASSUME NEW s \in Keys, NEW m \in Accts, InitMapping(s, m) PROVE MappingsExact'
    <2>1. kind[m] = "fresh" /\ kind' = [kind EXCEPT ![m] = "mapping"]
      BY <1>3 DEF InitMapping
    <2>2. UNCHANGED <<number_of_products, products_list>>
      BY <1>3 DEF InitMapping, mappingVars
    <2>3. \A a \in Accts : (kind'[a] = "product") <=> (kind[a] = "product")
      BY <2>1 DEF TypeOK
    <2>4. \A a \in Accts : kind[a] = "mapping" => kind'[a] = "mapping"
      BY <2>1 DEF TypeOK
    <2> QED
      BY <2>2, <2>3, <2>4, MappingsFrame
  <1>4. ASSUME NEW s \in Keys, NEW p \in Accts, NEW a \in Accts,
               AddPrice(s, p, a) \/ DelPrice(s, p, a)
        PROVE  MappingsExact'
    <2>1. \/ kind[a] = "fresh" /\ kind' = [kind EXCEPT ![a] = "price"]
          \/ kind[a] = "price" /\ kind' = [kind EXCEPT ![a] = "fresh"]
      BY <1>4 DEF AddPrice, DelPrice
    <2>2. UNCHANGED <<number_of_products, products_list>>
      BY <1>4 DEF AddPrice, DelPrice, mappingVars
    <2>3. \A b \in Accts : (kind'[b] = "product") <=> (kind[b] = "product")
      BY <2>1 DEF TypeOK
    <2>4. \A b \in Accts : kind[b] = "mapping" => kind'[b] = "mapping"
      BY <2>1 DEF TypeOK
    <2> QED
      BY <2>2, <2>3, <2>4, MappingsFrame
  <1>5. CASE UNCHANGED <<kind, number_of_products, products_list>>
    BY <1>5, MappingsFrame
  <1>6. ASSUME NEW s \in Keys, NEW k \in Keys, NEW c \in Keys, NEW u \in Keys,
               UpdPermissions(s, k, c, u)
        PROVE  MappingsExact'
    BY <1>5, <1>6 DEF UpdPermissions, mappingVars
  <1>7. CASE FundPermissions
    BY <1>5, <1>7 DEF FundPermissions, mappingVars
  <1>8. ASSUME NEW m \in Accts, ResizeMapping(m) PROVE MappingsExact'
    BY <1>5, <1>8 DEF ResizeMapping
  <1>9. CASE UNCHANGED vars
    BY <1>5, <1>9 DEF vars, mappingVars
  <1> QED
    BY <1>1, <1>2, <1>3, <1>4, <1>6, <1>7, <1>8, <1>9 DEF Next

-----------------------------------------------------------------------------
(* The lists of price accounts *)

\* A product that comes without prices or goes when it has none left leaves
\* the lists alone.
LEMMA ListFrame ==
    ASSUME ListInv,
           UNCHANGED <<priceVars, first_price_account, issued>>,
           Live("price")' = Live("price"),
           \A a \in Live("price") : product_account[a] \in Live("product")',
           \A p \in Live("product")' : p \in Live("product") \/ first_price_account[p] = Null
    PROVE  ListInv'
  <1>1. PriceLists'
    BY DEF ListInv, PriceLists, priceVars
  <1>2. OneFeedEach' /\ NewestFirst'
    BY DEF ListInv, OneFeedEach, NewestFirst, priceVars
  <1> QED
    BY <1>1, <1>2 DEF ListInv

\* add_price puts the newest feed at the head of the list of p.
LEMMA AddPriceLists ==
    ASSUME TypeOK, ZeroElsewhere, CounterAhead, ListInv,
           NEW s \in Keys, NEW p \in Accts, NEW a \in Accts, AddPrice(s, p, a)
    PROVE  ListInv'
  <1> DEFINE f == NewFeedIndex
  <1>1. kind[p] = "product" /\ kind[a] = "fresh" /\ a # Null
    BY RegistryAssumption DEF AddPrice
  <1>2. Live("price")' = Live("price") \union {a} /\ a \notin Live("price")
    BY <1>1 DEF AddPrice, Live, TypeOK
  <1>3. Live("product")' = Live("product") /\ p \in Live("product")
    BY <1>1 DEF AddPrice, Live, TypeOK
  <1>4. /\ product_account'[a] = p /\ next_price_account'[a] = first_price_account[p]
        /\ feed_index'[a] = f /\ first_price_account'[p] = a
    BY DEF AddPrice, TypeOK
  <1>5. \A b \in Live("price") : /\ product_account'[b] = product_account[b]
                                 /\ next_price_account'[b] = next_price_account[b]
                                 /\ feed_index'[b] = feed_index[b]
    BY <1>2 DEF AddPrice, TypeOK, Live
  <1>6. \A q \in Live("product") : q # p => first_price_account'[q] = first_price_account[q]
    BY DEF AddPrice, TypeOK, Live
  <1>7. issued' = issued \union {f}
    BY DEF AddPrice
  <1>8. f \in Int /\ \A b \in Live("price") : feed_index[b] \in Int /\ feed_index[b] < f
    <2>1. perm.last_feed_index \in Nat /\ issued \subseteq Int
      BY DEF TypeOK, Permission
    <2>2. \A b \in Live("price") : feed_index[b] \in issued
      BY DEF ListInv, PriceLists
    <2>3. \A b \in Live("price") : feed_index[b] \in Int /\ feed_index[b] <= perm.last_feed_index
      BY <2>1, <2>2 DEF CounterAhead
    <2>4. f = perm.last_feed_index + 1
      BY DEF NewFeedIndex
    <2> HIDE DEF f
    <2> QED
      BY <2>1, <2>3, <2>4
  <1> HIDE DEF f
  <1>9. PriceLists'
    <2>1. ASSUME NEW q \in Live("product"), first_price_account'[q] # Null
          PROVE  /\ first_price_account'[q] \in Live("price")'
                 /\ product_account'[first_price_account'[q]] = q
      <3>1. CASE q = p
        BY <1>2, <1>4, <3>1
      <3>2. CASE q # p
        BY <1>2, <1>5, <1>6, <2>1, <3>2 DEF ListInv, PriceLists
      <3> QED
        BY <3>1, <3>2
    <2>2. /\ product_account'[a] \in Live("product")'
          /\ feed_index'[a] \in issued'
          /\ next_price_account'[a] # Null =>
                /\ next_price_account'[a] \in Live("price")'
                /\ product_account'[next_price_account'[a]] = product_account'[a]
                /\ feed_index'[next_price_account'[a]] < feed_index'[a]
          /\ first_price_account'[product_account'[a]] = a
      BY <1>2, <1>3, <1>4, <1>5, <1>7, <1>8 DEF ListInv, PriceLists
    <2>3. ASSUME NEW b \in Live("price")
          PROVE  /\ product_account'[b] \in Live("product")'
                 /\ feed_index'[b] \in issued'
                 /\ next_price_account'[b] # Null =>
                       /\ next_price_account'[b] \in Live("price")'
                       /\ product_account'[next_price_account'[b]] = product_account'[b]
                       /\ feed_index'[next_price_account'[b]] < feed_index'[b]
                 /\ \/ first_price_account'[product_account'[b]] = b
                    \/ \E c \in Live("price")' : next_price_account'[c] = b
      <3>1. product_account'[b] \in Live("product")' /\ feed_index'[b] \in issued'
        BY <1>3, <1>5, <1>7 DEF ListInv, PriceLists
      <3>2. next_price_account'[b] # Null =>
                       /\ next_price_account'[b] \in Live("price")'
                       /\ product_account'[next_price_account'[b]] = product_account'[b]
                       /\ feed_index'[next_price_account'[b]] < feed_index'[b]
        BY <1>2, <1>5 DEF ListInv, PriceLists
      <3>3. CASE first_price_account[product_account[b]] = b
        <4>1. product_account[b] \in Live("product")
          BY DEF ListInv, PriceLists
        <4>2. CASE product_account[b] = p
          BY <1>2, <1>4, <3>3, <4>2, <3>1, <3>2
        <4>3. CASE product_account[b] # p
          BY <1>5, <1>6, <3>3, <4>1, <4>3, <3>1, <3>2
        <4> QED
          BY <4>2, <4>3
      <3>4. CASE \E c \in Live("price") : next_price_account[c] = b
        BY <1>2, <1>5, <3>4, <3>1, <3>2
      <3> QED
        BY <3>3, <3>4 DEF ListInv, PriceLists
    <2> QED
      BY <1>2, <1>3, <2>1, <2>2, <2>3 DEF PriceLists
  <1>10. OneFeedEach'
    <2>1. \A b, c \in Live("price") : feed_index[b] = feed_index[c] => b = c
      BY DEF ListInv, OneFeedEach
    <2>2. \A b \in Live("price") : feed_index[b] # f
      BY <1>8
    <2> QED
      BY <1>2, <1>4, <1>5, <2>1, <2>2 DEF OneFeedEach
  <1>11. NewestFirst'
    <2>1. \A b \in Live("price") : /\ product_account[b] \in Live("product")
                                   /\ first_price_account[product_account[b]] # Null
                                   /\ first_price_account[product_account[b]] \in Live("price")
      BY DEF ListInv, PriceLists, NewestFirst
    <2>2. ASSUME NEW b \in Live("price")'
          PROVE  /\ first_price_account'[product_account'[b]] # Null
                 /\ feed_index'[b] <= feed_index'[first_price_account'[product_account'[b]]]
      <3>1. CASE b = a
        BY <1>1, <1>4, <1>8, <3>1
      <3>2. CASE b # a /\ product_account[b] = p
        <4>1. b \in Live("price")
          BY <1>2, <3>2
        <4> QED
          BY <1>1, <1>4, <1>5, <1>8, <3>2, <4>1
      <3>3. CASE b # a /\ product_account[b] # p
        <4>1. b \in Live("price")
          BY <1>2, <3>3
        <4>2. first_price_account'[product_account'[b]] = first_price_account[product_account[b]]
          BY <1>5, <1>6, <2>1, <3>3, <4>1
        <4> QED
          BY <1>5, <2>1, <4>1, <4>2 DEF ListInv, NewestFirst
      <3> QED
        BY <3>1, <3>2, <3>3
    <2>3. ASSUME NEW b \in Live("price")', NEW c \in Live("price")',
                 product_account'[c] = product_account'[b], feed_index'[c] < feed_index'[b]
          PROVE  /\ next_price_account'[b] # Null
                 /\ feed_index'[c] <= feed_index'[next_price_account'[b]]
      <3>1. c \in Live("price")
        <4>1. CASE c = a
          BY <1>2, <1>4, <1>5, <1>8, <2>3, <4>1
        <4> QED
          BY <1>2, <4>1
      <3>2. CASE b = a
        <4>1. product_account[c] = p
          BY <1>4, <1>5, <2>3, <3>1, <3>2
        <4>2. next_price_account'[b] = first_price_account[product_account[c]]
          BY <1>4, <3>2, <4>1
        <4> QED
          BY <1>5, <2>1, <3>1, <4>2 DEF ListInv, NewestFirst
      <3>3. CASE b # a
        <4>1. b \in Live("price")
          BY <1>2, <3>3
        <4>2. next_price_account[b] # Null /\ feed_index[c] <= feed_index[next_price_account[b]]
          BY <1>5, <2>3, <3>1, <4>1 DEF ListInv, NewestFirst
        <4>3. next_price_account[b] \in Live("price")
          BY <4>1, <4>2 DEF ListInv, PriceLists
        <4> QED
          BY <1>5, <3>1, <4>1, <4>2, <4>3
      <3> QED
        BY <3>2, <3>3
    <2> QED
      BY <2>2, <2>3 DEF NewestFirst
  <1> QED
    BY <1>9, <1>10, <1>11 DEF ListInv

\* del_price takes the head away: no other price led to it, and the next one
\* is the newest of those that stay.
LEMMA DelPriceLists ==
    ASSUME TypeOK, ListInv,
           NEW s \in Keys, NEW p \in Accts, NEW a \in Accts, DelPrice(s, p, a)
    PROVE  ListInv'
  <1> DEFINE n == next_price_account[a]
  <1>1. /\ kind[p] = "product" /\ kind[a] = "price" /\ first_price_account[p] = a
        /\ product_account[a] = p /\ a \in Live("price") /\ p \in Live("product")
    BY DEF DelPrice, Live
  <1>2. Live("price")' = Live("price") \ {a}
    BY <1>1 DEF DelPrice, Live, TypeOK
  <1>3. Live("product")' = Live("product")
    BY <1>1 DEF DelPrice, Live, TypeOK
  <1>4. \A b \in Live("price")' : /\ product_account'[b] = product_account[b]
                                  /\ next_price_account'[b] = next_price_account[b]
                                  /\ feed_index'[b] = feed_index[b]
    BY <1>2 DEF DelPrice, TypeOK, Live
  <1>5. first_price_account'[p] = n /\ issued' = issued
    BY DEF DelPrice, TypeOK
  <1>6. \A q \in Live("product") : q # p => first_price_account'[q] = first_price_account[q]
    BY DEF DelPrice, TypeOK, Live
  <1>7. \A b \in Live("price") : feed_index[b] \in Int
    BY DEF TypeOK, Live
  <1>8. n # Null => n \in Live("price")' /\ product_account[n] = p
    BY <1>1, <1>2, <1>7 DEF ListInv, PriceLists
  <1>9. \A q \in Live("product") :
            q # p /\ first_price_account[q] # Null => first_price_account[q] \in Live("price")'
    BY <1>1, <1>2 DEF ListInv, PriceLists
  <1>10. ASSUME NEW b \in Live("price"), next_price_account[b] # Null
         PROVE  next_price_account[b] \in Live("price")'
    <2>1. next_price_account[b] # a
      <3> SUFFICES ASSUME next_price_account[b] = a PROVE FALSE
        OBVIOUS
      <3>1. product_account[b] = p /\ feed_index[a] < feed_index[b]
        BY <1>1, <1>10 DEF ListInv, PriceLists
      <3>2. feed_index[b] <= feed_index[a]
        BY <1>1, <3>1 DEF ListInv, NewestFirst
      <3> QED
        BY <1>1, <1>7, <3>1, <3>2
    <2> QED
      BY <1>2, <1>10, <2>1 DEF ListInv, PriceLists
  <1> HIDE DEF n
  <1>11. PriceLists'
    <2>1. ASSUME NEW q \in Live("product"), first_price_account'[q] # Null
          PROVE  /\ first_price_account'[q] \in Live("price")'
                 /\ product_account'[first_price_account'[q]] = q
      <3>1. CASE q = p
        BY <1>4, <1>5, <1>8, <2>1, <3>1
      <3>2. CASE q # p
        BY <1>4, <1>6, <1>9, <2>1, <3>2 DEF ListInv, PriceLists
      <3> QED
        BY <3>1, <3>2
    <2>2. ASSUME NEW b \in Live("price")'
          PROVE  /\ product_account'[b] \in Live("product")'
                 /\ feed_index'[b] \in issued'
                 /\ next_price_account'[b] # Null =>
                       /\ next_price_account'[b] \in Live("price")'
                       /\ product_account'[next_price_account'[b]] = product_account'[b]
                       /\ feed_index'[next_price_account'[b]] < feed_index'[b]
                 /\ \/ first_price_account'[product_account'[b]] = b
                    \/ \E c \in Live("price")' : next_price_account'[c] = b
      <3>1. b \in Live("price") /\ b # a
        BY <1>2
      <3>2. product_account'[b] \in Live("product")' /\ feed_index'[b] \in issued'
        BY <1>3, <1>4, <1>5, <3>1 DEF ListInv, PriceLists
      <3>3. next_price_account'[b] # Null =>
                       /\ next_price_account'[b] \in Live("price")'
                       /\ product_account'[next_price_account'[b]] = product_account'[b]
                       /\ feed_index'[next_price_account'[b]] < feed_index'[b]
        BY <1>4, <1>10, <3>1 DEF ListInv, PriceLists
      <3>4. CASE first_price_account[product_account[b]] = b
        <4>1. product_account[b] \in Live("product") /\ product_account[b] # p
          BY <1>1, <3>1, <3>4 DEF ListInv, PriceLists
        <4> QED
          BY <1>4, <1>6, <3>2, <3>3, <3>4, <4>1
      <3>5. ASSUME NEW c \in Live("price"), next_price_account[c] = b
            PROVE  \/ first_price_account'[product_account'[b]] = b
                   \/ \E d \in Live("price")' : next_price_account'[d] = b
        <4>1. CASE c = a
          <5>1. b # Null
            BY <3>1, RegistryAssumption DEF Live
          <5>2. b = n /\ product_account[b] = p
            BY <1>8, <3>5, <4>1, <5>1 DEF n
          <5> QED
            BY <1>4, <1>5, <5>2
        <4>2. CASE c # a
          BY <1>2, <1>4, <3>5, <4>2
        <4> QED
          BY <4>1, <4>2
      <3> QED
        BY <3>1, <3>2, <3>3, <3>4, <3>5 DEF ListInv, PriceLists
    <2> QED
      BY <1>3, <2>1, <2>2 DEF PriceLists
  <1>12. OneFeedEach'
    BY <1>2, <1>4 DEF ListInv, OneFeedEach
  <1>13. NewestFirst'
    <2>1. ASSUME NEW b \in Live("price")'
          PROVE  /\ first_price_account'[product_account'[b]] # Null
                 /\ feed_index'[b] <= feed_index'[first_price_account'[product_account'[b]]]
      <3>1. b \in Live("price") /\ b # a
        BY <1>2
      <3>2. CASE product_account[b] = p
        <4>1. feed_index[b] < feed_index[a]
          <5>1. feed_index[b] <= feed_index[a] /\ feed_index[b] # feed_index[a]
            BY <1>1, <3>1, <3>2 DEF ListInv, NewestFirst, OneFeedEach
          <5> QED
            BY <1>1, <1>7, <3>1, <5>1
        <4>2. n # Null /\ feed_index[b] <= feed_index[n]
          BY <1>1, <3>1, <3>2, <4>1 DEF ListInv, NewestFirst, n
        <4> QED
          BY <1>4, <1>5, <1>8, <3>2, <4>2
      <3>3. CASE product_account[b] # p
        <4>1. product_account[b] \in Live("product")
          BY <3>1 DEF ListInv, PriceLists
        <4>2. /\ first_price_account[product_account[b]] # Null
              /\ feed_index[b] <= feed_index[first_price_account[product_account[b]]]
          BY <3>1 DEF ListInv, NewestFirst
        <4> QED
          BY <1>4, <1>6, <1>9, <3>3, <4>1, <4>2
      <3> QED
        BY <3>2, <3>3
    <2>2. ASSUME NEW b \in Live("price")', NEW c \in Live("price")',
                 product_account'[c] = product_account'[b], feed_index'[c] < feed_index'[b]
          PROVE  /\ next_price_account'[b] # Null
                 /\ feed_index'[c] <= feed_index'[next_price_account'[b]]
      <3>1. b \in Live("price") /\ c \in Live("price")
        BY <1>2
      <3>2. next_price_account[b] # Null /\ feed_index[c] <= feed_index[next_price_account[b]]
        BY <1>4, <2>2, <3>1 DEF ListInv, NewestFirst
      <3> QED
        BY <1>4, <1>10, <3>1, <3>2
    <2> QED
      BY <2>1, <2>2 DEF NewestFirst
  <1> QED
    BY <1>11, <1>12, <1>13 DEF ListInv

\* del_product asks that the head is zero, and a price account is never behind
\* a head that is zero: no price account loses its product.
LEMMA NextLists ==
    TypeOK /\ ZeroElsewhere /\ CounterAhead /\ ListInv /\ [Next]_vars => ListInv'
  <1> SUFFICES ASSUME TypeOK, ZeroElsewhere, CounterAhead, ListInv, [Next]_vars PROVE ListInv'
    OBVIOUS
  <1>1. \A a \in Live("price") : product_account[a] \in Live("product")
    BY DEF ListInv, PriceLists
  <1>2. ASSUME NEW s \in Keys, NEW p \in Accts, NEW a \in Accts, AddPrice(s, p, a) PROVE ListInv'
    BY <1>2, AddPriceLists
  <1>3. ASSUME NEW s \in Keys, NEW p \in Accts, NEW a \in Accts, DelPrice(s, p, a) PROVE ListInv'
    BY <1>3, DelPriceLists
  <1>4. ASSUME NEW s \in Keys, NEW m \in Accts, InitMapping(s, m) PROVE ListInv'
    <2>1. Live("price")' = Live("price") /\ Live("product")' = Live("product")
      BY <1>4 DEF InitMapping, TypeOK, Live
    <2> QED
      BY <1>1, <1>4, <2>1, ListFrame DEF InitMapping
  <1>5. ASSUME NEW s \in Keys, NEW m \in Accts, NEW p \in Accts, AddProduct(s, m, p)
        PROVE  ListInv'
    <2>1. Live("price")' = Live("price") /\ Live("product")' = Live("product") \union {p}
      BY <1>5 DEF AddProduct, TypeOK, Live
    <2>2. first_price_account[p] = Null
      BY <1>5 DEF AddProduct, ZeroElsewhere
    <2> QED
      BY <1>1, <1>5, <2>1, <2>2, ListFrame DEF AddProduct
  <1>6. ASSUME NEW s \in Keys, NEW m \in Accts, NEW p \in Accts, DelProduct(s, m, p)
        PROVE  ListInv'
    <2>1. Live("price")' = Live("price") /\ Live("product")' = Live("product") \ {p}
      BY <1>6 DEF DelProduct, TypeOK, Live
    <2>2. \A a \in Live("price") : product_account[a] # p
      BY <1>6 DEF DelProduct, ListInv, NewestFirst
    <2>3. UNCHANGED <<priceVars, first_price_account, issued>>
      BY <1>6 DEF DelProduct
    <2> QED
      BY <1>1, <2>1, <2>2, <2>3, ListFrame
  <1>7. CASE UNCHANGED <<kind, priceVars, first_price_account, issued>>
    BY <1>1, <1>7, ListFrame DEF Live
  <1>8. ASSUME NEW s \in Keys, NEW k \in Keys, NEW c \in Keys, NEW u \in Keys,
               UpdPermissions(s, k, c, u)
        PROVE  ListInv'
    BY <1>7, <1>8 DEF UpdPermissions
  <1>9. CASE FundPermissions
    BY <1>7, <1>9 DEF FundPermissions
  <1>10. ASSUME NEW m \in Accts, ResizeMapping(m) PROVE ListInv'
    BY <1>7, <1>10 DEF ResizeMapping
  <1>11. CASE UNCHANGED vars
    BY <1>7, <1>11 DEF vars
  <1> QED
    BY <1>2, <1>3, <1>4, <1>5, <1>6, <1>8, <1>9, <1>10, <1>11 DEF Next

-----------------------------------------------------------------------------
(* The invariant holds in every reachable state *)

\* An old mapping account without products and a permissions account without
\* a counter make a sound beginning.
LEMMA InitInv == Init => IInv
  <1> SUFFICES ASSUME Init PROVE IInv
    OBVIOUS
  <1>1. TypeOK
    BY InitType
  <1>2. ZeroElsewhere
    BY DEF Init, ZeroElsewhere
  <1>3. CounterAhead
    <2>1. NoPermission.last_feed_index = 0
      BY DEF NoPermission
    <2>2. \A k \in Keys : LegacyPermission(k).last_feed_index = 0
      BY DEF LegacyPermission, NoPermission
    <2>3. perm.last_feed_index = 0
      BY <2>1, <2>2 DEF Init
    <2> QED
      BY <2>3, RegistryAssumption DEF Init, CounterAhead
  <1>4. Live("product") = {} /\ Live("price") = {}
    BY DEF Init, Live
  <1>5. MappingsExact
    <2>1. ASSUME NEW m \in Accts, NEW i \in Slots
          PROVE  products_list[m][i] = Null /\ ~ (i < number_of_products[m])
      BY DEF Init, Slots
    <2> QED
      BY <1>4, <2>1 DEF MappingsExact
  <1>6. ListInv
    BY <1>4 DEF ListInv, PriceLists, OneFeedEach, NewestFirst
  <1> QED
    BY <1>1, <1>2, <1>3, <1>5, <1>6 DEF IInv

\* No instruction breaks the inductive invariant.
LEMMA NextInv == IInv /\ [Next]_vars => IInv'
  BY NextType, NextZero, NextCounter, NextMappings, NextLists DEF IInv

\* The inductive invariant holds whatever instructions the program has run.
THEOREM Invariance == Spec => []IInv
  BY InitInv, NextInv, PTL DEF Spec

\* No instruction takes a field of an account out of its type: the products
\* of a mapping account stay within its table, and reserve_new_price_feed_index
\* stays within MAX_FEED_INDEX.
THEOREM TypeCorrect == Spec => []TypeOK
  <1>1. IInv => TypeOK
    BY DEF IInv
  <1> QED
    BY <1>1, Invariance, PTL

\* The mapping accounts always list exactly the live products, each one once:
\* del_product's swap with the last place loses and doubles nothing.
THEOREM TablesExact == Spec => []MappingsExact
  <1>1. IInv => MappingsExact
    BY DEF IInv
  <1> QED
    BY <1>1, Invariance, PTL

\* A feed index is never handed out twice, also when price accounts were
\* deleted and upd_permissions was called in between.
THEOREM FeedIndicesFresh == Spec => FeedIndexFresh
  <1> DEFINE Fresh == \A a \in Accts : kind[a] # "price" /\ kind'[a] = "price" =>
                          feed_index'[a] \notin issued
  <1>1. IInv /\ [Next]_vars => [Fresh]_vars
    <2> SUFFICES ASSUME IInv, [Next]_vars, ~ UNCHANGED vars PROVE Fresh
      OBVIOUS
    <2> USE DEF IInv, TypeOK
    <2>1. ASSUME NEW s \in Keys, NEW p \in Accts, NEW a \in Accts, AddPrice(s, p, a) PROVE Fresh
      <3>1. perm.last_feed_index \in Nat /\ issued \subseteq Int
        BY DEF Permission
      <3>2. NewFeedIndex \notin issued
        BY <3>1 DEF NewFeedIndex, CounterAhead
      <3>3. \A b \in Accts : b # a => kind'[b] = kind[b]
        BY <2>1 DEF AddPrice
      <3>4. feed_index'[a] = NewFeedIndex
        BY <2>1 DEF AddPrice
      <3> QED
        BY <3>2, <3>3, <3>4
    <2>2. ASSUME \A a \in Accts : kind'[a] = "price" => kind[a] = "price" PROVE Fresh
      BY <2>2
    <2>3. ASSUME NEW s \in Keys, NEW k \in Keys, NEW c \in Keys, NEW u \in Keys,
                 UpdPermissions(s, k, c, u) \/ FundPermissions
          PROVE  Fresh
      BY <2>2, <2>3 DEF UpdPermissions, FundPermissions
    <2>4. ASSUME NEW m \in Accts, ResizeMapping(m) PROVE Fresh
      BY <2>2, <2>4 DEF ResizeMapping
    <2>5. ASSUME NEW s \in Keys, NEW a \in Accts, InitMapping(s, a) PROVE Fresh
      BY <2>2, <2>5 DEF InitMapping
    <2>6. ASSUME NEW s \in Keys, NEW a \in Accts, NEW b \in Accts,
                 AddProduct(s, a, b) \/ DelProduct(s, a, b) \/ DelPrice(s, a, b)
          PROVE  Fresh
      BY <2>2, <2>6 DEF AddProduct, DelProduct, DelPrice
    <2>7. CASE FundPermissions
      BY <2>2, <2>7 DEF FundPermissions
    <2> QED
      BY <2>1, <2>3, <2>4, <2>5, <2>6, <2>7 DEF Next
  <1> QED
    BY <1>1, Invariance, PTL DEF Spec, FeedIndexFresh

-----------------------------------------------------------------------------
(* The walk of a client along a list *)

\* What one step of the walk does.
WalkStep(p, w) ==
    [n \in 0 .. Cardinality(Accts) |->
        IF n = 0 THEN first_price_account[p]
        ELSE IF w[n - 1] = Null THEN Null ELSE next_price_account[w[n - 1]]]

\* The walk is well defined: it starts at the head and each place follows from
\* the one before.
LEMMA WalkDefined == ASSUME NEW p PROVE WalkFrom(p) = WalkStep(p, WalkFrom(p))
  <1> DEFINE N == Cardinality(Accts)
             Part(k, w) == w = [n \in 0 .. k |-> IF n = 0 THEN first_price_account[p]
                                ELSE IF w[n - 1] = Null THEN Null ELSE next_price_account[w[n - 1]]]
             S == {k \in Nat : \E w : Part(k, w)}
  <1>1. N \in Nat
    BY FS_CardinalityType, RegistryAssumption
  <1>2. 0 \in S
    <2> DEFINE w == [n \in 0 .. 0 |-> first_price_account[p]]
    <2>1. Part(0, w)
      OBVIOUS
    <2> QED
      BY <2>1
  <1>3. ASSUME NEW k \in Nat, k \in S PROVE k + 1 \in S
    <2>1. PICK w : Part(k, w)
      BY <1>3
    <2> DEFINE v == [n \in 0 .. k + 1 |-> IF n = k + 1
                        THEN IF w[k] = Null THEN Null ELSE next_price_account[w[k]]
                        ELSE w[n]]
    <2>2. ASSUME NEW n \in 0 .. k + 1
          PROVE  v[n] = IF n = 0 THEN first_price_account[p]
                        ELSE IF v[n - 1] = Null THEN Null ELSE next_price_account[v[n - 1]]
      <3>1. CASE n = 0
        BY <2>1, <3>1
      <3>2. CASE n # 0 /\ n = k + 1
        <4>1. n - 1 = k /\ k \in 0 .. k + 1 /\ k # k + 1
          BY <3>2
        <4>2. v[n - 1] = w[k]
          BY <4>1
        <4>3. v[n] = IF w[k] = Null THEN Null ELSE next_price_account[w[k]]
          BY <3>2
        <4> QED
          BY <3>2, <4>2, <4>3
      <3>3. CASE n # 0 /\ n # k + 1
        <4>1. n \in 0 .. k /\ n - 1 \in 0 .. k + 1 /\ n - 1 # k + 1
          BY <3>3
        <4>2. v[n] = w[n] /\ v[n - 1] = w[n - 1]
          BY <3>3, <4>1
        <4> HIDE DEF v
        <4>3. w[n] = IF w[n - 1] = Null THEN Null ELSE next_price_account[w[n - 1]]
          BY <2>1, <3>3, <4>1
        <4> QED
          BY <3>3, <4>2, <4>3
      <3> QED
        BY <3>1, <3>2, <3>3
    <2>3. Part(k + 1, v)
      <3>1. v = [n \in 0 .. k + 1 |-> v[n]]
        OBVIOUS
      <3> HIDE DEF v
      <3> QED
        BY <2>2, <3>1
    <2> HIDE DEF Part, v
    <2> QED
      BY <2>3
  <1> HIDE DEF S
  <1>4. N \in S
    <2>1. 0 .. N \subseteq S
      BY <1>1, <1>2, <1>3, UpTo
    <2> QED
      BY <1>1, <2>1
  <1>5. \E w : Part(N, w)
    BY <1>4 DEF S
  <1>6. WalkFrom(p) = CHOOSE w : Part(N, w)
    BY DEF WalkFrom
  <1>7. Part(N, CHOOSE w : Part(N, w))
    BY <1>5
  <1> QED
    BY <1>6, <1>7 DEF WalkStep

\* The order of the list makes the walk strictly descend through the feed
\* indices, so it ends and meets nothing twice; and because the next of a price
\* is the newest of the older ones, it steps over none.
LEMMA WalkSound == IInv => WalkFindsEveryFeed
  <1> SUFFICES ASSUME IInv, NEW p \in Live("product")
               PROVE  LET walk == WalkFrom(p)
                          steps == {n \in DOMAIN walk : walk[n] # Null}
                      IN  /\ walk[Cardinality(Accts)] = Null
                          /\ \A i, j \in steps : walk[i] = walk[j] => i = j
                          /\ {walk[n] : n \in steps} = {a \in Live("price") : product_account[a] = p}
    BY DEF WalkFindsEveryFeed
  <1> DEFINE w == WalkFrom(p)
             N == Cardinality(Accts)
             A == {a \in Live("price") : product_account[a] = p}
  <1>1. N \in Nat /\ IsFiniteSet(Accts)
    BY FS_CardinalityType, RegistryAssumption
  <1>2. w = WalkStep(p, w)
    BY WalkDefined
  <1> HIDE DEF w
  <1>3. DOMAIN w = 0 .. N
    BY <1>2 DEF WalkStep
  <1>4. w[0] = first_price_account[p]
    BY <1>1, <1>2 DEF WalkStep
  <1>5. \A n \in 0 .. N - 1 :
          w[n + 1] = IF w[n] = Null THEN Null ELSE next_price_account[w[n]]
    <2> TAKE n \in 0 .. N - 1
    <2>1. n + 1 \in 0 .. N /\ n + 1 # 0 /\ (n + 1) - 1 = n
      BY <1>1
    <2> QED
      BY <1>2, <2>1 DEF WalkStep
  <1>6. \A a \in A : /\ a \in Accts /\ a # Null /\ feed_index[a] \in Int
                     /\ a \in Live("price") /\ product_account[a] = p
    BY RegistryAssumption DEF IInv, TypeOK, Live
  <1>7. first_price_account[p] = Null \/ first_price_account[p] \in A
    BY DEF IInv, ListInv, PriceLists
  <1>8. \A a \in A : next_price_account[a] # Null =>
            /\ next_price_account[a] \in A
            /\ feed_index[next_price_account[a]] < feed_index[a]
    BY DEF IInv, ListInv, PriceLists
  <1>9. \A a \in A : first_price_account[p] # Null /\ feed_index[a] <= feed_index[first_price_account[p]]
    BY DEF IInv, ListInv, NewestFirst
  <1>10. \A a, b \in A : feed_index[b] < feed_index[a] =>
            /\ next_price_account[a] # Null
            /\ feed_index[b] <= feed_index[next_price_account[a]]
    BY DEF IInv, ListInv, NewestFirst
  <1>11. \A a, b \in A : feed_index[a] = feed_index[b] => a = b
    BY DEF IInv, ListInv, OneFeedEach
  <1>12. A \subseteq Accts /\ Null \notin A
    BY <1>6
  <1> HIDE DEF A
  <1>13. \A n \in 0 .. N : w[n] = Null \/ w[n] \in A
    <2> DEFINE S == {n \in 0 .. N : w[n] = Null \/ w[n] \in A}
    <2>1. 0 \in S
      BY <1>1, <1>4, <1>7
    <2>2. ASSUME NEW n \in 0 .. N - 1, n \in S PROVE n + 1 \in S
      <3>1. n + 1 \in 0 .. N
        BY <1>1
      <3> QED
        BY <1>5, <1>8, <2>2, <3>1
    <2> HIDE DEF S
    <2>3. 0 .. N \subseteq S
      BY <1>1, <2>1, <2>2, UpTo
    <2> QED
      BY <2>3 DEF S
  <1>14. \A n \in 0 .. N : \A i \in 0 .. n - 1 :
            w[n] # Null => w[i] # Null /\ feed_index[w[n]] < feed_index[w[i]]
    <2> DEFINE D(n) == \A i \in 0 .. n - 1 :
                          w[n] # Null => w[i] # Null /\ feed_index[w[n]] < feed_index[w[i]]
               S == {n \in 0 .. N : D(n)}
    <2>1. 0 \in S
      BY <1>1
    <2>2. ASSUME NEW n \in 0 .. N - 1, n \in S PROVE n + 1 \in S
      <3>1. n + 1 \in 0 .. N /\ n \in 0 .. N /\ n \in Nat
        BY <1>1
      <3>2. ASSUME NEW i \in 0 .. (n + 1) - 1, w[n + 1] # Null
            PROVE  w[i] # Null /\ feed_index[w[n + 1]] < feed_index[w[i]]
        <4>1. w[n] # Null /\ w[n + 1] = next_price_account[w[n]]
          BY <1>5, <3>2
        <4>2. w[n] \in A /\ w[n + 1] \in A
          BY <1>13, <3>1, <3>2, <4>1
        <4>3. feed_index[w[n + 1]] < feed_index[w[n]]
          BY <1>8, <3>2, <4>1, <4>2
        <4>4. CASE i = n
          BY <4>1, <4>3, <4>4
        <4>5. CASE i # n
          <5>1. i \in 0 .. n - 1 /\ i \in 0 .. N
            BY <1>1, <3>1, <4>5
          <5>2. w[i] # Null /\ feed_index[w[n]] < feed_index[w[i]]
            BY <2>2, <4>1, <5>1
          <5>3. w[i] \in A
            BY <1>13, <5>1, <5>2
          <5> QED
            BY <1>6, <4>2, <4>3, <5>2, <5>3
        <4> QED
          BY <4>4, <4>5
      <3>3. D(n + 1)
        BY <3>2
      <3> QED
        BY <3>1, <3>3
    <2> HIDE DEF S
    <2>3. 0 .. N \subseteq S
      BY <1>1, <2>1, <2>2, UpTo
    <2> QED
      BY <2>3 DEF S
  <1>15. ASSUME NEW i \in 0 .. N, NEW j \in 0 .. N, w[i] # Null, w[i] = w[j] PROVE i = j
    <2>1. feed_index[w[i]] \in Int
      BY <1>6, <1>13, <1>15
    <2>2. CASE i < j
      <3>1. i \in 0 .. j - 1
        BY <1>1, <2>2
      <3> QED
        BY <1>14, <1>15, <2>1, <3>1
    <2>3. CASE j < i
      <3>1. j \in 0 .. i - 1
        BY <1>1, <2>3
      <3> QED
        BY <1>14, <1>15, <2>1, <3>1
    <2> QED
      BY <2>2, <2>3
  <1>16. w[N] = Null
    <2> SUFFICES ASSUME w[N] # Null PROVE FALSE
      OBVIOUS
    <2>1. ASSUME NEW n \in 0 .. N PROVE w[n] # Null /\ w[n] \in Accts
      <3>1. CASE n = N
        BY <1>12, <1>13, <3>1
      <3>2. CASE n # N
        <4>1. n \in 0 .. N - 1 /\ N \in 0 .. N
          BY <1>1, <3>2
        <4> QED
          BY <1>12, <1>13, <1>14, <4>1
      <3> QED
        BY <3>1, <3>2
    <2>2. w \in [0 .. N -> Accts]
      <3>1. w = [n \in 0 .. N |-> w[n]]
        BY <1>2 DEF WalkStep
      <3> QED
        BY <2>1, <3>1
    <2>3. IsFiniteSet(0 .. N) /\ Cardinality(0 .. N) = N + 1
      BY <1>1, FS_Interval
    <2>4. \E i, j \in 0 .. N : i # j /\ w[i] = w[j]
      <3>1. Cardinality(0 .. N) > Cardinality(Accts)
        BY <1>1, <2>3
      <3> QED
        BY <1>1, <2>2, <2>3, <3>1, FS_PigeonHole, Zenon
    <2> QED
      BY <1>15, <2>1, <2>4
  <1>17. ASSUME NEW a \in A PROVE \E n \in 0 .. N : w[n] = a
    <2> SUFFICES ASSUME \A n \in 0 .. N : w[n] # a PROVE FALSE
      OBVIOUS
    <2> DEFINE S == {n \in 0 .. N : w[n] # Null /\ feed_index[a] < feed_index[w[n]]}
    <2>1. 0 \in S
      <3>1. 0 \in 0 .. N
        BY <1>1
      <3>2. w[0] # Null /\ feed_index[a] <= feed_index[w[0]] /\ w[0] # a
        BY <1>4, <1>9, <3>1
      <3>3. w[0] \in A
        BY <1>13, <3>1, <3>2
      <3> QED
        BY <1>6, <1>11, <3>1, <3>2, <3>3
    <2>2. ASSUME NEW n \in 0 .. N - 1, n \in S PROVE n + 1 \in S
      <3>1. n + 1 \in 0 .. N /\ n \in 0 .. N
        BY <1>1
      <3>2. w[n] \in A
        BY <1>13, <2>2, <3>1
      <3>3. w[n + 1] = next_price_account[w[n]]
        BY <1>5, <2>2
      <3>4. w[n + 1] # Null /\ feed_index[a] <= feed_index[w[n + 1]] /\ w[n + 1] # a
        BY <1>10, <2>2, <3>1, <3>2, <3>3
      <3>5. w[n + 1] \in A
        BY <1>13, <3>1, <3>4
      <3> QED
        BY <1>6, <1>11, <3>1, <3>4, <3>5
    <2> HIDE DEF S
    <2>3. 0 .. N \subseteq S
      BY <1>1, <2>1, <2>2, UpTo
    <2> QED
      BY <1>1, <1>16, <2>3 DEF S
  <1>18. {w[n] : n \in {k \in DOMAIN w : w[k] # Null}} = A
    BY <1>3, <1>12, <1>13, <1>17
  <1> QED
    BY <1>3, <1>15, <1>16, <1>18 DEF w, A

\* Whatever feeds were added and deleted, a client that starts at the head of
\* a product's list and follows next_price_account comes to an end and has met
\* every live price account of the product, none twice.
THEOREM FeedsAlwaysReachable == Spec => []FeedsReachable
  <1>1. IInv => FeedsReachable
    BY WalkSound DEF IInv, ListInv, FeedsReachable
  <1> QED
    BY <1>1, Invariance, PTL
=============================================================================
