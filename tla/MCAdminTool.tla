----------------------------- MODULE MCAdminTool -----------------------------
(* pyth_admin from an empty key store, from a full mapping with a product   *)
(* and a price (also without the product's key pair), and from a mapping of *)
(* which only the public key is known.                                      *)
EXTENDS AdminTool

MCAccount(kind, refs) == [NoAccount EXCEPT !.kind = kind, !.refs = refs]

MCBuilt == [k \in Keys |->
    CASE k = 1 -> MCAccount("mapping", {2})
      [] k = 2 -> MCAccount("product", {3})
      [] k = 3 -> MCAccount("price", {})
      [] OTHER -> NoAccount]

MCMapping == [k \in Keys |->
    CASE k = 1 -> MCAccount("mapping", {2})
      [] k = 2 -> MCAccount("product", {})
      [] OTHER -> NoAccount]

MCStart(files_, key, pkey, accounts) ==
    [files |-> files_, mapping_key_ |-> key, has_pkey |-> pkey, data |-> accounts]

MCStarts == {
    MCStart({}, 0, TRUE, [k \in Keys |-> NoAccount]),
    MCStart({1, 2, 3}, 1, TRUE, MCBuilt),
    MCStart({1, 2}, 1, TRUE, MCMapping),
    MCStart({1}, 1, FALSE, MCMapping),
    MCStart({}, 1, TRUE, MCMapping)}

MCCommand(n, a) == [name |-> n, args |-> a]

MCCommands ==
    {MCCommand("init_mapping", <<>>), MCCommand("add_product", <<>>),
     MCCommand("upd_product", <<2, 3>>), MCCommand("upd_product", <<2>>),
     MCCommand("add_price", <<2>>), MCCommand("init_price", <<3>>),
     MCCommand("set_min_pub", <<3>>), MCCommand("add_publisher", <<3>>),
     MCCommand("del_publisher", <<3>>)}
=============================================================================
