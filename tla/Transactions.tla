---------------------------- MODULE Transactions ----------------------------
(***************************************************************************)
(* The transactions the client builds byte by byte (admin_rpc_client.cpp   *)
(* and rpc::upd_price::build_tx), as what the bytes say: the account keys  *)
(* in order, the three counts of the message header from which the chain   *)
(* derives who signs and what is writable, the instructions, whose account *)
(* and program indices count from zero, and the keys that really sign,     *)
(* in the order of the signature slots.                                    *)
(***************************************************************************)
EXTENDS Integers, Sequences, FiniteSets, SequencesExt

\* Keys by their part in the transaction, the prices of a batch with a number.
Named(s) == [i \in DOMAIN s |-> <<s[i], 0>>]

Tx(keys, signatures, roSigned, roUnsigned, instrs, signed) ==
    [keys |-> keys, signatures |-> signatures, roSigned |-> roSigned,
     roUnsigned |-> roUnsigned, instrs |-> instrs, signed |-> signed]

\* One instruction; size is that of its parameters in bytes.
Instr(program, accts, cmd, size) ==
    [program |-> program, accts |-> accts, cmd |-> cmd, size |-> size]

-----------------------------------------------------------------------------
(* The builders.  cmd_hdr is 8 bytes long; a key adds 32.                  *)

create_account ==
    Tx(Named(<<"publish", "account", "system">>), 2, 0, 1,
       <<Instr(2, <<0, 1>>, "CreateAccount", 52)>>, Named(<<"publish", "account">>))

init_mapping ==
    Tx(Named(<<"publish", "mapping", "program">>), 2, 0, 1,
       <<Instr(2, <<0, 1>>, "InitMapping", 8)>>, Named(<<"publish", "mapping">>))

add_mapping ==
    Tx(Named(<<"publish", "mapping", "account", "program">>), 3, 0, 1,
       <<Instr(3, <<0, 1, 2>>, "AddMapping", 8)>>, Named(<<"publish", "mapping", "account">>))

add_product ==
    Tx(Named(<<"publish", "mapping", "product", "program">>), 3, 0, 1,
       <<Instr(3, <<0, 1, 2>>, "AddProduct", 8)>>, Named(<<"publish", "mapping", "product">>))

\* attrs is the size of the serialized attributes of the product.
upd_product(attrs) ==
    Tx(Named(<<"publish", "product", "program">>), 2, 0, 1,
       <<Instr(2, <<0, 1>>, "UpdProduct", 8 + attrs)>>, Named(<<"publish", "product">>))

add_price ==
    Tx(Named(<<"publish", "product", "price", "program">>), 3, 0, 1,
       <<Instr(3, <<0, 1, 2>>, "AddPrice", 16)>>, Named(<<"publish", "product", "price">>))

init_price ==
    Tx(Named(<<"publish", "price", "program">>), 2, 0, 1,
       <<Instr(2, <<0, 1>>, "InitPrice", 16)>>, Named(<<"publish", "price">>))

set_min_pub ==
    Tx(Named(<<"publish", "price", "program">>), 2, 0, 1,
       <<Instr(2, <<0, 1>>, "SetMinPub", 12)>>, Named(<<"publish", "price">>))

add_publisher ==
    Tx(Named(<<"publish", "price", "program">>), 2, 0, 1,
       <<Instr(2, <<0, 1>>, "AddPublisher", 40)>>, Named(<<"publish", "price">>))

del_publisher ==
    Tx(Named(<<"publish", "price", "program">>), 2, 0, 1,
       <<Instr(2, <<0, 1>>, "DelPublisher", 40)>>, Named(<<"publish", "price">>))

\* Mutant: every update names the sysvar by its place in a batch of one.
build_tx_single(n, cu_units, cu_price) ==
    Tx(Named(<<"publish">>) \o [i \in 1 .. n |-> <<"price", i>>]
         \o Named(<<"clock", "program", "budget">>),
       1, 0, 2,
       (IF cu_units > 0 THEN <<Instr(n + 3, <<>>, "ComputeLimit", 5)>> ELSE <<>>)
         \o (IF cu_price > 0 THEN <<Instr(n + 3, <<>>, "ComputePrice", 9)>> ELSE <<>>)
         \o [i \in 1 .. n |-> Instr(n + 2, <<0, i, 2>>, "UpdPriceNoFailOnError", 40)],
       Named(<<"publish">>))

\* A batch of n price updates, with the requested compute units and their
\* price when they are given.  (publish, n prices, clock, program, budget)
build_tx(n, cu_units, cu_price) ==
    Tx(Named(<<"publish">>) \o [i \in 1 .. n |-> <<"price", i>>]
         \o Named(<<"clock", "program", "budget">>),
       1, 0, 2,
       (IF cu_units > 0 THEN <<Instr(n + 3, <<>>, "ComputeLimit", 5)>> ELSE <<>>)
         \o (IF cu_price > 0 THEN <<Instr(n + 3, <<>>, "ComputePrice", 9)>> ELSE <<>>)
         \o [i \in 1 .. n |-> Instr(n + 2, <<0, i, n + 1>>, "UpdPriceNoFailOnError", 40)],
       Named(<<"publish">>))

AdminTxs == {init_mapping, add_mapping, add_product, add_price, init_price,
             set_min_pub, add_publisher, del_publisher}

-----------------------------------------------------------------------------
(* The encoding: bincode's length prefix takes one byte below 0x80 and two *)
(* from there on.                                                          *)

add_len(n) == IF n < 128 THEN 1 ELSE 2

\* Mutant: the space reserved for the signatures is not counted.
Size_unsigned(tx) ==
    LET instrs == FoldLeft(LAMBDA sz, i : sz + 1 + add_len(Len(i.accts)) + Len(i.accts)
                                             + add_len(i.size) + i.size, 0, tx.instrs)
    IN  3 + add_len(Len(tx.keys)) + 32 * Len(tx.keys) + 32 + add_len(Len(tx.instrs)) + instrs

Size(tx) ==
    LET instrs == FoldLeft(LAMBDA sz, i : sz + 1 + add_len(Len(i.accts)) + Len(i.accts)
                                             + add_len(i.size) + i.size, 0, tx.instrs)
    IN  add_len(tx.signatures) + 64 * tx.signatures + 3 + add_len(Len(tx.keys))
          + 32 * Len(tx.keys) + 32 + add_len(Len(tx.instrs)) + instrs

\* What the chain makes of the header: the first keys sign, and the last ones
\* of the signing and of the other keys are read-only.
Signs(tx, i) == i < tx.signatures

Writable(tx, i) ==
    IF Signs(tx, i) THEN i < tx.signatures - tx.roSigned
    ELSE i < Len(tx.keys) - tx.roUnsigned

-----------------------------------------------------------------------------
(* What the program on chain asks of an instruction: the numbers of        *)
(* accounts its match takes, and a signing, writable funding account       *)
(* before writable accounts (check_permissioned_funding_account).          *)

AccountCounts ==
    [cmd \in {"InitMapping", "UpdProduct", "InitPrice", "SetMinPub",
              "AddPublisher", "DelPublisher"} |-> {3}]
    @@ [cmd \in {"AddProduct", "AddPrice"} |-> {4}]
    @@ ("AddMapping" :> {} @@ "UpdPriceNoFailOnError" :> {3, 4, 7})

TakesAccounts(instr) == Len(instr.accts) \in AccountCounts[instr.cmd]

\* The place of the first account that is only read, for each instruction
\* that has one; every account before it is written.
FirstReadOnly(instr) ==
    IF instr.cmd = "UpdPriceNoFailOnError" THEN 3 ELSE Len(instr.accts) + 1
=============================================================================
