--------------------------- MODULE MCPriceAccount ---------------------------
(***************************************************************************)
(* Small instances of PriceAccount, with the pricing model of PriceModel.  *)
(***************************************************************************)
EXTENDS PriceAccount, PriceModel

Arg(price, conf, status) == [price |-> price, conf |-> conf, status |-> status]

\* A trading quote, one too wide for its price (it becomes IGNORED), and
\* i64::MIN, on which the ratio check fails.
OddQuotes == {Arg(6, 1, "TRADING"), Arg(3, 2, "TRADING"), Arg(-16, 1, "TRADING")}

OneQuote == {Arg(6, 1, "TRADING")}

V1orV2 == {{}, Flag}

PublisherSymmetry == Permutations(Publishers)
=============================================================================
