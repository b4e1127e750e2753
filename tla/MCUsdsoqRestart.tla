-------------------------- MODULE MCUsdsoqRestart --------------------------
(* The universe of MCUsdsoq on a node that dies and restarts.               *)
EXTENDS UsdsoqRestart, MCUsdsoq

\* The issuer's chain with a transfer and an ordinary payment beside it, and two
\* blocks that are not plain.
IssuerBlocks ==
    {<<"boot">>, <<"mint">>, <<"boot", "mint">>, <<"burn">>, <<"freeze">>,
     <<"send">>, <<"pay">>, <<"send", "pay">>, <<"bare">>, <<"mint", "burn">>}
=============================================================================
