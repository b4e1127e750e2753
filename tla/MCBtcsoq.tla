------------------------------ MODULE MCBtcsoq ------------------------------
(***************************************************************************)
(* A small universe of BTCSOQ transactions: two rival first mints of one    *)
(* deposit (mintA, mintB), a second deposit minted twice in a row (mintC,   *)
(* mintC2), a third deposit over the ceiling (mintE), a replay of the first *)
(* (replay), a transfer, burns, a burn that releases less than it burns     *)
(* (short), a mint under a freeze tag (unbound), a freeze and a thaw, a     *)
(* payment, and an ordinary transaction that spends a marker (steal).       *)
(***************************************************************************)
EXTENDS BtcsoqChain, TLC

OpRow(tag, d, n, x) == [tag |-> tag, deposit |-> d, sats |-> n, recipient |-> TRUE, target |-> x]
NoOp == OpRow("none", "none", 0, "null")
MintOp(d) == OpRow("mint", d, 2, "null")
Row(in, out, op) == [in |-> in, out |-> out, op |-> op]

Universe ==
       "mintA"  :> Row(<<"c1">>, <<"m1", "u1">>, MintOp("d1"))
    @@ "mintB"  :> Row(<<"c2">>, <<"m2", "u2">>, MintOp("d1"))
    @@ "mintC"  :> Row(<<"m1">>, <<"m3", "u3">>, MintOp("d2"))
    @@ "mintC2" :> Row(<<"m3">>, <<"m4", "u4">>, MintOp("d2"))
    @@ "replay" :> Row(<<"m1">>, <<"m5", "u5">>, MintOp("d1"))
    @@ "send"   :> Row(<<"u1">>, <<"u6">>, NoOp)
    @@ "burn"   :> Row(<<"m1", "u1">>, <<"m6">>, OpRow("burn", "none", 2, "null"))
    @@ "short"  :> Row(<<"m1", "u1">>, <<"m7">>, OpRow("burn", "none", 1, "null"))
    @@ "unbound" :> Row(<<"m1">>, <<"m8", "u8">>, OpRow("freeze", "none", 0, "u1"))
    @@ "freeze" :> Row(<<"m1">>, <<"m9">>, OpRow("freeze", "none", 0, "u1"))
    @@ "thaw"   :> Row(<<"m9">>, <<"m10">>, OpRow("unfreeze", "none", 0, "u1"))
    @@ "mintE"  :> Row(<<"m3">>, <<"m11", "u9">>, MintOp("d3"))
    @@ "burnC"  :> Row(<<"m3", "u3">>, <<"m12">>, OpRow("burn", "none", 2, "null"))
    @@ "pay"    :> Row(<<"c2">>, <<"c4">>, NoOp)
    @@ "steal"  :> Row(<<"m1">>, <<"c3">>, NoOp)

MCTxs == DOMAIN Universe
Natives == {"c1", "c2", "c3", "c4"}
Assets == {"u1", "u2", "u3", "u4", "u5", "u6", "u8", "u9"}
Markers == {"m1", "m2", "m3", "m4", "m5", "m6", "m7", "m8", "m9", "m10", "m11",
            "m12"}
MCOutpoints == Natives \cup Assets \cup Markers
MCvin == [t \in MCTxs |-> Universe[t].in]
MCvout == [t \in MCTxs |-> Universe[t].out]
MCOp == [t \in MCTxs |-> Universe[t].op]
MCWitness == [t \in MCTxs |-> t \notin {"send", "steal", "pay"}]
MCKind == [o \in MCOutpoints |->
    CASE o \in Natives -> "soq" [] o \in Assets -> "asset" [] OTHER -> "marker"]
MCValue == [o \in MCOutpoints |->
    CASE o \in {"c1", "c2", "c4"} -> 1 [] o \in Assets -> 2 [] OTHER -> 0]
MCGenesis == {"c1", "c2"}
MCDeposits == {"d1", "d2", "d3"}

\* Blocks of one or two different transactions.
AllBlocks == {<<t>> : t \in MCTxs} \cup {p \in {<<t, u>> : t, u \in MCTxs} : p[1] # p[2]}
HasMint(b) == \E k \in DOMAIN b : MCOp[b[k]].tag = "mint" \/ b[k] = "unbound"
HasBurn(b) == \E k \in DOMAIN b : MCOp[b[k]].tag = "burn"
HasFreeze(b) == \E k \in DOMAIN b : MCOp[b[k]].tag = "freeze"
HasThaw(b) == \E k \in DOMAIN b : MCOp[b[k]].tag = "unfreeze"

\* One direction per counter and per freeze target in a block.
SimpleBlocks ==
    {b \in AllBlocks : ~(HasMint(b) /\ HasBurn(b)) /\ ~(HasFreeze(b) /\ HasThaw(b))}

\* The theorems of BtcsoqChain_proofs cover this universe.
ASSUME TheoremsApply == RulesFromGenesis /\ \A b \in SimpleBlocks : OneWay(b)

MintBurnBlocks == {<<"mintA", "burn">>, <<"mintB">>}
=============================================================================
