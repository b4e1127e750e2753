------------------------------ MODULE MCUsdsoq ------------------------------
(***************************************************************************)
(* A small universe of USDSOQ transactions for TLC.  Two rival bootstraps   *)
(* (boot, boot2), a chain of authority operations behind the first one (the *)
(* second mint exceeds MaxMoney), a transfer and a second one of what it    *)
(* sent, a native payment that races the second bootstrap, an ordinary      *)
(* transaction that spends a marker, a mint whose signatures do not verify, *)
(* and one whose marker input has no witness.                               *)
(***************************************************************************)
EXTENDS UsdsoqChain, TLC

LOCAL INSTANCE SequencesExt

\* One row per transaction: inputs, outputs, signed, freeze operation.
None == [op |-> "none", target |-> "null"]
Row(in, out, ok, op) == [in |-> in, out |-> out, ok |-> ok, op |-> op]
Universe ==
       "boot"   :> Row(<<"c1">>, <<"m1">>, TRUE, None)
    @@ "boot2"  :> Row(<<"c2">>, <<"m2">>, TRUE, None)
    @@ "mint"   :> Row(<<"m1">>, <<"m3", "u1">>, TRUE, None)
    @@ "mint2"  :> Row(<<"m3">>, <<"m7", "u4">>, TRUE, None)
    @@ "forged" :> Row(<<"m1">>, <<"m9", "u9">>, FALSE, None)
    @@ "bare"   :> Row(<<"m1">>, <<"m8", "u8">>, FALSE, None)
    @@ "send"   :> Row(<<"u1">>, <<"u2">>, FALSE, None)
    @@ "burn"   :> Row(<<"m3", "u1">>, <<"m4">>, TRUE, None)
    @@ "freeze" :> Row(<<"m3">>, <<"m5">>, TRUE, [op |-> "freeze", target |-> "u1"])
    @@ "thaw"   :> Row(<<"m5">>, <<"m6">>, TRUE, [op |-> "unfreeze", target |-> "u1"])
    @@ "send2"  :> Row(<<"u2">>, <<"u3">>, FALSE, None)
    @@ "pay"    :> Row(<<"c2">>, <<"c4">>, FALSE, None)
    @@ "steal"  :> Row(<<"m3">>, <<"c3">>, FALSE, None)

MCTxs == DOMAIN Universe
MCOutpoints == {"c1", "c2", "c3", "c4", "m1", "m2", "m3", "m4", "m5", "m6", "m7", "m8", "m9",
                "u1", "u2", "u3", "u4", "u8", "u9"}
MCvin == [t \in MCTxs |-> Universe[t].in]
MCvout == [t \in MCTxs |-> Universe[t].out]
MCSigned == [t \in MCTxs |-> Universe[t].ok]
MCUnwitnessed == [t \in MCTxs |-> IF t = "bare" THEN {"m1"} ELSE {}]
MCFreezeOp == [t \in MCTxs |-> Universe[t].op]
MCKind == [o \in MCOutpoints |->
    CASE o \in {"c1", "c2", "c3", "c4"} -> "soq"
      [] o \in {"u1", "u2", "u3", "u4", "u8", "u9"} -> "asset"
      [] OTHER -> "marker"]
MCValue == [o \in MCOutpoints |->
    CASE o \in {"c1", "c2", "c4", "u8"} -> 1 [] MCKind[o] = "asset" -> 2 [] OTHER -> 0]
MCGenesis == {"c1", "c2"}

\* Blocks of one or two transactions.
AllBlocks == {<<t>> : t \in MCTxs} \cup {<<t, u>> : t, u \in MCTxs}

ASSUME TheoremsApply == RulesFromGenesis
=============================================================================
