------------------------------ MODULE AssetTxs ------------------------------
(***************************************************************************)
(* Transactions and blocks as the consensus code of a native asset sees     *)
(* them.  USDSOQ (witness v7 outputs, v5 markers) and BTCSOQ (v8 and v9)    *)
(* run twin code in validation.cpp; what the twins read off a transaction,  *)
(* and the value rules of Consensus::CheckTxInputs, are defined here once.  *)
(*                                                                          *)
(* A transaction is a member of Txs.  vin and vout give its inputs and      *)
(* outputs as sequences of outpoints (an outpoint names one output of one   *)
(* transaction for ever), Kind and Value the output's script class and      *)
(* amount.  "asset" is the asset under study, "marker" its authority        *)
(* marker, which carries no value.                                          *)
(***************************************************************************)
EXTENDS AssetSupply, Sequences, FiniteSets, Functions

CONSTANTS
    Txs,            \* the transactions that may appear in blocks
    Outpoints,      \* every output any of them, or genesis, creates
    NoOutpoint,     \* COutPoint(): the null outpoint
    vin, vout,      \* [Txs -> Seq(Outpoints)]
    Kind,           \* [Outpoints -> {"soq", "asset", "marker"}]
    Value,          \* [Outpoints -> 0..MaxMoney]
    GenesisCoins,   \* outpoints that exist before the first block
    Blocks          \* the candidate blocks, sequences of Txs

ASSUME TxConstants ==
    /\ NoOutpoint \notin Outpoints /\ IsFiniteSet(Outpoints)
    /\ vin \in [Txs -> Seq(Outpoints)]
    /\ vout \in [Txs -> Seq(Outpoints)]
    /\ Kind \in [Outpoints -> {"soq", "asset", "marker"}]
    /\ Value \in [Outpoints -> 0..MaxMoney]
    /\ GenesisCoins \subseteq Outpoints
    /\ Blocks \subseteq Seq(Txs)
-----------------------------------------------------------------------------
Elems(s) == {s[k] : k \in DOMAIN s}
Ins(t) == Elems(vin[t])
Outs(t) == Elems(vout[t])

\* An outpoint holds the hash of the transaction that creates it, so that no
\* other one does; before the first block there are native coins only.
ASSUME OutpointsAssumption ==
    /\ \A t, u \in Txs : t # u => Outs(t) \cap Outs(u) = {}
    /\ \A t \in Txs : Outs(t) \cap GenesisCoins = {}
    /\ \A o \in GenesisCoins : Kind[o] = "soq"

Amount(S, kinds) == SumFunctionOnSet(Value, {o \in S : Kind[o] \in kinds})
Native == {"soq", "marker"}

\* The loops that look for a marker output, and its index.
IsAuthorityTx(t) == \E k \in DOMAIN vout[t] : Kind[vout[t][k]] = "marker"
First(ks) == CHOOSE k \in ks : \A l \in ks : k <= l
AuthorityOutput(t) == vout[t][First({k \in DOMAIN vout[t] : Kind[vout[t][k]] = "marker"})]

\* Supply moves only at authority transactions: every asset output is minted,
\* every asset input burned.
MintedBy(t) == IF IsAuthorityTx(t) THEN Amount(Outs(t), {"asset"}) ELSE 0
BurnedBy(t) == IF IsAuthorityTx(t) THEN Amount(Ins(t), {"asset"}) ELSE 0
Total(f(_), blk) == SumFunction([k \in DOMAIN blk |-> f(blk[k])])

\* Consensus::CheckTxInputs: every input is unspent in the view; while the
\* asset is active its authority transactions balance native value only (what
\* they mint or burn is checked later), any other conserves the asset exactly.
CheckTxInputs(t, view, active) ==
    /\ Ins(t) # {}
    /\ Ins(t) \subseteq view
    /\ LET exempt == IsAuthorityTx(t) /\ active
           kinds == IF exempt THEN Native ELSE Native \cup {"asset"}
       IN  /\ Amount(Ins(t), kinds) >= Amount(Outs(t), kinds)
           /\ exempt \/ Amount(Ins(t), {"asset"}) = Amount(Outs(t), {"asset"})

\* UpdateCoins
Spend(t, view) == (view \ Ins(t)) \cup Outs(t)

\* Undoing the block's transactions in reverse order: a coin created and
\* spent inside the block is restored and then removed again.
UndoCoins(view, blk) ==
    (view \cup UNION {Ins(blk[k]) : k \in DOMAIN blk})
        \ UNION {Outs(blk[k]) : k \in DOMAIN blk}

AuthorityTxs(blk) == {k \in DOMAIN blk : IsAuthorityTx(blk[k])}

\* The outpoint tracked before the block: its first authority transaction
\* spent it, so it is that transaction's first restored marker input, or null
\* if there is none (a bootstrap).
\* slip: without a marker input, any first input is taken for it
RestoredAnyInput(blk, view) ==
    LET t == blk[First(AuthorityTxs(blk))]
        ks == {k \in DOMAIN vin[t] : vin[t][k] \in view /\ Kind[vin[t][k]] = "marker"}
    IN  IF ks = {} THEN vin[t][1] ELSE vin[t][First(ks)]

RestoredOutpoint(blk, view) ==
    LET t == blk[First(AuthorityTxs(blk))]
        ks == {k \in DOMAIN vin[t] : vin[t][k] \in view /\ Kind[vin[t][k]] = "marker"}
    IN  IF ks = {} THEN NoOutpoint ELSE vin[t][First(ks)]

\* Reversing a block's delta m, b on counter s, mint before burn: a reversal
\* the counter refuses leaves it unchanged and the other still applies.
ReversalOK(s, m, b) ==
    /\ m > 0 => CanUndoMint(s, m)
    /\ b > 0 => CanUndoBurn(UndoMint(s, m), b)

Reversed(s, m, b) == UndoBurn(UndoMint(s, m), b)

\* Applying a block's delta to a copy of the counter, mint before burn.
DeltaOK(s, m, b) ==
    /\ m > 0 => CanMint(s, m)
    /\ b > 0 => CanBurn(Mint(s, m), b)

Applied(s, m, b) == Burn(Mint(s, m), b)
-----------------------------------------------------------------------------
(* What the reversals of DisconnectBlock rely on and ConnectBlock does not  *)
(* check.  The theorems on reorganisations name these as hypotheses.        *)

\* One live marker at a time: a transaction creates at most one.
OneMarker(t) == \A o, p \in Outs(t) : Kind[o] = "marker" /\ Kind[p] = "marker" => o = p

\* A block that mints does not burn.
OneDirection(b) == \A j, k \in DOMAIN b : MintedBy(b[j]) = 0 \/ BurnedBy(b[k]) = 0
=============================================================================
