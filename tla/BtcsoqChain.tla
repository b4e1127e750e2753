---------------------------- MODULE BtcsoqChain ----------------------------
(***************************************************************************)
(* The BTCSOQ consensus state of a node and the block operations that move  *)
(* it (validation.cpp).  Beside the three pieces of state it shares with    *)
(* USDSOQ, BTCSOQ keeps the Bitcoin deposits that were already minted: one  *)
(* deposit backs at most one mint.  An authority transaction carries a      *)
(* signed operation in its OP_RETURN, and every flow of the asset must be   *)
(* the one that operation declares.                                         *)
(*                                                                          *)
(* Op[t] is that operation: its tag ("none" if there is no single well      *)
(* formed one), the deposit, the attested amount and whether the recipient  *)
(* commitment matches for a mint, the released amount for a burn, the       *)
(* target for a freeze or unfreeze.  Witness[t] says whether the witness    *)
(* carries the same tag and M-of-N valid signatures.                        *)
(*                                                                          *)
(* One activation at a time runs under cs_main: `pc' and `job' are its      *)
(* program counter and locals.                                              *)
(***************************************************************************)
EXTENDS AssetTxs

CONSTANTS
    Deposits,           \* Bitcoin outpoints that mints attest
    NoDeposit,
    Op, Witness,
    MaxSats,            \* BTCSOQ_MAX_SATS
    MaxHeight,          \* bound: blocks above genesis
    ActivationHeight,   \* DEPLOYMENT_BTCSOQ flag height
    EnforcementHeight   \* nBTCSOQAuthorityEnforcementHeight

AuthorityOps ==
    [tag : {"none", "mint", "burn", "freeze", "unfreeze"},
     deposit : Deposits \cup {NoDeposit}, sats : Nat, recipient : BOOLEAN,
     target : Outpoints \cup {NoOutpoint}]

ASSUME BtcsoqConstants ==
    /\ NoDeposit \notin Deposits
    /\ Op \in [Txs -> AuthorityOps]
    /\ \A t \in Txs : Op[t].tag = "mint" => Op[t].deposit \in Deposits
    /\ Witness \in [Txs -> BOOLEAN]
    /\ MaxSats \in Nat /\ MaxHeight \in Nat
    /\ ActivationHeight \in Nat /\ EnforcementHeight \in Nat

VARIABLES
    chain,          \* chainActive above genesis
    coins,          \* pcoinsTip
    supply,         \* g_btcsoq_supply = DB_BTCSOQ_SUPPLY
    authOutpoint,   \* g_btcsoq_authority_outpoint = DB_BTCSOQ_AUTH_OUTPOINT
    frozen,         \* DB_BTCSOQ_FROZEN
    mintedDeposits, \* DB_BTCSOQ_MINTED
    pc, job

asset == <<supply, authOutpoint, frozen, mintedDeposits>>
vars == <<chain, coins, asset, pc, job>>

Active(h) == h >= ActivationHeight
Enforced(h) == h >= EnforcementHeight

\* The operation that connecting t at height h applies.
AppliedOp(t, h) ==
    IF Active(h) /\ Enforced(h) /\ IsAuthorityTx(t) THEN Op[t].tag ELSE "none"
-----------------------------------------------------------------------------
Init ==
    /\ chain = <<>> /\ coins = GenesisCoins
    /\ supply = NewSupply /\ authOutpoint = NoOutpoint
    /\ frozen = {} /\ mintedDeposits = {}
    /\ pc = "idle" /\ job = <<>>

Abandon == pc' = "idle" /\ job' = <<>>
-----------------------------------------------------------------------------
(* ConnectBlock for ConnectTip or for a template's dry run (fJustCheck).    *)

\* The view before the block's k-th transaction: UpdateCoins has run for the
\* ones before it.
ViewBefore(blk, k, view) ==
    (view \cup UNION {Outs(blk[j]) : j \in 1..(k - 1)})
        \ UNION {Ins(blk[j]) : j \in 1..(k - 1)}

InputsOK(blk, view, h) ==
    \A k \in DOMAIN blk : CheckTxInputs(blk[k], ViewBefore(blk, k, view), Active(h))

\* The locals with which the second pass starts.
Locals(blk, fJustCheck, first) ==
    [block |-> blk, fJustCheck |-> fJustCheck, i |-> first,
     view |-> ViewBefore(blk, Len(blk) + 1, coins),
     localAuthOutpoint |-> authOutpoint, commitOutpoint |-> FALSE,
     frozenAdd |-> {}, frozenRemove |-> {}, pendingFreezeOps |-> <<>>,
     pendingDeposits |-> <<>>, minted |-> 0, burned |-> 0, pendingSupply |-> supply]
NewJob(blk, fJustCheck) == Locals(blk, fJustCheck, 1)

\* The first pass.  A block whose inputs fail is refused without a trace.
BeginConnect(blk, fJustCheck) ==
    LET h == Len(chain) + 1
    IN  /\ pc = "idle" /\ h <= MaxHeight
        /\ InputsOK(blk, coins, h)
        /\ job' = NewJob(blk, fJustCheck)
        /\ pc' = IF Active(h) THEN "assets" ELSE "scripts"
        /\ UNCHANGED <<chain, coins, asset>>

Height == Len(chain) + 1    \* of the block being connected

FrozenInBlock(o) ==
    o \in job.frozenAdd \/ (o \in frozen /\ o \notin job.frozenRemove)

\* Guards on the spent outputs, for every transaction: only an authority
\* transaction spends a marker, nobody spends a frozen coin.
SpendsOK(t) ==
    \A o \in Ins(t) :
        /\ Kind[o] = "marker" => IsAuthorityTx(t)
        /\ Kind[o] = "asset" => ~FrozenInBlock(o)

\* The tracked marker is spent, or there is none (bootstrap); the witness
\* carries the signed tag and enough signatures.
AuthorityOK(t) ==
    /\ job.localAuthOutpoint \in Ins(t) \cup {NoOutpoint}
    /\ Witness[t]

AssetOutputs(t) == {k \in DOMAIN vout[t] : Kind[vout[t][k]] = "asset"}

\* A mint pays one output the attested amount under the signed recipient and
\* binds a deposit that neither the registry nor this block has seen.
MintOKAcrossBlocks(t) ==    \* slip: two mints of one block are not compared
    /\ Op[t].sats \in 1..MaxSats
    /\ Cardinality(AssetOutputs(t)) = 1
    /\ Amount(Outs(t), {"asset"}) = Op[t].sats
    /\ Op[t].recipient
    /\ Op[t].deposit \notin mintedDeposits

MintOK(t) ==
    /\ Op[t].sats \in 1..MaxSats
    /\ Cardinality(AssetOutputs(t)) = 1
    /\ Amount(Outs(t), {"asset"}) = Op[t].sats
    /\ Op[t].recipient
    /\ Op[t].deposit \notin mintedDeposits \cup Elems(job.pendingDeposits)

\* A burn spends exactly the amount whose release on Bitcoin is signed.
BurnOKAnyAmount(t) == BurnedBy(t) > 0   \* slip: the release intent is not compared

BurnOK(t) == Op[t].sats \in 1..MaxSats /\ BurnedBy(t) = Op[t].sats

FreezeOK(t) ==
    LET x == Op[t].target
    IN  IF Op[t].tag = "freeze"
        THEN x \in job.view /\ Kind[x] = "asset" /\ ~FrozenInBlock(x)
        ELSE FrozenInBlock(x)

\* Asset flows match the signed operation.
OpOK(t) ==
    /\ MintedBy(t) > 0 => Op[t].tag = "mint"
    /\ BurnedBy(t) > 0 => Op[t].tag = "burn"
    /\ CASE Op[t].tag = "mint" -> MintOK(t)
         [] Op[t].tag = "burn" -> BurnOK(t)
         [] Op[t].tag \in {"freeze", "unfreeze"} -> FreezeOK(t)
         [] OTHER -> FALSE      \* bad-btcsoq-missing-op

AssetOK(t) ==
    /\ SpendsOK(t)
    /\ IsAuthorityTx(t) /\ Enforced(Height) => AuthorityOK(t) /\ OpOK(t)

\* Second pass over the block, one transaction at a time.
ConnectAsset ==
    /\ pc = "assets" /\ job.i <= Len(job.block)
    /\ LET t == job.block[job.i]
           op == AppliedOp(t, Height)
           x == Op[t].target
       IN  /\ AssetOK(t)
           /\ job' = [job EXCEPT
                !.i = @ + 1,
                !.localAuthOutpoint = IF IsAuthorityTx(t) THEN AuthorityOutput(t) ELSE @,
                !.commitOutpoint = @ \/ op # "none",
                !.pendingDeposits = IF op = "mint" THEN Append(@, Op[t].deposit) ELSE @,
                !.pendingFreezeOps = IF op \in {"freeze", "unfreeze"} THEN Append(@, t) ELSE @,
                !.frozenAdd = IF op = "freeze" THEN @ \cup {x}
                              ELSE IF op = "unfreeze" THEN @ \ {x} ELSE @,
                !.frozenRemove = IF op = "unfreeze" THEN @ \cup {x}
                                 ELSE IF op = "freeze" THEN @ \ {x} ELSE @,
                !.minted = @ + MintedBy(t),
                !.burned = @ + BurnedBy(t)]
    /\ UNCHANGED <<chain, coins, asset, pc>>

\* The delta on a copy of the counter.
CheckSupply ==
    /\ pc = "assets" /\ job.i > Len(job.block)
    /\ DeltaOK(supply, job.minted, job.burned)
    /\ job' = [job EXCEPT !.pendingSupply = Applied(supply, job.minted, job.burned)]
    /\ pc' = "scripts"
    /\ UNCHANGED <<chain, coins, asset>>

\* Later gates and control.Wait(): the script verdict.
ScriptsPass ==
    /\ pc = "scripts"
    /\ IF job.fJustCheck THEN Abandon
       ELSE pc' = "commitDeposits" /\ job' = [job EXCEPT !.i = 1]
    /\ UNCHANGED <<chain, coins, asset>>

Reject ==
    /\ \/ pc = "assets" /\ job.i <= Len(job.block) /\ ~AssetOK(job.block[job.i])
       \/ /\ pc = "assets" /\ job.i > Len(job.block)
          /\ ~DeltaOK(supply, job.minted, job.burned)
       \/ pc = "scripts"
    /\ Abandon
    /\ UNCHANGED <<chain, coins, asset>>

\* The commit point, one row at a time: deposits, freezes, outpoint, supply.
CommitDeposit ==
    /\ pc = "commitDeposits" /\ job.i <= Len(job.pendingDeposits)
    /\ mintedDeposits' = mintedDeposits \cup {job.pendingDeposits[job.i]}
    /\ job' = [job EXCEPT !.i = @ + 1]
    /\ UNCHANGED <<chain, coins, supply, authOutpoint, frozen, pc>>

DepositsDone ==
    /\ pc = "commitDeposits" /\ job.i > Len(job.pendingDeposits)
    /\ pc' = "commitFreeze" /\ job' = [job EXCEPT !.i = 1]
    /\ UNCHANGED <<chain, coins, asset>>

CommitFreezeOp ==
    /\ pc = "commitFreeze" /\ job.i <= Len(job.pendingFreezeOps)
    /\ LET op == Op[job.pendingFreezeOps[job.i]]
       IN  frozen' = IF op.tag = "freeze" THEN frozen \cup {op.target}
                     ELSE frozen \ {op.target}
    /\ job' = [job EXCEPT !.i = @ + 1]
    /\ UNCHANGED <<chain, coins, supply, authOutpoint, mintedDeposits, pc>>

CommitOutpoint ==
    /\ pc = "commitFreeze" /\ job.i > Len(job.pendingFreezeOps)
    /\ authOutpoint' = IF job.commitOutpoint THEN job.localAuthOutpoint ELSE authOutpoint
    /\ pc' = "commitSupply"
    /\ UNCHANGED <<chain, coins, supply, frozen, mintedDeposits, job>>

CommitSupply ==
    /\ pc = "commitSupply"
    /\ supply' = job.pendingSupply
    /\ pc' = "connected"
    /\ UNCHANGED <<chain, coins, authOutpoint, frozen, mintedDeposits, job>>

\* ConnectTip: the view becomes pcoinsTip, the block the tip.
ConnectTip ==
    /\ pc = "connected"
    /\ coins' = job.view
    /\ chain' = Append(chain, job.block)
    /\ Abandon
    /\ UNCHANGED asset
-----------------------------------------------------------------------------
(* DisconnectTip and DisconnectBlock: supply, outpoint, registries, tip.    *)

Tip == chain[Len(chain)]

UndoSupply ==
    /\ pc = "idle" /\ chain # <<>>
    /\ LET m == Total(MintedBy, Tip)
           b == Total(BurnedBy, Tip)
           active == Active(Len(chain))
       IN  /\ supply' = IF active THEN Reversed(supply, m, b) ELSE supply
           /\ job' = [fClean |-> active => ReversalOK(supply, m, b), i |-> 1,
                      view |-> UndoCoins(coins, Tip)]
    /\ pc' = "undoOutpoint"
    /\ UNCHANGED <<chain, coins, authOutpoint, frozen, mintedDeposits>>

UndoOutpoint ==
    /\ pc = "undoOutpoint"
    /\ authOutpoint' = IF Active(Len(chain)) /\ AuthorityTxs(Tip) # {}
                       THEN RestoredOutpoint(Tip, job.view) ELSE authOutpoint
    /\ pc' = "undoRegistry"
    /\ UNCHANGED <<chain, coins, supply, frozen, mintedDeposits, job>>

\* Each operation is inverted in block order; a mint's deposit becomes
\* mintable again.
DepositKept(op, d) == mintedDeposits    \* slip: a disconnected mint stays recorded
DepositsAfterUndo(op, d) ==
    IF op = "mint" THEN mintedDeposits \ {d} ELSE mintedDeposits

UndoRegistry ==
    /\ pc = "undoRegistry" /\ job.i <= Len(Tip)
    /\ LET t == Tip[job.i]
           op == AppliedOp(t, Len(chain))
       IN  /\ mintedDeposits' = DepositsAfterUndo(op, Op[t].deposit)
           /\ frozen' = CASE op = "freeze" -> frozen \ {Op[t].target}
                          [] op = "unfreeze" -> frozen \cup {Op[t].target}
                          [] OTHER -> frozen
    /\ job' = [job EXCEPT !.i = @ + 1]
    /\ UNCHANGED <<chain, coins, supply, authOutpoint, pc>>

DisconnectTip ==
    /\ pc = "undoRegistry" /\ job.i > Len(Tip)
    /\ IF job.fClean
       THEN coins' = job.view /\ chain' = SubSeq(chain, 1, Len(chain) - 1)
       ELSE UNCHANGED <<coins, chain>>
    /\ Abandon
    /\ UNCHANGED asset
-----------------------------------------------------------------------------
Connecting ==
    \/ \E blk \in Blocks, fJustCheck \in BOOLEAN : BeginConnect(blk, fJustCheck)
    \/ ConnectAsset \/ CheckSupply \/ ScriptsPass \/ Reject
    \/ CommitDeposit \/ DepositsDone \/ CommitFreezeOp \/ CommitOutpoint
    \/ CommitSupply \/ ConnectTip

Disconnecting == UndoSupply \/ UndoOutpoint \/ UndoRegistry \/ DisconnectTip

Next == Connecting \/ Disconnecting

Spec == Init /\ [][Next]_vars
-----------------------------------------------------------------------------
(* Reference: what the active chain says.                                   *)

\* The operations connected, each with the position it stands at.
OpsAt(h) == {<<h, k>> : k \in DOMAIN chain[h]}
Positions == UNION {OpsAt(h) : h \in DOMAIN chain}
TxAt(p) == chain[p[1]][p[2]]
OpsApplied(tag) == {p \in Positions : AppliedOp(TxAt(p), p[1]) = tag}
Sats(ps) == SumFunction([p \in ps |-> Op[TxAt(p)].sats])
-----------------------------------------------------------------------------
(* What the theorems on reorganisations assume.                             *)

\* The deployment and the authority rules hold from the first block, as on
\* every network of chainparams.cpp that schedules the deployment.
RulesFromGenesis == ActivationHeight <= 1 /\ EnforcementHeight <= 1

\* A block moves each counter and each freeze target in one direction, and no
\* transaction of it creates a second marker: the reversals of DisconnectBlock
\* rely on it and ConnectBlock does not check it.
OneWay(b) ==
    /\ OneDirection(b)
    /\ \A k \in DOMAIN b : OneMarker(b[k])
    /\ \A j, k \in AuthorityTxs(b) :
           Op[b[j]].tag = "freeze" /\ Op[b[k]].tag = "unfreeze" => Op[b[j]].target # Op[b[k]].target

PlainBlocks == \A b \in Blocks : OneWay(b)
-----------------------------------------------------------------------------
(* Properties.                                                              *)

ConnectJob ==
    [block : Blocks, fJustCheck : BOOLEAN, i : Nat \ {0}, view : SUBSET Outpoints,
     localAuthOutpoint : Outpoints \cup {NoOutpoint}, commitOutpoint : BOOLEAN,
     frozenAdd : SUBSET (Outpoints \cup {NoOutpoint}),
     frozenRemove : SUBSET (Outpoints \cup {NoOutpoint}),
     pendingFreezeOps : Seq(Txs), pendingDeposits : Seq(Deposits),
     minted : Nat, burned : Nat, pendingSupply : SupplyType]
UndoJob == [fClean : BOOLEAN, i : Nat \ {0}, view : SUBSET Outpoints]
ConnectPCs ==
    {"assets", "scripts", "commitDeposits", "commitFreeze", "commitSupply", "connected"}
UndoPCs == {"undoOutpoint", "undoRegistry"}

\* Type correctness of the chain, the asset state and the locals.
TypeOK ==
    /\ chain \in Seq(Blocks)
    /\ coins \in SUBSET Outpoints
    /\ supply \in SupplyType
    /\ authOutpoint \in Outpoints \cup {NoOutpoint}
    /\ frozen \in SUBSET (Outpoints \cup {NoOutpoint})
    /\ mintedDeposits \in SUBSET Deposits
    /\ pc \in {"idle"} \cup ConnectPCs \cup UndoPCs
    /\ pc \in ConnectPCs => job \in ConnectJob
    /\ pc \in UndoPCs => job \in UndoJob /\ chain # <<>>

\* One Bitcoin deposit backs at most one mint of the active chain, whatever was
\* minted, disconnected and minted again before.
MintedOnce ==
    \A h, g \in DOMAIN chain : \A k \in DOMAIN chain[h], l \in DOMAIN chain[g] :
        /\ AppliedOp(chain[h][k], h) = "mint"
        /\ AppliedOp(chain[g][l], g) = "mint"
        /\ Op[chain[h][k]].deposit = Op[chain[g][l]].deposit
        => h = g /\ k = l

\* Between block operations the registry holds exactly the deposits the active
\* chain minted: none is lost, and none stays blocked after a reorganisation.
DepositsOfChain ==
    pc = "idle" => mintedDeposits = {Op[TxAt(p)].deposit : p \in OpsApplied("mint")}

\* Between block operations the BTCSOQ in unspent outputs, the counter, and the
\* attested satoshis less the ones whose release was signed are all equal.
FullyBacked ==
    pc = "idle" =>
        /\ Outstanding(supply) = Amount(coins, {"asset"})
        /\ Outstanding(supply) = Sats(OpsApplied("mint")) - Sats(OpsApplied("burn"))

\* Between block operations the tracked authority outpoint is null or a marker
\* that can still be spent.
TrackerLive ==
    pc = "idle" /\ authOutpoint # NoOutpoint =>
        authOutpoint \in coins /\ Kind[authOutpoint] = "marker"

\* Between block operations every frozen outpoint is an unspent BTCSOQ output.
FrozenLive == pc = "idle" => frozen \subseteq {o \in coins : Kind[o] = "asset"}

\* The asset state agrees with the UTXO set and with the deposits: every unit is
\* backed, and the tracked outpoint and the frozen ones are unspent outputs.
AssetsMatchCoins == TypeOK /\ FullyBacked /\ TrackerLive /\ FrozenLive

\* No disconnection of a tip is refused by the supply counter.
DisconnectClean == pc \in UndoPCs => job.fClean
=============================================================================
