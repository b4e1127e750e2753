---------------------------- MODULE UsdsoqChain ----------------------------
(***************************************************************************)
(* The USDSOQ consensus state of a node and the block operations that move  *)
(* it (validation.cpp: ConnectBlock, DisconnectBlock, ConnectTip,           *)
(* DisconnectTip, TestBlockValidity, VerifyDB).                             *)
(*                                                                          *)
(* A node keeps a UTXO set (coins), the active chain, and three pieces of   *)
(* asset state that live beside the UTXO set as globals written through to  *)
(* LevelDB: the supply counter, the authority outpoint (the one marker UTXO *)
(* that the next mint, burn or freeze must spend) and the frozen set.       *)
(* ConnectBlock validates in two passes over the block while collecting     *)
(* pending changes, waits for the script verdict, and then commits field by *)
(* field; DisconnectBlock reverses field by field from the block and its    *)
(* undo data.  cs_main is held throughout, so one activation runs at a      *)
(* time; its locals are the record `job' and its program counter is `pc'.   *)
(*                                                                          *)
(* Beside what AssetTxs says of a transaction, AuthoritySigned tells        *)
(* whether the witness that the authority check looks at carries M-of-N     *)
(* valid signatures, Unwitnessed which inputs have no witness at all, and   *)
(* FreezeOp is the freeze payload of its OP_RETURN.                         *)
(***************************************************************************)
EXTENDS AssetTxs

CONSTANTS
    AuthoritySigned,        \* [Txs -> BOOLEAN]
    Unwitnessed,            \* [Txs -> sets of inputs]: scriptWitness.IsNull()
    FreezeOp,               \* [Txs -> [op, target]]
    MaxHeight,              \* bound: blocks above genesis
    ActivationHeight,       \* DEPLOYMENT_USDSOQ flag height
    EnforcementHeight,      \* nUSDSOQAuthorityEnforcementHeight
    InputEnforcementHeight, \* nUSDSOQAuthorityInputEnforcementHeight
    CheckDepth,             \* -checkblocks: how deep VerifyDB looks
    CheckLevel              \* -checklevel: 4 also reconnects

FreezeOps == [op : {"none", "freeze", "unfreeze"},
              target : Outpoints \cup {NoOutpoint}]

ASSUME ChainConstants ==
    /\ AuthoritySigned \in [Txs -> BOOLEAN]
    /\ Unwitnessed \in [Txs -> SUBSET Outpoints] /\ \A t \in Txs : Unwitnessed[t] \subseteq Ins(t)
    /\ FreezeOp \in [Txs -> FreezeOps]
    /\ MaxHeight \in Nat /\ ActivationHeight \in Nat
    /\ EnforcementHeight \in Nat /\ InputEnforcementHeight \in Nat
    /\ CheckDepth \in Nat \ {0} /\ CheckLevel \in 3..4

VARIABLES
    chain,          \* chainActive above genesis: a sequence of blocks
    coins,          \* pcoinsTip: the unspent outpoints
    supply,         \* g_usdsoq_supply = DB_USDSOQ_SUPPLY
    authOutpoint,   \* g_usdsoq_authority_outpoint = DB_USDSOQ_AUTH_OUTPOINT
    frozen,         \* DB_USDSOQ_FROZEN
    pc,             \* where the running block operation is; "idle" if none
    job,            \* its locals
    plain           \* ghost: every block that passed the commit point was Plain

asset == <<supply, authOutpoint, frozen>>
vars == <<chain, coins, supply, authOutpoint, frozen, pc, job, plain>>
-----------------------------------------------------------------------------
Active(h) == h >= ActivationHeight      \* DeploymentActiveAtHeight
-----------------------------------------------------------------------------
Init ==
    /\ chain = <<>>
    /\ coins = GenesisCoins
    /\ supply = NewSupply
    /\ authOutpoint = NoOutpoint
    /\ frozen = {}
    /\ pc = "idle"
    /\ job = <<>>
    /\ plain = TRUE

\* Leaving an activation without having written anything through.
Abandon == pc' = "idle" /\ job' = <<>>
-----------------------------------------------------------------------------
(* ConnectBlock, for one of three callers: ConnectTip ("tip"),              *)
(* TestBlockValidity's dry run ("template", fJustCheck) and the reconnect   *)
(* pass of VerifyDB at check level 4 ("verify", in its scratch view).       *)

Activation(blk, caller, height, view) ==
    [block |-> blk, caller |-> caller, height |-> height, view |-> view, i |-> 1,
     localAuthOutpoint |-> authOutpoint, commitOutpoint |-> FALSE,
     frozenAdd |-> {}, frozenRemove |-> {}, pendingFreezeOps |-> <<>>,
     minted |-> 0, burned |-> 0, pendingSupply |-> supply]

BeginConnect(blk, caller) ==
    /\ pc = "idle"
    /\ Len(chain) < MaxHeight
    /\ pc' = "inputs"
    /\ job' = Activation(blk, caller, Len(chain) + 1, coins)
    /\ UNCHANGED <<chain, coins, asset>>

\* First pass: CheckInputs, then UpdateCoins spends and creates in the view.
ConnectInputs ==
    /\ pc = "inputs" /\ job.i <= Len(job.block)
    /\ LET t == job.block[job.i]
       IN  /\ CheckTxInputs(t, job.view, Active(job.height))
           /\ job' = [job EXCEPT !.i = @ + 1,
                                 !.view = Spend(t, @)]
    /\ UNCHANGED <<chain, coins, asset, pc>>

InputsDone ==
    /\ pc = "inputs" /\ job.i > Len(job.block)
    /\ pc' = IF Active(job.height) THEN "assets" ELSE "scripts"
    /\ job' = [job EXCEPT !.i = 1]
    /\ UNCHANGED <<chain, coins, asset>>

\* Second pass, authority check of one transaction.  Below the enforcement
\* height nothing is verified and the tracker moves for this block only; from
\* it, the transaction must spend the tracked marker and be signed, or
\* bootstrap the tracker (signed) when there is none.  The window below
\* InputEnforcementHeight tolerates not spending the tracked marker.  If the
\* input that spends it has no witness, no branch of the check is taken: nothing
\* is verified and the tracker stays.
Enforced(h) == h >= EnforcementHeight

\* slip: a valid signature is enough, the tracked marker need not be spent
SignedIsEnough(t) == IsAuthorityTx(t) /\ Enforced(job.height) => AuthoritySigned[t]

AuthorityOK(t) ==
    \/ ~IsAuthorityTx(t)
    \/ ~Enforced(job.height)
    \/ /\ job.localAuthOutpoint \in Ins(t) \cup {NoOutpoint}
       /\ AuthoritySigned[t] \/ job.localAuthOutpoint \in Unwitnessed[t]
    \/ /\ job.localAuthOutpoint \notin Ins(t) \cup {NoOutpoint}
       /\ job.height < InputEnforcementHeight

\* Does t move the tracker, at height h, from outpoint o?
Advances(t, h, o) == IsAuthorityTx(t) /\ (Enforced(h) => o \notin Unwitnessed[t])

\* Is an outpoint frozen, as the transactions so far in this block left it?
FrozenInBlock(o, add, remove) == o \in add \/ (o \notin remove /\ o \in frozen)

\* The freeze operation this block must apply for t, if any.
AppliedFreezeOp(t, h) ==
    IF IsAuthorityTx(t) /\ Enforced(h) THEN FreezeOp[t].op ELSE "none"

\* FREEZE needs a live USDSOQ target that is not frozen, UNFREEZE a frozen one.
FreezeOK(t) ==
    LET op == AppliedFreezeOp(t, job.height)
        x == FreezeOp[t].target
        isFrozen == FrozenInBlock(x, job.frozenAdd, job.frozenRemove)
    IN  /\ op = "freeze" => x \in job.view /\ Kind[x] = "asset" /\ ~isFrozen
        /\ op = "unfreeze" => isFrozen

\* The block overlay after t's freeze operation.
AddAfter(t) ==
    CASE AppliedFreezeOp(t, job.height) = "freeze" -> job.frozenAdd \cup {FreezeOp[t].target}
      [] AppliedFreezeOp(t, job.height) = "unfreeze" -> job.frozenAdd \ {FreezeOp[t].target}
      [] OTHER -> job.frozenAdd
RemoveAfter(t) ==
    CASE AppliedFreezeOp(t, job.height) = "freeze" -> job.frozenRemove \ {FreezeOp[t].target}
      [] AppliedFreezeOp(t, job.height) = "unfreeze" -> job.frozenRemove \cup {FreezeOp[t].target}
      [] OTHER -> job.frozenRemove

\* Guards on the spent outputs, read from the undo data: only an authority
\* transaction may spend a marker, nobody may spend a frozen USDSOQ output.
\* slip: the marker-chain guard is missing
MarkerUnguarded(t) ==
    \A o \in Ins(t) :
        Kind[o] = "asset" => ~FrozenInBlock(o, AddAfter(t), RemoveAfter(t))

SpendsOK(t) ==
    \A o \in Ins(t) :
        /\ Kind[o] = "marker" => IsAuthorityTx(t)
        /\ Kind[o] = "asset" => ~FrozenInBlock(o, AddAfter(t), RemoveAfter(t))

ConnectAsset ==
    /\ pc = "assets" /\ job.i <= Len(job.block)
    /\ LET t == job.block[job.i]
           op == AppliedFreezeOp(t, job.height)
       IN  /\ AuthorityOK(t) /\ FreezeOK(t) /\ SpendsOK(t)
           /\ job' = [job EXCEPT
                !.i = @ + 1,
                !.localAuthOutpoint = IF Advances(t, job.height, @) THEN AuthorityOutput(t) ELSE @,
                !.commitOutpoint = @ \/ (Enforced(job.height) /\
                                         Advances(t, job.height, job.localAuthOutpoint)),
                !.frozenAdd = AddAfter(t),
                !.frozenRemove = RemoveAfter(t),
                !.pendingFreezeOps = IF op = "none" THEN @ ELSE Append(@, FreezeOp[t]),
                !.minted = @ + MintedBy(t),
                !.burned = @ + BurnedBy(t)]
    /\ UNCHANGED <<chain, coins, asset, pc>>

\* The block's supply delta is applied to a copy.
SupplyOK == DeltaOK(supply, job.minted, job.burned)

CheckSupply ==
    /\ pc = "assets" /\ job.i > Len(job.block)
    /\ SupplyOK
    /\ job' = [job EXCEPT !.pendingSupply = Applied(supply, job.minted, job.burned)]
    /\ pc' = "scripts"
    /\ UNCHANGED <<chain, coins, asset>>

\* control.Wait(): the verdict of the script check threads.  A dry run returns
\* here; a real connect passes the commit point.
ScriptsPass ==
    /\ pc = "scripts"
    /\ IF job.caller = "template" THEN Abandon
       ELSE pc' = "commitOutpoint" /\ job' = job
    /\ UNCHANGED <<chain, coins, asset>>

\* Any failed check: ConnectBlock returns false and its caller drops the view.
Reject ==
    /\ \/ /\ pc = "inputs" /\ job.i <= Len(job.block)
          /\ ~CheckTxInputs(job.block[job.i], job.view, Active(job.height))
       \/ /\ pc = "assets" /\ job.i <= Len(job.block)
          /\ LET t == job.block[job.i]
             IN  ~(AuthorityOK(t) /\ FreezeOK(t) /\ SpendsOK(t))
       \/ pc = "assets" /\ job.i > Len(job.block) /\ ~SupplyOK
       \/ pc = "scripts"        \* a signature failed
    /\ Abandon
    /\ UNCHANGED <<chain, coins, asset>>

\* The commit point writes each field through, in this order.
CommitOutpoint ==
    /\ pc = "commitOutpoint"
    /\ authOutpoint' = IF job.commitOutpoint THEN job.localAuthOutpoint ELSE authOutpoint
    /\ pc' = "commitFreeze"
    /\ job' = [job EXCEPT !.i = 1]
    /\ UNCHANGED <<chain, coins, supply, frozen>>

CommitFreezeOp ==
    /\ pc = "commitFreeze" /\ job.i <= Len(job.pendingFreezeOps)
    /\ LET op == job.pendingFreezeOps[job.i]
       IN  frozen' = IF op.op = "freeze" THEN frozen \cup {op.target}
                     ELSE frozen \ {op.target}
    /\ job' = [job EXCEPT !.i = @ + 1]
    /\ UNCHANGED <<chain, coins, supply, authOutpoint, pc>>

CommitSupply ==
    /\ pc = "commitFreeze" /\ job.i > Len(job.pendingFreezeOps)
    /\ supply' = job.pendingSupply
    /\ pc' = "connected"
    /\ UNCHANGED <<chain, coins, authOutpoint, frozen, job>>

\* ConnectTip after ConnectBlock: view.Flush into pcoinsTip, then UpdateTip.
ConnectTip ==
    /\ pc = "connected" /\ job.caller = "tip"
    /\ coins' = job.view
    /\ chain' = Append(chain, job.block)
    /\ Abandon
    /\ UNCHANGED asset
-----------------------------------------------------------------------------
(* DisconnectBlock.  DisconnectTip disconnects the tip for real; VerifyDB   *)
(* disconnects the blocks down to CheckDepth below the tip in a scratch     *)
(* view, without the asset reversals (fRealDisconnect is false).            *)

BeginDisconnect(fReal) ==
    /\ pc = "idle" /\ chain # <<>>
    /\ pc' = "undoSupply"
    /\ job' = [height |-> Len(chain), fRealDisconnect |-> fReal, fClean |-> TRUE, i |-> 1,
               view |-> UndoCoins(coins, chain[Len(chain)])]
    /\ UNCHANGED <<chain, coins, asset>>

ReversingAlways == Active(job.height)   \* slip: VerifyDB's pass reverses too
Reversing == job.fRealDisconnect /\ Active(job.height)

\* The delta is recounted from the block; a refused reversal clears fClean.
UndoSupply ==
    /\ pc = "undoSupply"
    /\ LET m == Total(MintedBy, chain[job.height])
           b == Total(BurnedBy, chain[job.height])
       IN  IF Reversing
           THEN /\ supply' = Reversed(supply, m, b)
                /\ job' = [job EXCEPT !.fClean = ReversalOK(supply, m, b)]
           ELSE UNCHANGED <<supply, job>>
    /\ pc' = "undoOutpoint"
    /\ UNCHANGED <<chain, coins, authOutpoint, frozen>>

UndoOutpoint ==
    /\ pc = "undoOutpoint"
    /\ LET blk == chain[job.height]
       IN  authOutpoint' = IF Reversing /\ AuthorityTxs(blk) # {}
                           THEN RestoredOutpoint(blk, job.view) ELSE authOutpoint
    /\ pc' = "undoFreeze"
    /\ UNCHANGED <<chain, coins, supply, frozen, job>>

\* Freeze operations are inverted blindly, in block order: FREEZE becomes an
\* erase, UNFREEZE a write.
Inverted(op, x) ==
    CASE op = "freeze" -> frozen \ {x}
      [] op = "unfreeze" -> frozen \cup {x}
      [] OTHER -> frozen

UndoFreezeOp ==
    /\ pc = "undoFreeze" /\ job.i <= Len(chain[job.height])
    /\ LET t == chain[job.height][job.i]
           op == IF Reversing THEN AppliedFreezeOp(t, job.height) ELSE "none"
       IN  frozen' = Inverted(op, FreezeOp[t].target)
    /\ job' = [job EXCEPT !.i = @ + 1]
    /\ UNCHANGED <<chain, coins, supply, authOutpoint, pc>>

\* DisconnectTip keeps the view and lowers the tip only if the block undid
\* cleanly; otherwise it returns an error with the asset state reversed.
DisconnectTip ==
    /\ pc = "undoFreeze" /\ job.i > Len(chain[job.height])
    /\ job.fRealDisconnect
    /\ IF job.fClean
       THEN coins' = job.view /\ chain' = SubSeq(chain, 1, Len(chain) - 1)
       ELSE UNCHANGED <<coins, chain>>
    /\ Abandon
    /\ UNCHANGED asset

\* VerifyDB goes on to the block below in the same scratch view; at the last
\* one it drops the view or, at check level 4, connects the blocks again.
VerifyDisconnect ==
    /\ pc = "undoFreeze" /\ job.i > Len(chain[job.height])
    /\ ~job.fRealDisconnect
    /\ IF job.height > 1 /\ job.height > Len(chain) - CheckDepth
       THEN /\ pc' = "undoSupply"
            /\ job' = [job EXCEPT !.height = @ - 1, !.i = 1,
                                  !.view = UndoCoins(@, chain[job.height - 1])]
       ELSE IF CheckLevel = 4
       THEN /\ pc' = "inputs"
            /\ job' = Activation(chain[job.height], "verify", job.height, job.view)
       ELSE Abandon
    /\ UNCHANGED <<chain, coins, asset>>

VerifyReconnect ==
    /\ pc = "connected" /\ job.caller = "verify"
    /\ IF job.height < Len(chain)
       THEN /\ pc' = "inputs"
            /\ job' = Activation(chain[job.height + 1], "verify", job.height + 1, job.view)
       ELSE Abandon
    /\ UNCHANGED <<chain, coins, asset>>
-----------------------------------------------------------------------------
(* What the properties of reorganisations except, and the theorems assume.  *)

\* The deployment and the authority rules hold from the first block: the heights
\* of chainparams.cpp for testnet and regtest, where usdsoqsetauthority gives
\* the keys.  Mainnet has not scheduled the asset, stagenet began without.
RulesFromGenesis ==
    ActivationHeight <= 1 /\ EnforcementHeight <= 1 /\ InputEnforcementHeight <= 1

\* A block is plain if it moves each counter and each freeze target in one
\* direction, no transaction of it creates a second marker, and the inputs that
\* spend markers have a witness: the reversals of DisconnectBlock and the
\* tracker rely on it and ConnectBlock does not check it.
Plain(b) ==
    /\ OneDirection(b)
    /\ \A k \in DOMAIN b : OneMarker(b[k])
    /\ \A k \in DOMAIN b : \A o \in Unwitnessed[b[k]] : Kind[o] # "marker"
    /\ \A j, k \in AuthorityTxs(b) :
           LET p == FreezeOp[b[j]]
               q == FreezeOp[b[k]]
           IN  p.target = q.target => p.op = q.op \/ "none" \in {p.op, q.op}
-----------------------------------------------------------------------------
Connecting ==
    \/ \E blk \in Blocks, caller \in {"tip", "template"} : BeginConnect(blk, caller)
    \/ ConnectInputs \/ InputsDone \/ ConnectAsset \/ CheckSupply
    \/ ScriptsPass \/ Reject
    \/ CommitOutpoint \/ CommitFreezeOp \/ CommitSupply \/ ConnectTip

Disconnecting ==
    \/ \E fReal \in BOOLEAN : BeginDisconnect(fReal)
    \/ UndoSupply \/ UndoOutpoint \/ UndoFreezeOp \/ DisconnectTip
    \/ VerifyDisconnect \/ VerifyReconnect

Next ==
    /\ Connecting \/ Disconnecting
    /\ plain' = (plain /\ (pc = "commitOutpoint" => Plain(job.block)))

Spec == Init /\ [][Next]_vars
-----------------------------------------------------------------------------
(* Reference: the asset state as a function of the active chain, computed   *)
(* transaction by transaction from genesis, which is what -reindex does.    *)

ReplayTx(st, t, h) ==
    LET op == IF Active(h) THEN AppliedFreezeOp(t, h) ELSE "none"
        x == FreezeOp[t].target
    IN  [supply |-> IF Active(h)
                    THEN [minted |-> st.supply.minted + MintedBy(t),
                          burned |-> st.supply.burned + BurnedBy(t)]
                    ELSE st.supply,
         outpoint |-> IF Active(h) /\ Enforced(h) /\ Advances(t, h, st.outpoint)
                      THEN AuthorityOutput(t) ELSE st.outpoint,
         frozen |-> CASE op = "freeze" -> st.frozen \cup {x}
                      [] op = "unfreeze" -> st.frozen \ {x}
                      [] OTHER -> st.frozen]

NoAssets == [supply |-> NewSupply, outpoint |-> NoOutpoint, frozen |-> {}]

\* After each transaction of a block, and after each block of a chain.
ReplayTxs(st, blk, h) ==
    LET r[k \in 0..Len(blk)] == IF k = 0 THEN st ELSE ReplayTx(r[k - 1], blk[k], h)
    IN  r

ReplayBlock(st, blk, h) == ReplayTxs(st, blk, h)[Len(blk)]

ReplayChain(blocks) ==
    LET r[h \in 0..Len(blocks)] ==
            IF h = 0 THEN NoAssets ELSE ReplayBlock(r[h - 1], blocks[h], h)
    IN  r

Replay(blocks) == ReplayChain(blocks)[Len(blocks)]
-----------------------------------------------------------------------------
(* Properties.                                                              *)

ConnectJob ==
    [block : Blocks, caller : {"tip", "template", "verify"}, height : Nat \ {0},
     view : SUBSET Outpoints, i : Nat \ {0},
     localAuthOutpoint : Outpoints \cup {NoOutpoint}, commitOutpoint : BOOLEAN,
     frozenAdd : SUBSET (Outpoints \cup {NoOutpoint}),
     frozenRemove : SUBSET (Outpoints \cup {NoOutpoint}),
     pendingFreezeOps : Seq(FreezeOps), minted : Nat, burned : Nat,
     pendingSupply : SupplyType]
UndoJob ==
    [height : Nat \ {0}, fRealDisconnect : BOOLEAN, fClean : BOOLEAN,
     i : Nat \ {0}, view : SUBSET Outpoints]
ConnectPCs ==
    {"inputs", "assets", "scripts", "commitOutpoint", "commitFreeze", "connected"}
UndoPCs == {"undoSupply", "undoOutpoint", "undoFreeze"}

\* Type correctness of the chain, the UTXO set, the asset globals and the
\* locals of ConnectBlock and DisconnectBlock.
TypeOK ==
    /\ chain \in Seq(Blocks)
    /\ coins \in SUBSET Outpoints
    /\ supply \in SupplyType
    /\ authOutpoint \in Outpoints \cup {NoOutpoint}
    /\ frozen \in SUBSET (Outpoints \cup {NoOutpoint})
    /\ pc \in {"idle"} \cup ConnectPCs \cup UndoPCs
    /\ plain \in BOOLEAN
    /\ pc \in ConnectPCs => job \in ConnectJob
    /\ pc \in UndoPCs => job \in UndoJob /\ job.height <= Len(chain)

\* The supply counter satisfies CheckInvariant() at every point, also between
\* the individual writes of the commit point and after a reversal that the
\* counter refused half of.
SupplySane == SupplyInvariant(supply)

\* Between two block operations, of a node that has connected plain blocks only.
\* With other blocks, what Plain excludes really happens.
Settled == pc = "idle" /\ plain

\* Between block operations the outstanding supply is exactly the USDSOQ held
\* in unspent outputs, across mints, burns, transfers and reorganisations.
SupplyBacked == Settled => Outstanding(supply) = Amount(coins, {"asset"})

\* Between block operations the tracked authority outpoint is null or a marker
\* that the next authority transaction can still spend: no reorganisation,
\* rejected block or dry run wedges the issuer.
TrackerLive ==
    Settled /\ authOutpoint # NoOutpoint =>
        authOutpoint \in coins /\ Kind[authOutpoint] = "marker"

\* Between block operations every frozen outpoint is an unspent USDSOQ output:
\* no block spends a frozen coin, and disconnecting the block that created a
\* coin leaves no freeze behind for it.
FrozenLive == Settled => frozen \subseteq {o \in coins : Kind[o] = "asset"}

\* Between block operations the supply counter is what replaying the active
\* chain gives: every ConnectBlock is exactly reversed by DisconnectBlock, and
\* rejected blocks, templates and VerifyDB leave no trace in it.
SupplyIsReplay == Settled => supply = Replay(chain).supply

\* The same for the tracked authority outpoint.
OutpointIsReplay == Settled => authOutpoint = Replay(chain).outpoint

\* The same for the freeze registry.
FrozenIsReplay == Settled => frozen = Replay(chain).frozen

\* Connecting, refusing, disconnecting and dry runs of blocks, in any order,
\* leave the whole asset state equal to a replay of the active chain.  Excepted
\* are chains that had a block which is not plain: one that mints and burns, or
\* freezes and thaws one outpoint, is not reversed exactly, and an authority
\* transaction whose marker input has no witness is connected again, with its
\* mint, by VerifyDB at level 4.  Blocks that are refused need not be plain.
AssetsAreReplay == SupplyIsReplay /\ OutpointIsReplay /\ FrozenIsReplay

\* The asset state agrees with the UTXO set: the supply is what unspent outputs
\* hold, and the tracked outpoint and the frozen ones are unspent outputs.
\* Excepted as for AssetsAreReplay: after an authority transaction whose marker
\* input has no witness the tracker stays on a marker that is spent.
AssetsMatchCoins == TypeOK /\ SupplyBacked /\ TrackerLive /\ FrozenLive

\* A block, plain or not, moves the authority outpoint only by spending the
\* marker it tracked: the issuer's authority never splits into two live lineages.
TrackerNeverForks ==
    [][pc = "commitOutpoint" /\ authOutpoint' # authOutpoint =>
           authOutpoint \notin job.view]_vars

\* A block that VerifyDB disconnected from the tip passes the asset checks
\* again when check level 4 reconnects it.
VerifyReconnects ==
    pc = "assets" /\ job.caller = "verify" /\ job.i <= Len(job.block) =>
        LET t == job.block[job.i] IN AuthorityOK(t) /\ FreezeOK(t) /\ SpendsOK(t)

\* No step of a block template's dry run, whatever the block, or of VerifyDB on a
\* chain of plain blocks writes asset state: what they find out stays in their
\* scratch view.
DryRunTouchesNothing ==
    [][\/ pc \in ConnectPCs /\ job.caller = "template"
       \/ pc \in ConnectPCs /\ job.caller = "verify" /\ plain
       \/ pc \in UndoPCs /\ ~job.fRealDisconnect
       => asset' = asset]_vars
=============================================================================
