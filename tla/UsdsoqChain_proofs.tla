------------------------- MODULE UsdsoqChain_proofs -------------------------
(***************************************************************************)
(* Theorems about UsdsoqChain, for every universe of transactions, every    *)
(* set of candidate blocks and every choice of the height parameters.       *)
(***************************************************************************)
EXTENDS UsdsoqRestart, AssetTxs_proofs

\* The freeze payload of a transaction.
LEMMA FreezeTypes ==
    ASSUME NEW t \in Txs
    PROVE  FreezeOp[t] \in FreezeOps /\ FreezeOp[t].target \in Outpoints \cup {NoOutpoint}
BY ChainConstants DEF FreezeOps

\* The locals with which ConnectBlock starts are well typed.
LEMMA ActivationType ==
    ASSUME TypeOK, NEW b \in Blocks, NEW c \in {"tip", "template", "verify"},
           NEW h \in Nat \ {0}, NEW v \in SUBSET Outpoints
    PROVE  Activation(b, c, h, v) \in ConnectJob
<1>1. <<>> \in Seq(FreezeOps)
    OBVIOUS
<1>2. QED
    BY <1>1 DEF TypeOK, Activation, ConnectJob

\* The initial state is well typed and its counters are zero.
LEMMA InitTyped == Init => TypeOK /\ SupplySane
<1>1. <<>> \in Seq(Blocks)
    OBVIOUS
<1>2. QED
    BY <1>1, TxConstants, MaxMoneyAssumption
       DEF Init, TypeOK, SupplySane, SupplyInvariant, MoneyRange, Outstanding,
           NewSupply, SupplyType, ConnectPCs, UndoPCs

\* The supply to be committed is sane from the moment ConnectBlock starts.
PendingSane == pc \in ConnectPCs => SupplyInvariant(job.pendingSupply)

SafeInv == TypeOK /\ SupplySane /\ PendingSane

\* The ghost.
LEMMA GhostTyped == Next => plain' \in BOOLEAN
BY DEF Next

\* Every step of ConnectBlock, for any of its callers, keeps the types and
\* the sanity of the supply counter.
LEMMA ConnectSafe == SafeInv /\ Connecting /\ plain' \in BOOLEAN => SafeInv'
<1> SUFFICES ASSUME SafeInv, Connecting, plain' \in BOOLEAN PROVE SafeInv'
    OBVIOUS
<1> USE DEF SafeInv, PendingSane, ConnectPCs, UndoPCs
<1>1. ASSUME NEW blk \in Blocks, NEW caller \in {"tip", "template"}, BeginConnect(blk, caller)
      PROVE  SafeInv'
    <2>1. Activation(blk, caller, Len(chain) + 1, coins) \in ConnectJob
        BY <1>1, ActivationType DEF TypeOK
    <2>2. Activation(blk, caller, Len(chain) + 1, coins).pendingSupply = supply
        BY DEF Activation
    <2>3. QED
        BY <1>1, <2>1, <2>2 DEF BeginConnect, TypeOK, SupplySane, asset
<1>2. CASE ConnectInputs
    <2>1. job.block[job.i] \in Txs /\ job \in ConnectJob
        BY <1>2, BlockTx DEF ConnectInputs, TypeOK, ConnectJob
    <2> DEFINE v == Spend(job.block[job.i], job.view)
    <2>2. v \in SUBSET Outpoints
        BY <2>1, TxTypes DEF ConnectJob, Spend
    <2>3. job' \in ConnectJob /\ job'.pendingSupply = job.pendingSupply
        <3>1. job' = [job EXCEPT !.i = @ + 1, !.view = v]
            BY <1>2 DEF ConnectInputs
        <3>2. job.i + 1 \in Nat \ {0}
            BY <2>1 DEF ConnectJob
        <3> HIDE DEF v
        <3>3. QED
            BY <2>1, <2>2, <3>1, <3>2 DEF ConnectJob
    <2>4. QED
        BY <1>2, <2>3 DEF ConnectInputs, TypeOK, SupplySane, asset
<1>3. CASE InputsDone
    <2>0. job \in ConnectJob /\ job' = [job EXCEPT !.i = 1]
        BY <1>3 DEF InputsDone, TypeOK
    <2>1. job' \in ConnectJob /\ job'.pendingSupply = job.pendingSupply
        BY <2>0 DEF ConnectJob
    <2>2. pc' \in {"assets", "scripts"}
        BY <1>3 DEF InputsDone
    <2>3. QED
        BY <1>3, <2>1, <2>2 DEF InputsDone, TypeOK, SupplySane, asset
<1>4. CASE ConnectAsset
    <2> DEFINE t == job.block[job.i]
    <2>1. t \in Txs /\ job \in ConnectJob
        BY <1>4, BlockTx DEF ConnectAsset, TypeOK, ConnectJob
    <2>2. MintedBy(t) \in Nat /\ BurnedBy(t) \in Nat
        BY <2>1, DeltaNat
    <2> DEFINE l == IF Advances(t, job.height, job.localAuthOutpoint) THEN AuthorityOutput(t)
                    ELSE job.localAuthOutpoint
               c == job.commitOutpoint \/ (Enforced(job.height) /\
                                           Advances(t, job.height, job.localAuthOutpoint))
               ops == IF AppliedFreezeOp(t, job.height) = "none" THEN job.pendingFreezeOps
                      ELSE Append(job.pendingFreezeOps, FreezeOp[t])
               add == AddAfter(t)
               remove == RemoveAfter(t)
    <2>3. l \in Outpoints \cup {NoOutpoint} /\ c \in BOOLEAN
        BY <2>1, TxTypes DEF ConnectJob, Enforced, Advances
    <2>4. /\ add \in SUBSET (Outpoints \cup {NoOutpoint})
          /\ remove \in SUBSET (Outpoints \cup {NoOutpoint})
        BY <2>1, FreezeTypes DEF AddAfter, RemoveAfter, ConnectJob
    <2>5. ops \in Seq(FreezeOps)
        BY <2>1, FreezeTypes DEF ConnectJob
    <2>6. job' = [job EXCEPT !.i = @ + 1, !.localAuthOutpoint = l, !.commitOutpoint = c,
                             !.frozenAdd = add, !.frozenRemove = remove,
                             !.pendingFreezeOps = ops,
                             !.minted = @ + MintedBy(t), !.burned = @ + BurnedBy(t)]
        BY <1>4 DEF ConnectAsset
    <2> HIDE DEF l, c, ops, add, remove
    <2> DEFINE mt == job.minted + MintedBy(t)
               bt == job.burned + BurnedBy(t)
               i == job.i + 1
    <2>6a. mt \in Nat /\ bt \in Nat /\ i \in Nat \ {0}
        BY <2>1, <2>2 DEF ConnectJob
    <2>6b. job' = [job EXCEPT !.i = i, !.localAuthOutpoint = l, !.commitOutpoint = c,
                              !.frozenAdd = add, !.frozenRemove = remove,
                              !.pendingFreezeOps = ops, !.minted = mt, !.burned = bt]
        BY <2>6, Zenon
    <2> HIDE DEF mt, bt, i
    <2>7. job' \in ConnectJob /\ job'.pendingSupply = job.pendingSupply
        BY <2>1, <2>3, <2>4, <2>5, <2>6a, <2>6b DEF ConnectJob
    <2>8. QED
        BY <1>4, <2>7 DEF ConnectAsset, TypeOK, SupplySane, asset
<1>5. CASE CheckSupply
    <2>1. job \in ConnectJob /\ job.minted \in Int /\ job.burned \in Int
        BY <1>5 DEF CheckSupply, TypeOK, ConnectJob
    <2> DEFINE p == Applied(supply, job.minted, job.burned)
    <2>3. p \in SupplyType /\ SupplyInvariant(p)
        BY <2>1, DeltaSafe DEF TypeOK, SupplySane
    <2> HIDE DEF p
    <2>4. job' = [job EXCEPT !.pendingSupply = p]
        BY <1>5 DEF CheckSupply, p
    <2>5. job' \in ConnectJob /\ job'.pendingSupply = p
        BY <2>1, <2>3, <2>4 DEF ConnectJob
    <2>6. QED
        BY <1>5, <2>3, <2>5 DEF CheckSupply, TypeOK, SupplySane, asset
<1>6. CASE ScriptsPass
    BY <1>6 DEF ScriptsPass, Abandon, TypeOK, SupplySane, asset
<1>7. CASE Reject
    BY <1>7 DEF Reject, Abandon, TypeOK, SupplySane, asset
<1>8. CASE CommitOutpoint
    BY <1>8, SMTT(30) DEF CommitOutpoint, TypeOK, SupplySane, ConnectJob
<1>9. CASE CommitFreezeOp
    <2>1. job \in ConnectJob
        BY <1>9 DEF CommitFreezeOp, TypeOK
    <2>2. job.pendingFreezeOps[job.i] \in FreezeOps
        BY <1>9, <2>1 DEF CommitFreezeOp, ConnectJob
    <2>3. frozen' \in SUBSET (Outpoints \cup {NoOutpoint})
        BY <1>9, <2>2 DEF CommitFreezeOp, FreezeOps, TypeOK
    <2>4. job' \in ConnectJob /\ job'.pendingSupply = job.pendingSupply
        <3>1. job' = [job EXCEPT !.i = @ + 1] /\ job.i + 1 \in Nat \ {0}
            BY <1>9, <2>1 DEF CommitFreezeOp, ConnectJob
        <3> DEFINE k == job.i + 1
        <3>2. job' = [job EXCEPT !.i = k] /\ k \in Nat \ {0}
            BY <3>1
        <3> HIDE DEF k
        <3>3. QED
            BY <2>1, <3>2 DEF ConnectJob
    <2>5. QED
        BY <1>9, <2>3, <2>4 DEF CommitFreezeOp, TypeOK, SupplySane
<1>10. CASE CommitSupply
    BY <1>10 DEF CommitSupply, TypeOK, SupplySane, ConnectJob
<1>11. CASE ConnectTip
    <2>1. job \in ConnectJob
        BY <1>11 DEF ConnectTip, TypeOK
    <2>2. Append(chain, job.block) \in Seq(Blocks)
        BY <2>1 DEF TypeOK, ConnectJob
    <2>3. QED
        BY <1>11, <2>1, <2>2 DEF ConnectTip, Abandon, TypeOK, SupplySane, ConnectJob, asset
<1>12. QED
    BY <1>1, <1>2, <1>3, <1>4, <1>5, <1>6, <1>7, <1>8, <1>9, <1>10, <1>11 DEF Connecting

\* So does every step of DisconnectBlock, for DisconnectTip and for VerifyDB.
LEMMA DisconnectSafe == SafeInv /\ Disconnecting /\ plain' \in BOOLEAN => SafeInv'
<1> SUFFICES ASSUME SafeInv, Disconnecting, plain' \in BOOLEAN PROVE SafeInv'
    OBVIOUS
<1> USE DEF SafeInv, PendingSane, ConnectPCs, UndoPCs
<1>0. /\ Len(chain) \in Nat
      /\ \A h \in 1..Len(chain) : chain[h] \in Blocks
    BY DEF TypeOK
<1>1. ASSUME NEW fReal \in BOOLEAN, BeginDisconnect(fReal) PROVE SafeInv'
    <2>1. Len(chain) \in Nat \ {0} /\ chain[Len(chain)] \in Blocks
        BY <1>1 DEF BeginDisconnect, TypeOK
    <2>2. UndoCoins(coins, chain[Len(chain)]) \in SUBSET Outpoints
        BY <2>1, ViewTypes DEF TypeOK
    <2>3. QED
        BY <1>1, <2>1, <2>2 DEF BeginDisconnect, TypeOK, SupplySane, UndoJob, asset
<1>2. CASE UndoSupply
    <2> DEFINE m == Total(MintedBy, chain[job.height])
               b == Total(BurnedBy, chain[job.height])
    <2>1. job \in UndoJob /\ chain[job.height] \in Blocks
        BY <1>0, <1>2 DEF UndoSupply, TypeOK, UndoJob
    <2>2. m \in Int /\ b \in Int
        <3>1. m \in Nat /\ b \in Nat
            BY <2>1, BlockSums, Zenon
        <3> HIDE DEF m, b
        <3>2. QED
            BY <3>1
    <2> HIDE DEF m, b
    <2>4. Reversed(supply, m, b) \in SupplyType /\ SupplyInvariant(Reversed(supply, m, b))
        BY <2>2, DeltaSafe DEF TypeOK, SupplySane
    <2>5. supply' \in SupplyType /\ SupplyInvariant(supply')
        BY <1>2, <2>4 DEF UndoSupply, m, b, TypeOK, SupplySane
    <2>6. job' \in UndoJob /\ job'.height = job.height
        <3>1. CASE Reversing
            <4>1. ReversalOK(supply, m, b) \in BOOLEAN
                BY DEF ReversalOK
            <4>2. job' = [job EXCEPT !.fClean = ReversalOK(supply, m, b)]
                BY <1>2, <3>1, Zenon DEF UndoSupply, m, b
            <4>3. QED
                BY <2>1, <4>1, <4>2 DEF UndoJob
        <3>2. CASE ~Reversing
            BY <1>2, <2>1, <3>2 DEF UndoSupply
        <3>3. QED
            BY <3>1, <3>2
    <2>7. QED
        BY <1>2, <2>5, <2>6 DEF UndoSupply, TypeOK, SupplySane
<1>3. CASE UndoOutpoint
    <2>1. job \in UndoJob /\ chain[job.height] \in Blocks
        BY <1>0, <1>3 DEF UndoOutpoint, TypeOK, UndoJob
    <2>2. authOutpoint' \in Outpoints \cup {NoOutpoint}
        BY <1>3, <2>1, ViewTypes DEF UndoOutpoint, TypeOK, UndoJob
    <2>3. QED
        BY <1>3, <2>2 DEF UndoOutpoint, TypeOK, SupplySane
<1>4. CASE UndoFreezeOp
    <2>1. job \in UndoJob /\ chain[job.height] \in Blocks
        BY <1>0, <1>4 DEF UndoFreezeOp, TypeOK, UndoJob
    <2>2. chain[job.height][job.i] \in Txs
        BY <1>4, <2>1, BlockTx DEF UndoFreezeOp, UndoJob
    <2>3. FreezeOp[chain[job.height][job.i]].target \in Outpoints \cup {NoOutpoint}
        BY <2>2, FreezeTypes
    <2>4. frozen' \in SUBSET (Outpoints \cup {NoOutpoint})
        BY <1>4, <2>3 DEF UndoFreezeOp, Inverted, TypeOK
    <2>5. job' \in UndoJob /\ job'.height = job.height
        BY <1>4, <2>1 DEF UndoFreezeOp, UndoJob
    <2>6. QED
        BY <1>4, <2>4, <2>5 DEF UndoFreezeOp, TypeOK, SupplySane
<1>5. CASE DisconnectTip
    <2>1. job \in UndoJob
        BY <1>5 DEF DisconnectTip, TypeOK
    <2>2. SubSeq(chain, 1, Len(chain) - 1) \in Seq(Blocks)
        BY <1>0, <2>1 DEF TypeOK, UndoJob
    <2>3. QED
        BY <1>5, <2>1, <2>2 DEF DisconnectTip, Abandon, TypeOK, SupplySane, UndoJob, asset
<1>6. CASE VerifyDisconnect
    <2>1. job \in UndoJob /\ job.height \in 1..Len(chain)
        BY <1>6 DEF VerifyDisconnect, TypeOK, UndoJob
    <2>2. CASE job.height > 1 /\ job.height > Len(chain) - CheckDepth
        <3>1. chain[job.height - 1] \in Blocks
            BY <1>0, <2>1, <2>2
        <3>2. UndoCoins(job.view, chain[job.height - 1]) \in SUBSET Outpoints
            BY <2>1, <3>1, ViewTypes DEF UndoJob
        <3> DEFINE v == UndoCoins(job.view, chain[job.height - 1])
                   h == job.height - 1
        <3>3. job' \in UndoJob /\ job'.height = job.height - 1
            <4>1. job' = [job EXCEPT !.height = h, !.i = 1, !.view = v]
                BY <1>6, <2>2, Zenon DEF VerifyDisconnect
            <4>2. h \in Nat \ {0}
                BY <2>1, <2>2
            <4>3. v \in SUBSET Outpoints
                BY <3>2
            <4>4. job \in UndoJob
                BY <2>1
            <4> HIDE DEF h, v
            <4>5. job'.height = h
                BY <4>1, <4>4 DEF UndoJob
            <4>6. job' \in UndoJob
                <5> DEFINE j == [job EXCEPT !.height = h, !.view = v]
                <5>1. j \in UndoJob
                    BY <4>2, <4>3, <4>4 DEF UndoJob
                <5>2. job' = [j EXCEPT !.i = 1]
                    BY <4>1, <4>4 DEF UndoJob
                <5> HIDE DEF j
                <5>3. QED
                    BY <5>1, <5>2 DEF UndoJob
            <4>7. QED
                BY <4>5, <4>6 DEF h
        <3>4. QED
            BY <1>6, <2>1, <2>2, <3>3 DEF VerifyDisconnect, TypeOK, SupplySane, asset
    <2>3. CASE ~(job.height > 1 /\ job.height > Len(chain) - CheckDepth)
        <3> DEFINE a == Activation(chain[job.height], "verify", job.height, job.view)
        <3>1. a \in ConnectJob
            BY <1>0, <2>1, ActivationType DEF UndoJob
        <3>2. a.pendingSupply = supply
            BY DEF Activation
        <3> HIDE DEF a
        <3>3. (pc' = "inputs" /\ job' = a) \/ (pc' = "idle" /\ job' = <<>>)
            BY <1>6, <2>3 DEF VerifyDisconnect, Abandon, a
        <3>4. QED
            BY <1>6, <3>1, <3>2, <3>3 DEF VerifyDisconnect, TypeOK, SupplySane, asset
    <2>4. QED
        BY <2>2, <2>3
<1>7. CASE VerifyReconnect
    <2> DEFINE a == Activation(chain[job.height + 1], "verify", job.height + 1, job.view)
    <2>1. job \in ConnectJob
        BY <1>7 DEF VerifyReconnect, TypeOK
    <2>2. ASSUME job.height < Len(chain) PROVE a \in ConnectJob
        BY <1>0, <2>1, <2>2, ActivationType DEF ConnectJob
    <2>3. a.pendingSupply = supply
        BY DEF Activation
    <2> HIDE DEF a
    <2>4. \/ pc' = "inputs" /\ job' = a /\ job.height < Len(chain)
          \/ pc' = "idle" /\ job' = <<>>
        BY <1>7 DEF VerifyReconnect, Abandon, a
    <2>5. QED
        BY <1>7, <2>2, <2>3, <2>4 DEF VerifyReconnect, TypeOK, SupplySane, asset
<1>8. QED
    BY <1>1, <1>2, <1>3, <1>4, <1>5, <1>6, <1>7 DEF Disconnecting

\* TypeOK holds in every reachable state, and so does CheckInvariant() of the
\* supply counter: no order of connects, rejected blocks, dry runs, verification
\* passes and reorganisations, clean or not, makes it negative or over MAX_MONEY.
THEOREM SupplySafe == Spec => [](TypeOK /\ SupplySane)
<1>1. Init => SafeInv
    BY InitTyped DEF SafeInv, PendingSane, Init, ConnectPCs
<1>2. SafeInv /\ [Next]_vars => SafeInv'
    <2>1. SafeInv /\ Next => SafeInv'
        BY ConnectSafe, DisconnectSafe, GhostTyped DEF Next
    <2>2. SafeInv /\ UNCHANGED vars => SafeInv'
        BY DEF SafeInv, PendingSane, TypeOK, SupplySane, vars
    <2>3. QED
        BY <2>1, <2>2
<1>3. SafeInv => TypeOK /\ SupplySane
    BY DEF SafeInv
<1>4. QED
    BY <1>1, <1>2, <1>3, PTL DEF Spec
-----------------------------------------------------------------------------
(* The UTXO set.  The view of every block operation is the one of the chain *)
(* below its block, advanced by the transactions it has been through.       *)

Upto == IF pc = "inputs" THEN job.i - 1 ELSE Len(job.block)

ConnectView ==
    /\ job.height <= Len(chain) + 1
    /\ job.caller = "verify" => job.height <= Len(chain) /\ job.block = chain[job.height]
    /\ job.caller # "verify" => job.height = Len(chain) + 1
    /\ Upto <= Len(job.block)
    /\ job.view = ViewAt(CoinsAt(chain, job.height - 1), job.block, Upto)
    /\ Fits(CoinsAt(chain, job.height - 1), job.block, Upto)

UndoView ==
    /\ job.view = CoinsAt(chain, job.height - 1)
    /\ job.fRealDisconnect => job.height = Len(chain)

CoinsInv ==
    /\ Linear(chain)
    /\ coins = CoinsAt(chain, Len(chain))
    /\ pc \in ConnectPCs => ConnectView
    /\ pc \in UndoPCs => UndoView

\* The steps that leave block, height, caller and view alone.
Keeps ==
    /\ job'.block = job.block /\ job'.height = job.height
    /\ job'.caller = job.caller /\ job'.view = job.view

LEMMA KeepView ==
    ASSUME CoinsInv, pc \in ConnectPCs \ {"inputs"}, pc' \in ConnectPCs \ {"inputs"},
           chain' = chain, coins' = coins, Keeps
    PROVE  CoinsInv'
<1>1. Upto = Len(job.block) /\ Upto' = Len(job.block)
    BY DEF Upto, Keeps
<1>2. ConnectView
    BY DEF CoinsInv
<1>3. ConnectView'
    BY <1>1, <1>2 DEF ConnectView, Keeps
<1>4. QED
    BY <1>3 DEF CoinsInv, ConnectPCs, UndoPCs

LEMMA AbandonView ==
    ASSUME CoinsInv, pc' = "idle", chain' = chain, coins' = coins
    PROVE  CoinsInv'
BY DEF CoinsInv, ConnectPCs, UndoPCs

LEMMA ActivationView ==
    ASSUME CoinsInv, pc' = "inputs", chain' = chain, coins' = coins,
           NEW b \in Blocks, NEW c, NEW h \in Nat \ {0}, NEW v,
           job' = Activation(b, c, h, v), v = CoinsAt(chain, h - 1),
           h <= Len(chain) + 1, Len(chain) \in Nat,
           c = "verify" => h <= Len(chain) /\ b = chain[h],
           c # "verify" => h = Len(chain) + 1
    PROVE  CoinsInv'
<1> DEFINE j == Activation(b, c, h, v)
<1>1. j.block = b /\ j.caller = c /\ j.height = h /\ j.view = v /\ j.i = 1
    BY DEF Activation
<1> HIDE DEF j
<1>2. job' = j
    BY DEF j
<1>3. Upto' = 0 /\ 0 <= Len(b)
    <2>1. Len(b) \in Nat
        BY TxConstants
    <2>2. QED
        BY <1>1, <1>2, <2>1 DEF Upto
<1>4. v = ViewAt(v, b, 0) /\ Fits(v, b, 0)
    BY ViewStart
<1>5. ConnectView'
    BY <1>1, <1>2, <1>3, <1>4 DEF ConnectView
<1>6. QED
    BY <1>5 DEF CoinsInv, ConnectPCs, UndoPCs

LEMMA ConnectCoins == TypeOK /\ CoinsInv /\ Connecting => CoinsInv'
<1> SUFFICES ASSUME TypeOK, CoinsInv, Connecting PROVE CoinsInv'
    OBVIOUS
<1>0. chain \in Seq(Blocks) /\ Len(chain) \in Nat
    BY DEF TypeOK
<1>1. ASSUME NEW blk \in Blocks, NEW caller \in {"tip", "template"}, BeginConnect(blk, caller)
      PROVE  CoinsInv'
    <2> DEFINE h == Len(chain) + 1
    <2>1. h \in Nat \ {0} /\ h - 1 = Len(chain) /\ h <= Len(chain) + 1
        BY <1>0
    <2>2. /\ pc' = "inputs" /\ chain' = chain /\ coins' = coins
          /\ job' = Activation(blk, caller, h, coins)
        BY <1>1 DEF BeginConnect
    <2>3. coins = CoinsAt(chain, h - 1)
        BY <2>1 DEF CoinsInv
    <2>4. caller # "verify" /\ h = Len(chain) + 1
        BY <1>1
    <2> HIDE DEF h
    <2>5. QED
        BY <1>0, <2>1, <2>2, <2>3, <2>4, ActivationView
<1>2. CASE ConnectInputs
    <2> DEFINE b == job.block
               m == job.i - 1
               n == job.height - 1
               v == CoinsAt(chain, n)
    <2>1. job \in ConnectJob /\ job.i <= Len(b) /\ pc = "inputs" /\ pc' = "inputs"
        BY <1>2 DEF ConnectInputs, TypeOK, ConnectPCs
    <2>2. b \in Blocks /\ Len(b) \in Nat /\ job.i \in Nat \ {0} /\ job.height \in Nat \ {0}
        BY <2>1, TxConstants DEF ConnectJob
    <2>3. ConnectView /\ Linear(chain)
        BY <2>1 DEF CoinsInv, ConnectPCs
    <2>4. m \in Nat /\ m < Len(b) /\ m + 1 = job.i /\ n \in 0..Len(chain) /\ Upto = m
        BY <1>0, <2>1, <2>2, <2>3 DEF ConnectView, Upto
    <2>5. job.view = ViewAt(v, b, m) /\ Fits(v, b, m)
        BY <2>3, <2>4 DEF ConnectView
    <2>6. Ins(b[job.i]) # {} /\ Ins(b[job.i]) \subseteq job.view
        BY <1>2 DEF ConnectInputs, CheckTxInputs
    <2>7. /\ Spend(b[job.i], job.view) = ViewAt(v, b, m + 1)
          /\ Fits(v, b, m + 1)
        <3> HIDE DEF b, m, n
        <3>1. QED
            BY <1>0, <2>2, <2>3, <2>4, <2>5, <2>6, SpendView
    <2>8. job' = [job EXCEPT !.i = job.i + 1, !.view = Spend(b[job.i], job.view)]
        BY <1>2 DEF ConnectInputs
    <2>9. /\ job'.block = b /\ job'.height = job.height /\ job'.caller = job.caller
          /\ job'.i = job.i + 1 /\ job'.view = Spend(b[job.i], job.view)
        BY <2>1, <2>8 DEF ConnectJob
    <2>10. Upto' = m + 1 /\ m + 1 <= Len(b)
        BY <2>1, <2>2, <2>9 DEF Upto
    <2>11. chain' = chain /\ coins' = coins
        BY <1>2 DEF ConnectInputs
    <2>12. ConnectView'
        <3> HIDE DEF m
        <3>1. QED
            BY <2>3, <2>7, <2>9, <2>10, <2>11 DEF ConnectView
    <2>13. QED
        BY <2>1, <2>11, <2>12 DEF CoinsInv, ConnectPCs, UndoPCs
<1>3. CASE InputsDone
    <2>1. job \in ConnectJob /\ job.i > Len(job.block) /\ pc = "inputs" /\ pc' \in ConnectPCs \ {"inputs"}
        BY <1>3 DEF InputsDone, TypeOK, ConnectPCs
    <2>2. Len(job.block) \in Nat /\ job.i \in Nat
        BY <2>1, TxConstants DEF ConnectJob
    <2>3. ConnectView
        BY <2>1 DEF CoinsInv, ConnectPCs
    <2>4. Upto = Len(job.block)
        BY <2>1, <2>2, <2>3 DEF ConnectView, Upto
    <2>5. Keeps /\ chain' = chain /\ coins' = coins
        BY <1>3, <2>1 DEF InputsDone, ConnectJob, Keeps
    <2>6. Upto' = Len(job.block)
        BY <2>1, <2>5 DEF Upto, Keeps
    <2>7. ConnectView'
        BY <2>3, <2>4, <2>5, <2>6 DEF ConnectView, Keeps
    <2>8. QED
        BY <2>1, <2>5, <2>7 DEF CoinsInv, ConnectPCs, UndoPCs
<1>4. CASE ConnectAsset \/ CheckSupply \/ CommitOutpoint \/ CommitFreezeOp \/ CommitSupply
    <2>1. job \in ConnectJob /\ pc \in ConnectPCs \ {"inputs"}
        BY <1>4 DEF ConnectAsset, CheckSupply, CommitOutpoint, CommitFreezeOp, CommitSupply, TypeOK, ConnectPCs
    <2>2. pc' \in ConnectPCs \ {"inputs"} /\ chain' = chain /\ coins' = coins
        BY <1>4 DEF ConnectAsset, CheckSupply, CommitOutpoint, CommitFreezeOp, CommitSupply, ConnectPCs
    <2>3. Keeps
        <3>1. CASE ConnectAsset
            BY <2>1, <3>1 DEF ConnectAsset, ConnectJob, Keeps
        <3>2. CASE CheckSupply
            BY <2>1, <3>2 DEF CheckSupply, ConnectJob, Keeps
        <3>3. CASE CommitOutpoint \/ CommitFreezeOp \/ CommitSupply
            BY <2>1, <3>3 DEF CommitOutpoint, CommitFreezeOp, CommitSupply, ConnectJob, Keeps
        <3>4. QED
            BY <1>4, <3>1, <3>2, <3>3
    <2>4. QED
        BY <2>1, <2>2, <2>3, KeepView
<1>5. CASE ScriptsPass
    <2>1. CASE job.caller = "template"
        BY <1>5, <2>1, AbandonView DEF ScriptsPass, Abandon
    <2>2. CASE job.caller # "template"
        <3>1. pc \in ConnectPCs \ {"inputs"} /\ pc' \in ConnectPCs \ {"inputs"} /\ Keeps
            BY <1>5, <2>2 DEF ScriptsPass, ConnectPCs, Keeps
        <3>2. QED
            BY <1>5, <3>1, KeepView DEF ScriptsPass
    <2>3. QED
        BY <2>1, <2>2
<1>6. CASE Reject
    BY <1>6, AbandonView DEF Reject, Abandon
<1>7. CASE ConnectTip
    <2> DEFINE b == job.block
    <2>1. pc = "connected" /\ job \in ConnectJob /\ job.caller # "verify"
        BY <1>7 DEF ConnectTip, TypeOK, ConnectPCs
    <2>2. ConnectView /\ Upto = Len(b) /\ Linear(chain)
        BY <2>1 DEF CoinsInv, ConnectPCs, Upto
    <2>3. b \in Blocks /\ job.height - 1 = Len(chain)
        BY <1>0, <2>1, <2>2 DEF ConnectJob, ConnectView
    <2>4. job.view = ViewAt(CoinsAt(chain, Len(chain)), b, Len(b)) /\ Fits(CoinsAt(chain, Len(chain)), b, Len(b))
        BY <2>2, <2>3 DEF ConnectView
    <2>5. chain' = Append(chain, b) /\ coins' = job.view /\ pc' = "idle"
        BY <1>7 DEF ConnectTip, Abandon
    <2> HIDE DEF b
    <2>6. Linear(chain') /\ CoinsAt(chain', Len(chain')) = ViewAt(CoinsAt(chain, Len(chain)), b, Len(b))
        BY <1>0, <2>2, <2>3, <2>4, <2>5, LinearAppend
    <2>7. QED
        BY <2>4, <2>5, <2>6 DEF CoinsInv, ConnectPCs, UndoPCs
<1>8. QED
    BY <1>1, <1>2, <1>3, <1>4, <1>5, <1>6, <1>7 DEF Connecting

LEMMA DisconnectCoins == TypeOK /\ CoinsInv /\ Disconnecting => CoinsInv'
<1> SUFFICES ASSUME TypeOK, CoinsInv, Disconnecting PROVE CoinsInv'
    OBVIOUS
<1>0. chain \in Seq(Blocks) /\ Len(chain) \in Nat /\ Linear(chain)
    BY DEF TypeOK, CoinsInv
<1>a. ASSUME NEW h \in 1..Len(chain)
      PROVE  UndoCoins(CoinsAt(chain, h), chain[h]) = CoinsAt(chain, h - 1)
    <2> DEFINE n == h - 1
    <2>1. n \in Nat /\ n < Len(chain) /\ n + 1 = h
        BY <1>0
    <2> HIDE DEF n
    <2>2. UndoCoins(CoinsAt(chain, n + 1), chain[n + 1]) = CoinsAt(chain, n)
        BY <1>0, <2>1, ViewEnd
    <2>3. QED
        BY <2>1, <2>2 DEF n
<1>1. ASSUME NEW fReal \in BOOLEAN, BeginDisconnect(fReal) PROVE CoinsInv'
    <2>1. Len(chain) \in 1..Len(chain)
        BY <1>0, <1>1 DEF BeginDisconnect
    <2>2. /\ pc' = "undoSupply" /\ chain' = chain /\ coins' = coins
          /\ job'.height = Len(chain) /\ job'.view = UndoCoins(coins, chain[Len(chain)])
        BY <1>1 DEF BeginDisconnect
    <2>3. UndoView'
        BY <1>a, <2>1, <2>2 DEF UndoView, CoinsInv
    <2>4. QED
        BY <2>2, <2>3 DEF CoinsInv, ConnectPCs, UndoPCs
<1>2. CASE UndoSupply \/ UndoOutpoint \/ UndoFreezeOp
    <2>1. pc \in UndoPCs /\ job \in UndoJob
        BY <1>2 DEF UndoSupply, UndoOutpoint, UndoFreezeOp, TypeOK, UndoPCs
    <2>2. pc' \in UndoPCs /\ chain' = chain /\ coins' = coins
        BY <1>2 DEF UndoSupply, UndoOutpoint, UndoFreezeOp, UndoPCs
    <2>3. job'.height = job.height /\ job'.view = job.view /\ job'.fRealDisconnect = job.fRealDisconnect
        <3>1. CASE UndoSupply /\ Reversing
            <4>1. PICK f : job' = [job EXCEPT !.fClean = f]
                BY <3>1 DEF UndoSupply
            <4>2. QED
                BY <2>1, <4>1 DEF UndoJob
        <3>2. CASE UndoSupply /\ ~Reversing
            BY <3>2 DEF UndoSupply
        <3>3. CASE UndoOutpoint
            BY <3>3 DEF UndoOutpoint
        <3>4. CASE UndoFreezeOp
            BY <2>1, <3>4 DEF UndoFreezeOp, UndoJob
        <3>5. QED
            BY <1>2, <3>1, <3>2, <3>3, <3>4
    <2>4. UndoView'
        BY <2>1, <2>2, <2>3 DEF CoinsInv, UndoView
    <2>5. QED
        BY <2>2, <2>4 DEF CoinsInv, ConnectPCs, UndoPCs
<1>3. CASE DisconnectTip
    <2>1. CASE job.fClean
        <3>1. pc = "undoFreeze" /\ job.fRealDisconnect /\ job \in UndoJob /\ job.height <= Len(chain)
            BY <1>3 DEF DisconnectTip, TypeOK, UndoPCs
        <3>2. UndoView
            BY <3>1 DEF CoinsInv, UndoPCs
        <3>3. job.height = Len(chain) /\ Len(chain) >= 1
            BY <3>1, <3>2 DEF UndoView, UndoJob
        <3>4. chain # <<>>
            BY <3>3
        <3>5. pc' = "idle" /\ coins' = job.view /\ chain' = SubSeq(chain, 1, Len(chain) - 1)
            BY <1>3, <2>1 DEF DisconnectTip, Abandon
        <3>6. /\ Len(chain') = Len(chain) - 1 /\ Len(chain') \in Nat
              /\ \A n \in 0..Len(chain') : CoinsAt(chain', n) = CoinsAt(chain, n)
              /\ Linear(chain')
            BY <1>0, <3>4, <3>5, LinearFront
        <3>7. CoinsAt(chain', Len(chain')) = CoinsAt(chain, Len(chain) - 1)
            BY <3>6
        <3>8. QED
            BY <3>2, <3>3, <3>5, <3>6, <3>7 DEF CoinsInv, UndoView, ConnectPCs, UndoPCs
    <2>2. CASE ~job.fClean
        BY <1>3, <2>2, AbandonView DEF DisconnectTip, Abandon
    <2>3. QED
        BY <2>1, <2>2
<1>4. CASE VerifyDisconnect
    <2>1. pc = "undoFreeze" /\ ~job.fRealDisconnect /\ job \in UndoJob /\ job.height \in 1..Len(chain)
        BY <1>4 DEF VerifyDisconnect, TypeOK, UndoPCs, UndoJob
    <2>2. UndoView /\ chain' = chain /\ coins' = coins
        BY <1>4, <2>1 DEF CoinsInv, UndoPCs, VerifyDisconnect
    <2>3. CASE job.height > 1 /\ job.height > Len(chain) - CheckDepth
        <3> DEFINE h == job.height - 1
                   w == UndoCoins(job.view, chain[h])
        <3>1. h \in 1..Len(chain)
            BY <1>0, <2>1, <2>3
        <3>2. pc' = "undoSupply" /\ job' = [job EXCEPT !.height = h, !.i = 1, !.view = w]
            BY <1>4, <2>3 DEF VerifyDisconnect
        <3>3. w = CoinsAt(chain, h - 1)
            BY <1>a, <2>2, <3>1 DEF UndoView
        <3> HIDE DEF h, w
        <3>4. job'.height = h /\ job'.view = w /\ ~job'.fRealDisconnect
            BY <2>1, <3>2 DEF UndoJob
        <3>5. UndoView'
            BY <2>2, <3>3, <3>4 DEF UndoView
        <3>6. QED
            BY <2>2, <3>2, <3>5 DEF CoinsInv, ConnectPCs, UndoPCs
    <2>4. CASE ~(job.height > 1 /\ job.height > Len(chain) - CheckDepth) /\ CheckLevel = 4
        <3> DEFINE h == job.height
        <3>1. pc' = "inputs" /\ job' = Activation(chain[h], "verify", h, job.view)
            BY <1>4, <2>4 DEF VerifyDisconnect
        <3>2. h \in Nat \ {0} /\ h <= Len(chain) /\ h <= Len(chain) + 1 /\ chain[h] \in Blocks
            BY <1>0, <2>1
        <3>3. job.view = CoinsAt(chain, h - 1)
            BY <2>2 DEF UndoView
        <3> HIDE DEF h
        <3>4. QED
            BY <1>0, <2>2, <3>1, <3>2, <3>3, ActivationView
    <2>5. CASE ~(job.height > 1 /\ job.height > Len(chain) - CheckDepth) /\ CheckLevel # 4
        BY <1>4, <2>5, AbandonView DEF VerifyDisconnect, Abandon
    <2>6. QED
        BY <2>3, <2>4, <2>5
<1>5. CASE VerifyReconnect
    <2>1. pc = "connected" /\ job.caller = "verify" /\ job \in ConnectJob /\ chain' = chain /\ coins' = coins
        BY <1>5 DEF VerifyReconnect, TypeOK, ConnectPCs
    <2>2. ConnectView /\ Upto = Len(job.block)
        BY <2>1 DEF CoinsInv, ConnectPCs, Upto
    <2>3. job.height \in 1..Len(chain) /\ job.block = chain[job.height]
        BY <1>0, <2>1, <2>2 DEF ConnectView, ConnectJob
    <2>4. CASE job.height < Len(chain)
        <3> DEFINE n == job.height - 1
                   h == job.height + 1
        <3>1. pc' = "inputs" /\ job' = Activation(chain[h], "verify", h, job.view)
            BY <1>5, <2>4 DEF VerifyReconnect
        <3>2. h \in Nat \ {0} /\ h <= Len(chain) /\ h <= Len(chain) + 1 /\ chain[h] \in Blocks
            BY <1>0, <2>3, <2>4
        <3>3. n \in Nat /\ n < Len(chain) /\ n + 1 = job.height /\ h - 1 = job.height
            BY <1>0, <2>3
        <3>4. job.view = ViewAt(CoinsAt(chain, n), chain[n + 1], Len(chain[n + 1]))
            BY <2>2, <2>3, <3>3 DEF ConnectView
        <3>5. @ = CoinsAt(chain, n + 1)
            <4> HIDE DEF n
            <4>1. QED
                BY <1>0, <3>3, ViewEnd
        <3>6. job.view = CoinsAt(chain, h - 1)
            BY <3>3, <3>4, <3>5
        <3> HIDE DEF h, n
        <3>7. QED
            BY <1>0, <2>1, <3>1, <3>2, <3>6, ActivationView
    <2>5. CASE ~(job.height < Len(chain))
        BY <1>5, <2>5, AbandonView DEF VerifyReconnect, Abandon
    <2>6. QED
        BY <2>4, <2>5
<1>6. QED
    BY <1>1, <1>2, <1>3, <1>4, <1>5 DEF Disconnecting

LEMMA StartCoins == Init => CoinsInv
<1>1. Linear(<<>>) /\ CoinsAt(<<>>, 0) = GenesisCoins /\ Len(<<>>) = 0
    BY ChainStep DEF Linear, CoinsAt
<1>2. QED
    BY <1>1 DEF Init, CoinsInv, ConnectPCs, UndoPCs
-----------------------------------------------------------------------------
(* The reference replay, step by step.                                      *)

ReplayState ==
    [supply : [minted : Nat, burned : Nat], outpoint : Outpoints \cup {NoOutpoint},
     frozen : SUBSET (Outpoints \cup {NoOutpoint})]

LEMMA ReplayTxType ==
    ASSUME NEW st \in ReplayState, NEW t \in Txs, NEW h
    PROVE  ReplayTx(st, t, h) \in ReplayState
<1> DEFINE s == IF Active(h) THEN [minted |-> st.supply.minted + MintedBy(t),
                                   burned |-> st.supply.burned + BurnedBy(t)]
                ELSE st.supply
           o == IF Active(h) /\ Enforced(h) /\ Advances(t, h, st.outpoint)
                THEN AuthorityOutput(t) ELSE st.outpoint
           op == IF Active(h) THEN AppliedFreezeOp(t, h) ELSE "none"
           x == FreezeOp[t].target
           f == CASE op = "freeze" -> st.frozen \cup {x}
                  [] op = "unfreeze" -> st.frozen \ {x}
                  [] OTHER -> st.frozen
<1>1. s \in [minted : Nat, burned : Nat]
    BY DeltaNat DEF ReplayState
<1>2. o \in Outpoints \cup {NoOutpoint}
    BY TxTypes DEF ReplayState, Advances
<1>3. f \in SUBSET (Outpoints \cup {NoOutpoint})
    <2>1. x \in Outpoints \cup {NoOutpoint} /\ st.frozen \in SUBSET (Outpoints \cup {NoOutpoint})
        BY FreezeTypes DEF ReplayState
    <2> HIDE DEF x, op
    <2>2. QED
        BY <2>1
<1>4. ReplayTx(st, t, h) = [supply |-> s, outpoint |-> o, frozen |-> f]
    BY DEF ReplayTx
<1> HIDE DEF s, o, f
<1>5. QED
    BY <1>1, <1>2, <1>3, <1>4 DEF ReplayState

IsReplay(st, b, h, r) ==
    r = [k \in 0..Len(b) |-> IF k = 0 THEN st ELSE ReplayTx(r[k - 1], b[k], h)]

LEMMA TxsReplayed ==
    ASSUME NEW st \in ReplayState, NEW b \in Blocks, NEW h
    PROVE  /\ ReplayTxs(st, b, h) \in [0..Len(b) -> ReplayState]
           /\ ReplayTxs(st, b, h)[0] = st
           /\ \A k \in 1..Len(b) : ReplayTxs(st, b, h)[k] = ReplayTx(ReplayTxs(st, b, h)[k - 1], b[k], h)
<1> DEFINE n == Len(b)
           F == [p \in ReplayState \X (1..n) |-> ReplayTx(p[1], b[p[2]], h)]
           R == ReplayTxs(st, b, h)
<1>1. n \in Nat
    BY TxConstants
<1>2. F \in [ReplayState \X (1..n) -> ReplayState]
    BY BlockTx, ReplayTxType
<1>3. PICK r \in [0..n -> ReplayState] : r[0] = st /\ \A k \in 1..n : r[k] = F[<<r[k - 1], k>>]
    <2> HIDE DEF F, n
    <2>1. StepFunction(n, ReplayState, F)
        BY <1>2 DEF StepFunction
    <2>2. \E r : Iterates(n, ReplayState, st, F, r)
        BY <1>1, <2>1, IterationExists
    <2>3. QED
        BY <2>2, Zenon DEF Iterates
<1>4. \A k \in 1..n : k - 1 \in 0..n /\ k # 0 /\ k \in 0..n
    BY <1>1
<1>5. \A k \in 1..n : r[k] = ReplayTx(r[k - 1], b[k], h)
    BY <1>3, <1>4
<1>6. IsReplay(st, b, h, r)
    <2>1. \A k \in 0..n : r[k] = IF k = 0 THEN st ELSE ReplayTx(r[k - 1], b[k], h)
        BY <1>1, <1>3, <1>5
    <2>2. r = [k \in 0..n |-> r[k]]
        BY <1>3
    <2>3. QED
        BY <2>1, <2>2 DEF IsReplay
<1>7. R = CHOOSE q : IsReplay(st, b, h, q)
    BY Zenon DEF ReplayTxs, IsReplay
<1>8. IsReplay(st, b, h, R)
    BY <1>6, <1>7, Zenon
<1> HIDE DEF R
<1>9. R[0] = st /\ \A k \in 1..n : R[k] = ReplayTx(R[k - 1], b[k], h)
    <2>1. \A k \in 0..n : R[k] = IF k = 0 THEN st ELSE ReplayTx(R[k - 1], b[k], h)
        BY <1>8, Zenon DEF IsReplay
    <2>2. 0 \in 0..n
        BY <1>1
    <2>3. QED
        BY <1>4, <2>1, <2>2
<1>10. R \in [0..n -> ReplayState]
    <2> DEFINE P == {k \in 0..n : R[k] \in ReplayState}
    <2>1. 0 \in P
        BY <1>1, <1>9
    <2>2. ASSUME NEW k \in 1..n, k - 1 \in P PROVE k \in P
        <3>1. R[k - 1] \in ReplayState /\ b[k] \in Txs
            BY <2>2, BlockTx
        <3>2. R[k] \in ReplayState
            BY <1>9, <3>1, ReplayTxType
        <3>3. QED
            BY <1>4, <3>2
    <2>3. \A k \in 0..n : k \in P
        <3> HIDE DEF P
        <3>1. QED
            BY <1>1, <2>1, <2>2, IntervalInduction
    <2>4. R = [k \in 0..n |-> R[k]]
        BY <1>8 DEF IsReplay
    <2>5. QED
        BY <2>3, <2>4
<1>11. QED
    BY <1>9, <1>10 DEF R

IsChainReplay(c, r) ==
    r = [h \in 0..Len(c) |-> IF h = 0 THEN NoAssets ELSE ReplayBlock(r[h - 1], c[h], h)]

LEMMA ChainReplayed ==
    ASSUME NEW c \in Seq(Blocks)
    PROVE  /\ ReplayChain(c) \in [0..Len(c) -> ReplayState]
           /\ ReplayChain(c)[0] = NoAssets
           /\ \A h \in 1..Len(c) : ReplayChain(c)[h] = ReplayBlock(ReplayChain(c)[h - 1], c[h], h)
<1> DEFINE n == Len(c)
           F == [p \in ReplayState \X (1..n) |-> ReplayBlock(p[1], c[p[2]], p[2])]
           R == ReplayChain(c)
<1>1. n \in Nat /\ \A h \in 1..n : c[h] \in Blocks
    OBVIOUS
<1>2. ASSUME NEW st \in ReplayState, NEW h \in 1..n PROVE ReplayBlock(st, c[h], h) \in ReplayState
    <2>1. c[h] \in Blocks /\ Len(c[h]) \in 0..Len(c[h])
        BY ChainTx
    <2>2. ReplayTxs(st, c[h], h) \in [0..Len(c[h]) -> ReplayState]
        BY <2>1, TxsReplayed
    <2>3. QED
        BY <2>1, <2>2 DEF ReplayBlock
<1>3. F \in [ReplayState \X (1..n) -> ReplayState]
    BY <1>2
<1>4. NoAssets \in ReplayState
    BY DEF NoAssets, ReplayState, NewSupply
<1>5. PICK r \in [0..n -> ReplayState] : r[0] = NoAssets /\ \A k \in 1..n : r[k] = F[<<r[k - 1], k>>]
    <2> HIDE DEF F, n
    <2>1. StepFunction(n, ReplayState, F)
        BY <1>3 DEF StepFunction
    <2>2. \E r : Iterates(n, ReplayState, NoAssets, F, r)
        BY <1>1, <1>4, <2>1, IterationExists
    <2>3. QED
        BY <2>2, Zenon DEF Iterates
<1>6. \A k \in 1..n : k - 1 \in 0..n /\ k # 0 /\ k \in 0..n
    BY <1>1
<1>7. \A k \in 1..n : r[k] = ReplayBlock(r[k - 1], c[k], k)
    BY <1>5, <1>6
<1>8. IsChainReplay(c, r)
    <2>1. \A k \in 0..n : r[k] = IF k = 0 THEN NoAssets ELSE ReplayBlock(r[k - 1], c[k], k)
        BY <1>1, <1>5, <1>7
    <2>2. r = [k \in 0..n |-> r[k]]
        BY <1>5
    <2>3. QED
        BY <2>1, <2>2 DEF IsChainReplay
<1>9. R = CHOOSE q : IsChainReplay(c, q)
    BY Zenon DEF ReplayChain, IsChainReplay
<1>10. IsChainReplay(c, R)
    BY <1>8, <1>9, Zenon
<1> HIDE DEF R
<1>11. R[0] = NoAssets /\ \A k \in 1..n : R[k] = ReplayBlock(R[k - 1], c[k], k)
    <2>1. \A k \in 0..n : R[k] = IF k = 0 THEN NoAssets ELSE ReplayBlock(R[k - 1], c[k], k)
        BY <1>10, Zenon DEF IsChainReplay
    <2>2. 0 \in 0..n
        BY <1>1
    <2>3. QED
        BY <1>6, <2>1, <2>2
<1>12. R \in [0..n -> ReplayState]
    <2> DEFINE P == {k \in 0..n : R[k] \in ReplayState}
    <2>1. 0 \in P
        BY <1>1, <1>4, <1>11
    <2>2. ASSUME NEW k \in 1..n, k - 1 \in P PROVE k \in P
        BY <1>2, <1>6, <1>11, <2>2
    <2>3. \A k \in 0..n : k \in P
        <3> HIDE DEF P
        <3>1. QED
            BY <1>1, <2>1, <2>2, IntervalInduction
    <2>4. R = [k \in 0..n |-> R[k]]
        BY <1>10 DEF IsChainReplay
    <2>5. QED
        BY <2>3, <2>4
<1>13. QED
    BY <1>11, <1>12 DEF R
-----------------------------------------------------------------------------
(* The freeze registry, when a block moves each target in one direction.    *)

Op(t) == IF IsAuthorityTx(t) THEN FreezeOp[t].op ELSE "none"
FrozenIn(b, m) == {FreezeOp[b[k]].target : k \in {j \in 1..m : Op(b[j]) = "freeze"}}
ThawedIn(b, m) == {FreezeOp[b[k]].target : k \in {j \in 1..m : Op(b[j]) = "unfreeze"}}
FrozenAfter(F, b, m) == (F \ ThawedIn(b, m)) \cup FrozenIn(b, m)

\* The same of a list of operations.
FrozenBy(ops, m) == {ops[k].target : k \in {j \in 1..m : ops[j].op = "freeze"}}
ThawedBy(ops, m) == {ops[k].target : k \in {j \in 1..m : ops[j].op # "freeze"}}

\* What the freeze and spend checks of ConnectBlock established.
FreezeSound(F, v, b, m) ==
    /\ FrozenIn(b, m) \cap F = {} /\ ThawedIn(b, m) \subseteq F
    /\ FrozenIn(b, m) \subseteq {o \in ViewAt(v, b, Len(b)) : Kind[o] = "asset"}
    /\ \A k \in 1..m : \A o \in Ins(b[k]) : Kind[o] = "asset" => o \notin FrozenAfter(F, b, k)

\* One transaction more.
LEMMA FreezeStep ==
    ASSUME NEW b, NEW m \in Nat
    PROVE  /\ FrozenIn(b, m + 1)
                = FrozenIn(b, m) \cup (IF Op(b[m + 1]) = "freeze" THEN {FreezeOp[b[m + 1]].target} ELSE {})
           /\ ThawedIn(b, m + 1)
                = ThawedIn(b, m) \cup (IF Op(b[m + 1]) = "unfreeze" THEN {FreezeOp[b[m + 1]].target} ELSE {})
           /\ FrozenIn(b, 0) = {} /\ ThawedIn(b, 0) = {}
<1>1. 1..(m + 1) = (1..m) \cup {m + 1} /\ 1..0 = {}
    OBVIOUS
<1>2. QED
    BY <1>1 DEF FrozenIn, ThawedIn

\* No target is both frozen and thawed.
LEMMA FreezeDisjoint ==
    ASSUME NEW b \in Blocks, Plain(b), NEW m \in 0..Len(b)
    PROVE  /\ FrozenIn(b, m) \cap ThawedIn(b, Len(b)) = {}
           /\ FrozenIn(b, Len(b)) \cap ThawedIn(b, m) = {}
           /\ FrozenIn(b, m) \subseteq FrozenIn(b, Len(b)) /\ ThawedIn(b, m) \subseteq ThawedIn(b, Len(b))
<1>1. Len(b) \in Nat /\ DOMAIN b = 1..Len(b)
    BY TxConstants
<1>2. \A k \in 1..m : k \in 1..Len(b)
    BY <1>1
<1>3. /\ FrozenIn(b, m) \subseteq FrozenIn(b, Len(b))
      /\ ThawedIn(b, m) \subseteq ThawedIn(b, Len(b))
    BY <1>2 DEF FrozenIn, ThawedIn
<1>4. ASSUME NEW x, x \in FrozenIn(b, Len(b)), x \in ThawedIn(b, Len(b)) PROVE FALSE
    <2>1. PICK j \in 1..Len(b) : Op(b[j]) = "freeze" /\ FreezeOp[b[j]].target = x
        BY <1>4 DEF FrozenIn
    <2>2. PICK k \in 1..Len(b) : Op(b[k]) = "unfreeze" /\ FreezeOp[b[k]].target = x
        BY <1>4 DEF ThawedIn
    <2>3. j \in AuthorityTxs(b) /\ k \in AuthorityTxs(b)
        BY <1>1, <2>1, <2>2 DEF Op, AuthorityTxs
    <2>4. FreezeOp[b[j]].op = "freeze" /\ FreezeOp[b[k]].op = "unfreeze"
        BY <2>1, <2>2 DEF Op
    <2>5. QED
        BY <2>1, <2>2, <2>3, <2>4 DEF Plain
<1>5. QED
    BY <1>3, <1>4

\* The registry after one transaction more.
Moved(F, op, x) ==
    CASE op = "freeze" -> F \cup {x} [] op = "unfreeze" -> F \ {x} [] OTHER -> F

LEMMA FrozenAfterStep ==
    ASSUME NEW F, NEW b \in Blocks, Plain(b), NEW m \in Nat, m < Len(b)
    PROVE  FrozenAfter(F, b, m + 1)
             = Moved(FrozenAfter(F, b, m), Op(b[m + 1]), FreezeOp[b[m + 1]].target)
<1> DEFINE x == FreezeOp[b[m + 1]].target
           n == m + 1
<1>1. Len(b) \in Nat /\ m \in 0..Len(b) /\ n \in 0..Len(b)
    BY TxConstants
<1>2. /\ FrozenIn(b, n) = FrozenIn(b, m) \cup (IF Op(b[n]) = "freeze" THEN {x} ELSE {})
      /\ ThawedIn(b, n) = ThawedIn(b, m) \cup (IF Op(b[n]) = "unfreeze" THEN {x} ELSE {})
    BY FreezeStep
<1>3. FrozenIn(b, n) \cap ThawedIn(b, n) = {}
    BY <1>1, FreezeDisjoint
<1>4. QED
    <2> HIDE DEF x
    <2>2. Op(b[n]) = "freeze" => FrozenAfter(F, b, n) = FrozenAfter(F, b, m) \cup {x}
        BY <1>2, <1>3 DEF FrozenAfter
    <2>3. Op(b[n]) = "unfreeze" => FrozenAfter(F, b, n) = FrozenAfter(F, b, m) \ {x}
        BY <1>2, <1>3 DEF FrozenAfter
    <2>4. Op(b[n]) \notin {"freeze", "unfreeze"} => FrozenAfter(F, b, n) = FrozenAfter(F, b, m)
        BY <1>2, <1>3 DEF FrozenAfter
    <2>5. QED
        BY <2>2, <2>3, <2>4 DEF x, Moved

\* The rules are on at every height above genesis.
LEMMA RulesOn ==
    ASSUME RulesFromGenesis, NEW h \in Nat \ {0}
    PROVE  /\ Active(h) /\ Enforced(h) /\ ~(h < InputEnforcementHeight)
           /\ \A t : AppliedFreezeOp(t, h) = Op(t)
BY ChainConstants DEF RulesFromGenesis, Active, Enforced, AppliedFreezeOp, Op

\* Replaying a block adds its totals and moves the registry.
LEMMA BlockReplayed ==
    ASSUME RulesFromGenesis, NEW b \in Blocks, Plain(b), NEW st \in ReplayState, NEW h \in Nat \ {0},
           NEW k \in 0..Len(b)
    PROVE  /\ ReplayTxs(st, b, h)[k].supply.minted = st.supply.minted + MintedUpTo(b, k)
           /\ ReplayTxs(st, b, h)[k].supply.burned = st.supply.burned + BurnedUpTo(b, k)
           /\ ReplayTxs(st, b, h)[k].frozen = FrozenAfter(st.frozen, b, k)
<1> DEFINE R == ReplayTxs(st, b, h)
           P == {m \in 0..Len(b) : /\ R[m].supply.minted = st.supply.minted + MintedUpTo(b, m)
                                   /\ R[m].supply.burned = st.supply.burned + BurnedUpTo(b, m)
                                   /\ R[m].frozen = FrozenAfter(st.frozen, b, m)}
<1>1. Len(b) \in Nat
    BY TxConstants
<1>2. R[0] = st /\ \A m \in 1..Len(b) : R[m] = ReplayTx(R[m - 1], b[m], h)
    BY TxsReplayed
<1> HIDE DEF R
<1>3. 0 \in P
    <2>1. MintedUpTo(b, 0) = 0 /\ BurnedUpTo(b, 0) = 0
        BY BlockSums
    <2>2. FrozenAfter(st.frozen, b, 0) = st.frozen
        BY FreezeStep DEF FrozenAfter
    <2>3. st.supply.minted = st.supply.minted + 0 /\ st.supply.burned = st.supply.burned + 0
        BY DEF ReplayState
    <2>4. 0 \in 0..Len(b)
        BY <1>1
    <2>5. QED
        BY <1>2, <2>1, <2>2, <2>3, <2>4, Zenon
<1>4. ASSUME NEW m \in 1..Len(b), m - 1 \in P PROVE m \in P
    <2> DEFINE j == m - 1
               t == b[m]
               x == FreezeOp[t].target
    <2>1. j \in Nat /\ j < Len(b) /\ j \in 0..Len(b) /\ j + 1 = m /\ m \in 0..Len(b) /\ t \in Txs
        BY <1>1, BlockTx
    <2>2. R[m] = ReplayTx(R[j], t, h)
        BY <1>2
    <2>3. Active(h) /\ AppliedFreezeOp(t, h) = Op(t)
        BY RulesOn
    <2>4. /\ R[m].supply.minted = R[j].supply.minted + MintedBy(t)
          /\ R[m].supply.burned = R[j].supply.burned + BurnedBy(t)
          /\ R[m].frozen = CASE Op(t) = "freeze" -> R[j].frozen \cup {x}
                             [] Op(t) = "unfreeze" -> R[j].frozen \ {x}
                             [] OTHER -> R[j].frozen
        <3> HIDE DEF j, t
        <3>1. QED
            BY <2>2, <2>3 DEF ReplayTx, x
    <2>5. /\ R[j].supply.minted = st.supply.minted + MintedUpTo(b, j)
          /\ R[j].supply.burned = st.supply.burned + BurnedUpTo(b, j)
          /\ R[j].frozen = FrozenAfter(st.frozen, b, j)
        BY <1>4
    <2>6. /\ MintedUpTo(b, m) = MintedUpTo(b, j) + MintedBy(t)
          /\ BurnedUpTo(b, m) = BurnedUpTo(b, j) + BurnedBy(t)
        BY <2>1, BlockSums
    <2>7. /\ MintedUpTo(b, j) \in Nat /\ BurnedUpTo(b, j) \in Nat
          /\ MintedBy(t) \in Nat /\ BurnedBy(t) \in Nat
          /\ st.supply.minted \in Nat /\ st.supply.burned \in Nat
        <3>1. MintedUpTo(b, j) \in Nat /\ BurnedUpTo(b, j) \in Nat
            BY <2>1, BlockSums
        <3>2. MintedBy(t) \in Nat /\ BurnedBy(t) \in Nat
            BY <2>1, DeltaNat
        <3>3. QED
            BY <3>1, <3>2 DEF ReplayState
    <2>8. \A p, q, r \in Nat : (p + q) + r = p + (q + r)
        OBVIOUS
    <2> HIDE DEF j, t, x
    <2>9. R[m].supply.minted = st.supply.minted + MintedUpTo(b, m)
        <3>1. R[m].supply.minted = (st.supply.minted + MintedUpTo(b, j)) + MintedBy(t)
            BY <2>4, <2>5, Zenon
        <3>2. @ = st.supply.minted + (MintedUpTo(b, j) + MintedBy(t))
            BY <2>7, <2>8
        <3>3. QED
            BY <2>6, <3>1, <3>2, Zenon
    <2>10. R[m].supply.burned = st.supply.burned + BurnedUpTo(b, m)
        <3>1. R[m].supply.burned = (st.supply.burned + BurnedUpTo(b, j)) + BurnedBy(t)
            BY <2>4, <2>5, Zenon
        <3>2. @ = st.supply.burned + (BurnedUpTo(b, j) + BurnedBy(t))
            BY <2>7, <2>8
        <3>3. QED
            BY <2>6, <3>1, <3>2, Zenon
    <2>11. R[m].frozen = FrozenAfter(st.frozen, b, m)
        <3>1. FrozenAfter(st.frozen, b, j + 1)
                = Moved(FrozenAfter(st.frozen, b, j), Op(b[j + 1]), FreezeOp[b[j + 1]].target)
            BY <2>1, FrozenAfterStep
        <3>2. R[m].frozen = Moved(R[j].frozen, Op(t), x)
            BY <2>4, Zenon DEF Moved
        <3>3. QED
            BY <2>1, <2>5, <3>1, <3>2 DEF t, x
    <2>12. QED
        BY <2>1, <2>9, <2>10, <2>11
<1>5. k \in P
    <2> HIDE DEF P
    <2>1. QED
        BY <1>1, <1>3, <1>4, IntervalInduction
<1>6. QED
    BY <1>5 DEF R
-----------------------------------------------------------------------------
(* The inductive invariant behind the theorems on reorganisations.          *)

FrozenAt(c, n) == ReplayChain(c)[n].frozen

PlainChain(c) == \A h \in 1..Len(c) : Plain(c[h])

\* The chain and the block at hand are plain.
PlainState == PlainChain(chain) /\ (pc \in ConnectPCs => Plain(job.block))

\* A transaction of a plain block that spends the tracked marker moves the tracker.
LEMMA PlainAdvances ==
    ASSUME NEW b, Plain(b), NEW k \in DOMAIN b, b[k] \in Txs, NEW h, NEW v, NEW o, Tracks(v, o)
    PROVE  Advances(b[k], h, o) = IsAuthorityTx(b[k])
<1>1. o = NoOutpoint \/ Kind[o] = "marker"
    BY DEF Tracks, Markers
<1>2. \A p \in Unwitnessed[b[k]] : Kind[p] # "marker" /\ p \in Outpoints
    BY ChainConstants DEF Plain
<1>3. o \notin Unwitnessed[b[k]]
    BY <1>1, <1>2, TxConstants
<1>4. QED
    BY <1>3 DEF Advances, IsAuthorityTx

\* Every block of the chain passed the checks of ConnectBlock.
Accepted(c, h) ==
    /\ Valued(CoinsAt(c, h - 1), c[h], Len(c[h]))
    /\ Guarded(CoinsAt(c, h - 1), c[h], Len(c[h]))
    /\ FreezeSound(FrozenAt(c, h - 1), CoinsAt(c, h - 1), c[h], Len(c[h]))
Lawful(c) == \A h \in 1..Len(c) : Accepted(c, h)

\* The asset globals are those of chain c.
AtTip(c) ==
    /\ supply = SupplyAt(c, Len(c))
    /\ Tracks(CoinsAt(c, Len(c)), authOutpoint)
    /\ frozen = FrozenAt(c, Len(c))

\* How many transactions of the block the second pass has been through.
Passed == IF pc = "inputs" THEN 0 ELSE IF pc = "assets" THEN job.i - 1 ELSE Len(job.block)

\* The locals of ConnectBlock above the tip.
Locals ==
    LET v == CoinsAt(chain, Len(chain))
        F == FrozenAt(chain, Len(chain))
        b == job.block
        m == Passed
    IN  /\ m <= Len(b)
        /\ Valued(v, b, Upto) /\ Guarded(v, b, m) /\ FreezeSound(F, v, b, m)
        /\ Tracks(ViewAt(v, b, m), job.localAuthOutpoint)
        /\ ~job.commitOutpoint => Tracks(v, job.localAuthOutpoint)
        /\ job.frozenAdd = FrozenIn(b, m) /\ job.frozenRemove = ThawedIn(b, m)
        /\ FrozenBy(job.pendingFreezeOps, Len(job.pendingFreezeOps)) = FrozenIn(b, m)
        /\ ThawedBy(job.pendingFreezeOps, Len(job.pendingFreezeOps)) = ThawedIn(b, m)
        /\ job.minted = MintedUpTo(b, m) /\ job.burned = BurnedUpTo(b, m)

\* The supply that the commit point will write.
Pending ==
    job.pendingSupply = [minted |-> MintedAt(chain, Len(chain)) + Total(MintedBy, job.block),
                         burned |-> BurnedAt(chain, Len(chain)) + Total(BurnedBy, job.block)]

\* The asset globals while a block is being committed.
Committing ==
    /\ pc \in {"commitOutpoint", "commitFreeze", "connected"} => job.caller # "template"
    /\ pc \in {"inputs", "assets", "scripts", "commitOutpoint"} => AtTip(chain)
    /\ pc \in {"scripts", "commitOutpoint", "commitFreeze", "connected"} => Pending
    /\ pc \in {"commitFreeze", "connected"} => Tracks(job.view, authOutpoint)
    /\ pc = "commitFreeze" =>
           /\ supply = SupplyAt(chain, Len(chain))
           /\ job.i <= Len(job.pendingFreezeOps) + 1
           /\ frozen = (FrozenAt(chain, Len(chain)) \ ThawedBy(job.pendingFreezeOps, job.i - 1))
                           \cup FrozenBy(job.pendingFreezeOps, job.i - 1)
    /\ pc = "connected" =>
           /\ supply = job.pendingSupply
           /\ frozen = FrozenAfter(FrozenAt(chain, Len(chain)), job.block, Len(job.block))

\* VerifyDB's reconnect pass has nothing to write: a block with an authority
\* transaction is refused before it collects anything.
NothingPending ==
    /\ AtTip(chain)
    /\ ~job.commitOutpoint /\ job.localAuthOutpoint = authOutpoint
    /\ job.pendingFreezeOps = <<>>
    /\ job.minted = 0 /\ job.burned = 0
    /\ job.pendingSupply = supply

\* The asset globals while the tip is being disconnected.
Undoing ==
    LET n == Len(chain)
    IN  /\ pc = "undoSupply" => AtTip(chain)
        /\ pc \in {"undoOutpoint", "undoFreeze"} =>
               supply = SupplyAt(chain, n - 1) /\ job.fClean
        /\ pc \in {"undoSupply", "undoOutpoint"} => job.i = 1
        /\ pc = "undoOutpoint" =>
               Tracks(CoinsAt(chain, n), authOutpoint) /\ frozen = FrozenAt(chain, n)
        /\ pc = "undoFreeze" =>
               /\ Tracks(CoinsAt(chain, n - 1), authOutpoint)
               /\ job.i <= Len(chain[n]) + 1
               /\ frozen = (FrozenAt(chain, n) \ FrozenIn(chain[n], job.i - 1))
                               \cup ThawedIn(chain[n], job.i - 1)

AssetInv ==
    /\ Lawful(chain)
    /\ pc = "idle" => AtTip(chain)
    /\ pc \in ConnectPCs /\ job.caller # "verify" => Locals /\ Committing
    /\ pc \in ConnectPCs /\ job.caller = "verify" => NothingPending
    /\ pc \in UndoPCs /\ ~job.fRealDisconnect => AtTip(chain)
    /\ pc \in UndoPCs /\ job.fRealDisconnect => Undoing
-----------------------------------------------------------------------------
(* The replay of a chain, when the rules hold from genesis.                 *)

LEMMA ChainFrozen ==
    ASSUME RulesFromGenesis, NEW c \in Seq(Blocks), PlainChain(c)
    PROVE  /\ FrozenAt(c, 0) = {}
           /\ \A n \in Nat : n < Len(c) =>
                  FrozenAt(c, n + 1) = FrozenAfter(FrozenAt(c, n), c[n + 1], Len(c[n + 1]))
<1> DEFINE R == ReplayChain(c)
<1>1. /\ R \in [0..Len(c) -> ReplayState] /\ R[0] = NoAssets
      /\ \A h \in 1..Len(c) : R[h] = ReplayBlock(R[h - 1], c[h], h)
    BY ChainReplayed
<1> HIDE DEF R
<1>2. ASSUME NEW n \in Nat, n < Len(c)
      PROVE  R[n + 1].frozen = FrozenAfter(R[n].frozen, c[n + 1], Len(c[n + 1]))
    <2> DEFINE h == n + 1
               b == c[h]
    <2>1. h \in 1..Len(c) /\ h \in Nat \ {0} /\ n \in 0..Len(c) /\ h - 1 = n
        BY <1>2
    <2>2. b \in Blocks /\ Len(b) \in 0..Len(b) /\ Plain(b)
        BY <2>1, ChainTx DEF PlainChain
    <2>3. R[h] = ReplayTxs(R[n], b, h)[Len(b)] /\ R[n] \in ReplayState
        BY <1>1, <2>1 DEF ReplayBlock
    <2> HIDE DEF h, b
    <2>4. ReplayTxs(R[n], b, h)[Len(b)].frozen = FrozenAfter(R[n].frozen, b, Len(b))
        BY <2>1, <2>2, <2>3, BlockReplayed
    <2>5. QED
        BY <2>3, <2>4 DEF h, b
<1>3. QED
    BY <1>1, <1>2 DEF R, FrozenAt, NoAssets

LEMMA ChainSupply ==
    ASSUME RulesFromGenesis, NEW c \in Seq(Blocks), PlainChain(c), NEW n \in 0..Len(c)
    PROVE  ReplayChain(c)[n].supply = SupplyAt(c, n)
<1> DEFINE R == ReplayChain(c)
           P == {m \in 0..Len(c) : /\ R[m].supply.minted = MintedAt(c, m)
                                   /\ R[m].supply.burned = BurnedAt(c, m)}
<1>0. Len(c) \in Nat
    OBVIOUS
<1>1. /\ R \in [0..Len(c) -> ReplayState] /\ R[0] = NoAssets
      /\ \A h \in 1..Len(c) : R[h] = ReplayBlock(R[h - 1], c[h], h)
    BY ChainReplayed
<1> HIDE DEF R
<1>2. 0 \in P
    <2>1. MintedAt(c, 0) = 0 /\ BurnedAt(c, 0) = 0
        BY ChainSums DEF SupplyAt, NewSupply
    <2>2. R[0].supply.minted = 0 /\ R[0].supply.burned = 0
        BY <1>1 DEF NoAssets, NewSupply
    <2>3. QED
        BY <1>0, <2>1, <2>2
<1>3. ASSUME NEW h \in 1..Len(c), h - 1 \in P PROVE h \in P
    <2> DEFINE j == h - 1
               b == c[h]
    <2>1. h \in Nat \ {0} /\ j \in 0..Len(c) /\ h \in 0..Len(c) /\ j \in Nat /\ j < Len(c) /\ j + 1 = h
        BY <1>0
    <2>2. b \in Blocks /\ Len(b) \in 0..Len(b) /\ Plain(b)
        BY ChainTx DEF PlainChain
    <2>3. R[h] = ReplayTxs(R[j], b, h)[Len(b)] /\ R[j] \in ReplayState
        BY <1>1, <2>1 DEF ReplayBlock
    <2>4. R[j].supply.minted = MintedAt(c, j) /\ R[j].supply.burned = BurnedAt(c, j)
        BY <1>3
    <2> HIDE DEF j
    <2>5. /\ MintedAt(c, h) = MintedAt(c, j) + Total(MintedBy, b)
          /\ BurnedAt(c, h) = BurnedAt(c, j) + Total(BurnedBy, b)
        BY <2>1, ChainSums
    <2> HIDE DEF b
    <2>6. /\ Total(MintedBy, b) = MintedUpTo(b, Len(b))
          /\ Total(BurnedBy, b) = BurnedUpTo(b, Len(b))
        BY <2>2, BlockSums
    <2>7. /\ ReplayTxs(R[j], b, h)[Len(b)].supply.minted = R[j].supply.minted + MintedUpTo(b, Len(b))
          /\ ReplayTxs(R[j], b, h)[Len(b)].supply.burned = R[j].supply.burned + BurnedUpTo(b, Len(b))
        BY <2>1, <2>2, <2>3, BlockReplayed
    <2>8. R[h].supply.minted = MintedAt(c, h) /\ R[h].supply.burned = BurnedAt(c, h)
        BY <2>3, <2>4, <2>5, <2>6, <2>7, Zenon
    <2>9. QED
        BY <2>1, <2>8
<1>4. n \in P
    <2> HIDE DEF P
    <2>1. QED
        BY <1>0, <1>2, <1>3, IntervalInduction
<1>5. R[n].supply \in [minted : Nat, burned : Nat]
    BY <1>1 DEF ReplayState
<1>6. QED
    BY <1>4, <1>5 DEF SupplyAt, R

LEMMA ChainTracked ==
    ASSUME RulesFromGenesis, NEW c \in Seq(Blocks), PlainChain(c), Linear(c),
           \A h \in 1..Len(c) : Guarded(CoinsAt(c, h - 1), c[h], Len(c[h])),
           NEW n \in 0..Len(c)
    PROVE  Tracks(CoinsAt(c, n), ReplayChain(c)[n].outpoint)
<1> DEFINE R == ReplayChain(c)
           P == {m \in 0..Len(c) : Tracks(CoinsAt(c, m), R[m].outpoint)}
<1>0. Len(c) \in Nat
    OBVIOUS
<1>1. /\ R \in [0..Len(c) -> ReplayState] /\ R[0] = NoAssets
      /\ \A h \in 1..Len(c) : R[h] = ReplayBlock(R[h - 1], c[h], h)
    BY ChainReplayed
<1> HIDE DEF R
<1>2. 0 \in P
    <2>1. CoinsAt(c, 0) = GenesisCoins
        BY ChainStep DEF CoinsAt
    <2>2. Markers(GenesisCoins) = {}
        BY OutpointsAssumption DEF Markers
    <2>3. R[0].outpoint = NoOutpoint
        BY <1>1 DEF NoAssets
    <2>4. QED
        BY <1>0, <2>1, <2>2, <2>3 DEF Tracks
<1>3. ASSUME NEW h \in 1..Len(c), h - 1 \in P PROVE h \in P
    <2> DEFINE j == h - 1
               b == c[h]
               v == CoinsAt(c, j)
               Q == ReplayTxs(R[j], b, h)
               S == {m \in 0..Len(b) : Tracks(ViewAt(v, b, m), Q[m].outpoint)}
    <2>1. h \in Nat \ {0} /\ j \in 0..Len(c) /\ h \in 0..Len(c) /\ j \in Nat /\ j < Len(c) /\ j + 1 = h
        BY <1>0
    <2>2. b \in Blocks /\ Len(b) \in Nat /\ Plain(b) /\ DOMAIN b = 1..Len(b)
        BY ChainTx DEF PlainChain
    <2>3. R[h] = Q[Len(b)] /\ R[j] \in ReplayState
        BY <1>1, <2>1 DEF ReplayBlock
    <2>4. Q[0] = R[j] /\ \A k \in 1..Len(b) : Q[k] = ReplayTx(Q[k - 1], b[k], h)
        BY <2>2, <2>3, TxsReplayed
    <2> HIDE DEF Q
    <2>5. Fits(v, b, Len(b)) /\ Guarded(v, b, Len(b))
        BY DEF Linear
    <2>6. 0 \in S
        <3>1. ViewAt(v, b, 0) = v
            BY ViewStart
        <3>2. Tracks(v, R[j].outpoint)
            BY <1>3
        <3>3. QED
            BY <2>2, <2>4, <3>1, <3>2
    <2>7. ASSUME NEW k \in 1..Len(b), k - 1 \in S PROVE k \in S
        <3> DEFINE m == k - 1
                   o == Q[m].outpoint
                   p == IF IsAuthorityTx(b[k]) THEN AuthorityOutput(b[k]) ELSE o
        <3>1. m \in Nat /\ m < Len(b) /\ m + 1 = k /\ k \in 0..Len(b)
            BY <2>2
        <3>2. Tracks(ViewAt(v, b, m), o)
            BY <2>7
        <3>3. Q[k].outpoint = p
            <4>1. Q[k] = ReplayTx(Q[m], b[k], h)
                BY <2>4
            <4>2. Active(h) /\ Enforced(h)
                BY <2>1, RulesOn
            <4>3. Advances(b[k], h, o) = IsAuthorityTx(b[k])
                BY <2>2, <3>2, BlockTx, PlainAdvances
            <4> HIDE DEF m
            <4>4. QED
                BY <4>1, <4>2, <4>3 DEF ReplayTx
        <3>4. OneMarker(b[k])
            BY <2>2 DEF Plain
        <3>5. Fits(v, b, k) /\ Guarded(v, b, k)
            <4>1. \A i \in 1..k : i \in 1..Len(b)
                BY <2>2
            <4> HIDE DEF v, b
            <4>2. QED
                BY <2>5, <4>1, Zenon DEF Fits, Guarded
        <3>6. Tracks(ViewAt(v, b, k), p)
            <4> HIDE DEF b, o, m, j
            <4>1. Tracks(ViewAt(v, b, m + 1),
                         IF IsAuthorityTx(b[m + 1]) THEN AuthorityOutput(b[m + 1]) ELSE o)
                BY <2>1, <2>2, <3>1, <3>2, <3>4, <3>5, TrackStep
            <4>2. QED
                BY <3>1, <4>1
        <3>7. QED
            BY <3>1, <3>3, <3>6
    <2>8. Len(b) \in S
        <3> HIDE DEF S
        <3>1. \A k \in 0..Len(b) : k \in S
            BY <2>2, <2>6, <2>7, IntervalInduction
        <3>2. QED
            BY <2>2, <3>1
    <2>9. ViewAt(v, b, Len(b)) = CoinsAt(c, h)
        BY <2>1, ViewEnd
    <2>10. QED
        BY <2>1, <2>3, <2>8, <2>9
<1>4. n \in P
    <2> HIDE DEF P
    <2>1. QED
        BY <1>0, <1>2, <1>3, IntervalInduction
<1>5. QED
    BY <1>4 DEF R

\* The registry at a height depends on the blocks below it.
LEMMA SameFrozen ==
    ASSUME RulesFromGenesis, NEW c \in Seq(Blocks), NEW d \in Seq(Blocks), PlainChain(c), PlainChain(d), NEW n \in Nat,
           n <= Len(c), n <= Len(d), \A h \in 1..n : c[h] = d[h]
    PROVE  FrozenAt(c, n) = FrozenAt(d, n)
<1> DEFINE P == {m \in 0..n : FrozenAt(c, m) = FrozenAt(d, m)}
<1>0. Len(c) \in Nat /\ Len(d) \in Nat
    OBVIOUS
<1>1. 0 \in P
    <2>1. FrozenAt(c, 0) = {} /\ FrozenAt(d, 0) = {}
        BY ChainFrozen
    <2>2. 0 \in 0..n
        OBVIOUS
    <2>3. QED
        BY <2>1, <2>2, Zenon
<1>2. ASSUME NEW h \in 1..n, h - 1 \in P PROVE h \in P
    <2> DEFINE j == h - 1
    <2>1. j \in Nat /\ j < Len(c) /\ j < Len(d) /\ j + 1 = h /\ h \in 0..n
        BY <1>0
    <2>2. FrozenAt(c, j) = FrozenAt(d, j) /\ c[h] = d[h]
        BY <1>2
    <2> HIDE DEF j
    <2>3. FrozenAt(c, j + 1) = FrozenAfter(FrozenAt(c, j), c[j + 1], Len(c[j + 1]))
        BY <2>1, ChainFrozen
    <2>4. FrozenAt(d, j + 1) = FrozenAfter(FrozenAt(d, j), d[j + 1], Len(d[j + 1]))
        BY <2>1, ChainFrozen
    <2>5. QED
        BY <2>1, <2>2, <2>3, <2>4
<1>3. \A m \in 0..n : m \in P
    <2> HIDE DEF P
    <2>1. QED
        BY <1>1, <1>2, IntervalInduction
<1>4. QED
    BY <1>3

LEMMA OneTracked == ASSUME NEW v, NEW o, NEW p, Tracks(v, o), Tracks(v, p) PROVE o = p
BY DEF Tracks

LEMMA LawfulLinear == ASSUME NEW c, Lawful(c) PROVE Linear(c)
BY ValuedFits DEF Lawful, Accepted, Linear

\* Between block operations the asset globals are the replay.
LEMMA TipReplay ==
    ASSUME RulesFromGenesis, NEW c \in Seq(Blocks), PlainChain(c), Lawful(c), AtTip(c)
    PROVE  supply = Replay(c).supply /\ authOutpoint = Replay(c).outpoint /\ frozen = Replay(c).frozen
<1>1. Len(c) \in 0..Len(c)
    OBVIOUS
<1>2. supply = Replay(c).supply
    BY <1>1, ChainSupply DEF AtTip, Replay
<1>3. Tracks(CoinsAt(c, Len(c)), Replay(c).outpoint)
    <2>1. Linear(c) /\ \A h \in 1..Len(c) : Guarded(CoinsAt(c, h - 1), c[h], Len(c[h]))
        BY LawfulLinear DEF Lawful, Accepted
    <2>2. QED
        BY <1>1, <2>1, ChainTracked DEF Replay
<1>4. authOutpoint = Replay(c).outpoint
    BY <1>3, OneTracked DEF AtTip
<1>5. QED
    BY <1>2, <1>4 DEF AtTip, FrozenAt, Replay
-----------------------------------------------------------------------------
(* ConnectBlock keeps the invariant.                                        *)

\* What every step knows of a block operation.
LEMMA TipJob ==
    ASSUME TypeOK, CoinsInv, pc \in ConnectPCs, job.caller # "verify"
    PROVE  /\ job \in ConnectJob /\ job.block \in Blocks /\ Len(job.block) \in Nat
           /\ job.i \in Nat \ {0} /\ job.height \in Nat \ {0}
           /\ job.height = Len(chain) + 1 /\ job.height - 1 = Len(chain)
           /\ chain \in Seq(Blocks) /\ Len(chain) \in Nat /\ Len(chain) \in 0..Len(chain)
           /\ Linear(chain) /\ Upto <= Len(job.block)
           /\ job.view = ViewAt(CoinsAt(chain, Len(chain)), job.block, Upto)
           /\ Fits(CoinsAt(chain, Len(chain)), job.block, Upto)
<1>1. job \in ConnectJob /\ chain \in Seq(Blocks) /\ Len(chain) \in Nat
    BY DEF TypeOK
<1>2. ConnectView /\ Linear(chain)
    BY DEF CoinsInv
<1>3. job.block \in Blocks /\ Len(job.block) \in Nat
    BY <1>1, TxConstants DEF ConnectJob
<1>4. job.i \in Nat \ {0} /\ job.height \in Nat \ {0} /\ job.height = Len(chain) + 1
    BY <1>1, <1>2 DEF ConnectJob, ConnectView
<1>5. job.height - 1 = Len(chain) /\ Len(chain) \in 0..Len(chain)
    BY <1>1, <1>4
<1>6. QED
    BY <1>1, <1>2, <1>3, <1>4, <1>5 DEF ConnectView

LEMMA TipKept ==
    ASSUME AtTip(chain), chain' = chain, UNCHANGED asset
    PROVE  AtTip(chain)'
BY DEF AtTip, asset

\* The operation ends with the asset globals untouched.
LEMMA AbandonAssets ==
    ASSUME AssetInv, AtTip(chain), pc' = "idle", chain' = chain, UNCHANGED asset
    PROVE  AssetInv'
BY TipKept DEF AssetInv, ConnectPCs, UndoPCs

\* An activation starts with locals that agree with the globals.
LEMMA ActivationAssets ==
    ASSUME AssetInv, AtTip(chain), pc' = "inputs", chain' = chain, UNCHANGED asset,
           NEW b \in Blocks, NEW c, NEW h, NEW v, job' = Activation(b, c, h, v)
    PROVE  AssetInv'
<1> DEFINE j == Activation(b, c, h, v)
<1>1. /\ j.block = b /\ j.caller = c /\ j.i = 1
      /\ j.localAuthOutpoint = authOutpoint /\ j.commitOutpoint = FALSE
      /\ j.frozenAdd = {} /\ j.frozenRemove = {} /\ j.pendingFreezeOps = <<>>
      /\ j.minted = 0 /\ j.burned = 0 /\ j.pendingSupply = supply
    BY DEF Activation
<1> HIDE DEF j
<1>2. job' = j /\ AtTip(chain)'
    BY TipKept DEF j
<1>3. CASE c = "verify"
    <2>1. NothingPending'
        BY <1>1, <1>2 DEF NothingPending, asset
    <2>2. QED
        BY <1>1, <1>2, <1>3, <2>1 DEF AssetInv, ConnectPCs, UndoPCs
<1>4. CASE c # "verify"
    <2> DEFINE w == CoinsAt(chain, Len(chain))
               F == FrozenAt(chain, Len(chain))
    <2>1. Upto' = 0 /\ Passed' = 0 /\ 0 <= Len(b)
        <3>1. Len(b) \in Nat
            BY TxConstants
        <3>2. QED
            BY <1>1, <1>2, <3>1 DEF Upto, Passed
    <2>2. 1..0 = {} /\ FrozenIn(b, 0) = {} /\ ThawedIn(b, 0) = {}
        BY DEF FrozenIn, ThawedIn
    <2>3. Valued(w, b, 0) /\ Guarded(w, b, 0) /\ FreezeSound(F, w, b, 0)
        BY <2>2 DEF Valued, Guarded, FreezeSound
    <2>4. Tracks(ViewAt(w, b, 0), authOutpoint) /\ Tracks(w, authOutpoint)
        BY ViewStart DEF AtTip
    <2>5. FrozenBy(<<>>, 0) = {} /\ ThawedBy(<<>>, 0) = {} /\ Len(<<>>) = 0
        BY DEF FrozenBy, ThawedBy
    <2>6. MintedUpTo(b, 0) = 0 /\ BurnedUpTo(b, 0) = 0
        BY BlockSums
    <2>7. Locals'
        <3>1. w = CoinsAt(chain', Len(chain')) /\ F = FrozenAt(chain', Len(chain'))
            OBVIOUS
        <3> HIDE DEF w, F
        <3>2. QED
            BY <1>1, <1>2, <2>1, <2>2, <2>3, <2>4, <2>5, <2>6, <3>1 DEF Locals
    <2>8. Committing'
        BY <1>2 DEF Committing
    <2>9. QED
        BY <1>1, <1>2, <1>4, <2>7, <2>8 DEF AssetInv, ConnectPCs, UndoPCs
<1>5. QED
    BY <1>3, <1>4

\* The steps that leave the pending changes alone.
KeepsPending ==
    /\ job'.block = job.block /\ job'.caller = job.caller
    /\ job'.localAuthOutpoint = job.localAuthOutpoint
    /\ job'.commitOutpoint = job.commitOutpoint
    /\ job'.frozenAdd = job.frozenAdd /\ job'.frozenRemove = job.frozenRemove
    /\ job'.pendingFreezeOps = job.pendingFreezeOps
    /\ job'.minted = job.minted /\ job'.burned = job.burned

LEMMA KeepLocals ==
    ASSUME Locals, KeepsPending, chain' = chain, Passed' = Passed,
           Valued(CoinsAt(chain, Len(chain)), job.block, Upto')
    PROVE  Locals'
BY DEF Locals, KeepsPending

\* Such a step of VerifyDB's reconnect pass.
LEMMA KeepNothing ==
    ASSUME AssetInv, pc \in ConnectPCs, pc' \in ConnectPCs, job.caller = "verify",
           KeepsPending, job'.pendingSupply = job.pendingSupply, chain' = chain, UNCHANGED asset
    PROVE  AssetInv'
<1>1. NothingPending
    BY DEF AssetInv
<1>2. AtTip(chain)'
    BY <1>1, TipKept DEF NothingPending
<1>3. NothingPending'
    BY <1>1, <1>2 DEF NothingPending, KeepsPending, asset
<1>4. QED
    BY <1>3 DEF AssetInv, KeepsPending, ConnectPCs, UndoPCs

LEMMA AssetsInputs ==
    ASSUME RulesFromGenesis, TypeOK, CoinsInv, AssetInv, ConnectInputs \/ InputsDone
    PROVE  AssetInv'
<1>1. pc = "inputs" /\ pc \in ConnectPCs /\ job \in ConnectJob /\ chain' = chain /\ UNCHANGED asset
    BY DEF ConnectInputs, InputsDone, ConnectPCs, TypeOK
<1>2. KeepsPending /\ job'.pendingSupply = job.pendingSupply
    <2>1. CASE ConnectInputs
        <3>1. PICK i, w : job' = [job EXCEPT !.i = i, !.view = w]
            BY <2>1 DEF ConnectInputs
        <3>2. QED
            BY <1>1, <3>1 DEF ConnectJob, KeepsPending
    <2>2. CASE InputsDone
        BY <1>1, <2>2 DEF InputsDone, ConnectJob, KeepsPending
    <2>3. QED
        BY <2>1, <2>2
<1>3. pc' \in ConnectPCs
    BY <1>1 DEF ConnectInputs, InputsDone, ConnectPCs
<1>4. CASE job.caller = "verify"
    BY <1>1, <1>2, <1>3, <1>4, KeepNothing
<1>5. CASE job.caller # "verify"
    <2> DEFINE v == CoinsAt(chain, Len(chain))
               b == job.block
    <2>1. /\ b \in Blocks /\ Len(b) \in Nat /\ job.i \in Nat \ {0} /\ job.height \in Nat \ {0}
          /\ Upto <= Len(b) /\ job.view = ViewAt(v, b, Upto)
        BY <1>1, <1>5, TipJob
    <2>2. Locals /\ Committing /\ AtTip(chain)
        BY <1>1, <1>5 DEF AssetInv, Committing
    <2>3. Upto = job.i - 1 /\ Valued(v, b, job.i - 1) /\ Passed = 0
        BY <1>1, <2>2 DEF Upto, Locals, Passed
    <2>4. AtTip(chain)' /\ Active(job.height)
        BY <1>1, <2>1, <2>2, TipKept, RulesOn
    <2>5. CASE ConnectInputs
        <3>1. pc' = "inputs" /\ CheckTxInputs(b[job.i], job.view, TRUE)
            BY <1>1, <2>4, <2>5 DEF ConnectInputs
        <3>2. job'.i = job.i + 1
            BY <1>1, <2>5 DEF ConnectInputs, ConnectJob
        <3>3. Upto' = job.i /\ Passed' = 0
            BY <2>1, <3>1, <3>2 DEF Upto, Passed
        <3>4. Valued(v, b, job.i)
            <4>1. \A k \in 1..job.i : k \in 1..(job.i - 1) \/ k = job.i
                BY <2>1
            <4>2. CheckTxInputs(b[job.i], ViewAt(v, b, job.i - 1), TRUE)
                BY <2>1, <2>3, <3>1
            <4>3. QED
                BY <2>3, <4>1, <4>2 DEF Valued
        <3>5. Locals'
            BY <1>1, <1>2, <2>2, <2>3, <3>3, <3>4, KeepLocals
        <3>6. Committing'
            BY <2>4, <3>1 DEF Committing
        <3>7. QED
            BY <1>2, <1>5, <2>2, <3>1, <3>5, <3>6, <1>1 DEF AssetInv, KeepsPending, ConnectPCs, UndoPCs
    <2>6. CASE InputsDone
        <3>1. pc' = "assets" /\ job.i > Len(b) /\ job'.i = 1
            BY <1>1, <2>4, <2>6 DEF InputsDone, ConnectJob
        <3>2. Upto = Len(b)
            BY <2>1, <2>3, <3>1
        <3>3. Upto' = Len(b) /\ Passed' = 0
            BY <1>2, <3>1 DEF Upto, Passed, KeepsPending
        <3>4. Valued(v, b, Len(b))
            BY <2>3, <3>2
        <3>5. Locals'
            BY <1>1, <1>2, <2>2, <2>3, <3>3, <3>4, KeepLocals
        <3>6. Committing'
            BY <2>4, <3>1 DEF Committing
        <3>7. QED
            BY <1>1, <1>2, <1>5, <2>2, <3>1, <3>5, <3>6 DEF AssetInv, KeepsPending, ConnectPCs, UndoPCs
    <2>7. QED
        BY <2>5, <2>6
<1>6. QED
    BY <1>4, <1>5

\* The freeze and spend checks of one transaction.
LEMMA FreezeChecked ==
    ASSUME NEW b \in Blocks, Plain(b), NEW m \in Nat, m < Len(b), NEW F, NEW v,
           FreezeSound(F, v, b, m), NEW t, t = b[m + 1], NEW x, x = FreezeOp[t].target,
           Op(t) = "freeze" => /\ x \in ViewAt(v, b, Len(b)) /\ Kind[x] = "asset"
                               /\ x \notin FrozenAfter(F, b, m),
           Op(t) = "unfreeze" => x \in FrozenAfter(F, b, m),
           \A o \in Ins(t) : Kind[o] = "asset" => o \notin FrozenAfter(F, b, m + 1)
    PROVE  FreezeSound(F, v, b, m + 1)
<1> DEFINE n == m + 1
<1>1. Len(b) \in Nat /\ m \in 0..Len(b) /\ n \in 0..Len(b)
    BY TxConstants
<1>2. /\ FrozenIn(b, n) = FrozenIn(b, m) \cup (IF Op(t) = "freeze" THEN {x} ELSE {})
      /\ ThawedIn(b, n) = ThawedIn(b, m) \cup (IF Op(t) = "unfreeze" THEN {x} ELSE {})
    BY FreezeStep
<1>3. FrozenIn(b, n) \cap ThawedIn(b, n) = {}
    BY <1>1, FreezeDisjoint
<1>4. /\ FrozenIn(b, m) \cap F = {} /\ ThawedIn(b, m) \subseteq F
      /\ FrozenIn(b, m) \subseteq {o \in ViewAt(v, b, Len(b)) : Kind[o] = "asset"}
      /\ \A k \in 1..m : \A o \in Ins(b[k]) : Kind[o] = "asset" => o \notin FrozenAfter(F, b, k)
    BY DEF FreezeSound
<1>5. FrozenAfter(F, b, m) = (F \ ThawedIn(b, m)) \cup FrozenIn(b, m)
    BY DEF FrozenAfter
<1> HIDE DEF n
<1>6. FrozenIn(b, n) \cap F = {}
    BY <1>2, <1>3, <1>4, <1>5
<1>7. ThawedIn(b, n) \subseteq F
    BY <1>2, <1>3, <1>4, <1>5
<1>8. FrozenIn(b, n) \subseteq {o \in ViewAt(v, b, Len(b)) : Kind[o] = "asset"}
    BY <1>2, <1>4
<1>9. \A k \in 1..n : \A o \in Ins(b[k]) : Kind[o] = "asset" => o \notin FrozenAfter(F, b, k)
    <2>1. \A k \in 1..n : k \in 1..m \/ k = n
        BY DEF n
    <2>2. \A o \in Ins(b[n]) : Kind[o] = "asset" => o \notin FrozenAfter(F, b, n)
        BY DEF n
    <2>3. QED
        BY <1>4, <2>1, <2>2
<1>10. FreezeSound(F, v, b, n)
    BY <1>6, <1>7, <1>8, <1>9 DEF FreezeSound
<1>11. QED
    BY <1>10 DEF n

\* The list of operations to commit, one longer.
LEMMA OpsStep ==
    ASSUME NEW ops \in Seq(FreezeOps), NEW op \in FreezeOps
    PROVE  /\ FrozenBy(Append(ops, op), Len(Append(ops, op)))
                = FrozenBy(ops, Len(ops)) \cup (IF op.op = "freeze" THEN {op.target} ELSE {})
           /\ ThawedBy(Append(ops, op), Len(Append(ops, op)))
                = ThawedBy(ops, Len(ops)) \cup (IF op.op # "freeze" THEN {op.target} ELSE {})
<1> DEFINE q == Append(ops, op)
           n == Len(ops)
<1>1. n \in Nat /\ Len(q) = n + 1 /\ q[n + 1] = op /\ \A k \in 1..n : q[k] = ops[k]
    OBVIOUS
<1>2. 1..(n + 1) = (1..n) \cup {n + 1}
    BY <1>1
<1> HIDE DEF q, n
<1>3. FrozenBy(q, n + 1) = FrozenBy(ops, n) \cup (IF op.op = "freeze" THEN {op.target} ELSE {})
    BY <1>1, <1>2 DEF FrozenBy
<1>4. ThawedBy(q, n + 1) = ThawedBy(ops, n) \cup (IF op.op # "freeze" THEN {op.target} ELSE {})
    BY <1>1, <1>2 DEF ThawedBy
<1>5. QED
    BY <1>1, <1>3, <1>4 DEF q, n

\* One transaction of the second pass, above the tip.
LEMMA AssetsTx ==
    ASSUME RulesFromGenesis, PlainState, TypeOK, CoinsInv, AssetInv, ConnectAsset,
           job.caller # "verify"
    PROVE  AssetInv'
<1> DEFINE b == job.block
           m == job.i - 1
           t == b[job.i]
           x == FreezeOp[t].target
           v == CoinsAt(chain, Len(chain))
           F == FrozenAt(chain, Len(chain))
<1>1. /\ pc = "assets" /\ pc' = "assets" /\ pc \in ConnectPCs /\ job.i <= Len(b)
      /\ chain' = chain /\ UNCHANGED asset
    BY DEF ConnectAsset, ConnectPCs
<1>2. /\ job \in ConnectJob /\ b \in Blocks /\ Len(b) \in Nat /\ job.i \in Nat \ {0} /\ job.height \in Nat \ {0}
      /\ chain \in Seq(Blocks) /\ Len(chain) \in 0..Len(chain) /\ Linear(chain)
      /\ Upto = Len(b) /\ job.view = ViewAt(v, b, Upto) /\ Fits(v, b, Upto)
    <2>1. Upto = Len(b)
        BY <1>1 DEF Upto
    <2>2. QED
        BY <1>1, <2>1, TipJob
<1>3. Locals /\ Committing /\ AtTip(chain)
    BY <1>1 DEF AssetInv, Committing
<1>4. /\ m \in Nat /\ m < Len(b) /\ m + 1 = job.i /\ Passed = m /\ t \in Txs /\ Plain(b)
      /\ job.i \in 1..Len(b) /\ DOMAIN b = 1..Len(b)
    BY <1>1, <1>2, BlockTx, TxConstants, SMTT(30) DEF Passed, PlainState
<1>5. /\ Valued(v, b, Len(b)) /\ Guarded(v, b, m) /\ FreezeSound(F, v, b, m)
      /\ Tracks(ViewAt(v, b, m), job.localAuthOutpoint)
      /\ ~job.commitOutpoint => Tracks(v, job.localAuthOutpoint)
      /\ job.frozenAdd = FrozenIn(b, m) /\ job.frozenRemove = ThawedIn(b, m)
      /\ FrozenBy(job.pendingFreezeOps, Len(job.pendingFreezeOps)) = FrozenIn(b, m)
      /\ ThawedBy(job.pendingFreezeOps, Len(job.pendingFreezeOps)) = ThawedIn(b, m)
      /\ job.minted = MintedUpTo(b, m) /\ job.burned = BurnedUpTo(b, m)
    BY <1>2, <1>3, <1>4 DEF Locals
<1>6. /\ Enforced(job.height) /\ ~(job.height < InputEnforcementHeight)
      /\ AppliedFreezeOp(t, job.height) = Op(t)
    BY <1>2, RulesOn
<1>7. AuthorityOK(t) /\ FreezeOK(t) /\ SpendsOK(t)
    BY DEF ConnectAsset
<1> DEFINE l == IF IsAuthorityTx(t) THEN AuthorityOutput(t) ELSE job.localAuthOutpoint
           ops == IF Op(t) = "none" THEN job.pendingFreezeOps
                  ELSE Append(job.pendingFreezeOps, FreezeOp[t])
<1>8. job' = [job EXCEPT !.i = job.i + 1, !.localAuthOutpoint = l,
                         !.commitOutpoint = job.commitOutpoint \/ IsAuthorityTx(t),
                         !.frozenAdd = AddAfter(t), !.frozenRemove = RemoveAfter(t),
                         !.pendingFreezeOps = ops,
                         !.minted = job.minted + MintedBy(t), !.burned = job.burned + BurnedBy(t)]
    <2>1. Advances(t, job.height, job.localAuthOutpoint) = IsAuthorityTx(t)
        BY <1>4, <1>5, PlainAdvances
    <2>2. (job.commitOutpoint \/ IsAuthorityTx(t))
            = (job.commitOutpoint \/ (Enforced(job.height) /\
                                      Advances(t, job.height, job.localAuthOutpoint)))
        BY <1>6, <2>1
    <2>3. QED
        BY <1>6, <2>1, <2>2 DEF ConnectAsset
<1> HIDE DEF l, ops
<1>9. /\ job'.i = job.i + 1 /\ job'.block = b /\ job'.caller = job.caller
      /\ job'.localAuthOutpoint = l
      /\ job'.commitOutpoint = (job.commitOutpoint \/ IsAuthorityTx(t))
      /\ job'.frozenAdd = AddAfter(t) /\ job'.frozenRemove = RemoveAfter(t)
      /\ job'.pendingFreezeOps = ops
      /\ job'.minted = job.minted + MintedBy(t) /\ job'.burned = job.burned + BurnedBy(t)
    BY <1>2, <1>8 DEF ConnectJob
<1>10. Guarded(v, b, m + 1)
    <2>1. IsAuthorityTx(t) => Markers(ViewAt(v, b, m)) \subseteq Ins(t)
        BY <1>5, <1>6, <1>7 DEF AuthorityOK, Tracks
    <2>2. ~IsAuthorityTx(t) => Markers(Ins(t)) = {}
        BY <1>7 DEF SpendsOK, Markers
    <2>3. \A k \in 1..(m + 1) : k \in 1..m \/ (k = m + 1 /\ k - 1 = m)
        BY <1>4
    <2>4. t = b[m + 1]
        BY <1>4
    <2> HIDE DEF v, b, m, t
    <2>5. QED
        BY <1>5, <2>1, <2>2, <2>3, <2>4, Zenon DEF Guarded
<1>11. AddAfter(t) = FrozenIn(b, m + 1) /\ RemoveAfter(t) = ThawedIn(b, m + 1)
    <2>1. /\ FrozenIn(b, m + 1) = FrozenIn(b, m) \cup (IF Op(t) = "freeze" THEN {x} ELSE {})
          /\ ThawedIn(b, m + 1) = ThawedIn(b, m) \cup (IF Op(t) = "unfreeze" THEN {x} ELSE {})
        <3>1. m \in Nat /\ t = b[m + 1] /\ x = FreezeOp[b[m + 1]].target
            BY <1>4
        <3> HIDE DEF b, m, t, x
        <3>2. QED
            BY <3>1, FreezeStep
    <2>2. FrozenIn(b, m + 1) \cap ThawedIn(b, m + 1) = {}
        <3>1. m + 1 \in 0..Len(b)
            BY <1>4, <1>2
        <3> HIDE DEF b, m
        <3>2. QED
            BY <1>2, <1>4, <3>1, FreezeDisjoint
    <2> DEFINE A == FrozenIn(b, m)
               T == ThawedIn(b, m)
               op == Op(t)
    <2>3. /\ AddAfter(t) = CASE op = "freeze" -> A \cup {x} [] op = "unfreeze" -> A \ {x} [] OTHER -> A
          /\ RemoveAfter(t) = CASE op = "freeze" -> T \ {x} [] op = "unfreeze" -> T \cup {x} [] OTHER -> T
        BY <1>5, <1>6, Zenon DEF AddAfter, RemoveAfter
    <2> HIDE DEF A, T, op, x
    <2>4. QED
        BY <2>1, <2>2, <2>3 DEF A, T, op
<1>12. FreezeSound(F, v, b, m + 1)
    <2>1. \A o : FrozenInBlock(o, FrozenIn(b, m), ThawedIn(b, m)) <=> o \in FrozenAfter(F, b, m)
        BY <1>3 DEF FrozenInBlock, FrozenAfter, AtTip
    <2>2. \A o : FrozenInBlock(o, FrozenIn(b, m + 1), ThawedIn(b, m + 1)) <=> o \in FrozenAfter(F, b, m + 1)
        BY <1>3 DEF FrozenInBlock, FrozenAfter, AtTip
    <2>3. /\ Op(t) = "freeze" => x \in job.view /\ Kind[x] = "asset" /\ ~FrozenInBlock(x, FrozenIn(b, m), ThawedIn(b, m))
          /\ Op(t) = "unfreeze" => FrozenInBlock(x, FrozenIn(b, m), ThawedIn(b, m))
        BY <1>5, <1>6, <1>7, Zenon DEF FreezeOK
    <2>4. \A o \in Ins(t) : Kind[o] = "asset" => ~FrozenInBlock(o, FrozenIn(b, m + 1), ThawedIn(b, m + 1))
        BY <1>7, <1>11, Zenon DEF SpendsOK
    <2>5. job.view = ViewAt(v, b, Len(b)) /\ t = b[m + 1]
        BY <1>2, <1>4
    <2>6. x = FreezeOp[t].target
        OBVIOUS
    <2> HIDE DEF v, b, m, t, F, x
    <2>7. /\ Op(t) = "freeze" => /\ x \in ViewAt(v, b, Len(b)) /\ Kind[x] = "asset" /\ x \notin FrozenAfter(F, b, m)
          /\ Op(t) = "unfreeze" => x \in FrozenAfter(F, b, m)
          /\ \A o \in Ins(t) : Kind[o] = "asset" => o \notin FrozenAfter(F, b, m + 1)
        BY <2>1, <2>2, <2>3, <2>4, <2>5, Zenon
    <2>8. QED
        BY <1>2, <1>4, <1>5, <2>5, <2>6, <2>7, FreezeChecked
<1>13. Tracks(ViewAt(v, b, m + 1), l)
    <2>1. Fits(v, b, m + 1)
        <3>1. \A k \in 1..(m + 1) : k \in 1..Len(b)
            BY <1>2, <1>4
        <3>2. Fits(v, b, Len(b))
            BY <1>2
        <3> HIDE DEF v, b, m
        <3>3. QED
            BY <3>1, <3>2, Zenon DEF Fits
    <2>2. OneMarker(b[m + 1])
        BY <1>4 DEF Plain
    <2> DEFINE lo == job.localAuthOutpoint
    <2>3. Tracks(ViewAt(v, b, m), lo)
        BY <1>5
    <2>4. b[m + 1] = t
        BY <1>4
    <2> HIDE DEF b, m, t, lo
    <2>5. Tracks(ViewAt(v, b, m + 1), IF IsAuthorityTx(b[m + 1]) THEN AuthorityOutput(b[m + 1]) ELSE lo)
        BY <1>2, <1>4, <1>10, <2>1, <2>2, <2>3, TrackStep
    <2>6. QED
        BY <2>4, <2>5, Zenon DEF l, lo
<1>14. ~(job.commitOutpoint \/ IsAuthorityTx(t)) => Tracks(v, l)
    BY <1>5 DEF l
<1>15. FrozenBy(ops, Len(ops)) = FrozenIn(b, m + 1) /\ ThawedBy(ops, Len(ops)) = ThawedIn(b, m + 1)
    <2>1. /\ FrozenIn(b, m + 1) = FrozenIn(b, m) \cup (IF Op(t) = "freeze" THEN {x} ELSE {})
          /\ ThawedIn(b, m + 1) = ThawedIn(b, m) \cup (IF Op(t) = "unfreeze" THEN {x} ELSE {})
        <3>1. m \in Nat /\ t = b[m + 1] /\ x = FreezeOp[b[m + 1]].target
            BY <1>4
        <3> HIDE DEF b, m, t, x
        <3>2. QED
            BY <3>1, FreezeStep
    <2>2. CASE Op(t) = "none"
        <3>1. ops = job.pendingFreezeOps
            BY <2>2 DEF ops
        <3>2. FrozenIn(b, m + 1) = FrozenIn(b, m) /\ ThawedIn(b, m + 1) = ThawedIn(b, m)
            BY <2>1, <2>2
        <3>3. QED
            BY <1>5, <3>1, <3>2, Zenon
    <2>3. CASE Op(t) # "none"
        <3>1. FreezeOp[t] \in FreezeOps /\ FreezeOp[t].op = Op(t)
            BY <1>4, <2>3, FreezeTypes DEF Op
        <3>2. job.pendingFreezeOps \in Seq(FreezeOps) /\ ops = Append(job.pendingFreezeOps, FreezeOp[t])
            BY <1>2, <2>3 DEF ConnectJob, ops
        <3> DEFINE q == job.pendingFreezeOps
                   op == FreezeOp[t]
        <3> HIDE DEF q, op
        <3>3. /\ FrozenBy(ops, Len(ops)) = FrozenBy(q, Len(q)) \cup (IF op.op = "freeze" THEN {op.target} ELSE {})
              /\ ThawedBy(ops, Len(ops)) = ThawedBy(q, Len(q)) \cup (IF op.op # "freeze" THEN {op.target} ELSE {})
            BY <3>1, <3>2, OpsStep DEF q, op
        <3>4. FrozenBy(q, Len(q)) = FrozenIn(b, m) /\ ThawedBy(q, Len(q)) = ThawedIn(b, m) /\ op.op = Op(t) /\ op.target = x
            BY <1>5, <3>1 DEF q, op
        <3>5. (op.op # "freeze") <=> (Op(t) = "unfreeze")
            BY <2>3, <3>1, <3>4 DEF FreezeOps
        <3> HIDE DEF b, m, t, x
        <3>6. QED
            BY <2>1, <3>3, <3>4, <3>5, Zenon
    <2>4. QED
        BY <2>2, <2>3
<1>16. /\ job.minted + MintedBy(t) = MintedUpTo(b, m + 1)
       /\ job.burned + BurnedBy(t) = BurnedUpTo(b, m + 1)
    <2>1. b[m + 1] = t
        BY <1>4
    <2> HIDE DEF b, m
    <2>2. /\ MintedUpTo(b, m + 1) = MintedUpTo(b, m) + MintedBy(b[m + 1])
          /\ BurnedUpTo(b, m + 1) = BurnedUpTo(b, m) + BurnedBy(b[m + 1])
        BY <1>2, <1>4, BlockSums
    <2>3. QED
        BY <1>5, <2>1, <2>2, Zenon
<1>17. Passed' = m + 1 /\ Upto' = Len(b) /\ m + 1 <= Len(b)
    BY <1>1, <1>2, <1>4, <1>9 DEF Passed, Upto
<1>18. Locals'
    <2>1. v = CoinsAt(chain', Len(chain')) /\ F = FrozenAt(chain', Len(chain'))
        BY <1>1
    <2> DEFINE n == m + 1
    <2> HIDE DEF v, F, b, t, n, m
    <2>2. /\ n <= Len(b) /\ Passed' = n
          /\ Valued(v, b, Upto') /\ Guarded(v, b, n) /\ FreezeSound(F, v, b, n)
          /\ Tracks(ViewAt(v, b, n), job'.localAuthOutpoint)
          /\ ~job'.commitOutpoint => Tracks(v, job'.localAuthOutpoint)
          /\ job'.frozenAdd = FrozenIn(b, n) /\ job'.frozenRemove = ThawedIn(b, n)
          /\ FrozenBy(job'.pendingFreezeOps, Len(job'.pendingFreezeOps)) = FrozenIn(b, n)
          /\ ThawedBy(job'.pendingFreezeOps, Len(job'.pendingFreezeOps)) = ThawedIn(b, n)
          /\ job'.minted = MintedUpTo(b, n) /\ job'.burned = BurnedUpTo(b, n)
        BY <1>5, <1>9, <1>10, <1>11, <1>12, <1>13, <1>14, <1>15, <1>16, <1>17, Zenon DEF n
    <2>3. QED
        BY <1>9, <2>1, <2>2, Zenon DEF Locals
<1>19. Committing'
    BY <1>1, <1>3, TipKept DEF Committing
<1>20. QED
    BY <1>1, <1>9, <1>18, <1>19 DEF AssetInv, ConnectPCs, UndoPCs

\* VerifyDB's reconnect pass goes past no authority transaction: the marker it
\* would have to spend is spent at the tip.
LEMMA VerifyTx ==
    ASSUME RulesFromGenesis, PlainState, TypeOK, CoinsInv, AssetInv, ConnectAsset,
           job.caller = "verify"
    PROVE  AssetInv'
<1> DEFINE b == job.block
           t == b[job.i]
<1>1. /\ pc = "assets" /\ pc' = "assets" /\ pc \in ConnectPCs /\ pc' \in ConnectPCs
      /\ job.i <= Len(b) /\ chain' = chain /\ UNCHANGED asset
    BY DEF ConnectAsset, ConnectPCs
<1>2. /\ job \in ConnectJob /\ chain \in Seq(Blocks) /\ Len(chain) \in Nat
      /\ job.height \in Nat \ {0} /\ job.i \in Nat \ {0}
    BY <1>1 DEF TypeOK, ConnectJob
<1>3. Linear(chain) /\ job.height <= Len(chain) /\ b = chain[job.height]
    BY <1>1 DEF CoinsInv, ConnectView
<1>4. job.height \in 1..Len(chain) /\ job.i \in 1..Len(b) /\ t \in Txs /\ DOMAIN b = 1..Len(b)
    <2>1. job.height \in 1..Len(chain)
        BY <1>2, <1>3
    <2>2. Len(b) \in Nat /\ DOMAIN b = 1..Len(b) /\ \A k \in 1..Len(b) : b[k] \in Txs
        BY <1>2, <1>3, <2>1, ChainTx
    <2>3. QED
        BY <1>1, <1>2, <2>1, <2>2
<1>5. NothingPending /\ Lawful(chain)
    BY <1>1 DEF AssetInv
<1>6. /\ Enforced(job.height) /\ ~(job.height < InputEnforcementHeight)
      /\ AppliedFreezeOp(t, job.height) = Op(t)
    BY <1>2, RulesOn
<1>7. ~IsAuthorityTx(t)
    <2>1. SUFFICES ASSUME IsAuthorityTx(t) PROVE FALSE
        OBVIOUS
    <2>2. AuthorityOK(t)
        BY DEF ConnectAsset
    <2>3. authOutpoint \in Ins(t) \cup {NoOutpoint}
        BY <1>5, <1>6, <2>1, <2>2 DEF AuthorityOK, NothingPending
    <2>4. Tracks(CoinsAt(chain, Len(chain)), authOutpoint)
        BY <1>5 DEF NothingPending, AtTip
    <2>5. Markers(CoinsAt(chain, Len(chain))) # {}
        <3>1. AuthorityTxs(chain[job.height]) # {}
            BY <1>3, <1>4, <2>1 DEF AuthorityTxs
        <3>2. \A h \in 1..Len(chain) : Guarded(CoinsAt(chain, h - 1), chain[h], Len(chain[h]))
            BY <1>5 DEF Lawful, Accepted
        <3>3. QED
            BY <1>2, <1>3, <1>4, <3>1, <3>2, ChainMarkers
    <2>6. authOutpoint \in CoinsAt(chain, Len(chain)) /\ authOutpoint # NoOutpoint
        BY <2>4, <2>5 DEF Tracks, Markers
    <2>7. authOutpoint \notin Ins(t)
        BY <1>2, <1>3, <1>4, <2>6, UnspentNotSpent
    <2>8. QED
        BY <2>3, <2>6, <2>7
<1>8. Op(t) = "none" /\ MintedBy(t) = 0 /\ BurnedBy(t) = 0
    BY <1>7 DEF Op, MintedBy, BurnedBy
<1>9. AddAfter(t) = job.frozenAdd /\ RemoveAfter(t) = job.frozenRemove
    BY <1>6, <1>8 DEF AddAfter, RemoveAfter
<1>10. KeepsPending /\ job'.pendingSupply = job.pendingSupply
    <2>1. job' = [job EXCEPT !.i = job.i + 1, !.localAuthOutpoint = job.localAuthOutpoint,
                             !.commitOutpoint = job.commitOutpoint \/ FALSE,
                             !.frozenAdd = job.frozenAdd, !.frozenRemove = job.frozenRemove,
                             !.pendingFreezeOps = job.pendingFreezeOps,
                             !.minted = job.minted + 0, !.burned = job.burned + 0]
        BY <1>6, <1>7, <1>8, <1>9 DEF ConnectAsset, Advances
    <2>2. job.minted + 0 = job.minted /\ job.burned + 0 = job.burned
        BY <1>2 DEF ConnectJob
    <2>3. (job.commitOutpoint \/ FALSE) = job.commitOutpoint
        BY <1>2 DEF ConnectJob
    <2>4. QED
        BY <1>2, <2>1, <2>2, <2>3 DEF ConnectJob, KeepsPending
<1>11. QED
    BY <1>1, <1>10, KeepNothing

\* The supply check.
LEMMA AssetsSupply ==
    ASSUME RulesFromGenesis, PlainState, TypeOK, CoinsInv, AssetInv, CheckSupply
    PROVE  AssetInv'
<1> DEFINE b == job.block
<1>1. /\ pc = "assets" /\ pc' = "scripts" /\ pc \in ConnectPCs /\ pc' \in ConnectPCs
      /\ job.i > Len(b) /\ chain' = chain /\ UNCHANGED asset
    BY DEF CheckSupply, ConnectPCs
<1>2. job \in ConnectJob /\ supply \in SupplyType /\ job.minted \in Nat /\ job.burned \in Nat
    BY <1>1 DEF TypeOK, ConnectJob
<1>3. DeltaOK(supply, job.minted, job.burned)
    BY DEF CheckSupply, SupplyOK
<1>4. Applied(supply, job.minted, job.burned)
        = [minted |-> supply.minted + job.minted, burned |-> supply.burned + job.burned]
    BY <1>2, <1>3, AppliedIs
<1>5. /\ KeepsPending
      /\ job'.pendingSupply = [minted |-> supply.minted + job.minted, burned |-> supply.burned + job.burned]
    BY <1>2, <1>4 DEF CheckSupply, ConnectJob, KeepsPending
<1>6. CASE job.caller = "verify"
    <2>1. NothingPending
        BY <1>1, <1>6 DEF AssetInv
    <2>2. job'.pendingSupply = supply
        BY <1>2, <1>5, <2>1 DEF NothingPending, SupplyType
    <2>3. QED
        BY <1>1, <1>5, <1>6, <2>1, <2>2, KeepNothing DEF NothingPending
<1>7. CASE job.caller # "verify"
    <2>1. /\ b \in Blocks /\ Len(b) \in Nat /\ job.i \in Nat \ {0} /\ chain \in Seq(Blocks)
        BY <1>1, <1>7, TipJob
    <2>2. Locals /\ AtTip(chain) /\ Lawful(chain)
        BY <1>1, <1>7 DEF AssetInv, Committing
    <2>3. Passed = Len(b) /\ Passed' = Len(b) /\ Upto' = Upto
        <3>1. Passed = job.i - 1 /\ Passed <= Len(b)
            BY <1>1, <2>2 DEF Passed, Locals
        <3>2. QED
            BY <1>1, <1>5, <2>1, <3>1 DEF Passed, Upto, KeepsPending
    <2>4. Locals'
        <3>1. Valued(CoinsAt(chain, Len(chain)), b, Upto)
            BY <2>2 DEF Locals
        <3>2. QED
            BY <1>1, <1>5, <2>2, <2>3, <3>1, KeepLocals
    <2>5. Pending'
        <3>1. job.minted = MintedUpTo(b, Len(b)) /\ job.burned = BurnedUpTo(b, Len(b))
            BY <2>2, <2>3 DEF Locals
        <3>2. job.minted = Total(MintedBy, b) /\ job.burned = Total(BurnedBy, b)
            BY <2>1, <3>1, BlockSums
        <3>3. supply.minted = MintedAt(chain, Len(chain)) /\ supply.burned = BurnedAt(chain, Len(chain))
            BY <2>2 DEF AtTip, SupplyAt
        <3>4. QED
            BY <1>1, <1>5, <3>2, <3>3 DEF Pending, KeepsPending
    <2>6. Committing'
        BY <1>1, <2>2, <2>5, TipKept DEF Committing
    <2>7. QED
        BY <1>1, <1>5, <1>7, <2>2, <2>4, <2>6 DEF AssetInv, KeepsPending, ConnectPCs, UndoPCs
<1>8. QED
    BY <1>6, <1>7

\* The verdict of the scripts, and every refusal.
LEMMA AssetsVerdict ==
    ASSUME TypeOK, CoinsInv, AssetInv, ScriptsPass \/ Reject
    PROVE  AssetInv'
<1>1. pc \in {"inputs", "assets", "scripts"} /\ pc \in ConnectPCs /\ chain' = chain /\ UNCHANGED asset
    BY DEF ScriptsPass, Reject, ConnectPCs
<1>2. AtTip(chain)
    BY <1>1 DEF AssetInv, Committing, NothingPending
<1>3. CASE pc' = "idle"
    BY <1>1, <1>2, <1>3, AbandonAssets
<1>4. CASE pc' # "idle"
    <2>1. pc = "scripts" /\ pc' = "commitOutpoint" /\ job' = job /\ job.caller # "template"
        BY <1>4 DEF ScriptsPass, Reject, Abandon
    <2>2. KeepsPending /\ job'.pendingSupply = job.pendingSupply /\ pc' \in ConnectPCs
        BY <2>1 DEF KeepsPending, ConnectPCs
    <2>3. CASE job.caller = "verify"
        BY <1>1, <2>2, <2>3, KeepNothing
    <2>4. CASE job.caller # "verify"
        <3>1. Locals /\ Committing /\ Lawful(chain)
            BY <1>1, <2>4 DEF AssetInv
        <3>2. Passed' = Passed /\ Upto' = Upto
            BY <2>1 DEF Passed, Upto
        <3>3. Locals'
            <4>1. Valued(CoinsAt(chain, Len(chain)), job.block, Upto)
                BY <3>1 DEF Locals
            <4>2. QED
                BY <1>1, <2>2, <3>1, <3>2, <4>1, KeepLocals
        <3>4. Pending'
            BY <1>1, <2>1, <3>1 DEF Committing, Pending
        <3>5. Committing'
            BY <1>1, <1>2, <2>1, <3>4, TipKept DEF Committing
        <3>6. QED
            BY <1>1, <2>1, <2>4, <3>1, <3>3, <3>5 DEF AssetInv, ConnectPCs, UndoPCs
    <2>5. QED
        BY <2>3, <2>4
<1>5. QED
    BY <1>3, <1>4

\* The commit point writes the outpoint.
LEMMA OutpointWritten ==
    ASSUME TypeOK, CoinsInv, AssetInv, CommitOutpoint
    PROVE  AssetInv'
<1> DEFINE b == job.block
           v == CoinsAt(chain, Len(chain))
           ops == job.pendingFreezeOps
<1>1. /\ pc = "commitOutpoint" /\ pc' = "commitFreeze" /\ pc \in ConnectPCs /\ pc' \in ConnectPCs
      /\ chain' = chain /\ supply' = supply /\ frozen' = frozen
    BY DEF CommitOutpoint, ConnectPCs
<1>2. job \in ConnectJob /\ job' = [job EXCEPT !.i = 1]
    BY <1>1 DEF TypeOK, CommitOutpoint
<1>3. /\ KeepsPending /\ job'.pendingSupply = job.pendingSupply /\ job'.i = 1 /\ job'.view = job.view
    BY <1>2 DEF ConnectJob, KeepsPending
<1>4. CASE job.caller = "verify"
    <2>1. NothingPending
        BY <1>1, <1>4 DEF AssetInv
    <2>2. authOutpoint' = authOutpoint
        BY <2>1 DEF NothingPending, CommitOutpoint
    <2>3. QED
        BY <1>1, <1>3, <1>4, <2>2, KeepNothing DEF asset
<1>5. CASE job.caller # "verify"
    <2>1. Locals /\ Committing /\ AtTip(chain) /\ Pending /\ Lawful(chain) /\ job.caller # "template"
        BY <1>1, <1>5 DEF AssetInv, Committing
    <2>2. Upto = Len(b) /\ Passed = Len(b) /\ Upto' = Upto /\ Passed' = Passed
        BY <1>1, <1>3 DEF Upto, Passed, KeepsPending
    <2>3. job.view = ViewAt(v, b, Len(b))
        BY <1>1, <1>5, <2>2, TipJob
    <2>4. Tracks(job.view, job.localAuthOutpoint)
        BY <2>1, <2>2, <2>3 DEF Locals
    <2>5. authOutpoint' = job.localAuthOutpoint
        <3>1. CASE job.commitOutpoint
            BY <3>1 DEF CommitOutpoint
        <3>2. CASE ~job.commitOutpoint
            <4>1. Tracks(v, job.localAuthOutpoint) /\ Tracks(v, authOutpoint)
                BY <2>1, <3>2 DEF Locals, AtTip
            <4>2. authOutpoint' = authOutpoint
                BY <3>2 DEF CommitOutpoint
            <4>3. QED
                BY <4>1, <4>2, OneTracked
        <3>3. QED
            BY <3>1, <3>2
    <2>6. Locals'
        <3>1. Valued(v, b, Upto)
            BY <2>1 DEF Locals
        <3>2. QED
            BY <1>1, <1>3, <2>1, <2>2, <3>1, KeepLocals
    <2>7. FrozenBy(ops, 0) = {} /\ ThawedBy(ops, 0) = {} /\ 1 - 1 = 0 /\ 1 <= Len(ops) + 1
        BY <1>2 DEF FrozenBy, ThawedBy, ConnectJob
    <2>8. Pending'
        BY <1>1, <1>3, <2>1 DEF Pending, KeepsPending
    <2>9. supply' = SupplyAt(chain, Len(chain)) /\ frozen' = FrozenAt(chain, Len(chain))
        BY <1>1, <2>1 DEF AtTip
    <2>10. Committing'
        <3>1. job'.pendingFreezeOps = ops
            BY <1>3 DEF KeepsPending
        <3> HIDE DEF ops
        <3>2. frozen' = (FrozenAt(chain, Len(chain)) \ ThawedBy(ops, 0)) \cup FrozenBy(ops, 0)
            BY <2>7, <2>9
        <3>3. QED
            BY <1>1, <1>3, <2>1, <2>4, <2>5, <2>7, <2>8, <2>9, <3>1, <3>2 DEF Committing, KeepsPending
    <2>11. QED
        BY <1>1, <1>3, <1>5, <2>1, <2>6, <2>10 DEF AssetInv, KeepsPending, ConnectPCs, UndoPCs
<1>6. QED
    BY <1>4, <1>5

\* One operation of a list more.
LEMMA OpsPrefix ==
    ASSUME NEW ops \in Seq(FreezeOps), NEW i \in 1..Len(ops)
    PROVE  /\ FrozenBy(ops, i)
                = FrozenBy(ops, i - 1) \cup (IF ops[i].op = "freeze" THEN {ops[i].target} ELSE {})
           /\ ThawedBy(ops, i)
                = ThawedBy(ops, i - 1) \cup (IF ops[i].op # "freeze" THEN {ops[i].target} ELSE {})
           /\ FrozenBy(ops, i) \subseteq FrozenBy(ops, Len(ops))
           /\ ThawedBy(ops, i) \subseteq ThawedBy(ops, Len(ops))
<1>1. 1..i = (1..(i - 1)) \cup {i} /\ \A k \in 1..i : k \in 1..Len(ops)
    OBVIOUS
<1>2. QED
    BY <1>1 DEF FrozenBy, ThawedBy

\* It writes the freeze operations one by one.
LEMMA FreezeWritten ==
    ASSUME PlainState, TypeOK, CoinsInv, AssetInv, CommitFreezeOp
    PROVE  AssetInv'
<1> DEFINE b == job.block
           ops == job.pendingFreezeOps
           i == job.i
           F == FrozenAt(chain, Len(chain))
<1>1. /\ pc = "commitFreeze" /\ pc' = "commitFreeze" /\ pc \in ConnectPCs /\ pc' \in ConnectPCs
      /\ chain' = chain /\ supply' = supply /\ authOutpoint' = authOutpoint /\ i <= Len(ops)
    BY DEF CommitFreezeOp, ConnectPCs
<1>2. job \in ConnectJob /\ job' = [job EXCEPT !.i = job.i + 1]
    BY <1>1 DEF TypeOK, CommitFreezeOp
<1>3. /\ KeepsPending /\ job'.pendingSupply = job.pendingSupply /\ job'.i = i + 1 /\ job'.view = job.view
    BY <1>2 DEF ConnectJob, KeepsPending
<1>4. i \in Nat \ {0} /\ ops \in Seq(FreezeOps) /\ i \in 1..Len(ops)
    BY <1>1, <1>2 DEF ConnectJob
<1>5. job.caller # "verify"
    <2>1. job.caller = "verify" => ops = <<>>
        BY <1>1 DEF AssetInv, NothingPending
    <2>2. QED
        BY <1>4, <2>1
<1>6. Locals /\ Committing /\ Pending /\ Lawful(chain) /\ job.caller # "template"
    BY <1>1, <1>5 DEF AssetInv, Committing
<1>7. Upto = Len(b) /\ Passed = Len(b) /\ Upto' = Upto /\ Passed' = Passed
    BY <1>1, <1>3 DEF Upto, Passed, KeepsPending
<1>8. Locals'
    <2>1. Valued(CoinsAt(chain, Len(chain)), b, Upto)
        BY <1>6 DEF Locals
    <2>2. QED
        BY <1>1, <1>3, <1>6, <1>7, <2>1, KeepLocals
<1>9. FrozenBy(ops, Len(ops)) \cap ThawedBy(ops, Len(ops)) = {}
    <2>1. FrozenBy(ops, Len(ops)) = FrozenIn(b, Len(b)) /\ ThawedBy(ops, Len(ops)) = ThawedIn(b, Len(b))
        BY <1>6, <1>7 DEF Locals
    <2>2. b \in Blocks /\ Plain(b) /\ Len(b) \in 0..Len(b)
        BY <1>1, <1>5, TipJob DEF PlainState
    <2> HIDE DEF b
    <2>3. QED
        BY <2>1, <2>2, FreezeDisjoint
<1>10. frozen' = (F \ ThawedBy(ops, i)) \cup FrozenBy(ops, i)
    <2>1. frozen = (F \ ThawedBy(ops, i - 1)) \cup FrozenBy(ops, i - 1)
        BY <1>1, <1>6 DEF Committing
    <2>2. frozen' = IF ops[i].op = "freeze" THEN frozen \cup {ops[i].target} ELSE frozen \ {ops[i].target}
        BY DEF CommitFreezeOp
    <2> HIDE DEF ops, i, F
    <2>3. /\ FrozenBy(ops, i)
               = FrozenBy(ops, i - 1) \cup (IF ops[i].op = "freeze" THEN {ops[i].target} ELSE {})
          /\ ThawedBy(ops, i)
               = ThawedBy(ops, i - 1) \cup (IF ops[i].op # "freeze" THEN {ops[i].target} ELSE {})
        BY <1>4, OpsPrefix
    <2>4. FrozenBy(ops, i) \cap ThawedBy(ops, i) = {}
        BY <1>4, <1>9, OpsPrefix
    <2>5. QED
        BY <2>1, <2>2, <2>3, <2>4
<1>11. Pending'
    BY <1>1, <1>3, <1>6 DEF Pending, KeepsPending
<1>12. Committing'
    <2>1. job'.pendingFreezeOps = ops /\ job'.caller = job.caller /\ job'.i - 1 = i /\ job'.i <= Len(ops) + 1
        BY <1>3, <1>4 DEF KeepsPending
    <2>2. F = FrozenAt(chain', Len(chain'))
        BY <1>1
    <2>3. supply' = SupplyAt(chain', Len(chain')) /\ Tracks(job'.view, authOutpoint')
        BY <1>1, <1>3, <1>6 DEF Committing
    <2> HIDE DEF ops, i, F
    <2>4. QED
        BY <1>1, <1>6, <1>10, <1>11, <2>1, <2>2, <2>3 DEF Committing
<1>13. QED
    BY <1>1, <1>3, <1>5, <1>6, <1>8, <1>12 DEF AssetInv, KeepsPending, ConnectPCs, UndoPCs

\* It writes the supply.
LEMMA SupplyWritten ==
    ASSUME TypeOK, CoinsInv, AssetInv, CommitSupply
    PROVE  AssetInv'
<1> DEFINE b == job.block
           ops == job.pendingFreezeOps
           F == FrozenAt(chain, Len(chain))
<1>1. /\ pc = "commitFreeze" /\ pc' = "connected" /\ pc \in ConnectPCs /\ pc' \in ConnectPCs
      /\ chain' = chain /\ job' = job /\ frozen' = frozen /\ authOutpoint' = authOutpoint
      /\ job.i > Len(ops) /\ supply' = job.pendingSupply
    BY DEF CommitSupply, ConnectPCs
<1>2. KeepsPending
    BY <1>1 DEF KeepsPending
<1>3. CASE job.caller = "verify"
    <2>1. NothingPending
        BY <1>1, <1>3 DEF AssetInv
    <2>2. UNCHANGED asset
        BY <1>1, <2>1 DEF NothingPending, asset
    <2>3. QED
        BY <1>1, <1>2, <1>3, <2>2, KeepNothing
<1>4. CASE job.caller # "verify"
    <2>1. Locals /\ Committing /\ Pending /\ Lawful(chain) /\ job.caller # "template"
        BY <1>1, <1>4 DEF AssetInv, Committing
    <2>2. Upto' = Upto /\ Passed' = Passed /\ Passed = Len(b)
        BY <1>1 DEF Upto, Passed
    <2>3. Locals'
        <3>1. Valued(CoinsAt(chain, Len(chain)), b, Upto)
            BY <2>1 DEF Locals
        <3>2. QED
            BY <1>1, <1>2, <2>1, <2>2, <3>1, KeepLocals
    <2>4. job.i - 1 = Len(ops)
        <3>1. job.i \in Nat /\ Len(ops) \in Nat /\ job.i <= Len(ops) + 1
            BY <1>1, <2>1 DEF TypeOK, ConnectJob, Committing
        <3>2. QED
            BY <1>1, <3>1
    <2>5. frozen = FrozenAfter(F, b, Len(b))
        <3>1. frozen = (F \ ThawedBy(ops, job.i - 1)) \cup FrozenBy(ops, job.i - 1)
            BY <1>1, <2>1 DEF Committing
        <3>2. FrozenBy(ops, Len(ops)) = FrozenIn(b, Len(b)) /\ ThawedBy(ops, Len(ops)) = ThawedIn(b, Len(b))
            BY <2>1, <2>2 DEF Locals
        <3> HIDE DEF ops, b, F
        <3>3. QED
            BY <2>4, <3>1, <3>2, Zenon DEF FrozenAfter
    <2>6. Pending' /\ Tracks(job'.view, authOutpoint')
        BY <1>1, <2>1 DEF Pending, Committing
    <2>7. Committing'
        BY <1>1, <2>1, <2>5, <2>6 DEF Committing
    <2>8. QED
        BY <1>1, <1>4, <2>1, <2>3, <2>7 DEF AssetInv, ConnectPCs, UndoPCs
<1>5. QED
    BY <1>3, <1>4

\* A chain that shares its blocks with a lawful one is lawful as far.
LEMMA LawfulShared ==
    ASSUME RulesFromGenesis, NEW c \in Seq(Blocks), NEW d \in Seq(Blocks), PlainChain(c), PlainChain(d), Lawful(c),
           NEW n \in Nat, n <= Len(c), n <= Len(d), \A h \in 1..n : d[h] = c[h]
    PROVE  /\ \A h \in 1..n : Accepted(d, h)
           /\ CoinsAt(d, n) = CoinsAt(c, n) /\ SupplyAt(d, n) = SupplyAt(c, n)
           /\ FrozenAt(d, n) = FrozenAt(c, n)
<1>1. ASSUME NEW h \in 1..n PROVE Accepted(d, h)
    <2> DEFINE j == h - 1
    <2>1. j \in Nat /\ j <= Len(c) /\ j <= Len(d) /\ (\A k \in 1..j : k \in 1..n) /\ h \in 1..Len(c)
        OBVIOUS
    <2>2. Accepted(c, h) /\ d[h] = c[h]
        BY <2>1 DEF Lawful
    <2>3. \A k \in 1..j : d[k] = c[k]
        BY <2>1
    <2> HIDE DEF j
    <2>4. CoinsAt(d, j) = CoinsAt(c, j)
        BY <2>1, <2>3, SamePrefix
    <2>5. FrozenAt(d, j) = FrozenAt(c, j)
        BY <2>1, <2>3, SameFrozen
    <2>6. QED
        BY <2>2, <2>4, <2>5 DEF Accepted, j
<1>2. CoinsAt(d, n) = CoinsAt(c, n) /\ SupplyAt(d, n) = SupplyAt(c, n)
    BY SamePrefix
<1>3. FrozenAt(d, n) = FrozenAt(c, n)
    BY SameFrozen
<1>4. QED
    BY <1>1, <1>2, <1>3

\* ConnectTip extends the chain by a block that passed every check.
LEMMA LawfulAppend ==
    ASSUME RulesFromGenesis, NEW c \in Seq(Blocks), PlainChain(c), Lawful(c),
           NEW b \in Blocks, Plain(b), NEW v, v = CoinsAt(c, Len(c)), NEW F, F = FrozenAt(c, Len(c)),
           Valued(v, b, Len(b)), Guarded(v, b, Len(b)), FreezeSound(F, v, b, Len(b)),
           NEW d, d = Append(c, b)
    PROVE  /\ Lawful(d) /\ CoinsAt(d, Len(d)) = ViewAt(v, b, Len(b))
           /\ FrozenAt(d, Len(d)) = FrozenAfter(F, b, Len(b))
           /\ SupplyAt(d, Len(d)) = [minted |-> MintedAt(c, Len(c)) + Total(MintedBy, b),
                                     burned |-> BurnedAt(c, Len(c)) + Total(BurnedBy, b)]
<1> DEFINE n == Len(c)
<1>1. n \in Nat /\ d \in Seq(Blocks) /\ Len(d) = n + 1 /\ d[n + 1] = b /\ \A h \in 1..n : d[h] = c[h]
    OBVIOUS
<1> PlainChain(d)
    BY <1>1 DEF PlainChain
<1>2. CoinsAt(d, Len(d)) = ViewAt(v, b, Len(b))
    <2>1. Fits(v, b, Len(b)) /\ Linear(c)
        BY ValuedFits, LawfulLinear
    <2>2. QED
        BY <2>1, LinearAppend
<1>3. /\ \A h \in 1..n : Accepted(d, h)
      /\ CoinsAt(d, n) = CoinsAt(c, n) /\ SupplyAt(d, n) = SupplyAt(c, n) /\ FrozenAt(d, n) = FrozenAt(c, n)
    <2>1. n <= Len(c) /\ n <= Len(d)
        BY <1>1
    <2> HIDE DEF n
    <2>2. QED
        BY <1>1, <2>1, LawfulShared
<1>4. Accepted(d, n + 1)
    <2>1. (n + 1) - 1 = n
        BY <1>1
    <2>2. QED
        BY <1>1, <1>3, <2>1 DEF Accepted
<1>5. Lawful(d)
    <2>1. \A h \in 1..Len(d) : h \in 1..n \/ h = n + 1
        BY <1>1
    <2>2. QED
        BY <1>3, <1>4, <2>1 DEF Lawful
<1>6. FrozenAt(d, Len(d)) = FrozenAfter(F, b, Len(b))
    <2> HIDE DEF n
    <2>1. n < Len(d)
        BY <1>1
    <2>2. FrozenAt(d, n + 1) = FrozenAfter(FrozenAt(d, n), d[n + 1], Len(d[n + 1]))
        BY <1>1, <2>1, ChainFrozen
    <2>3. QED
        BY <1>1, <1>3, <2>2 DEF n
<1>7. SupplyAt(d, Len(d)) = [minted |-> MintedAt(c, n) + Total(MintedBy, b),
                             burned |-> BurnedAt(c, n) + Total(BurnedBy, b)]
    <2> HIDE DEF n
    <2>1. n < Len(d)
        BY <1>1
    <2>2. /\ MintedAt(d, n + 1) = MintedAt(d, n) + Total(MintedBy, d[n + 1])
          /\ BurnedAt(d, n + 1) = BurnedAt(d, n) + Total(BurnedBy, d[n + 1])
        BY <1>1, <2>1, ChainSums
    <2>3. MintedAt(d, n) = MintedAt(c, n) /\ BurnedAt(d, n) = BurnedAt(c, n)
        BY <1>3 DEF SupplyAt
    <2>4. QED
        BY <1>1, <2>2, <2>3 DEF SupplyAt
<1>8. QED
    BY <1>2, <1>5, <1>6, <1>7

LEMMA TipConnected ==
    ASSUME RulesFromGenesis, PlainState, TypeOK, CoinsInv, AssetInv, ConnectTip
    PROVE  AssetInv'
<1> DEFINE b == job.block
           c == chain
           v == CoinsAt(c, Len(c))
           F == FrozenAt(c, Len(c))
<1>1. /\ pc = "connected" /\ pc' = "idle" /\ pc \in ConnectPCs /\ job.caller # "verify"
      /\ chain' = Append(c, b) /\ UNCHANGED asset
    BY DEF ConnectTip, ConnectPCs, Abandon
<1>2. Locals /\ Committing /\ Pending /\ Lawful(c)
    BY <1>1 DEF AssetInv, Committing
<1>3. b \in Blocks /\ c \in Seq(Blocks) /\ Upto = Len(b) /\ Passed = Len(b) /\ job.view = ViewAt(v, b, Len(b))
    <2>1. Upto = Len(b) /\ Passed = Len(b)
        BY <1>1 DEF Upto, Passed
    <2>2. QED
        BY <1>1, <2>1, TipJob
<1>4. Valued(v, b, Len(b)) /\ Guarded(v, b, Len(b)) /\ FreezeSound(F, v, b, Len(b))
    BY <1>2, <1>3 DEF Locals
<1>5. /\ Lawful(chain') /\ CoinsAt(chain', Len(chain')) = ViewAt(v, b, Len(b))
      /\ FrozenAt(chain', Len(chain')) = FrozenAfter(F, b, Len(b))
      /\ SupplyAt(chain', Len(chain')) = [minted |-> MintedAt(c, Len(c)) + Total(MintedBy, b),
                                          burned |-> BurnedAt(c, Len(c)) + Total(BurnedBy, b)]
    <2> DEFINE d == Append(c, b)
    <2>0. PlainChain(c) /\ Plain(b)
        BY <1>1 DEF PlainState
    <2>1. v = CoinsAt(c, Len(c)) /\ F = FrozenAt(c, Len(c)) /\ d = Append(c, b)
        OBVIOUS
    <2> HIDE DEF v, F, b, d
    <2>2. /\ Lawful(d) /\ CoinsAt(d, Len(d)) = ViewAt(v, b, Len(b))
          /\ FrozenAt(d, Len(d)) = FrozenAfter(F, b, Len(b))
          /\ SupplyAt(d, Len(d)) = [minted |-> MintedAt(c, Len(c)) + Total(MintedBy, b),
                                    burned |-> BurnedAt(c, Len(c)) + Total(BurnedBy, b)]
        BY <1>2, <1>3, <1>4, <2>1, <2>0, LawfulAppend
    <2>3. chain' = d
        BY <1>1, <2>1
    <2>4. QED
        BY <2>2, <2>3
<1>6. AtTip(chain)'
    <2>1. supply = job.pendingSupply /\ frozen = FrozenAfter(F, b, Len(b)) /\ Tracks(job.view, authOutpoint)
        BY <1>1, <1>2 DEF Committing
    <2>2. supply' = SupplyAt(chain', Len(chain'))
        BY <1>1, <1>2, <1>5, <2>1 DEF Pending, asset
    <2>3. frozen' = FrozenAt(chain', Len(chain')) /\ Tracks(CoinsAt(chain', Len(chain')), authOutpoint')
        BY <1>1, <1>3, <1>5, <2>1 DEF asset
    <2>4. QED
        BY <2>2, <2>3 DEF AtTip
<1>7. QED
    BY <1>1, <1>5, <1>6 DEF AssetInv, ConnectPCs, UndoPCs

\* Every step of ConnectBlock and its callers.
LEMMA ConnectAssets ==
    ASSUME RulesFromGenesis, PlainState, TypeOK, CoinsInv, AssetInv, Connecting
    PROVE  AssetInv'
<1>1. CASE \E blk \in Blocks, caller \in {"tip", "template"} : BeginConnect(blk, caller)
    <2>1. PICK blk \in Blocks, caller \in {"tip", "template"} : BeginConnect(blk, caller)
        BY <1>1
    <2>2. /\ AtTip(chain) /\ pc' = "inputs" /\ chain' = chain /\ UNCHANGED asset
          /\ job' = Activation(blk, caller, Len(chain) + 1, coins)
        BY <2>1 DEF BeginConnect, AssetInv
    <2>3. QED
        BY <2>2, ActivationAssets
<1>2. CASE ConnectInputs \/ InputsDone
    BY <1>2, AssetsInputs
<1>3. CASE ConnectAsset
    BY <1>3, AssetsTx, VerifyTx
<1>4. CASE CheckSupply
    BY <1>4, AssetsSupply
<1>5. CASE ScriptsPass \/ Reject
    BY <1>5, AssetsVerdict
<1>6. CASE CommitOutpoint
    BY <1>6, OutpointWritten
<1>7. CASE CommitFreezeOp
    BY <1>7, FreezeWritten
<1>8. CASE CommitSupply
    BY <1>8, SupplyWritten
<1>9. CASE ConnectTip
    BY <1>9, TipConnected
<1>10. QED
    BY <1>1, <1>2, <1>3, <1>4, <1>5, <1>6, <1>7, <1>8, <1>9 DEF Connecting
-----------------------------------------------------------------------------
(* DisconnectBlock keeps the invariant.                                     *)

\* What every step of a real disconnect knows.
LEMMA UndoTip ==
    ASSUME PlainState, TypeOK, CoinsInv, AssetInv, pc \in UndoPCs, job.fRealDisconnect
    PROVE  /\ job \in UndoJob /\ Undoing /\ Lawful(chain) /\ Linear(chain) /\ chain \in Seq(Blocks)
           /\ job.height = Len(chain) /\ job.height \in 1..Len(chain) /\ job.height \in Nat \ {0}
           /\ Len(chain) - 1 \in 0..Len(chain) /\ Len(chain) - 1 \in Nat /\ Len(chain) - 1 < Len(chain)
           /\ (Len(chain) - 1) + 1 = Len(chain) /\ chain # <<>>
           /\ job.view = CoinsAt(chain, Len(chain) - 1)
           /\ chain[job.height] \in Blocks /\ Len(chain[job.height]) \in Nat
           /\ DOMAIN chain[job.height] = 1..Len(chain[job.height])
           /\ Plain(chain[job.height]) /\ Accepted(chain, Len(chain))
<1>1. job \in UndoJob /\ chain \in Seq(Blocks) /\ job.height \in Nat \ {0}
    BY DEF TypeOK, UndoJob
<1>2. Undoing /\ Lawful(chain)
    BY DEF AssetInv, ConnectPCs, UndoPCs
<1>3. Linear(chain) /\ job.height = Len(chain) /\ job.view = CoinsAt(chain, job.height - 1)
    BY DEF CoinsInv, UndoView
<1>4. /\ job.height \in 1..Len(chain) /\ Len(chain) - 1 \in 0..Len(chain) /\ Len(chain) - 1 \in Nat
      /\ Len(chain) - 1 < Len(chain) /\ (Len(chain) - 1) + 1 = Len(chain) /\ chain # <<>>
    BY <1>1, <1>3
<1>5. /\ chain[job.height] \in Blocks /\ Len(chain[job.height]) \in Nat
      /\ DOMAIN chain[job.height] = 1..Len(chain[job.height])
    BY <1>1, <1>4, ChainTx
<1>6. Plain(chain[job.height]) /\ Accepted(chain, Len(chain))
    BY <1>2, <1>3, <1>4, <1>5 DEF PlainState, PlainChain, Lawful
<1>7. QED
    BY <1>1, <1>2, <1>3, <1>4, <1>5, <1>6

\* A step of VerifyDB's disconnect pass.
LEMMA VerifyUndo ==
    ASSUME AssetInv, pc \in UndoPCs, ~job.fRealDisconnect, chain' = chain, UNCHANGED asset,
           pc' = "idle" \/ (pc' \in UndoPCs /\ ~job'.fRealDisconnect)
    PROVE  AssetInv'
<1>1. AtTip(chain)
    BY DEF AssetInv
<1>2. AtTip(chain)' /\ Lawful(chain)
    BY <1>1, TipKept DEF AssetInv
<1>3. QED
    BY <1>2 DEF AssetInv, ConnectPCs, UndoPCs

LEMMA DisconnectBegins ==
    ASSUME AssetInv, NEW fReal \in BOOLEAN, BeginDisconnect(fReal)
    PROVE  AssetInv'
<1>1. AtTip(chain) /\ Lawful(chain) /\ pc' = "undoSupply" /\ chain' = chain /\ UNCHANGED asset
    BY DEF BeginDisconnect, AssetInv
<1>2. job'.fRealDisconnect = fReal /\ job'.i = 1
    BY DEF BeginDisconnect
<1>3. AtTip(chain)'
    BY <1>1, TipKept
<1>4. Undoing'
    BY <1>1, <1>2, <1>3 DEF Undoing
<1>5. QED
    BY <1>1, <1>2, <1>3, <1>4 DEF AssetInv, ConnectPCs, UndoPCs

\* The reversal of the supply is never refused.
LEMMA SupplyUndone ==
    ASSUME RulesFromGenesis, PlainState, TypeOK, SupplySane, CoinsInv, AssetInv, UndoSupply
    PROVE  AssetInv'
<1>1. pc = "undoSupply" /\ pc' = "undoOutpoint" /\ pc \in UndoPCs /\ pc' \in UndoPCs
      /\ chain' = chain /\ authOutpoint' = authOutpoint /\ frozen' = frozen
    BY DEF UndoSupply, UndoPCs
<1>2. CASE ~job.fRealDisconnect
    <2>1. supply' = supply /\ job' = job
        BY <1>2 DEF UndoSupply, Reversing
    <2>2. QED
        BY <1>1, <1>2, <2>1, VerifyUndo DEF asset
<1>3. CASE job.fRealDisconnect
    <2> DEFINE n == Len(chain)
               j == n - 1
               blk == chain[job.height]
               x == MintedAt(chain, j)
               y == BurnedAt(chain, j)
               m == Total(MintedBy, blk)
               b == Total(BurnedBy, blk)
    <2>1. /\ job \in UndoJob /\ Undoing /\ Lawful(chain) /\ Linear(chain) /\ chain \in Seq(Blocks)
          /\ job.height = n /\ job.height \in Nat \ {0} /\ j \in 0..n /\ j \in Nat /\ j < n /\ j + 1 = n
          /\ blk \in Blocks /\ Plain(blk)
        BY <1>1, <1>3, UndoTip
    <2>2. AtTip(chain) /\ job.i = 1
        BY <1>1, <2>1 DEF Undoing
    <2>3. Reversing
        BY <1>3, <2>1, RulesOn DEF Reversing
    <2>4. supply' = Reversed(supply, m, b) /\ job' = [job EXCEPT !.fClean = ReversalOK(supply, m, b)]
        BY <2>3 DEF UndoSupply
    <2>5. x \in Nat /\ y \in Nat
        <3> HIDE DEF j
        <3>1. QED
            BY <2>1, ChainSums
    <2>6. m \in Nat /\ b \in Nat /\ (m = 0 \/ b = 0)
        <3> HIDE DEF blk
        <3>1. m \in Nat /\ b \in Nat
            BY <2>1, BlockSums
        <3>2. QED
            BY <2>1, <3>1, OneTotalZero DEF Plain
    <2>7. supply = [minted |-> x + m, burned |-> y + b]
        <3> HIDE DEF j
        <3>1. /\ MintedAt(chain, j + 1) = MintedAt(chain, j) + Total(MintedBy, chain[j + 1])
              /\ BurnedAt(chain, j + 1) = BurnedAt(chain, j) + Total(BurnedBy, chain[j + 1])
            BY <2>1, ChainSums
        <3>2. QED
            BY <2>1, <2>2, <3>1 DEF AtTip, SupplyAt
    <2>8. y <= x
        <3> HIDE DEF j
        <3>1. \A h \in 1..Len(chain) : Valued(CoinsAt(chain, h - 1), chain[h], Len(chain[h]))
            BY <2>1 DEF Lawful, Accepted
        <3>2. Outstanding(SupplyAt(chain, j)) = Amount(CoinsAt(chain, j), {"asset"})
            BY <2>1, <3>1, ChainBacked
        <3>3. Amount(CoinsAt(chain, j), {"asset"}) \in Nat
            BY <2>1, CoinsType, AmountNat
        <3>4. x - y \in Nat
            BY <3>2, <3>3 DEF Outstanding, SupplyAt
        <3>5. QED
            BY <2>5, <3>4
    <2> HIDE DEF x, y, m, b
    <2>9. /\ ReversalOK(supply, m, b)
          /\ Reversed(supply, m, b) = [minted |-> x, burned |-> y]
        <3>1. SupplyInvariant([minted |-> x + m, burned |-> y + b])
            BY <2>7 DEF SupplySane
        <3>2. QED
            BY <2>5, <2>6, <2>7, <2>8, <3>1, ReversedIs
    <2>10. supply' = SupplyAt(chain, j) /\ job'.fClean /\ job'.i = 1 /\ job'.fRealDisconnect
        BY <1>3, <2>1, <2>2, <2>4, <2>9 DEF UndoJob, SupplyAt, x, y
    <2>11. Undoing'
        BY <1>1, <2>2, <2>10 DEF Undoing, AtTip
    <2>12. QED
        BY <1>1, <2>1, <2>10, <2>11 DEF AssetInv, ConnectPCs, UndoPCs
<1>4. QED
    BY <1>2, <1>3

\* The tracker goes back to the marker the block spent first.
LEMMA OutpointUndone ==
    ASSUME RulesFromGenesis, PlainState, TypeOK, CoinsInv, AssetInv, UndoOutpoint
    PROVE  AssetInv'
<1>1. pc = "undoOutpoint" /\ pc' = "undoFreeze" /\ pc \in UndoPCs /\ pc' \in UndoPCs
      /\ chain' = chain /\ supply' = supply /\ frozen' = frozen /\ job' = job
    BY DEF UndoOutpoint, UndoPCs
<1>2. CASE ~job.fRealDisconnect
    <2>1. authOutpoint' = authOutpoint
        BY <1>2 DEF UndoOutpoint, Reversing
    <2>2. QED
        BY <1>1, <1>2, <2>1, VerifyUndo DEF asset
<1>3. CASE job.fRealDisconnect
    <2> DEFINE n == Len(chain)
               j == n - 1
               b == chain[n]
               v == CoinsAt(chain, j)
    <2>1. /\ job \in UndoJob /\ Undoing /\ Lawful(chain) /\ Linear(chain) /\ chain \in Seq(Blocks)
          /\ job.height = n /\ job.height \in Nat \ {0} /\ j \in 0..n /\ j \in Nat /\ j < n /\ j + 1 = n
          /\ job.view = v /\ b \in Blocks /\ Len(b) \in Nat /\ DOMAIN b = 1..Len(b) /\ Accepted(chain, n)
        BY <1>1, <1>3, UndoTip
    <2>2. /\ supply = SupplyAt(chain, j) /\ job.fClean /\ job.i = 1
          /\ Tracks(CoinsAt(chain, n), authOutpoint) /\ frozen = FrozenAt(chain, n)
        BY <1>1, <2>1 DEF Undoing
    <2>3. Reversing
        BY <1>3, <2>1, RulesOn DEF Reversing
    <2>4. authOutpoint' = IF AuthorityTxs(b) # {} THEN RestoredOutpoint(b, v) ELSE authOutpoint
        BY <2>1, <2>3 DEF UndoOutpoint
    <2>5. Guarded(v, b, Len(b)) /\ Fits(v, b, Len(b)) /\ v \in SUBSET Outpoints
        <3>1. Guarded(v, b, Len(b)) /\ Valued(v, b, Len(b))
            BY <2>1 DEF Accepted
        <3> HIDE DEF j, b
        <3>2. v \in SUBSET Outpoints
            BY <2>1, CoinsType
        <3> HIDE DEF v
        <3>3. QED
            BY <3>1, <3>2, ValuedFits
    <2>6. PICK o : Tracks(v, o)
        <3>1. \A h \in 1..Len(chain) : Guarded(CoinsAt(chain, h - 1), chain[h], Len(chain[h]))
            BY <2>1 DEF Lawful, Accepted
        <3> HIDE DEF j
        <3>2. Tracks(v, ReplayChain(chain)[j].outpoint)
            BY <2>1, <3>1, ChainTracked DEF PlainState
        <3>3. QED
            BY <3>2
    <2>7. Tracks(v, authOutpoint')
        <3>1. CASE AuthorityTxs(b) # {}
            <4> HIDE DEF v, b
            <4>1. RestoredOutpoint(b, v) = o
                BY <2>1, <2>5, <2>6, <3>1, Restored
            <4>2. QED
                BY <2>4, <2>6, <3>1, <4>1
        <3>2. CASE AuthorityTxs(b) = {}
            <4>1. \A k \in 1..Len(b) : ~IsAuthorityTx(b[k])
                BY <2>1, <3>2 DEF AuthorityTxs
            <4>2. ViewAt(v, b, Len(b)) = CoinsAt(chain, n)
                <5> HIDE DEF j
                <5>1. ViewAt(CoinsAt(chain, j), chain[j + 1], Len(chain[j + 1])) = CoinsAt(chain, j + 1)
                    BY <2>1, ViewEnd
                <5>2. QED
                    BY <2>1, <5>1
            <4> HIDE DEF v, b
            <4>3. Markers(ViewAt(v, b, Len(b))) = Markers(v)
                BY <2>1, <2>5, <4>1, QuietMarkers
            <4>4. QED
                BY <2>2, <2>4, <3>2, <4>2, <4>3 DEF Tracks
        <3>3. QED
            BY <3>1, <3>2
    <2>8. 1 - 1 = 0 /\ 1 <= Len(b) + 1 /\ FrozenIn(b, 0) = {} /\ ThawedIn(b, 0) = {}
        BY <2>1 DEF FrozenIn, ThawedIn
    <2>9. Undoing'
        <3>1. frozen' = (FrozenAt(chain, n) \ FrozenIn(b, 0)) \cup ThawedIn(b, 0)
            BY <1>1, <2>2, <2>8
        <3>2. job'.i - 1 = 0 /\ job'.i <= Len(b) + 1 /\ job'.fClean /\ supply' = SupplyAt(chain, j)
            BY <1>1, <2>2, <2>8
        <3>3. /\ Tracks(CoinsAt(chain', Len(chain') - 1), authOutpoint') /\ chain'[Len(chain')] = b
              /\ supply' = SupplyAt(chain', Len(chain') - 1)
            BY <1>1, <2>7, <3>2
        <3> HIDE DEF b, j, v
        <3>4. QED
            BY <1>1, <3>1, <3>2, <3>3 DEF Undoing
    <2>10. QED
        BY <1>1, <1>3, <2>1, <2>9 DEF AssetInv, ConnectPCs, UndoPCs
<1>4. QED
    BY <1>2, <1>3

\* One freeze operation is inverted.
LEMMA FreezeUndone ==
    ASSUME RulesFromGenesis, PlainState, TypeOK, CoinsInv, AssetInv, UndoFreezeOp
    PROVE  AssetInv'
<1>1. /\ pc = "undoFreeze" /\ pc' = "undoFreeze" /\ pc \in UndoPCs /\ pc' \in UndoPCs
      /\ chain' = chain /\ supply' = supply /\ authOutpoint' = authOutpoint
      /\ job' = [job EXCEPT !.i = job.i + 1] /\ job.i <= Len(chain[job.height])
    BY DEF UndoFreezeOp, UndoPCs
<1>2. /\ job \in UndoJob /\ job'.fRealDisconnect = job.fRealDisconnect /\ job'.fClean = job.fClean
      /\ job'.i = job.i + 1 /\ job.i \in Nat \ {0}
    BY <1>1 DEF TypeOK, UndoJob
<1>3. CASE ~job.fRealDisconnect
    <2>1. frozen' = frozen
        BY <1>3 DEF UndoFreezeOp, Reversing, Inverted
    <2>2. QED
        BY <1>1, <1>2, <1>3, <2>1, VerifyUndo DEF asset
<1>4. CASE job.fRealDisconnect
    <2> DEFINE n == Len(chain)
               b == chain[n]
               m == job.i - 1
               t == b[job.i]
               x == FreezeOp[t].target
               G == FrozenAt(chain, n)
    <2>1. /\ Undoing /\ Lawful(chain) /\ job.height = n /\ job.height \in Nat \ {0}
          /\ b \in Blocks /\ Len(b) \in Nat /\ Plain(b)
        BY <1>1, <1>4, UndoTip
    <2>2. /\ supply = SupplyAt(chain, n - 1) /\ job.fClean /\ Tracks(CoinsAt(chain, n - 1), authOutpoint)
          /\ frozen = (G \ FrozenIn(b, m)) \cup ThawedIn(b, m)
        BY <1>1, <2>1 DEF Undoing
    <2>3. m \in Nat /\ m + 1 = job.i /\ m + 1 \in 0..Len(b) /\ t = b[m + 1]
        BY <1>1, <1>2, <2>1
    <2>4. Reversing /\ AppliedFreezeOp(t, job.height) = Op(t)
        BY <1>4, <2>1, RulesOn DEF Reversing
    <2>5. frozen' = Inverted(Op(t), x)
        BY <2>1, <2>4 DEF UndoFreezeOp
    <2>6. x = FreezeOp[b[m + 1]].target
        BY <2>3
    <2> HIDE DEF b, m, t, x, G
    <2>7. /\ FrozenIn(b, m + 1) = FrozenIn(b, m) \cup (IF Op(t) = "freeze" THEN {x} ELSE {})
          /\ ThawedIn(b, m + 1) = ThawedIn(b, m) \cup (IF Op(t) = "unfreeze" THEN {x} ELSE {})
        BY <2>3, <2>6, FreezeStep
    <2>8. FrozenIn(b, m + 1) \cap ThawedIn(b, m + 1) = {}
        BY <2>1, <2>3, FreezeDisjoint
    <2>9. frozen' = (G \ FrozenIn(b, m + 1)) \cup ThawedIn(b, m + 1)
        <3>1. CASE Op(t) = "freeze"
            BY <2>2, <2>5, <2>7, <2>8, <3>1 DEF Inverted
        <3>2. CASE Op(t) = "unfreeze"
            BY <2>2, <2>5, <2>7, <2>8, <3>2 DEF Inverted
        <3>3. CASE Op(t) \notin {"freeze", "unfreeze"}
            BY <2>2, <2>5, <2>7, <2>8, <3>3 DEF Inverted
        <3>4. QED
            BY <3>1, <3>2, <3>3
    <2>10. Undoing'
        <3>1. job'.i - 1 = m + 1 /\ job'.i <= Len(b) + 1
            BY <1>2, <2>1, <2>3
        <3>2. G = FrozenAt(chain', Len(chain')) /\ b = chain'[Len(chain')]
            BY <1>1 DEF G, b
        <3>3. supply' = SupplyAt(chain', Len(chain') - 1) /\ Tracks(CoinsAt(chain', Len(chain') - 1), authOutpoint')
            BY <1>1, <2>2
        <3>4. QED
            BY <1>1, <1>2, <2>2, <2>9, <3>1, <3>2, <3>3 DEF Undoing
    <2>11. QED
        BY <1>1, <1>2, <1>4, <2>1, <2>10 DEF AssetInv, ConnectPCs, UndoPCs
<1>5. QED
    BY <1>3, <1>4

\* DisconnectTip lowers the tip with the asset state of the chain below.
LEMMA TipDisconnected ==
    ASSUME RulesFromGenesis, PlainState, TypeOK, CoinsInv, AssetInv, DisconnectTip
    PROVE  AssetInv'
<1> DEFINE c == chain
           n == Len(c)
           j == n - 1
           b == c[n]
           F == FrozenAt(c, j)
           v == CoinsAt(c, j)
<1>1. /\ pc = "undoFreeze" /\ pc' = "idle" /\ pc \in UndoPCs /\ job.fRealDisconnect
      /\ UNCHANGED asset /\ job.i > Len(chain[job.height])
    BY DEF DisconnectTip, UndoPCs, Abandon
<1>2. /\ job \in UndoJob /\ Undoing /\ Lawful(c) /\ c \in Seq(Blocks)
      /\ job.height = n /\ n \in Nat /\ j \in Nat /\ j < n /\ j + 1 = n /\ c # <<>>
      /\ b \in Blocks /\ Len(b) \in Nat /\ Accepted(c, n)
    BY <1>1, UndoTip
<1>3. /\ supply = SupplyAt(c, j) /\ job.fClean /\ Tracks(v, authOutpoint) /\ job.i <= Len(b) + 1
      /\ frozen = (FrozenAt(c, n) \ FrozenIn(b, job.i - 1)) \cup ThawedIn(b, job.i - 1)
    BY <1>1, <1>2 DEF Undoing
<1>4. job.i - 1 = Len(b)
    <2>1. job.i \in Nat
        BY <1>2 DEF UndoJob
    <2>2. QED
        BY <1>1, <1>2, <1>3, <2>1
<1>5. frozen = F
    <2>1. FreezeSound(F, v, b, Len(b))
        BY <1>2 DEF Accepted
    <2>2. FrozenAt(c, n) = FrozenAfter(F, b, Len(b))
        <3> HIDE DEF c, j
        <3>1. FrozenAt(c, j + 1) = FrozenAfter(FrozenAt(c, j), c[j + 1], Len(c[j + 1]))
            BY <1>2, ChainFrozen DEF PlainState, c
        <3>2. QED
            BY <1>2, <3>1
    <2> HIDE DEF F, v, b, c, n
    <2>3. frozen = (FrozenAt(c, n) \ FrozenIn(b, Len(b))) \cup ThawedIn(b, Len(b))
        BY <1>3, <1>4
    <2>4. FrozenIn(b, Len(b)) \cap F = {} /\ ThawedIn(b, Len(b)) \subseteq F
        BY <2>1 DEF FreezeSound
    <2>5. QED
        BY <2>2, <2>3, <2>4 DEF FrozenAfter
<1> DEFINE d == SubSeq(c, 1, j)
<1>6. chain' = d
    BY <1>3 DEF DisconnectTip
<1>7. d \in Seq(Blocks) /\ Len(d) = j /\ \A h \in 1..j : d[h] = c[h]
    BY <1>2
<1> HIDE DEF d
<1>8. /\ \A h \in 1..j : Accepted(d, h)
      /\ CoinsAt(d, j) = CoinsAt(c, j) /\ SupplyAt(d, j) = SupplyAt(c, j) /\ FrozenAt(d, j) = FrozenAt(c, j)
    <2>1. j <= Len(c) /\ j <= Len(d)
        BY <1>2, <1>7
    <2>2. PlainChain(c) /\ PlainChain(d)
        BY <1>2, <1>7 DEF PlainState, PlainChain
    <2> HIDE DEF c, j
    <2>3. QED
        BY <1>2, <1>7, <2>1, <2>2, LawfulShared
<1>9. Lawful(chain')
    BY <1>6, <1>7, <1>8 DEF Lawful
<1>10. AtTip(chain)'
    BY <1>1, <1>3, <1>5, <1>6, <1>7, <1>8 DEF AtTip, asset
<1>11. QED
    BY <1>1, <1>9, <1>10 DEF AssetInv, ConnectPCs, UndoPCs

\* VerifyDB between two blocks.
LEMMA VerifyContinues ==
    ASSUME TypeOK, CoinsInv, AssetInv, VerifyDisconnect \/ VerifyReconnect
    PROVE  AssetInv'
<1>1. chain' = chain /\ UNCHANGED asset /\ chain \in Seq(Blocks)
    BY DEF VerifyDisconnect, VerifyReconnect, TypeOK
<1>2. CASE VerifyDisconnect
    <2>1. pc \in UndoPCs /\ ~job.fRealDisconnect /\ job \in UndoJob /\ job.height <= Len(chain)
        BY <1>2 DEF VerifyDisconnect, UndoPCs, TypeOK
    <2>2. AtTip(chain) /\ job.height \in 1..Len(chain)
        BY <2>1 DEF AssetInv, UndoJob
    <2>3. CASE job.height > 1 /\ job.height > Len(chain) - CheckDepth
        <3>1. PICK h, v : pc' = "undoSupply" /\ job' = [job EXCEPT !.height = h, !.i = 1, !.view = v]
            BY <1>2, <2>3 DEF VerifyDisconnect
        <3>2. pc' \in UndoPCs /\ ~job'.fRealDisconnect
            BY <2>1, <3>1 DEF UndoJob, UndoPCs
        <3>3. QED
            BY <1>1, <2>1, <3>2, VerifyUndo
    <2>4. CASE ~(job.height > 1 /\ job.height > Len(chain) - CheckDepth) /\ CheckLevel = 4
        <3>1. pc' = "inputs" /\ job' = Activation(chain[job.height], "verify", job.height, job.view)
            BY <1>2, <2>4 DEF VerifyDisconnect
        <3>2. chain[job.height] \in Blocks
            BY <1>1, <2>2
        <3>3. QED
            BY <1>1, <2>2, <3>1, <3>2, ActivationAssets
    <2>5. CASE ~(job.height > 1 /\ job.height > Len(chain) - CheckDepth) /\ CheckLevel # 4
        <3>1. pc' = "idle"
            BY <1>2, <2>5 DEF VerifyDisconnect, Abandon
        <3>2. QED
            BY <1>1, <2>1, <3>1, VerifyUndo
    <2>6. QED
        BY <2>3, <2>4, <2>5
<1>3. CASE VerifyReconnect
    <2>1. pc \in ConnectPCs /\ job.caller = "verify" /\ job \in ConnectJob
        BY <1>3 DEF VerifyReconnect, ConnectPCs, TypeOK
    <2>2. AtTip(chain)
        BY <2>1 DEF AssetInv, NothingPending
    <2>3. CASE job.height < Len(chain)
        <3>1. /\ pc' = "inputs"
              /\ job' = Activation(chain[job.height + 1], "verify", job.height + 1, job.view)
            BY <1>3, <2>3 DEF VerifyReconnect
        <3>2. chain[job.height + 1] \in Blocks
            BY <1>1, <2>1, <2>3 DEF ConnectJob
        <3>3. QED
            BY <1>1, <2>2, <3>1, <3>2, ActivationAssets
    <2>4. CASE ~(job.height < Len(chain))
        <3>1. pc' = "idle"
            BY <1>3, <2>4 DEF VerifyReconnect, Abandon
        <3>2. QED
            BY <1>1, <2>2, <3>1, AbandonAssets
    <2>5. QED
        BY <2>3, <2>4
<1>4. QED
    BY <1>2, <1>3

\* Every step of DisconnectBlock and its callers.
LEMMA DisconnectAssets ==
    ASSUME RulesFromGenesis, PlainState, TypeOK, SupplySane, CoinsInv, AssetInv, Disconnecting
    PROVE  AssetInv'
BY DisconnectBegins, SupplyUndone, OutpointUndone, FreezeUndone, TipDisconnected, VerifyContinues
   DEF Disconnecting

LEMMA StartAssets == Init => AssetInv
<1> SUFFICES ASSUME Init PROVE AssetInv
    OBVIOUS
<1>1. chain = <<>> /\ Len(chain) = 0 /\ chain \in Seq(Blocks) /\ pc = "idle"
    BY DEF Init
<1>2. Lawful(chain)
    BY <1>1 DEF Lawful
<1>3. supply = SupplyAt(chain, 0)
    BY <1>1, ChainSums DEF Init
<1>4. Tracks(CoinsAt(chain, 0), authOutpoint)
    <2>1. CoinsAt(chain, 0) = GenesisCoins
        BY ChainStep DEF CoinsAt
    <2>2. QED
        BY <2>1, OutpointsAssumption DEF Tracks, Markers, Init
<1>5. frozen = FrozenAt(chain, 0)
    <2>1. ReplayChain(chain)[0] = NoAssets
        BY <1>1, ChainReplayed
    <2>2. QED
        BY <2>1 DEF Init, FrozenAt, NoAssets
<1>6. QED
    BY <1>1, <1>2, <1>3, <1>4, <1>5 DEF AssetInv, AtTip, ConnectPCs, UndoPCs

-----------------------------------------------------------------------------
(* Blocks that are not plain.  They are checked and refused like others; the *)
(* asset state is that of the chain until one of them reaches the commit    *)
(* point, and `plain' records that.                                         *)

Uncommitted == {"inputs", "assets", "scripts", "commitOutpoint"}

\* What every block, plain or not, keeps: a dry run never commits, and the tracker
\* is about to move only if a transaction of the block spent what it tracked.
Lineage ==
    /\ pc \in ConnectPCs \ {"inputs", "assets", "scripts"} => job.caller # "template"
    /\ pc \in Uncommitted =>
           IF job.commitOutpoint
           THEN authOutpoint \in InsUpTo(job.block, Len(job.block)) \cup {NoOutpoint}
           ELSE job.localAuthOutpoint = authOutpoint

\* As long as only plain blocks were committed.
PlainInv ==
    plain => /\ PlainChain(chain)
             /\ PlainState => AssetInv
             /\ ~PlainState => Lawful(chain) /\ AtTip(chain) /\ pc \in Uncommitted

\* The invariant of the theorems below.
ReorgInv == SafeInv /\ CoinsInv /\ Lineage /\ PlainInv

\* Where the block of the next state comes from.
LEMMA BlockOf ==
    ASSUME TypeOK, CoinsInv, Connecting \/ Disconnecting, pc' \in ConnectPCs
    PROVE  \/ pc = "idle" /\ pc' = "inputs" /\ chain' = chain
           \/ pc \in ConnectPCs /\ job'.block = job.block /\ chain' = chain
           \/ chain' = chain /\ \E h \in 1..Len(chain) : job'.block = chain[h]
<1>1. CASE \/ \E blk \in Blocks, caller \in {"tip", "template"} : BeginConnect(blk, caller)
           \/ ConnectInputs \/ InputsDone \/ ConnectAsset \/ CheckSupply \/ ScriptsPass
           \/ CommitOutpoint \/ CommitFreezeOp \/ CommitSupply
    <2>1. pc \in ConnectPCs => job \in ConnectJob
        BY DEF TypeOK
    <2>2. QED
        BY <1>1, <2>1 DEF BeginConnect, ConnectInputs, InputsDone, ConnectAsset, CheckSupply, ScriptsPass,
                     CommitOutpoint, CommitFreezeOp, CommitSupply, ConnectPCs, ConnectJob, Abandon
<1>2. CASE VerifyDisconnect
    <2>1. pc \in UndoPCs /\ job \in UndoJob /\ job.height \in 1..Len(chain) /\ chain' = chain
        BY <1>2 DEF VerifyDisconnect, TypeOK, UndoPCs, UndoJob
    <2>2. job' = Activation(chain[job.height], "verify", job.height, job.view)
        BY <1>2 DEF VerifyDisconnect, Abandon, ConnectPCs
    <2>3. job'.block = chain[job.height]
        BY <2>2 DEF Activation
    <2>4. QED
        BY <2>1, <2>3
<1>3. CASE VerifyReconnect
    <2>1. job \in ConnectJob /\ chain \in Seq(Blocks) /\ chain' = chain
        BY <1>3 DEF VerifyReconnect, TypeOK, ConnectPCs
    <2>2. /\ job' = Activation(chain[job.height + 1], "verify", job.height + 1, job.view)
          /\ job.height < Len(chain)
        BY <1>3 DEF VerifyReconnect, Abandon, ConnectPCs
    <2>3. job'.block = chain[job.height + 1] /\ job.height + 1 \in 1..Len(chain)
        BY <2>1, <2>2 DEF Activation, ConnectJob
    <2>4. QED
        BY <2>1, <2>3
<1>4. CASE \/ Reject \/ ConnectTip \/ DisconnectTip \/ UndoSupply \/ UndoOutpoint \/ UndoFreezeOp
           \/ \E fReal \in BOOLEAN : BeginDisconnect(fReal)
    BY <1>4 DEF Reject, ConnectTip, DisconnectTip, UndoSupply, UndoOutpoint, UndoFreezeOp,
                BeginDisconnect, Abandon, ConnectPCs
<1>5. QED
    BY <1>1, <1>2, <1>3, <1>4 DEF Connecting, Disconnecting

\* The chain stays plain if the block at hand is.
LEMMA ChainStaysPlain ==
    ASSUME TypeOK, PlainState, Connecting \/ Disconnecting
    PROVE  PlainChain(chain')
<1>0. chain \in Seq(Blocks) /\ PlainChain(chain)
    BY DEF TypeOK, PlainState
<1>1. CASE ConnectTip
    <2> DEFINE b == job.block
    <2>1. Plain(b) /\ chain' = Append(chain, b) /\ job \in ConnectJob
        BY <1>1 DEF ConnectTip, PlainState, ConnectPCs, TypeOK
    <2>2. b \in Blocks
        BY <2>1 DEF ConnectJob
    <2> HIDE DEF b
    <2>3. QED
        BY <1>0, <2>1, <2>2 DEF PlainChain
<1>2. CASE DisconnectTip
    <2>1. chain' = chain \/ chain' = SubSeq(chain, 1, Len(chain) - 1)
        BY <1>2 DEF DisconnectTip
    <2>2. \A n \in 0..Len(chain) : PlainChain(SubSeq(chain, 1, n))
        BY <1>0 DEF PlainChain
    <2>4. job \in UndoJob /\ job.height <= Len(chain)
        BY <1>2 DEF DisconnectTip, TypeOK, UndoPCs
    <2>5. Len(chain) - 1 \in 0..Len(chain)
        <3>1. Len(chain) \in Nat /\ job.height \in Nat \ {0}
            BY <1>0, <2>4 DEF UndoJob
        <3>2. QED
            BY <2>4, <3>1
    <2>6. QED
        BY <1>0, <2>1, <2>2, <2>5
<1>3. CASE ~ConnectTip /\ ~DisconnectTip
    BY <1>0, <1>3 DEF Connecting, Disconnecting, BeginConnect, ConnectInputs, InputsDone, ConnectAsset,
               CheckSupply, ScriptsPass, Reject, CommitOutpoint, CommitFreezeOp, CommitSupply,
               BeginDisconnect, UndoSupply, UndoOutpoint, UndoFreezeOp, VerifyDisconnect, VerifyReconnect
<1>4. QED
    BY <1>1, <1>2, <1>3

\* A block that is not plain, before the commit point.
LEMMA OddBlockChecked ==
    ASSUME TypeOK, pc \in Uncommitted \ {"commitOutpoint"}, Connecting \/ Disconnecting
    PROVE  /\ chain' = chain /\ UNCHANGED asset
           /\ pc' = "idle" \/ (pc' \in Uncommitted /\ job'.block = job.block)
<1>1. job \in ConnectJob
    BY DEF TypeOK, Uncommitted, ConnectPCs
<1>2. ConnectInputs \/ InputsDone \/ ConnectAsset \/ CheckSupply \/ ScriptsPass \/ Reject
    BY DEF Uncommitted, Connecting, Disconnecting, BeginConnect, CommitOutpoint, CommitFreezeOp, CommitSupply,
           ConnectTip, BeginDisconnect, UndoSupply, UndoOutpoint, UndoFreezeOp, DisconnectTip,
           VerifyDisconnect, VerifyReconnect
<1>3. QED
    BY <1>1, <1>2 DEF Uncommitted, ConnectJob, ConnectInputs, InputsDone, ConnectAsset, CheckSupply,
           ScriptsPass, Reject, Abandon

LEMMA PlainInvKept ==
    ASSUME RulesFromGenesis, SafeInv, CoinsInv, PlainInv, Next
    PROVE  PlainInv'
<1> SUFFICES ASSUME plain' 
             PROVE  /\ PlainChain(chain')
                    /\ PlainState' => AssetInv'
                    /\ ~PlainState' => Lawful(chain') /\ AtTip(chain)' /\ pc' \in Uncommitted
    BY DEF PlainInv
<1>1. plain /\ (pc = "commitOutpoint" => Plain(job.block)) /\ (Connecting \/ Disconnecting)
    BY DEF Next, SafeInv, TypeOK
<1>2. TypeOK /\ SupplySane /\ PlainChain(chain)
    BY <1>1 DEF SafeInv, PlainInv
<1>3. CASE PlainState
    <2>1. AssetInv /\ AssetInv'
        BY <1>1, <1>2, <1>3, ConnectAssets, DisconnectAssets DEF PlainInv
    <2>2. PlainChain(chain')
        BY <1>1, <1>2, <1>3, ChainStaysPlain
    <2>3. ASSUME ~PlainState' PROVE Lawful(chain') /\ AtTip(chain)' /\ pc' \in Uncommitted
        <3>1. pc' \in ConnectPCs /\ ~Plain(job'.block)
            BY <2>2, <2>3 DEF PlainState
        <3>2. pc' = "inputs"
            BY <1>1, <1>2, <1>3, <3>1, BlockOf DEF PlainState, PlainChain
        <3>3. QED
            BY <2>1, <3>1, <3>2 DEF AssetInv, Committing, NothingPending, Uncommitted
    <2>4. QED
        BY <2>1, <2>2, <2>3
<1>4. CASE ~PlainState
    <2>1. Lawful(chain) /\ AtTip(chain) /\ pc \in Uncommitted
        BY <1>1, <1>4 DEF PlainInv
    <2>2. pc # "commitOutpoint"
        BY <1>1, <1>2, <1>4 DEF PlainState
    <2>3. chain' = chain /\ UNCHANGED asset /\ (pc' = "idle" \/ (pc' \in Uncommitted /\ job'.block = job.block))
        BY <1>1, <1>2, <2>1, <2>2, OddBlockChecked
    <2>4. AtTip(chain)' /\ Lawful(chain') /\ PlainChain(chain')
        BY <1>2, <2>1, <2>3, TipKept
    <2>5. CASE pc' = "idle"
        <3>1. AssetInv'
            BY <2>4, <2>5 DEF AssetInv, ConnectPCs, UndoPCs
        <3>2. PlainState'
            BY <2>4, <2>5 DEF PlainState, ConnectPCs
        <3>3. QED
            BY <2>4, <3>1, <3>2
    <2>6. CASE pc' \in Uncommitted /\ job'.block = job.block
        <3>1. ~PlainState'
            BY <1>2, <1>4, <2>1, <2>6 DEF PlainState, Uncommitted, ConnectPCs
        <3>2. QED
            BY <2>4, <2>6, <3>1
    <2>7. QED
        BY <2>3, <2>5, <2>6
<1>5. QED
    BY <1>3, <1>4

\* The tracked outpoint, of any block.
LEMMA LineageKept ==
    ASSUME RulesFromGenesis, TypeOK, Lineage, Next
    PROVE  Lineage'
<1> USE DEF ConnectPCs, Uncommitted
<1>0. pc \in ConnectPCs => job \in ConnectJob
    BY DEF TypeOK
<1>1. CASE ConnectAsset
    <2> DEFINE t == job.block[job.i]
               lo == job.localAuthOutpoint
    <2>1. /\ pc = "assets" /\ pc' = "assets" /\ authOutpoint' = authOutpoint /\ job \in ConnectJob
          /\ job.i \in 1..Len(job.block)
        <3>1. pc = "assets" /\ pc' = "assets" /\ authOutpoint' = authOutpoint /\ job.i <= Len(job.block)
            BY <1>1 DEF ConnectAsset, asset
        <3>2. job \in ConnectJob /\ Len(job.block) \in Nat
            BY <1>0, <3>1, TxConstants DEF ConnectJob
        <3>3. QED
            BY <3>1, <3>2 DEF ConnectJob
    <2>2. /\ job'.block = job.block
          /\ job'.localAuthOutpoint = IF Advances(t, job.height, lo) THEN AuthorityOutput(t) ELSE lo
          /\ job'.commitOutpoint = (job.commitOutpoint \/ (Enforced(job.height) /\ Advances(t, job.height, lo)))
        BY <1>1, <2>1 DEF ConnectAsset, ConnectJob
    <2>3. Enforced(job.height) /\ ~(job.height < InputEnforcementHeight)
        BY <2>1, RulesOn DEF ConnectJob
    <2>4. Advances(t, job.height, lo) => lo \in Ins(t) \cup {NoOutpoint}
        BY <1>1, <2>3 DEF ConnectAsset, AuthorityOK, Advances
    <2>5. Ins(t) \subseteq InsUpTo(job.block, Len(job.block))
        BY <2>1 DEF InsUpTo
    <2>6. job.commitOutpoint \in BOOLEAN
        BY <2>1 DEF ConnectJob
    <2> HIDE DEF t, lo
    <2>7. QED
        BY <2>1, <2>2, <2>3, <2>4, <2>5, <2>6 DEF Lineage, lo
<1>2. CASE \E blk \in Blocks, caller \in {"tip", "template"} : BeginConnect(blk, caller)
    <2>1. pc' = "inputs" /\ authOutpoint' = authOutpoint
          /\ job'.localAuthOutpoint = authOutpoint /\ ~job'.commitOutpoint
        BY <1>2 DEF BeginConnect, Activation, asset
    <2>2. QED
        BY <2>1 DEF Lineage
<1>3. CASE VerifyDisconnect \/ VerifyReconnect
    <2>1. authOutpoint' = authOutpoint
          /\ \/ pc' \in {"idle", "undoSupply"}
             \/ pc' = "inputs" /\ job'.localAuthOutpoint = authOutpoint /\ ~job'.commitOutpoint
        BY <1>3 DEF VerifyDisconnect, VerifyReconnect, Activation, asset, Abandon
    <2>2. QED
        BY <2>1 DEF Lineage
<1>4. CASE ConnectInputs \/ InputsDone \/ CheckSupply \/ ScriptsPass
    <2>1. job \in ConnectJob /\ pc \in Uncommitted /\ authOutpoint' = authOutpoint
        BY <1>0, <1>4 DEF ConnectInputs, InputsDone, CheckSupply, ScriptsPass, asset
    <2>2. \/ pc' = "idle"
          \/ /\ pc' \in Uncommitted /\ job'.block = job.block /\ job'.caller = job.caller
             /\ job'.commitOutpoint = job.commitOutpoint /\ job'.localAuthOutpoint = job.localAuthOutpoint
             /\ pc' = "commitOutpoint" => job.caller # "template"
        BY <1>4, <2>1 DEF ConnectInputs, InputsDone, CheckSupply, ScriptsPass, Abandon, ConnectJob
    <2>3. QED
        BY <2>1, <2>2 DEF Lineage
<1>5. CASE CommitOutpoint \/ CommitFreezeOp \/ CommitSupply
    <2>1. /\ job \in ConnectJob /\ pc \in {"commitOutpoint", "commitFreeze"}
          /\ pc' \in {"commitFreeze", "connected"}
        BY <1>0, <1>5 DEF CommitOutpoint, CommitFreezeOp, CommitSupply
    <2>2. job'.caller = job.caller
        BY <1>5, <2>1 DEF CommitOutpoint, CommitFreezeOp, CommitSupply, ConnectJob
    <2>3. QED
        BY <2>1, <2>2 DEF Lineage
<1>6. CASE \/ Reject \/ ConnectTip \/ DisconnectTip \/ UndoSupply \/ UndoOutpoint \/ UndoFreezeOp
           \/ \E fReal \in BOOLEAN : BeginDisconnect(fReal)
    <2>1. pc' \notin ConnectPCs
        BY <1>6 DEF Reject, ConnectTip, DisconnectTip, UndoSupply, UndoOutpoint, UndoFreezeOp,
                BeginDisconnect, Abandon
    <2>2. QED
        BY <2>1 DEF Lineage
<1>7. QED
    BY <1>1, <1>2, <1>3, <1>4, <1>5, <1>6 DEF Next, Connecting, Disconnecting

\* A step that moves nothing.
LEMMA StillPlain ==
    ASSUME PlainInv, UNCHANGED vars
    PROVE  PlainInv'
BY DEF PlainInv, PlainState, AssetInv, AtTip, Locals, Committing, Pending, NothingPending, Undoing,
       Upto, Passed, vars

LEMMA ReorgInvKept ==
    ASSUME RulesFromGenesis, ReorgInv, [Next]_vars
    PROVE  ReorgInv'
<1>1. CASE Next
    <2>1. SafeInv'
        BY <1>1, ConnectSafe, DisconnectSafe, GhostTyped DEF ReorgInv, Next
    <2>2. CoinsInv'
        BY <1>1, ConnectCoins, DisconnectCoins DEF ReorgInv, SafeInv, Next
    <2>3. PlainInv' /\ Lineage'
        BY <1>1, PlainInvKept, LineageKept DEF ReorgInv, SafeInv
    <2>4. QED
        BY <2>1, <2>2, <2>3 DEF ReorgInv
<1>2. CASE UNCHANGED vars
    <2>1. SafeInv'
        BY <1>2 DEF ReorgInv, SafeInv, TypeOK, SupplySane, PendingSane, vars
    <2>2. CoinsInv'
        BY <1>2 DEF ReorgInv, CoinsInv, ConnectView, UndoView, Upto, vars
    <2>3. PlainInv' /\ Lineage'
        BY <1>2, StillPlain DEF ReorgInv, Lineage, vars
    <2>4. QED
        BY <2>1, <2>2, <2>3 DEF ReorgInv
<1>3. QED
    BY <1>1, <1>2

LEMMA PlainStarts == Init => PlainInv /\ Lineage
<1> SUFFICES ASSUME Init PROVE PlainInv /\ Lineage
    OBVIOUS
<1>1. AssetInv /\ pc = "idle" /\ chain = <<>>
    BY StartAssets DEF Init
<1>2. PlainChain(chain) /\ PlainState
    BY <1>1 DEF PlainChain, PlainState, ConnectPCs
<1>3. QED
    BY <1>1, <1>2 DEF PlainInv, Lineage, ConnectPCs, Uncommitted

LEMMA ReorgInvStarts == Init => ReorgInv
<1> SUFFICES ASSUME Init PROVE ReorgInv
    OBVIOUS
<1>1. SafeInv
    BY InitTyped DEF SafeInv, PendingSane, Init, ConnectPCs
<1>2. QED
    BY <1>1, StartCoins, PlainStarts DEF ReorgInv

\* Between block operations of a node that committed plain blocks only.
LEMMA SettledTip ==
    ASSUME PlainInv, Settled
    PROVE  PlainChain(chain) /\ Lawful(chain) /\ AtTip(chain)
<1>1. PlainState
    BY DEF Settled, PlainInv, PlainState, ConnectPCs
<1>2. QED
    BY <1>1 DEF Settled, PlainInv, AssetInv

\* Every frozen outpoint of a lawful chain is an unspent USDSOQ output.
LEMMA ChainFrozenLive ==
    ASSUME RulesFromGenesis, NEW c \in Seq(Blocks), PlainChain(c), Lawful(c), NEW n \in 0..Len(c)
    PROVE  FrozenAt(c, n) \subseteq {o \in CoinsAt(c, n) : Kind[o] = "asset"}
<1> DEFINE A(m) == {o \in CoinsAt(c, m) : Kind[o] = "asset"}
           P == {m \in 0..Len(c) : FrozenAt(c, m) \subseteq A(m)}
<1>0. Len(c) \in Nat
    OBVIOUS
<1>1. 0 \in P
    BY <1>0, ChainFrozen
<1>2. ASSUME NEW h \in 1..Len(c), h - 1 \in P PROVE h \in P
    <2> DEFINE j == h - 1
               b == c[h]
               v == CoinsAt(c, j)
               F == FrozenAt(c, j)
    <2>1. j \in Nat /\ j < Len(c) /\ j + 1 = h /\ h \in 0..Len(c)
        BY <1>0
    <2>2. b \in Blocks /\ Plain(b) /\ Len(b) \in Nat
        BY ChainTx DEF PlainChain
    <2>3. FreezeSound(F, v, b, Len(b)) /\ F \subseteq {o \in v : Kind[o] = "asset"}
        BY <1>2 DEF Lawful, Accepted
    <2>4. FrozenAt(c, h) = FrozenAfter(F, b, Len(b)) /\ CoinsAt(c, h) = ViewAt(v, b, Len(b))
        <3> HIDE DEF j
        <3>1. FrozenAt(c, j + 1) = FrozenAfter(FrozenAt(c, j), c[j + 1], Len(c[j + 1]))
            BY <2>1, ChainFrozen
        <3>2. ViewAt(CoinsAt(c, j), c[j + 1], Len(c[j + 1])) = CoinsAt(c, j + 1)
            BY <2>1, LawfulLinear, ViewEnd
        <3>3. QED
            BY <2>1, <3>1, <3>2
    <2> HIDE DEF b, v, F
    <2>5. ASSUME NEW o \in F \ ThawedIn(b, Len(b)) PROVE o \in ViewAt(v, b, Len(b)) /\ Kind[o] = "asset"
        <3>1. o \in v /\ Kind[o] = "asset"
            BY <2>3
        <3>2. ASSUME NEW k \in 1..Len(b) PROVE o \notin Ins(b[k])
            <4>1. k \in 0..Len(b)
                BY <2>2
            <4>2. ThawedIn(b, k) \subseteq ThawedIn(b, Len(b))
                BY <2>2, <4>1, FreezeDisjoint
            <4>3. o \in FrozenAfter(F, b, k)
                BY <4>2 DEF FrozenAfter
            <4>4. QED
                BY <2>3, <3>1, <4>3 DEF FreezeSound
        <3>3. o \notin InsUpTo(b, Len(b))
            BY <3>2 DEF InsUpTo
        <3>4. QED
            BY <3>1, <3>3 DEF ViewAt
    <2>6. FrozenIn(b, Len(b)) \subseteq {o \in ViewAt(v, b, Len(b)) : Kind[o] = "asset"}
        BY <2>3 DEF FreezeSound
    <2>7. QED
        BY <2>1, <2>4, <2>5, <2>6 DEF FrozenAfter
<1>3. n \in P
    <2> HIDE DEF P
    <2>1. QED
        BY <1>0, <1>1, <1>2, IntervalInduction
<1>4. QED
    BY <1>3

\* The tip replays: after any sequence of connects, refusals, disconnects, dry
\* runs and database checks, of blocks of any kind as long as those committed are
\* plain, the asset globals are those of a replay of the active chain.
THEOREM ReorgIsReplay ==
    ASSUME RulesFromGenesis
    PROVE  Spec => []AssetsAreReplay
<1>1. ReorgInv /\ [Next]_vars => ReorgInv'
    BY ReorgInvKept
<1>2. ReorgInv => AssetsAreReplay
    <2> SUFFICES ASSUME ReorgInv, Settled
                 PROVE  supply = Replay(chain).supply /\ authOutpoint = Replay(chain).outpoint
                        /\ frozen = Replay(chain).frozen
        BY DEF AssetsAreReplay, SupplyIsReplay, OutpointIsReplay, FrozenIsReplay
    <2>1. chain \in Seq(Blocks) /\ PlainChain(chain) /\ Lawful(chain) /\ AtTip(chain)
        BY SettledTip DEF ReorgInv, SafeInv, TypeOK
    <2>2. QED
        BY <2>1, TipReplay
<1>3. QED
    BY <1>1, <1>2, ReorgInvStarts, PTL DEF Spec

\* After any such sequence the asset state agrees with the UTXO set: unspent
\* USDSOQ is the outstanding supply, the tracked outpoint is an unspent marker
\* and every frozen outpoint an unspent USDSOQ output.
THEOREM ReorgKeepsAssets ==
    ASSUME RulesFromGenesis
    PROVE  Spec => []AssetsMatchCoins
<1>1. ReorgInv /\ [Next]_vars => ReorgInv'
    BY ReorgInvKept
<1>2. ReorgInv => AssetsMatchCoins
    <2> SUFFICES ASSUME ReorgInv PROVE AssetsMatchCoins
        OBVIOUS
    <2> DEFINE n == Len(chain)
    <2>1. TypeOK /\ chain \in Seq(Blocks) /\ n \in 0..n /\ coins = CoinsAt(chain, n)
        BY DEF ReorgInv, SafeInv, TypeOK, CoinsInv
    <2>2. Settled => PlainChain(chain) /\ Lawful(chain) /\ Linear(chain) /\ AtTip(chain)
        BY SettledTip, LawfulLinear DEF ReorgInv
    <2>3. SupplyBacked
        <3> SUFFICES ASSUME Settled PROVE Outstanding(supply) = Amount(coins, {"asset"})
            BY DEF SupplyBacked
        <3>1. \A h \in 1..Len(chain) : Valued(CoinsAt(chain, h - 1), chain[h], Len(chain[h]))
            BY <2>2 DEF Lawful, Accepted
        <3>2. Outstanding(SupplyAt(chain, n)) = Amount(CoinsAt(chain, n), {"asset"})
            <4> HIDE DEF n
            <4>1. QED
                BY <2>1, <2>2, <3>1, ChainBacked DEF n
        <3>3. QED
            BY <2>1, <2>2, <3>2 DEF AtTip
    <2>4. TrackerLive
        BY <2>1, <2>2 DEF TrackerLive, AtTip, Tracks, Markers
    <2>5. FrozenLive
        <3> SUFFICES ASSUME Settled PROVE frozen \subseteq {o \in coins : Kind[o] = "asset"}
            BY DEF FrozenLive
        <3>1. FrozenAt(chain, n) \subseteq {o \in CoinsAt(chain, n) : Kind[o] = "asset"}
            BY <2>1, <2>2, ChainFrozenLive
        <3>2. QED
            BY <2>1, <2>2, <3>1 DEF AtTip
    <2>6. QED
        BY <2>1, <2>3, <2>4, <2>5 DEF AssetsMatchCoins
<1>3. QED
    BY <1>1, <1>2, ReorgInvStarts, PTL DEF Spec

\* A block, plain or not, moves the tracked outpoint only past a marker it spent.
THEOREM OneLineage ==
    ASSUME RulesFromGenesis
    PROVE  Spec => TrackerNeverForks
<1>1. ReorgInv /\ [Next]_vars => ReorgInv'
    BY ReorgInvKept
<1>2. ReorgInv /\ [Next]_vars => [pc = "commitOutpoint" /\ authOutpoint' # authOutpoint =>
                                      authOutpoint \notin job.view]_vars
    <2> SUFFICES ASSUME ReorgInv, Next, pc = "commitOutpoint", authOutpoint' # authOutpoint,
                        authOutpoint \in job.view
                 PROVE  FALSE
        OBVIOUS
    <2>1. CommitOutpoint
        BY DEF Next, Connecting, Disconnecting, BeginConnect, ConnectInputs, InputsDone, ConnectAsset,
               CheckSupply, ScriptsPass, Reject, CommitOutpoint, CommitFreezeOp, CommitSupply, ConnectTip,
               BeginDisconnect, UndoSupply, UndoOutpoint, UndoFreezeOp, DisconnectTip, VerifyDisconnect,
               VerifyReconnect
    <2>2. job.commitOutpoint /\ job \in ConnectJob /\ ConnectView
        BY <2>1 DEF CommitOutpoint, ReorgInv, SafeInv, TypeOK, CoinsInv, ConnectPCs
    <2>3. authOutpoint \in InsUpTo(job.block, Len(job.block)) \cup {NoOutpoint}
        BY <2>2 DEF ReorgInv, Lineage, Uncommitted
    <2>4. authOutpoint \notin InsUpTo(job.block, Len(job.block))
        BY <2>2 DEF ConnectView, Upto, ViewAt
    <2>5. authOutpoint # NoOutpoint
        BY <2>2, TxConstants DEF ConnectJob
    <2>6. QED
        BY <2>3, <2>4, <2>5
<1>3. QED
    BY <1>1, <1>2, ReorgInvStarts, PTL DEF Spec, TrackerNeverForks

\* Dry runs of any block write no asset state, and VerifyDB none as long as the
\* blocks committed are plain.
THEOREM DryRunsAreDry ==
    ASSUME RulesFromGenesis
    PROVE  Spec => DryRunTouchesNothing
<1>1. ReorgInv /\ [Next]_vars => ReorgInv'
    BY ReorgInvKept
<1>2. ReorgInv /\ [Next]_vars =>
          [\/ pc \in ConnectPCs /\ job.caller = "template"
           \/ pc \in ConnectPCs /\ job.caller = "verify" /\ plain
           \/ pc \in UndoPCs /\ ~job.fRealDisconnect
           => asset' = asset]_vars
    <2> SUFFICES ASSUME ReorgInv, Next,
                        \/ pc \in ConnectPCs /\ job.caller = "template"
                        \/ pc \in ConnectPCs /\ job.caller = "verify" /\ plain
                        \/ pc \in UndoPCs /\ ~job.fRealDisconnect
                 PROVE  asset' = asset
        OBVIOUS
    <2>1. TypeOK /\ CoinsInv /\ PlainInv /\ Lineage
        BY DEF ReorgInv, SafeInv
    <2>2. CASE CommitOutpoint \/ CommitFreezeOp \/ CommitSupply
        <3>1. pc \in {"commitOutpoint", "commitFreeze"} /\ pc \in ConnectPCs /\ pc \notin UndoPCs
            BY <2>2 DEF CommitOutpoint, CommitFreezeOp, CommitSupply, ConnectPCs, UndoPCs
        <3>2. job.caller = "verify" /\ plain
            BY <2>1, <3>1 DEF Lineage
        <3>3. job \in ConnectJob /\ ConnectView /\ PlainChain(chain)
            BY <2>1, <3>1, <3>2 DEF TypeOK, CoinsInv, PlainInv
        <3>4. job.height \in 1..Len(chain) /\ job.block = chain[job.height]
            BY <2>1, <3>2, <3>3 DEF ConnectView, ConnectJob, TypeOK
        <3>5. AssetInv
            BY <2>1, <3>2, <3>3, <3>4 DEF PlainInv, PlainState, PlainChain
        <3>6. NothingPending /\ job.i \in Nat \ {0}
            BY <3>1, <3>2, <3>3, <3>5 DEF AssetInv, ConnectJob
        <3>7. ~CommitFreezeOp
            BY <3>6 DEF NothingPending, CommitFreezeOp
        <3>8. QED
            BY <2>2, <3>6, <3>7 DEF NothingPending, CommitOutpoint, CommitSupply, asset
    <2>3. CASE UndoSupply \/ UndoOutpoint \/ UndoFreezeOp
        <3>1. ~job.fRealDisconnect
            BY <2>3 DEF UndoSupply, UndoOutpoint, UndoFreezeOp, ConnectPCs
        <3>2. QED
            BY <2>3, <3>1 DEF UndoSupply, UndoOutpoint, UndoFreezeOp, Reversing, Inverted, asset
    <2>4. CASE ~(\/ CommitOutpoint \/ CommitFreezeOp \/ CommitSupply
                 \/ UndoSupply \/ UndoOutpoint \/ UndoFreezeOp)
        BY <2>4 DEF Next, Connecting, Disconnecting, BeginConnect, ConnectInputs, InputsDone, ConnectAsset,
               CheckSupply, ScriptsPass, Reject, ConnectTip, BeginDisconnect, DisconnectTip,
               VerifyDisconnect, VerifyReconnect
    <2>5. QED
        BY <2>2, <2>3, <2>4
<1>3. QED
    BY <1>1, <1>2, ReorgInvStarts, PTL DEF Spec, DryRunTouchesNothing
-----------------------------------------------------------------------------
(* On a node that dies at any point the supply counter stays sane, the UTXO *)
(* set is always the one of its chain, and the asset state is too as long   *)
(* as no asset row was written between the last flush and the death.        *)

\* What is on disk has the types of what was flushed.
DiskTyped == diskChain \in Seq(Blocks) /\ diskCoins \in SUBSET Outpoints

RSafeInv == SafeInv /\ DiskTyped

LEMMA CrashSafe == RSafeInv /\ CrashRestart => RSafeInv'
<1> SUFFICES ASSUME RSafeInv, CrashRestart PROVE RSafeInv'
    OBVIOUS
<1> USE DEF RSafeInv, CrashRestart, asset, disk
<1>1. TypeOK'
    BY DEF SafeInv, DiskTyped, TypeOK, ConnectPCs, UndoPCs
<1>2. SupplySane'
    BY DEF SafeInv, SupplySane
<1>3. PendingSane' /\ DiskTyped'
    BY DEF PendingSane, ConnectPCs, DiskTyped
<1>4. QED
    BY <1>1, <1>2, <1>3 DEF SafeInv

LEMMA RSafeStarts == RInit => RSafeInv
<1>1. Init => SafeInv
    BY InitTyped DEF SafeInv, PendingSane, Init, ConnectPCs
<1>2. QED
    BY <1>1 DEF RInit, RSafeInv, DiskTyped, SafeInv, TypeOK

LEMMA RSafeKept == RSafeInv /\ [RNext]_rvars => RSafeInv'
<1> SUFFICES ASSUME RSafeInv, [RNext]_rvars PROVE RSafeInv'
    OBVIOUS
<1>1. CASE BlockStep
    <2>1. SafeInv'
        BY <1>1, ConnectSafe, DisconnectSafe, GhostTyped DEF BlockStep, Next, RSafeInv
    <2>2. QED
        BY <1>1, <2>1 DEF BlockStep, RSafeInv, DiskTyped, disk
<1>2. CASE Flush
    <2>1. SafeInv'
        BY <1>2 DEF Flush, RSafeInv, SafeInv, PendingSane, TypeOK, SupplySane, vars
    <2>2. DiskTyped'
        BY <1>2 DEF Flush, RSafeInv, SafeInv, TypeOK, DiskTyped
    <2>3. QED
        BY <2>1, <2>2 DEF RSafeInv
<1>3. CASE CrashRestart
    BY <1>3, CrashSafe
<1>4. CASE UNCHANGED rvars
    BY <1>4 DEF rvars, vars, disk, RSafeInv, SafeInv, DiskTyped, PendingSane,
                TypeOK, SupplySane
<1>5. QED
    BY <1>1, <1>2, <1>3, <1>4 DEF RNext

\* Death at any step of a block operation, restarts and flushes included, the
\* supply counter that AppInitMain reads back satisfies CheckInvariant() and
\* every later reversal against it does too, even when the counter and the
\* restored chain no longer match.
THEOREM RestartSupplySafe == RSpec => [](TypeOK /\ SupplySane)
<1>1. RSafeInv => TypeOK /\ SupplySane
    BY DEF RSafeInv, SafeInv
<1>2. QED
    BY <1>1, RSafeStarts, RSafeKept, PTL DEF RSpec
-----------------------------------------------------------------------------
(* The UTXO set of a chain, and of the chain on disk.                       *)

\* The recursions of the two folds.
IsView(b, v, r) == r = [k \in 0..Len(b) |-> IF k = 0 THEN v ELSE Spend(b[k], r[k - 1])]
IsCoins(c, r) ==
    r = [h \in 0..Len(c) |-> IF h = 0 THEN GenesisCoins ELSE ConnectedCoins(c[h], r[h - 1])]

LEMMA BlockConnected ==
    ASSUME NEW c \in Seq(Blocks), Linear(c), NEW n \in Nat, n < Len(c)
    PROVE  ConnectedCoins(c[n + 1], CoinsAt(c, n)) = CoinsAt(c, n + 1)
<1> DEFINE b == c[n + 1]
           v == CoinsAt(c, n)
           w == [k \in 0..Len(b) |-> ViewAt(v, b, k)]
           r == CHOOSE q : IsView(b, v, q)
<1>1. n + 1 \in 1..Len(c) /\ n \in 0..Len(c) /\ (n + 1) - 1 = n
    OBVIOUS
<1>2. b \in Blocks /\ Len(b) \in Nat /\ Fits(v, b, Len(b))
    BY <1>1, ChainTx DEF Linear
<1>3. ASSUME NEW k \in 1..Len(b) PROVE ViewAt(v, b, k) = Spend(b[k], ViewAt(v, b, k - 1))
    <2> DEFINE m == k - 1
    <2>1. m \in Nat /\ m < Len(b) /\ m + 1 = k /\ k \in 1..Len(b) /\ \A i \in 1..m : i \in 1..Len(b)
        BY <1>2
    <2> HIDE DEF b, v, m
    <2>2. Fits(v, b, m) /\ Ins(b[k]) # {} /\ Ins(b[k]) \subseteq ViewAt(v, b, m)
        <3>1. Fits(v, b, m)
            BY <1>2, <2>1, Zenon DEF Fits
        <3>2. QED
            BY <1>2, <2>1, <3>1 DEF Fits, m
    <2>3. Spend(b[m + 1], ViewAt(v, b, m)) = ViewAt(v, b, m + 1)
        BY <1>1, <1>2, <2>1, <2>2, SpendView DEF v
    <2>4. QED
        BY <2>1, <2>3 DEF m
<1>4. IsView(b, v, w)
    <2>1. ViewAt(v, b, 0) = v
        BY ViewStart
    <2>2. \A k \in 1..Len(b) : k - 1 \in 0..Len(b)
        BY <1>2
    <2>3. ASSUME NEW k \in 0..Len(b)
          PROVE  w[k] = IF k = 0 THEN v ELSE Spend(b[k], w[k - 1])
        <3>1. k = 0 \/ k \in 1..Len(b)
            BY <1>2
        <3> HIDE DEF b, v
        <3>2. QED
            BY <1>3, <2>1, <2>2, <3>1
    <2>4. w = [k \in 0..Len(b) |-> w[k]]
        OBVIOUS
    <2> HIDE DEF w
    <2>5. QED
        BY <2>3, <2>4 DEF IsView
<1>5. IsView(b, v, r)
    BY <1>4, Zenon
<1>6. ConnectedCoins(b, v) = r[Len(b)]
    BY Zenon DEF ConnectedCoins, IsView
<1> HIDE DEF r, b, v
<1>7. \A k \in 0..Len(b) : r[k] = ViewAt(v, b, k)
    <2> DEFINE P == {k \in 0..Len(b) : r[k] = ViewAt(v, b, k)}
    <2>1. \A k \in 0..Len(b) : r[k] = IF k = 0 THEN v ELSE Spend(b[k], r[k - 1])
        BY <1>5, Zenon DEF IsView
    <2>2. 0 \in P
        BY <1>2, <2>1, ViewStart
    <2>3. ASSUME NEW k \in 1..Len(b), k - 1 \in P PROVE k \in P
        <3>1. k \in 0..Len(b) /\ k # 0
            BY <1>2
        <3>2. r[k - 1] = ViewAt(v, b, k - 1)
            BY <2>3
        <3>3. QED
            BY <1>3, <2>1, <3>1, <3>2
    <2>4. \A k \in 0..Len(b) : k \in P
        <3> HIDE DEF P
        <3>1. QED
            BY <1>2, <2>2, <2>3, IntervalInduction
    <2>5. QED
        BY <2>4
<1>8. ViewAt(v, b, Len(b)) = CoinsAt(c, n + 1)
    BY ViewEnd DEF b, v
<1>9. QED
    BY <1>2, <1>6, <1>7, <1>8 DEF b, v

LEMMA ChainConnected ==
    ASSUME NEW c \in Seq(Blocks), Linear(c)
    PROVE  CoinsOf(c) = CoinsAt(c, Len(c))
<1> DEFINE w == [h \in 0..Len(c) |-> CoinsAt(c, h)]
           r == CHOOSE q : IsCoins(c, q)
<1>1. Len(c) \in Nat
    OBVIOUS
<1>2. ASSUME NEW h \in 1..Len(c) PROVE CoinsAt(c, h) = ConnectedCoins(c[h], CoinsAt(c, h - 1))
    <2> DEFINE j == h - 1
    <2>1. j \in Nat /\ j < Len(c) /\ j + 1 = h
        BY <1>1
    <2> HIDE DEF j
    <2>2. ConnectedCoins(c[j + 1], CoinsAt(c, j)) = CoinsAt(c, j + 1)
        BY <2>1, BlockConnected
    <2>3. QED
        BY <2>1, <2>2 DEF j
<1>3. CoinsAt(c, 0) = GenesisCoins
    BY ChainStep DEF CoinsAt
<1>4. IsCoins(c, w)
    <2>1. ASSUME NEW h \in 0..Len(c)
          PROVE  w[h] = IF h = 0 THEN GenesisCoins ELSE ConnectedCoins(c[h], w[h - 1])
        <3>1. h = 0 \/ (h \in 1..Len(c) /\ h - 1 \in 0..Len(c))
            BY <1>1
        <3>2. QED
            BY <1>2, <1>3, <3>1
    <2>2. w = [h \in 0..Len(c) |-> w[h]]
        OBVIOUS
    <2> HIDE DEF w
    <2>3. QED
        BY <2>1, <2>2 DEF IsCoins
<1>5. IsCoins(c, r)
    BY <1>4, Zenon
<1>6. CoinsOf(c) = r[Len(c)]
    BY Zenon DEF CoinsOf, IsCoins
<1> HIDE DEF r
<1>7. \A h \in 0..Len(c) : r[h] = CoinsAt(c, h)
    <2> DEFINE P == {h \in 0..Len(c) : r[h] = CoinsAt(c, h)}
    <2>1. \A h \in 0..Len(c) : r[h] = IF h = 0 THEN GenesisCoins ELSE ConnectedCoins(c[h], r[h - 1])
        BY <1>5, Zenon DEF IsCoins
    <2>2. 0 \in P
        BY <1>1, <1>3, <2>1
    <2>3. ASSUME NEW h \in 1..Len(c), h - 1 \in P PROVE h \in P
        <3>1. h \in 0..Len(c) /\ h # 0 /\ r[h - 1] = CoinsAt(c, h - 1)
            BY <1>1, <2>3
        <3>2. QED
            BY <1>2, <2>1, <3>1
    <2>4. \A h \in 0..Len(c) : h \in P
        <3> HIDE DEF P
        <3>1. QED
            BY <1>1, <2>2, <2>3, IntervalInduction
    <2>5. QED
        BY <2>4
<1>8. QED
    BY <1>1, <1>6, <1>7

DiskCoins == Linear(diskChain) /\ diskCoins = CoinsAt(diskChain, Len(diskChain))

RCoinsInv == RSafeInv /\ CoinsInv /\ DiskCoins

\* A node whose asset rows were never lost has those of its chain; nothing
\* written since the last flush, those of the flushed chain too.
RAssetInv ==
    ~lost /\ plain => /\ PlainInv
                      /\ PlainChain(diskChain) /\ Lawful(diskChain)
                      /\ ~touched => AtTip(diskChain)

LEMMA RCoinsKept == ASSUME RCoinsInv, [RNext]_rvars PROVE RCoinsInv'
<1>1. RSafeInv'
    BY RSafeKept DEF RCoinsInv
<1>2. TypeOK /\ CoinsInv /\ DiskCoins
    BY DEF RCoinsInv, RSafeInv, SafeInv
<1>3. CASE BlockStep
    <2>1. CoinsInv'
        BY <1>2, <1>3, ConnectCoins, DisconnectCoins DEF BlockStep, Next
    <2>2. DiskCoins'
        BY <1>2, <1>3 DEF BlockStep, DiskCoins, disk
    <2>3. QED
        BY <1>1, <2>1, <2>2 DEF RCoinsInv
<1>4. CASE Flush
    <2>1. CoinsInv'
        BY <1>2, <1>4 DEF Flush, CoinsInv, ConnectView, UndoView, Upto, vars
    <2>2. DiskCoins'
        BY <1>2, <1>4 DEF Flush, CoinsInv, DiskCoins
    <2>3. QED
        BY <1>1, <2>1, <2>2 DEF RCoinsInv
<1>5. CASE CrashRestart
    <2>1. CoinsInv'
        BY <1>2, <1>5 DEF CrashRestart, CoinsInv, DiskCoins, ConnectPCs, UndoPCs
    <2>2. DiskCoins'
        BY <1>2, <1>5 DEF CrashRestart, DiskCoins, disk
    <2>3. QED
        BY <1>1, <2>1, <2>2 DEF RCoinsInv
<1>6. CASE UNCHANGED rvars
    <2>1. CoinsInv' /\ DiskCoins'
        BY <1>2, <1>6 DEF CoinsInv, ConnectView, UndoView, Upto, DiskCoins, rvars, vars, disk
    <2>2. QED
        BY <1>1, <2>1 DEF RCoinsInv
<1>7. QED
    BY <1>3, <1>4, <1>5, <1>6 DEF RNext

LEMMA RCoinsStarts == RInit => RCoinsInv
<1> SUFFICES ASSUME RInit PROVE RCoinsInv
    OBVIOUS
<1>1. CoinsInv
    BY StartCoins DEF RInit
<1>2. DiskCoins
    BY <1>1 DEF RInit, CoinsInv, DiskCoins
<1>3. QED
    BY <1>1, <1>2, RSafeStarts DEF RCoinsInv

\* However often and wherever the node dies, its UTXO set between block
\* operations is the one of its chain, and the flushed one of the flushed chain.
THEOREM CrashKeepsCoins == RSpec => []CoinsAreReplay
<1>1. RCoinsInv /\ [RNext]_rvars => RCoinsInv'
    BY RCoinsKept
<1>2. RCoinsInv => CoinsAreReplay
    <2> SUFFICES ASSUME RCoinsInv PROVE CoinsAreReplay
        OBVIOUS
    <2>1. chain \in Seq(Blocks) /\ diskChain \in Seq(Blocks)
        BY DEF RCoinsInv, RSafeInv, SafeInv, TypeOK, DiskTyped
    <2>2. /\ Linear(chain) /\ coins = CoinsAt(chain, Len(chain))
          /\ Linear(diskChain) /\ diskCoins = CoinsAt(diskChain, Len(diskChain))
        BY DEF RCoinsInv, CoinsInv, DiskCoins
    <2>3. CoinsOf(chain) = CoinsAt(chain, Len(chain)) /\ CoinsOf(diskChain) = CoinsAt(diskChain, Len(diskChain))
        BY <2>1, <2>2, ChainConnected
    <2>4. QED
        BY <2>2, <2>3 DEF CoinsAreReplay
<1>3. QED
    BY <1>1, <1>2, RCoinsStarts, PTL DEF RSpec

LEMMA RAssetsKept ==
    ASSUME RulesFromGenesis, RCoinsInv, RAssetInv, [RNext]_rvars
    PROVE  RAssetInv'
<1> SUFFICES ASSUME ~lost', plain'
             PROVE  /\ PlainInv' /\ PlainChain(diskChain') /\ Lawful(diskChain')
                    /\ ~touched' => AtTip(diskChain)'
    BY DEF RAssetInv
<1>1. ~lost /\ plain
    <2>1. ~lost
        BY DEF RNext, BlockStep, Flush, CrashRestart, rvars
    <2>2. Next => plain
        BY DEF Next
    <2>3. plain
        BY <2>2 DEF RNext, BlockStep, Flush, CrashRestart, rvars, vars
    <2>4. QED
        BY <2>1, <2>3
<1>2. /\ PlainInv /\ PlainChain(diskChain) /\ Lawful(diskChain) /\ (~touched => AtTip(diskChain))
      /\ SafeInv /\ CoinsInv
    BY <1>1 DEF RAssetInv, RCoinsInv, RSafeInv
<1>3. CASE BlockStep
    <2>1. PlainInv'
        BY <1>2, <1>3, PlainInvKept DEF BlockStep
    <2>2. diskChain' = diskChain /\ touched' = (touched \/ asset' # asset)
        BY <1>3 DEF BlockStep, disk
    <2>3. ~touched' => AtTip(diskChain)'
        BY <1>2, <2>2 DEF AtTip, asset
    <2>4. QED
        BY <1>2, <2>1, <2>2, <2>3
<1>4. CASE Flush
    <2>1. Settled /\ UNCHANGED vars /\ diskChain' = chain
        BY <1>1, <1>4 DEF Flush, Settled
    <2>2. PlainInv' /\ PlainChain(chain) /\ AtTip(chain) /\ Lawful(chain)
        BY <1>2, <2>1, StillPlain, SettledTip
    <2>3. AtTip(diskChain)'
        BY <2>1, <2>2 DEF AtTip, vars
    <2>4. QED
        BY <2>1, <2>2, <2>3
<1>5. CASE CrashRestart
    <2>1. ~touched /\ chain' = diskChain /\ diskChain' = diskChain /\ pc' = "idle" /\ UNCHANGED asset
        BY <1>5 DEF CrashRestart, disk
    <2>2. AtTip(chain)' /\ AtTip(diskChain)'
        BY <1>2, <2>1 DEF AtTip, asset
    <2>3. Lawful(chain') /\ Lawful(diskChain') /\ PlainChain(chain') /\ PlainChain(diskChain')
        BY <1>2, <2>1
    <2>4. AssetInv' /\ PlainState'
        BY <2>1, <2>2, <2>3 DEF AssetInv, PlainState, ConnectPCs, UndoPCs
    <2>5. QED
        BY <2>2, <2>3, <2>4 DEF PlainInv
<1>6. CASE UNCHANGED rvars
    <2>1. PlainInv'
        BY <1>2, <1>6, StillPlain DEF rvars
    <2>2. QED
        BY <1>2, <1>6, <2>1 DEF AtTip, rvars, vars, disk
<1>7. QED
    BY <1>3, <1>4, <1>5, <1>6 DEF RNext

\* As long as no death fell between a write of an asset row and the next flush,
\* the asset state read back by AppInitMain is that of the chain it comes with,
\* on a node that has connected plain blocks only.
THEOREM QuietCrashKeepsAssets ==
    ASSUME RulesFromGenesis
    PROVE  RSpec => []AssetsSurviveQuietCrash
<1> DEFINE I == RCoinsInv /\ RAssetInv
<1>1. RInit => I
    <2> SUFFICES ASSUME RInit PROVE I
        OBVIOUS
    <2>1. PlainInv /\ Settled /\ diskChain = chain
        BY PlainStarts DEF RInit, Init, Settled
    <2>2. RAssetInv
        BY <2>1, SettledTip DEF RAssetInv
    <2>3. QED
        BY <2>2, RCoinsStarts
<1>2. I /\ [RNext]_rvars => I'
    BY RCoinsKept, RAssetsKept
<1>3. I => AssetsSurviveQuietCrash
    <2> SUFFICES ASSUME I, ~lost, Settled
                 PROVE  supply = Replay(chain).supply /\ authOutpoint = Replay(chain).outpoint
                        /\ frozen = Replay(chain).frozen
        BY DEF AssetsSurviveQuietCrash, SupplyIsReplay, OutpointIsReplay, FrozenIsReplay
    <2>1. PlainInv /\ chain \in Seq(Blocks)
        BY DEF RCoinsInv, RAssetInv, RSafeInv, SafeInv, TypeOK, Settled
    <2>2. QED
        BY <2>1, SettledTip, TipReplay
<1> HIDE DEF I
<1>4. QED
    BY <1>1, <1>2, <1>3, PTL DEF RSpec
=============================================================================
