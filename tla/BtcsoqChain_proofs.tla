------------------------- MODULE BtcsoqChain_proofs -------------------------
(***************************************************************************)
(* The BTCSOQ consensus state for every universe of transactions.           *)
(*                                                                          *)
(* OnceInv: a Bitcoin deposit is minted at most once, and the registry is   *)
(* that of the active chain, as long as the supply counter refuses no       *)
(* disconnection.  ReorgInv: when the rules hold from genesis and a block   *)
(* moves each counter and each freeze target in one direction, the supply,  *)
(* the tracker and the freeze registry are at every step the ones of a      *)
(* chain that passed every check; no disconnection is refused and every     *)
(* satoshi is backed.                                                       *)
(***************************************************************************)
EXTENDS BtcsoqChain, AssetTxs_proofs

CommitPCs == {"commitDeposits", "commitFreeze", "commitSupply", "connected"}

\* A mint of the active chain, and whether its registry row is still to be
\* there while its block is being disconnected.
OldMint(h, k) ==
    /\ h \in DOMAIN chain /\ k \in DOMAIN chain[h]
    /\ AppliedOp(chain[h][k], h) = "mint"
OldDeposit(h, k) == Op[chain[h][k]].deposit
Kept(h, k) == pc = "undoRegistry" => h < Len(chain) \/ k >= job.i

\* A mint of the block being connected that the second pass has accepted.
NewMint(k) ==
    /\ k \in DOMAIN job.block
    /\ AppliedOp(job.block[k], Len(chain) + 1) = "mint"
    /\ pc = "assets" => k < job.i
NewDeposit(k) == Op[job.block[k]].deposit
Written(n) == pc = "commitDeposits" => n < job.i

\* The types that the argument needs.
Typed ==
    /\ chain \in Seq(Blocks)
    /\ pc \in {"idle"} \cup ConnectPCs \cup UndoPCs
    /\ pc \in ConnectPCs =>
        job.block \in Blocks /\ job.i \in Nat \ {0} /\ job.pendingDeposits \in Seq(Deposits)
    /\ pc \in UndoPCs => job.i \in Nat \ {0} /\ chain # <<>>
    /\ pc # "idle" => "i" \in DOMAIN job
    /\ pc = "undoOutpoint" => job.i = 1

\* Every mint of the chain has its row, and every row its mint.
Registered == \A h, k : OldMint(h, k) /\ Kept(h, k) => OldDeposit(h, k) \in mintedDeposits
Accounted ==
    \A d \in mintedDeposits :
        \/ \E h, k : OldMint(h, k) /\ Kept(h, k) /\ OldDeposit(h, k) = d
        \/ /\ pc \in CommitPCs
           /\ \E n \in DOMAIN job.pendingDeposits : Written(n) /\ job.pendingDeposits[n] = d

\* The pending deposits are those of the accepted mints of the block, which are
\* different from each other and from every mint of the chain.
Collected ==
    pc \in ConnectPCs =>
        /\ \A k : NewMint(k) => \E n \in DOMAIN job.pendingDeposits :
                                    job.pendingDeposits[n] = NewDeposit(k)
        /\ \A n \in DOMAIN job.pendingDeposits :
               \E k : NewMint(k) /\ NewDeposit(k) = job.pendingDeposits[n]
Distinct ==
    pc \in ConnectPCs =>
        /\ \A k, l : NewMint(k) /\ NewMint(l) /\ NewDeposit(k) = NewDeposit(l) => k = l
        /\ \A k, h, g : NewMint(k) /\ OldMint(h, g) => NewDeposit(k) # OldDeposit(h, g)
RowsWritten ==
    pc \in CommitPCs =>
        \A n \in DOMAIN job.pendingDeposits :
            Written(n) => job.pendingDeposits[n] \in mintedDeposits

OnceInv ==
    /\ Typed /\ MintedOnce /\ Registered /\ Accounted
    /\ Collected /\ Distinct /\ RowsWritten
-----------------------------------------------------------------------------
\* MintedOnce in the vocabulary of the invariant.
LEMMA MintedOnceAlt ==
    MintedOnce <=> \A h, k, g, l : OldMint(h, k) /\ OldMint(g, l) /\ OldDeposit(h, k) = OldDeposit(g, l)
                        => h = g /\ k = l
BY DEF MintedOnce, OldMint, OldDeposit

LEMMA OnceInit == Init => OnceInv
<1> SUFFICES ASSUME Init PROVE OnceInv
    OBVIOUS
<1>1. chain = <<>> /\ DOMAIN chain = {} /\ chain \in Seq(Blocks) /\ mintedDeposits = {} /\ pc = "idle"
    BY DEF Init
<1>2. QED
    BY <1>1 DEF OnceInv, Typed, MintedOnce, Registered, Accounted, Collected, Distinct,
                RowsWritten, OldMint, ConnectPCs, UndoPCs, CommitPCs

\* A step that leaves the chain and the registry alone and ends or stays idle.
LEMMA OnceIdle ==
    ASSUME OnceInv, pc' = "idle", pc # "undoRegistry", pc \notin CommitPCs,
           UNCHANGED <<chain, mintedDeposits>>
    PROVE  OnceInv'
BY DEF OnceInv, Typed, MintedOnce, Registered, Accounted, Collected, Distinct,
       RowsWritten, OldMint, OldDeposit, Kept, ConnectPCs, UndoPCs, CommitPCs

\* Starting ConnectBlock: nothing is pending.
LEMMA OnceBegin ==
    ASSUME OnceInv, NEW blk \in Blocks, NEW f \in BOOLEAN, BeginConnect(blk, f)
    PROVE  OnceInv'
<1>1. /\ job'.block = blk /\ job'.i = 1 /\ job'.pendingDeposits = <<>>
      /\ UNCHANGED <<chain, mintedDeposits>> /\ pc = "idle"
      /\ pc' = IF Active(Len(chain) + 1) THEN "assets" ELSE "scripts"
    BY DEF BeginConnect, NewJob, Locals, asset
<1>a. "i" \in DOMAIN job'
    BY DEF BeginConnect, NewJob, Locals
<1>2. \A k : ~NewMint(k)'
    <2> SUFFICES ASSUME NEW k, NewMint(k)' PROVE FALSE
        OBVIOUS
    <2>1. CASE Active(Len(chain) + 1)
        <3>1. k \in DOMAIN blk /\ k < 1
            BY <1>1, <2>1 DEF NewMint
        <3>2. blk \in Seq(Txs)
            BY TxConstants
        <3>3. QED
            BY <3>1, <3>2
    <2>2. CASE ~Active(Len(chain) + 1)
        BY <1>1, <2>2 DEF NewMint, AppliedOp
    <2>3. QED
        BY <2>1, <2>2
<1>3. DOMAIN job'.pendingDeposits = {} /\ job'.pendingDeposits \in Seq(Deposits)
    BY <1>1
<1>4. QED
    BY <1>1, <1>a, <1>2, <1>3
    DEF OnceInv, Typed, MintedOnce, Registered, Accounted, Collected, Distinct,
        RowsWritten, OldMint, OldDeposit, Kept, ConnectPCs, UndoPCs, CommitPCs

\* What accepting one more transaction does to the pending deposits.
LEMMA ConnectAssetFacts ==
    ASSUME OnceInv, ConnectAsset
    PROVE  LET op == AppliedOp(job.block[job.i], Len(chain) + 1)
               d == NewDeposit(job.i)
           IN  /\ job'.block = job.block /\ job'.i = job.i + 1
               /\ job'.pendingDeposits = IF op = "mint" THEN Append(job.pendingDeposits, d)
                                         ELSE job.pendingDeposits
               /\ op = "mint" => /\ d \in Deposits /\ d \notin mintedDeposits
                                 /\ d \notin Elems(job.pendingDeposits)
               /\ job.i \in DOMAIN job.block /\ "i" \in DOMAIN job'
<1> DEFINE t == job.block[job.i]
           op == AppliedOp(t, Len(chain) + 1)
<1>1. /\ pc = "assets" /\ job.i <= Len(job.block) /\ AssetOK(t)
      /\ job.block \in Blocks /\ job.i \in Nat \ {0}
    BY DEF ConnectAsset, OnceInv, Typed, ConnectPCs
<1>2. job.i \in 1..Len(job.block) /\ job.block \in Seq(Txs)
    BY <1>1, TxConstants
<1>3. t \in Txs
    BY <1>1, <1>2, BlockTx
<1>4. /\ job'.block = job.block /\ job'.i = job.i + 1
      /\ job'.pendingDeposits = IF op = "mint" THEN Append(job.pendingDeposits, Op[t].deposit)
                                ELSE job.pendingDeposits
    BY DEF ConnectAsset, Height
<1>a. "i" \in DOMAIN job'
    <2>1. "i" \in DOMAIN job
        BY <1>1 DEF OnceInv, Typed
    <2>2. QED
        BY <2>1 DEF ConnectAsset
<1>5. ASSUME op = "mint"
      PROVE  /\ Op[t].deposit \in Deposits /\ Op[t].deposit \notin mintedDeposits
             /\ Op[t].deposit \notin Elems(job.pendingDeposits)
    <2>1. IsAuthorityTx(t) /\ Enforced(Height) /\ Op[t].tag = "mint"
        BY <1>5 DEF AppliedOp, Height
    <2>2. MintOK(t)
        BY <1>1, <2>1 DEF AssetOK, OpOK
    <2>3. QED
        BY <2>1, <2>2, <1>3, BtcsoqConstants DEF MintOK
<1>6. QED
    BY <1>2, <1>4, <1>a, <1>5 DEF NewDeposit

\* The second pass: a mint it accepts is new to the registry and to the block.
LEMMA OnceConnectAsset ==
    ASSUME OnceInv, ConnectAsset
    PROVE  OnceInv'
<1> DEFINE op == AppliedOp(job.block[job.i], Len(chain) + 1)
           d == NewDeposit(job.i)
           pd == job.pendingDeposits
<1>1. /\ job'.block = job.block /\ job'.i = job.i + 1
      /\ job'.pendingDeposits = IF op = "mint" THEN Append(pd, d) ELSE pd
      /\ op = "mint" => d \in Deposits /\ d \notin mintedDeposits /\ d \notin Elems(pd)
      /\ job.i \in DOMAIN job.block /\ "i" \in DOMAIN job'
    BY ConnectAssetFacts
<1>2. pc = "assets" /\ pc' = "assets" /\ UNCHANGED <<chain, mintedDeposits>>
    BY DEF ConnectAsset, asset
<1>3. /\ job.block \in Blocks /\ job.i \in Nat \ {0} /\ pd \in Seq(Deposits)
      /\ job.block \in Seq(Txs)
    BY <1>2, TxConstants DEF OnceInv, Typed, ConnectPCs
<1> HIDE DEF op, d, pd
<1>4. ASSUME NEW k PROVE NewMint(k)' <=> NewMint(k) \/ (k = job.i /\ op = "mint")
    <2>1. k \in DOMAIN job.block => k \in Nat
        BY <1>3
    <2>2. QED
        BY <1>1, <1>2, <1>3, <2>1 DEF NewMint, op
<1>5. \A k : NewDeposit(k)' = NewDeposit(k)
    BY <1>1 DEF NewDeposit
<1>6. \A h, k : (OldMint(h, k)' <=> OldMint(h, k)) /\ OldDeposit(h, k)' = OldDeposit(h, k)
    BY <1>2 DEF OldMint, OldDeposit
<1>7. \A h, k : Kept(h, k) /\ Kept(h, k)'
    BY <1>2 DEF Kept
<1>8. job'.pendingDeposits \in Seq(Deposits)
    BY <1>1, <1>3
<1>9. Typed'
    BY <1>1, <1>2, <1>3, <1>8 DEF OnceInv, Typed, ConnectPCs, UndoPCs
<1>10. MintedOnce' /\ Registered'
    BY <1>2, <1>6, <1>7, MintedOnceAlt DEF OnceInv, Registered, MintedOnce
<1>11. Accounted'
    BY <1>2, <1>6, <1>7 DEF OnceInv, Accounted, CommitPCs
<1>12. Collected'
    <2>0. /\ \A k : NewMint(k) => \E n \in DOMAIN pd : pd[n] = NewDeposit(k)
          /\ \A n \in DOMAIN pd : \E k : NewMint(k) /\ NewDeposit(k) = pd[n]
        BY <1>2 DEF OnceInv, Collected, ConnectPCs, pd
    <2>1. CASE op = "mint"
        <3>1. job'.pendingDeposits = Append(pd, d)
            BY <1>1, <2>1
        <3>2. /\ Len(pd) \in Nat /\ DOMAIN pd = 1..Len(pd)
              /\ DOMAIN Append(pd, d) = 1..(Len(pd) + 1)
              /\ Append(pd, d)[Len(pd) + 1] = d
              /\ \A n \in 1..Len(pd) : Append(pd, d)[n] = pd[n]
            BY <1>3, <1>1, <2>1
        <3>3. ASSUME NEW k, NewMint(k)'
              PROVE  \E n \in DOMAIN Append(pd, d) : Append(pd, d)[n] = NewDeposit(k)
            <4>1. CASE NewMint(k)
                BY <2>0, <3>2, <4>1
            <4>2. CASE k = job.i
                BY <3>2, <4>2 DEF d
            <4>3. QED
                BY <1>4, <3>3, <4>1, <4>2
        <3>4. ASSUME NEW n \in DOMAIN Append(pd, d)
              PROVE  \E k : NewMint(k)' /\ NewDeposit(k) = Append(pd, d)[n]
            <4>1. CASE n \in 1..Len(pd)
                BY <2>0, <3>2, <4>1, <1>4
            <4>2. CASE n = Len(pd) + 1
                BY <1>4, <2>1, <3>2, <4>2 DEF d
            <4>3. QED
                BY <3>2, <4>1, <4>2
        <3>5. QED
            BY <3>1, <3>3, <3>4, <1>5 DEF Collected
    <2>2. CASE op # "mint"
        <3>1. job'.pendingDeposits = pd /\ \A k : NewMint(k)' <=> NewMint(k)
            BY <1>1, <1>4, <2>2
        <3>2. QED
            BY <2>0, <3>1, <1>5 DEF Collected
    <2>3. QED
        BY <2>1, <2>2
<1>13. Distinct'
    <2>0. /\ \A k, l : NewMint(k) /\ NewMint(l) /\ NewDeposit(k) = NewDeposit(l) => k = l
          /\ \A k, h, g : NewMint(k) /\ OldMint(h, g) => NewDeposit(k) # OldDeposit(h, g)
          /\ \A k : NewMint(k) => NewDeposit(k) \in Elems(pd)
          /\ \A h, k : OldMint(h, k) => OldDeposit(h, k) \in mintedDeposits
        BY <1>2, <1>7 DEF OnceInv, Distinct, Collected, Registered, ConnectPCs, Elems, pd
    <2>1. op = "mint" => /\ \A k : NewMint(k) => NewDeposit(k) # NewDeposit(job.i)
                         /\ \A h, k : OldMint(h, k) => OldDeposit(h, k) # NewDeposit(job.i)
        BY <1>1, <2>0 DEF d
    <2>2. \A k, l : NewMint(k)' /\ NewMint(l)' /\ NewDeposit(k) = NewDeposit(l) => k = l
        BY <1>4, <2>0, <2>1
    <2>3. \A k, h, g : NewMint(k)' /\ OldMint(h, g) => NewDeposit(k) # OldDeposit(h, g)
        BY <1>4, <2>0, <2>1
    <2>4. QED
        BY <2>2, <2>3, <1>5, <1>6 DEF Distinct
<1>14. RowsWritten'
    BY <1>2 DEF RowsWritten, CommitPCs
<1>15. QED
    BY <1>9, <1>10, <1>11, <1>12, <1>13, <1>14 DEF OnceInv

\* The steps of ConnectBlock that only move on: chain, registry and pending
\* deposits stay, and the rows claimed as written are there.
LEMMA OnceMove ==
    ASSUME OnceInv, pc \in ConnectPCs, pc' \in ConnectPCs,
           UNCHANGED <<chain, mintedDeposits>>,
           job'.block = job.block, job'.pendingDeposits = job.pendingDeposits,
           job'.i \in Nat \ {0}, "i" \in DOMAIN job',
           \A k : NewMint(k)' <=> NewMint(k),
           pc \in CommitPCs => pc' \in CommitPCs,
           \A n \in DOMAIN job.pendingDeposits :
               /\ pc \in CommitPCs /\ Written(n) => Written(n)'
               /\ pc' \in CommitPCs /\ Written(n)' => pc \in CommitPCs /\ Written(n)
    PROVE  OnceInv'
<1>1. pc # "undoRegistry" /\ pc' # "undoRegistry" /\ pc' \notin UndoPCs
    BY DEF ConnectPCs, UndoPCs
<1>2. \A k : NewDeposit(k)' = NewDeposit(k)
    BY DEF NewDeposit
<1>3. \A h, k : (OldMint(h, k)' <=> OldMint(h, k)) /\ OldDeposit(h, k)' = OldDeposit(h, k)
    BY DEF OldMint, OldDeposit
<1>4. \A h, k : Kept(h, k) /\ Kept(h, k)'
    BY <1>1 DEF Kept
<1>5. Typed'
    BY <1>1 DEF OnceInv, Typed, UndoPCs
<1>6. MintedOnce' /\ Registered'
    BY <1>3, <1>4 DEF OnceInv, Registered, MintedOnce
<1>7. Accounted'
    BY <1>3, <1>4 DEF OnceInv, Accounted
<1>8. Collected' /\ Distinct'
    BY <1>2, <1>3 DEF OnceInv, Collected, Distinct
<1>9. RowsWritten'
    BY DEF OnceInv, RowsWritten
<1>10. QED
    BY <1>5, <1>6, <1>7, <1>8, <1>9 DEF OnceInv

LEMMA OnceCheckSupply ==
    ASSUME OnceInv, CheckSupply
    PROVE  OnceInv'
<1>1. /\ pc = "assets" /\ pc' = "scripts" /\ UNCHANGED <<chain, mintedDeposits>>
      /\ job.i > Len(job.block)
      /\ job'.block = job.block /\ job'.pendingDeposits = job.pendingDeposits
      /\ job'.i = job.i /\ DOMAIN job' = DOMAIN job
    BY DEF CheckSupply, asset
<1>2. "i" \in DOMAIN job /\ job.block \in Seq(Txs) /\ job.i \in Nat \ {0}
    BY <1>1, TxConstants DEF OnceInv, Typed, ConnectPCs
<1>3. \A k \in DOMAIN job.block : k < job.i
    BY <1>1, <1>2
<1>4. \A k : NewMint(k)' <=> NewMint(k)
    BY <1>1, <1>3 DEF NewMint
<1>5. QED
    BY <1>1, <1>2, <1>4, OnceMove DEF ConnectPCs, CommitPCs

LEMMA OnceScriptsPass ==
    ASSUME OnceInv, ScriptsPass
    PROVE  OnceInv'
<1>1. pc = "scripts" /\ UNCHANGED <<chain, mintedDeposits>>
    BY DEF ScriptsPass, asset
<1>2. CASE pc' = "idle"
    BY <1>1, <1>2, OnceIdle DEF CommitPCs
<1>3. CASE pc' # "idle"
    <2>0. "i" \in DOMAIN job
        BY <1>1 DEF OnceInv, Typed
    <2>a. pc' = "commitDeposits" /\ job' = [job EXCEPT !.i = 1]
        BY <1>3 DEF ScriptsPass, Abandon
    <2>1. /\ pc' = "commitDeposits" /\ job'.i = 1 /\ "i" \in DOMAIN job'
          /\ job'.block = job.block /\ job'.pendingDeposits = job.pendingDeposits
        BY <2>0, <2>a
    <2>2. job.pendingDeposits \in Seq(Deposits)
        BY <1>1 DEF OnceInv, Typed, ConnectPCs
    <2>3. \A k : NewMint(k)' <=> NewMint(k)
        BY <1>1, <2>1 DEF NewMint
    <2>4. \A n \in DOMAIN job.pendingDeposits : ~Written(n)'
        BY <2>1, <2>2 DEF Written
    <2>5. QED
        BY <1>1, <2>1, <2>3, <2>4, OnceMove DEF ConnectPCs, CommitPCs
<1>4. QED
    BY <1>2, <1>3

LEMMA OnceReject ==
    ASSUME OnceInv, Reject
    PROVE  OnceInv'
<1>1. pc \in {"assets", "scripts"} /\ pc' = "idle" /\ UNCHANGED <<chain, mintedDeposits>>
    BY DEF Reject, Abandon, asset
<1>2. QED
    BY <1>1, OnceIdle DEF CommitPCs

\* Past the deposits every row is written.
LEMMA OnceLaterCommits ==
    ASSUME OnceInv, DepositsDone \/ CommitFreezeOp \/ CommitOutpoint \/ CommitSupply
    PROVE  OnceInv'
<1>1. /\ pc \in CommitPCs \ {"connected"} /\ pc' \in CommitPCs \ {"commitDeposits"}
      /\ UNCHANGED <<chain, mintedDeposits>>
      /\ pc = "commitDeposits" => job.i > Len(job.pendingDeposits)
    BY DEF DepositsDone, CommitFreezeOp, CommitOutpoint, CommitSupply, asset, CommitPCs
<1>2. "i" \in DOMAIN job /\ job.i \in Nat \ {0} /\ job.pendingDeposits \in Seq(Deposits)
    BY <1>1 DEF OnceInv, Typed, ConnectPCs, CommitPCs
<1>3. /\ job'.block = job.block /\ job'.pendingDeposits = job.pendingDeposits
      /\ job'.i \in Nat \ {0} /\ "i" \in DOMAIN job'
    <2>1. CASE DepositsDone
        BY <1>2, <2>1 DEF DepositsDone
    <2>2. CASE CommitFreezeOp
        BY <1>2, <2>2 DEF CommitFreezeOp
    <2>3. CASE CommitOutpoint \/ CommitSupply
        BY <1>2, <2>3 DEF CommitOutpoint, CommitSupply
    <2>4. QED
        BY <2>1, <2>2, <2>3
<1>4. \A n \in DOMAIN job.pendingDeposits : Written(n) /\ Written(n)'
    <2>1. pc = "commitDeposits" => \A n \in DOMAIN job.pendingDeposits : n < job.i
        BY <1>1, <1>2
    <2>2. pc' # "commitDeposits"
        BY <1>1
    <2>3. QED
        BY <2>1, <2>2 DEF Written
<1>5. \A k : NewMint(k)' <=> NewMint(k)
    <2>1. pc # "assets" /\ pc' # "assets"
        BY <1>1 DEF CommitPCs
    <2>2. QED
        BY <2>1, <1>1, <1>3 DEF NewMint
<1>6. pc \in ConnectPCs /\ pc' \in ConnectPCs /\ pc \in CommitPCs /\ pc' \in CommitPCs
    BY <1>1 DEF CommitPCs, ConnectPCs
<1>7. QED
    BY <1>1, <1>3, <1>4, <1>5, <1>6, OnceMove

\* Writing one deposit row.
LEMMA OnceCommitDeposit ==
    ASSUME OnceInv, CommitDeposit
    PROVE  OnceInv'
<1> DEFINE pd == job.pendingDeposits
<1>1. /\ pc = "commitDeposits" /\ pc' = "commitDeposits" /\ UNCHANGED chain
      /\ job.i <= Len(pd) /\ mintedDeposits' = mintedDeposits \cup {pd[job.i]}
      /\ job' = [job EXCEPT !.i = @ + 1]
    BY DEF CommitDeposit
<1>2. "i" \in DOMAIN job /\ job.i \in Nat \ {0} /\ pd \in Seq(Deposits) /\ job.block \in Blocks
    BY <1>1 DEF OnceInv, Typed, ConnectPCs
<1>3. /\ job'.block = job.block /\ job'.pendingDeposits = pd
      /\ job'.i = job.i + 1 /\ "i" \in DOMAIN job'
    BY <1>1, <1>2
<1>4. job.i \in DOMAIN pd
    BY <1>1, <1>2
<1> HIDE DEF pd
<1>5. \A k : (NewMint(k)' <=> NewMint(k)) /\ NewDeposit(k)' = NewDeposit(k)
    BY <1>1, <1>3 DEF NewMint, NewDeposit
<1>6. \A h, k : (OldMint(h, k)' <=> OldMint(h, k)) /\ OldDeposit(h, k)' = OldDeposit(h, k)
    BY <1>1 DEF OldMint, OldDeposit
<1>7. \A h, k : Kept(h, k) /\ Kept(h, k)'
    BY <1>1 DEF Kept
<1>8. \A n \in DOMAIN pd : Written(n)' <=> Written(n) \/ n = job.i
    <2>1. \A n \in DOMAIN pd : n \in Nat
        BY <1>2
    <2>2. QED
        BY <1>1, <1>2, <1>3, <2>1 DEF Written
<1>9. Typed'
    BY <1>1, <1>2, <1>3 DEF OnceInv, Typed, ConnectPCs, UndoPCs
<1>10. MintedOnce' /\ Registered'
    BY <1>1, <1>6, <1>7 DEF OnceInv, Registered, MintedOnce
<1>11. Collected' /\ Distinct'
    BY <1>1, <1>3, <1>5, <1>6 DEF OnceInv, Collected, Distinct, pd
<1>12. RowsWritten'
    BY <1>1, <1>3, <1>8 DEF OnceInv, RowsWritten, CommitPCs, pd
<1>13. Accounted'
    <2> SUFFICES ASSUME NEW d \in mintedDeposits'
                 PROVE  \/ \E h, k : OldMint(h, k)' /\ Kept(h, k)' /\ OldDeposit(h, k)' = d
                        \/ \E n \in DOMAIN pd : Written(n)' /\ pd[n] = d
        BY <1>1, <1>3 DEF Accounted, CommitPCs
    <2>1. CASE d = pd[job.i]
        BY <2>1, <1>4, <1>8
    <2>2. CASE d \in mintedDeposits
        <3>1. \/ \E h, k : OldMint(h, k) /\ Kept(h, k) /\ OldDeposit(h, k) = d
              \/ \E n \in DOMAIN pd : Written(n) /\ pd[n] = d
            BY <2>2, <1>1 DEF OnceInv, Accounted, pd
        <3>2. QED
            BY <3>1, <1>6, <1>7, <1>8
    <2>3. QED
        BY <1>1, <2>1, <2>2 DEF pd
<1>14. QED
    BY <1>9, <1>10, <1>11, <1>12, <1>13 DEF OnceInv

\* The block becomes the tip: its mints join those of the chain.
LEMMA OnceConnectTip ==
    ASSUME OnceInv, ConnectTip
    PROVE  OnceInv'
<1> DEFINE blk == job.block
           top == Len(chain) + 1
           pd == job.pendingDeposits
<1>1. /\ pc = "connected" /\ pc' = "idle" /\ chain' = Append(chain, blk)
      /\ UNCHANGED mintedDeposits
    BY DEF ConnectTip, Abandon, asset
<1>2. blk \in Blocks /\ chain \in Seq(Blocks)
    BY <1>1 DEF OnceInv, Typed, ConnectPCs
<1>3. /\ Len(chain) \in Nat /\ DOMAIN chain = 1..Len(chain)
      /\ chain' \in Seq(Blocks) /\ DOMAIN chain' = 1..top
      /\ chain'[top] = blk /\ \A h \in DOMAIN chain : chain'[h] = chain[h]
    BY <1>1, <1>2
<1>4. \A h : h \in DOMAIN chain' <=> h \in DOMAIN chain \/ h = top
    BY <1>3
<1>5. top \notin DOMAIN chain
    BY <1>3
<1> HIDE DEF top, pd, blk
<1>6. \A k : NewMint(k) <=> k \in DOMAIN blk /\ AppliedOp(blk[k], top) = "mint"
    BY <1>1 DEF NewMint, blk, top
<1>7. \A h, k : OldMint(h, k)' <=> OldMint(h, k) \/ (h = top /\ NewMint(k))
    BY <1>3, <1>4, <1>5, <1>6 DEF OldMint
<1>8. \A h, k : OldMint(h, k) => OldDeposit(h, k)' = OldDeposit(h, k) /\ h # top
    BY <1>3, <1>5 DEF OldMint, OldDeposit
<1>9. \A h, k : h = top => OldDeposit(h, k)' = NewDeposit(k)
    BY <1>3 DEF OldDeposit, NewDeposit, blk
<1>10. \A h, k : Kept(h, k) /\ Kept(h, k)'
    BY <1>1 DEF Kept
<1>11. /\ \A k, l : NewMint(k) /\ NewMint(l) /\ NewDeposit(k) = NewDeposit(l) => k = l
       /\ \A k, h, g : NewMint(k) /\ OldMint(h, g) => NewDeposit(k) # OldDeposit(h, g)
       /\ \A k : NewMint(k) => NewDeposit(k) \in mintedDeposits
       /\ \A n \in DOMAIN pd : \E k : NewMint(k) /\ NewDeposit(k) = pd[n]
    BY <1>1 DEF OnceInv, Distinct, Collected, RowsWritten, Written, ConnectPCs, CommitPCs, pd
<1>12. Typed'
    BY <1>1, <1>3 DEF Typed, ConnectPCs, UndoPCs
<1>13. MintedOnce'
    <2> SUFFICES ASSUME NEW h, NEW k, NEW g, NEW l, OldMint(h, k)', OldMint(g, l)',
                        OldDeposit(h, k)' = OldDeposit(g, l)'
                 PROVE  h = g /\ k = l
        BY DEF MintedOnce, OldMint, OldDeposit
    <2>1. CASE OldMint(h, k) /\ OldMint(g, l)
        BY <2>1, <1>8, MintedOnceAlt DEF OnceInv
    <2>2. CASE OldMint(h, k) /\ g = top /\ NewMint(l)
        BY <2>2, <1>8, <1>9, <1>11
    <2>3. CASE OldMint(g, l) /\ h = top /\ NewMint(k)
        BY <2>3, <1>8, <1>9, <1>11
    <2>4. CASE h = top /\ NewMint(k) /\ g = top /\ NewMint(l)
        BY <2>4, <1>9, <1>11
    <2>5. QED
        BY <1>7, <2>1, <2>2, <2>3, <2>4
<1>14. Registered'
    BY <1>1, <1>7, <1>8, <1>9, <1>10, <1>11 DEF OnceInv, Registered
<1>15. Accounted'
    <2> SUFFICES ASSUME NEW d \in mintedDeposits
                 PROVE  \E h, k : OldMint(h, k)' /\ OldDeposit(h, k)' = d
        BY <1>1, <1>10 DEF Accounted
    <2>1. \/ \E h, k : OldMint(h, k) /\ OldDeposit(h, k) = d
          \/ \E n \in DOMAIN pd : pd[n] = d
        BY DEF OnceInv, Accounted, pd
    <2>2. \/ \E h, k : OldMint(h, k) /\ OldDeposit(h, k) = d
          \/ \E k : NewMint(k) /\ NewDeposit(k) = d
        BY <2>1, <1>11
    <2>3. QED
        BY <2>2, <1>7, <1>8, <1>9
<1>16. Collected' /\ Distinct' /\ RowsWritten'
    BY <1>1 DEF Collected, Distinct, RowsWritten, ConnectPCs, CommitPCs
<1>17. QED
    BY <1>12, <1>13, <1>14, <1>15, <1>16 DEF OnceInv
-----------------------------------------------------------------------------
(* Disconnecting.                                                           *)

\* The supply and the outpoint are restored first; no row changes yet.
LEMMA OnceUndoStart ==
    ASSUME OnceInv, UndoSupply \/ UndoOutpoint
    PROVE  OnceInv'
<1>1. /\ pc \in {"idle", "undoOutpoint"} /\ pc' \in UndoPCs
      /\ UNCHANGED <<chain, mintedDeposits>> /\ chain # <<>>
    BY DEF UndoSupply, UndoOutpoint, OnceInv, Typed, UndoPCs
<1>2. job'.i = 1 /\ "i" \in DOMAIN job'
    <2>1. CASE UndoSupply
        BY <2>1 DEF UndoSupply
    <2>2. CASE UndoOutpoint
        BY <2>2 DEF UndoOutpoint, OnceInv, Typed
    <2>3. QED
        BY <2>1, <2>2
<1>3. \A h, k : /\ OldMint(h, k)' <=> OldMint(h, k)
                /\ OldDeposit(h, k)' = OldDeposit(h, k)
                /\ OldMint(h, k) => Kept(h, k) /\ Kept(h, k)'
    <2>1. \A h, k : OldMint(h, k) => k \in Nat \ {0}
        BY TxConstants DEF OldMint, OnceInv, Typed
    <2>2. \A h, k : Kept(h, k)
        BY <1>1 DEF Kept
    <2>3. \A h, k : k \in Nat \ {0} => Kept(h, k)'
        BY <1>2 DEF Kept
    <2>4. QED
        BY <1>1, <2>1, <2>2, <2>3 DEF OldMint, OldDeposit
<1>4. Typed'
    BY <1>1, <1>2 DEF OnceInv, Typed, ConnectPCs, UndoPCs
<1>5. MintedOnce' /\ Registered'
    BY <1>1, <1>3 DEF OnceInv, Registered, MintedOnce
<1>6. pc \notin CommitPCs /\ pc' \notin CommitPCs /\ pc' \notin ConnectPCs
    BY <1>1 DEF CommitPCs, ConnectPCs, UndoPCs
<1>7. Accounted'
    BY <1>1, <1>3, <1>6 DEF OnceInv, Accounted
<1>8. Collected' /\ Distinct' /\ RowsWritten'
    BY <1>6 DEF Collected, Distinct, RowsWritten
<1>9. QED
    BY <1>4, <1>5, <1>7, <1>8 DEF OnceInv

\* One operation of the tip is inverted.  The row erased for a mint is no other
\* mint's, because no deposit is minted twice.
LEMMA OnceUndoRegistry ==
    ASSUME OnceInv, UndoRegistry
    PROVE  OnceInv'
<1> DEFINE top == Len(chain)
<1>1. /\ pc = "undoRegistry" /\ pc' = "undoRegistry" /\ UNCHANGED chain
      /\ job.i <= Len(Tip) /\ job' = [job EXCEPT !.i = @ + 1]
      /\ mintedDeposits' = DepositsAfterUndo(AppliedOp(Tip[job.i], top), Op[Tip[job.i]].deposit)
    BY DEF UndoRegistry
<1>2. /\ chain \in Seq(Blocks) /\ chain # <<>> /\ job.i \in Nat \ {0} /\ "i" \in DOMAIN job
    BY <1>1 DEF OnceInv, Typed, UndoPCs
<1>3. top \in DOMAIN chain /\ Tip = chain[top] /\ Tip \in Blocks /\ top \in Nat
    BY <1>2 DEF Tip
<1>4. Tip \in Seq(Txs)
    BY <1>3, TxConstants
<1>5. job.i \in DOMAIN Tip
    BY <1>1, <1>2, <1>4
<1>6. job'.i = job.i + 1 /\ "i" \in DOMAIN job'
    BY <1>1, <1>2
<1>7. mintedDeposits' = IF OldMint(top, job.i) THEN mintedDeposits \ {OldDeposit(top, job.i)}
                        ELSE mintedDeposits
    <2>1. OldMint(top, job.i) <=> AppliedOp(Tip[job.i], top) = "mint"
        BY <1>3, <1>5 DEF OldMint
    <2>2. QED
        BY <1>1, <1>3, <2>1 DEF DepositsAfterUndo, OldDeposit
<1>8. \A h, k : /\ OldMint(h, k)' <=> OldMint(h, k)
                /\ OldDeposit(h, k)' = OldDeposit(h, k)
    BY <1>1 DEF OldMint, OldDeposit
<1>9. \A h, k : OldMint(h, k) =>
                    (Kept(h, k)' <=> Kept(h, k) /\ ~(h = top /\ k = job.i))
    <2> SUFFICES ASSUME NEW h, NEW k, OldMint(h, k)
                 PROVE  Kept(h, k)' <=> Kept(h, k) /\ ~(h = top /\ k = job.i)
        OBVIOUS
    <2>1. h \in DOMAIN chain /\ k \in DOMAIN chain[h]
        BY DEF OldMint
    <2>2. h \in 1..top
        BY <1>2, <2>1
    <2>3. chain[h] \in Seq(Txs)
        BY <1>2, <2>1, TxConstants
    <2>4. k \in Nat
        BY <2>1, <2>3
    <2>5. QED
        BY <1>1, <1>2, <1>3, <1>6, <2>2, <2>4 DEF Kept
<1>10. Kept(top, job.i)
    BY <1>2 DEF Kept
<1> HIDE DEF top
<1>11. \A h, k, g, l : OldMint(h, k) /\ OldMint(g, l) /\ OldDeposit(h, k) = OldDeposit(g, l)
                        => h = g /\ k = l
    BY MintedOnceAlt DEF OnceInv
<1>12. Typed'
    BY <1>1, <1>2, <1>6 DEF Typed, ConnectPCs, UndoPCs
<1>13. MintedOnce'
    BY <1>1 DEF OnceInv, MintedOnce
<1>14. Registered'
    <2> SUFFICES ASSUME NEW h, NEW k, OldMint(h, k), Kept(h, k)'
                 PROVE  OldDeposit(h, k) \in mintedDeposits'
        BY <1>8 DEF Registered
    <2>1. Kept(h, k) /\ ~(h = top /\ k = job.i)
        BY <1>9
    <2>2. OldDeposit(h, k) \in mintedDeposits
        BY <2>1 DEF OnceInv, Registered
    <2>3. OldMint(top, job.i) => OldDeposit(h, k) # OldDeposit(top, job.i)
        BY <1>11, <2>1
    <2>4. QED
        BY <1>7, <2>2, <2>3
<1>15. Accounted'
    <2> SUFFICES ASSUME NEW d \in mintedDeposits'
                 PROVE  \E h, k : OldMint(h, k)' /\ Kept(h, k)' /\ OldDeposit(h, k)' = d
        BY DEF Accounted
    <2>1. d \in mintedDeposits /\ (OldMint(top, job.i) => d # OldDeposit(top, job.i))
        BY <1>7
    <2>2. PICK h, k : OldMint(h, k) /\ Kept(h, k) /\ OldDeposit(h, k) = d
        BY <1>1, <2>1 DEF OnceInv, Accounted, CommitPCs
    <2>3. ~(h = top /\ k = job.i)
        BY <2>1, <2>2
    <2>4. QED
        BY <2>2, <2>3, <1>8, <1>9
<1>16. Collected' /\ Distinct' /\ RowsWritten'
    BY <1>1 DEF Collected, Distinct, RowsWritten, ConnectPCs, CommitPCs
<1>17. QED
    BY <1>12, <1>13, <1>14, <1>15, <1>16 DEF OnceInv

\* A clean disconnection removes the tip, none of whose mints has a row left.
LEMMA OnceDisconnectTip ==
    ASSUME OnceInv, DisconnectTip, DisconnectClean
    PROVE  OnceInv'
<1> DEFINE top == Len(chain)
<1>1. /\ pc = "undoRegistry" /\ pc' = "idle" /\ job.i > Len(Tip)
      /\ UNCHANGED mintedDeposits /\ chain' = SubSeq(chain, 1, top - 1)
    BY DEF DisconnectTip, DisconnectClean, UndoPCs, Abandon, asset
<1>2. chain \in Seq(Blocks) /\ chain # <<>> /\ job.i \in Nat \ {0}
    BY <1>1 DEF OnceInv, Typed, UndoPCs
<1>3. /\ top \in Nat \ {0} /\ DOMAIN chain = 1..top
      /\ chain' \in Seq(Blocks) /\ DOMAIN chain' = 1..(top - 1)
      /\ \A h \in 1..(top - 1) : chain'[h] = chain[h]
    BY <1>1, <1>2
<1>4. Tip = chain[top] /\ Tip \in Seq(Txs)
    BY <1>2, <1>3, TxConstants DEF Tip
<1>5. \A k \in DOMAIN Tip : k < job.i /\ ~(k >= job.i)
    BY <1>1, <1>2, <1>4
<1>6. \A h, k : /\ OldMint(h, k)' <=> OldMint(h, k) /\ Kept(h, k)
                /\ OldMint(h, k)' => OldDeposit(h, k)' = OldDeposit(h, k)
    <2> SUFFICES ASSUME NEW h, NEW k
                 PROVE  /\ OldMint(h, k)' <=> OldMint(h, k) /\ Kept(h, k)
                        /\ OldMint(h, k)' => OldDeposit(h, k)' = OldDeposit(h, k)
        OBVIOUS
    <2>1. CASE h \in 1..(top - 1)
        <3>1. h \in DOMAIN chain /\ h \in DOMAIN chain' /\ chain'[h] = chain[h] /\ h < top
            BY <1>3, <2>1
        <3>2. QED
            BY <3>1 DEF OldMint, OldDeposit, Kept
    <2>2. CASE h = top
        <3>1. h \notin DOMAIN chain' /\ ~(h < top)
            BY <1>3, <2>2
        <3>2. OldMint(h, k) => ~Kept(h, k)
            BY <1>1, <1>4, <1>5, <2>2, <3>1 DEF OldMint, Kept
        <3>3. QED
            BY <3>1, <3>2 DEF OldMint
    <2>3. CASE h \notin 1..top
        <3>1. h \notin DOMAIN chain' /\ h \notin DOMAIN chain
            BY <1>3, <2>3
        <3>2. QED
            BY <3>1 DEF OldMint
    <2>4. QED
        BY <1>3, <2>1, <2>2, <2>3
<1>7. \A h, k : Kept(h, k)'
    BY <1>1 DEF Kept
<1>8. Typed'
    BY <1>1, <1>3 DEF Typed, ConnectPCs, UndoPCs
<1>9. MintedOnce'
    <2> SUFFICES ASSUME NEW h, NEW k, NEW g, NEW l, OldMint(h, k)', OldMint(g, l)',
                        OldDeposit(h, k)' = OldDeposit(g, l)'
                 PROVE  h = g /\ k = l
        BY DEF MintedOnce, OldMint, OldDeposit
    <2>1. QED
        BY <1>6, MintedOnceAlt DEF OnceInv
<1>10. Registered'
    BY <1>1, <1>6 DEF OnceInv, Registered
<1>11. Accounted'
    BY <1>1, <1>6, <1>7 DEF OnceInv, Accounted, CommitPCs
<1>12. Collected' /\ Distinct' /\ RowsWritten'
    BY <1>1 DEF Collected, Distinct, RowsWritten, ConnectPCs, CommitPCs
<1>13. QED
    BY <1>8, <1>9, <1>10, <1>11, <1>12 DEF OnceInv
-----------------------------------------------------------------------------
LEMMA OnceStep == OnceInv /\ DisconnectClean /\ [Next]_vars => OnceInv'
<1> SUFFICES ASSUME OnceInv, DisconnectClean, [Next]_vars PROVE OnceInv'
    OBVIOUS
<1>1. CASE Connecting
    BY <1>1, OnceBegin, OnceConnectAsset, OnceCheckSupply, OnceScriptsPass, OnceReject,
       OnceCommitDeposit, OnceLaterCommits, OnceConnectTip DEF Connecting
<1>2. CASE Disconnecting
    BY <1>2, OnceUndoStart, OnceUndoRegistry, OnceDisconnectTip DEF Disconnecting
<1>3. CASE UNCHANGED vars
    BY <1>3 DEF vars, asset, OnceInv, Typed, MintedOnce, Registered, Accounted, Collected,
                Distinct, RowsWritten, OldMint, OldDeposit, NewMint, NewDeposit, Kept, Written
<1>4. QED
    BY <1>1, <1>2, <1>3 DEF Next

\* Between block operations the invariant is the correspondence of registry
\* and chain.
LEMMA OnceMeaning == OnceInv => MintedOnce /\ DepositsOfChain
<1> SUFFICES ASSUME OnceInv, pc = "idle"
             PROVE  mintedDeposits = {Op[TxAt(p)].deposit : p \in OpsApplied("mint")}
    BY DEF OnceInv, DepositsOfChain
<1>1. ASSUME NEW h, NEW k
      PROVE  OldMint(h, k) <=> <<h, k>> \in OpsApplied("mint")
    BY DEF OldMint, OpsApplied, Positions, OpsAt, TxAt
<1>2. ASSUME NEW p \in OpsApplied("mint")
      PROVE  \E h, k : p = <<h, k>>
    BY DEF OpsApplied, Positions, OpsAt
<1>3. \A h, k : OldDeposit(h, k) = Op[TxAt(<<h, k>>)].deposit
    BY DEF OldDeposit, TxAt
<1>4. \A d \in mintedDeposits : \E h, k : OldMint(h, k) /\ OldDeposit(h, k) = d
    BY DEF OnceInv, Accounted, CommitPCs
<1>5. \A h, k : OldMint(h, k) => OldDeposit(h, k) \in mintedDeposits
    BY DEF OnceInv, Registered, Kept
<1>6. ASSUME NEW d \in mintedDeposits
      PROVE  \E p \in OpsApplied("mint") : d = Op[TxAt(p)].deposit
    <2>1. PICK h, k : OldMint(h, k) /\ OldDeposit(h, k) = d
        BY <1>4
    <2>2. <<h, k>> \in OpsApplied("mint") /\ d = Op[TxAt(<<h, k>>)].deposit
        BY <2>1, <1>1, <1>3
    <2>3. QED
        BY <2>2
<1>7. ASSUME NEW p \in OpsApplied("mint")
      PROVE  Op[TxAt(p)].deposit \in mintedDeposits
    <2>1. PICK h, k : p = <<h, k>>
        BY <1>2
    <2>2. OldMint(h, k) /\ OldDeposit(h, k) = Op[TxAt(p)].deposit
        BY <2>1, <1>1, <1>3
    <2>3. QED
        BY <2>2, <1>5
<1>8. QED
    BY <1>6, <1>7

\* In every behaviour in which the supply counter refuses no disconnection, a
\* Bitcoin deposit backs at most one mint of the active chain.
THEOREM DepositMintedOnce == Spec /\ []DisconnectClean => []MintedOnce
BY OnceInit, OnceStep, OnceMeaning, PTL DEF Spec

\* In the same behaviours the rows ConnectBlock writes and DisconnectBlock
\* erases are, between block operations, exactly the deposits the chain minted.
THEOREM RegistryIsChain == Spec /\ []DisconnectClean => []DepositsOfChain
BY OnceInit, OnceStep, OnceMeaning, PTL DEF Spec
-----------------------------------------------------------------------------
(* Types and the sanity of the counter.                                     *)

LEMMA OpTypes ==
    ASSUME NEW t \in Txs
    PROVE  /\ Op[t] \in AuthorityOps /\ Op[t].target \in Outpoints \cup {NoOutpoint}
           /\ Op[t].sats \in Nat /\ Op[t].tag \in {"none", "mint", "burn", "freeze", "unfreeze"}
           /\ Op[t].tag = "mint" => Op[t].deposit \in Deposits
BY BtcsoqConstants DEF AuthorityOps

\* The view in which a transaction of the block is checked.
LEMMA ViewBeforeIs ==
    ASSUME NEW b, NEW k \in Nat, NEW v
    PROVE  ViewBefore(b, k + 1, v) = ViewAt(v, b, k)
<1>1. (k + 1) - 1 = k
    OBVIOUS
<1>2. QED
    BY <1>1 DEF ViewBefore, ViewAt, OutsUpTo, InsUpTo

LEMMA ViewType ==
    ASSUME NEW b \in Blocks, NEW v \in SUBSET Outpoints
    PROVE  ViewAt(v, b, Len(b)) \in SUBSET Outpoints
<1>1. \A k \in 1..Len(b) : Outs(b[k]) \subseteq Outpoints
    BY BlockTx, TxTypes
<1>2. QED
    BY <1>1 DEF ViewAt, OutsUpTo

\* The supply to be committed is sane from the moment ConnectBlock starts.
SafeInv ==
    /\ TypeOK /\ SupplyInvariant(supply)
    /\ pc \in ConnectPCs => SupplyInvariant(job.pendingSupply)

LEMMA SafeStart == Init => SafeInv
<1>1. <<>> \in Seq(Blocks)
    OBVIOUS
<1>2. QED
    BY <1>1, TxConstants, MaxMoneyAssumption
       DEF Init, SafeInv, TypeOK, SupplyInvariant, MoneyRange, Outstanding,
           NewSupply, SupplyType, ConnectPCs, UndoPCs

LEMMA JobType ==
    ASSUME TypeOK, NEW blk \in Blocks, NEW f \in BOOLEAN
    PROVE  NewJob(blk, f) \in ConnectJob /\ NewJob(blk, f).pendingSupply = supply
<1>1. ViewBefore(blk, Len(blk) + 1, coins) \in SUBSET Outpoints
    <2>1. Len(blk) \in Nat
        BY TxConstants
    <2>2. QED
        BY <2>1, ViewBeforeIs, ViewType DEF TypeOK
<1>2. <<>> \in Seq(Txs) /\ <<>> \in Seq(Deposits)
    OBVIOUS
<1>3. QED
    BY <1>1, <1>2 DEF TypeOK, NewJob, Locals, ConnectJob

LEMMA ConnectSafe == SafeInv /\ Connecting => SafeInv'
<1> SUFFICES ASSUME SafeInv, Connecting PROVE SafeInv'
    OBVIOUS
<1> USE DEF SafeInv, ConnectPCs, UndoPCs
<1>1. ASSUME NEW blk \in Blocks, NEW f \in BOOLEAN, BeginConnect(blk, f)
      PROVE  SafeInv'
    <2>1. NewJob(blk, f) \in ConnectJob /\ NewJob(blk, f).pendingSupply = supply
        BY JobType
    <2>2. pc' \in {"assets", "scripts"} /\ job' = NewJob(blk, f) /\ UNCHANGED <<chain, coins, asset>>
        BY <1>1 DEF BeginConnect
    <2>3. QED
        BY <2>1, <2>2 DEF TypeOK, asset
<1>2. CASE ConnectAsset
    <2> DEFINE t == job.block[job.i]
               op == AppliedOp(t, Height)
               x == Op[t].target
    <2>1. t \in Txs /\ job \in ConnectJob
        BY <1>2, BlockTx DEF ConnectAsset, TypeOK, ConnectJob
    <2>2. /\ MintedBy(t) \in Nat /\ BurnedBy(t) \in Nat
          /\ x \in Outpoints \cup {NoOutpoint} /\ (op = "mint" => Op[t].deposit \in Deposits)
        BY <2>1, DeltaNat, OpTypes DEF AppliedOp
    <2> DEFINE l == IF IsAuthorityTx(t) THEN AuthorityOutput(t) ELSE job.localAuthOutpoint
               c == job.commitOutpoint \/ op # "none"
               ds == IF op = "mint" THEN Append(job.pendingDeposits, Op[t].deposit) ELSE job.pendingDeposits
               ops == IF op \in {"freeze", "unfreeze"} THEN Append(job.pendingFreezeOps, t)
                      ELSE job.pendingFreezeOps
               add == IF op = "freeze" THEN job.frozenAdd \cup {x}
                      ELSE IF op = "unfreeze" THEN job.frozenAdd \ {x} ELSE job.frozenAdd
               remove == IF op = "unfreeze" THEN job.frozenRemove \cup {x}
                         ELSE IF op = "freeze" THEN job.frozenRemove \ {x} ELSE job.frozenRemove
               mt == job.minted + MintedBy(t)
               bt == job.burned + BurnedBy(t)
               i == job.i + 1
    <2>3. l \in Outpoints \cup {NoOutpoint} /\ c \in BOOLEAN
        BY <2>1, TxTypes DEF ConnectJob
    <2>4. add \in SUBSET (Outpoints \cup {NoOutpoint}) /\ remove \in SUBSET (Outpoints \cup {NoOutpoint})
        BY <2>1, <2>2 DEF ConnectJob
    <2>5. ops \in Seq(Txs)
        BY <2>1 DEF ConnectJob
    <2>6. ds \in Seq(Deposits)
        BY <2>1, <2>2 DEF ConnectJob
    <2>7. mt \in Nat /\ bt \in Nat /\ i \in Nat \ {0}
        BY <2>1, <2>2 DEF ConnectJob
    <2>8. job' = [job EXCEPT !.i = i, !.localAuthOutpoint = l, !.commitOutpoint = c,
                             !.pendingDeposits = ds, !.pendingFreezeOps = ops,
                             !.frozenAdd = add, !.frozenRemove = remove,
                             !.minted = mt, !.burned = bt]
        BY <1>2, Zenon DEF ConnectAsset
    <2> HIDE DEF l, c, ds, ops, add, remove, mt, bt, i
    <2>9. job' \in ConnectJob /\ job'.pendingSupply = job.pendingSupply
        BY <2>1, <2>3, <2>4, <2>5, <2>6, <2>7, <2>8 DEF ConnectJob
    <2>10. pc = "assets" /\ pc' = "assets" /\ UNCHANGED <<chain, coins, asset>>
        BY <1>2 DEF ConnectAsset
    <2>11. QED
        BY <2>9, <2>10 DEF TypeOK, asset
<1>3. CASE CheckSupply
    <2>1. job \in ConnectJob /\ job.minted \in Int /\ job.burned \in Int
        BY <1>3 DEF CheckSupply, TypeOK, ConnectJob
    <2> DEFINE p == Applied(supply, job.minted, job.burned)
    <2>2. p \in SupplyType /\ SupplyInvariant(p)
        BY <2>1, DeltaSafe DEF TypeOK
    <2> HIDE DEF p
    <2>3. job' = [job EXCEPT !.pendingSupply = p]
        BY <1>3 DEF CheckSupply, p
    <2>4. job' \in ConnectJob /\ job'.pendingSupply = p
        BY <2>1, <2>2, <2>3 DEF ConnectJob
    <2>5. QED
        BY <1>3, <2>2, <2>4 DEF CheckSupply, TypeOK, asset
<1>4. CASE ScriptsPass \/ Reject
    <2>1. pc \in ConnectPCs /\ UNCHANGED <<chain, coins, asset>>
        BY <1>4 DEF ScriptsPass, Reject
    <2>2. CASE pc' = "idle"
        BY <2>1, <2>2 DEF TypeOK, asset
    <2>3. CASE pc' # "idle"
        <3>1. pc' = "commitDeposits" /\ job' = [job EXCEPT !.i = 1] /\ job \in ConnectJob
            BY <1>4, <2>1, <2>3 DEF ScriptsPass, Reject, Abandon, TypeOK
        <3>2. job' \in ConnectJob /\ job'.pendingSupply = job.pendingSupply
            BY <3>1 DEF ConnectJob
        <3>3. QED
            BY <2>1, <3>1, <3>2 DEF TypeOK, asset
    <2>4. QED
        BY <2>2, <2>3
<1>5. CASE CommitDeposit \/ CommitFreezeOp \/ DepositsDone
    <2>1. /\ pc \in ConnectPCs /\ pc' \in {"commitDeposits", "commitFreeze"}
          /\ UNCHANGED <<chain, coins, supply, authOutpoint>>
        BY <1>5 DEF CommitDeposit, CommitFreezeOp, DepositsDone, asset
    <2>2. job \in ConnectJob /\ job.i \in Nat \ {0}
        BY <2>1 DEF TypeOK, ConnectJob
    <2> DEFINE k == IF DepositsDone THEN 1 ELSE job.i + 1
    <2>3. job' = [job EXCEPT !.i = k] /\ k \in Nat \ {0}
        BY <1>5, <2>2 DEF CommitDeposit, CommitFreezeOp, DepositsDone
    <2> HIDE DEF k
    <2>4. job' \in ConnectJob /\ job'.pendingSupply = job.pendingSupply
        BY <2>2, <2>3 DEF ConnectJob
    <2>5. mintedDeposits' \in SUBSET Deposits
        <3>1. CASE CommitDeposit
            BY <2>2, <3>1 DEF CommitDeposit, TypeOK, ConnectJob
        <3>2. CASE CommitFreezeOp \/ DepositsDone
            BY <3>2 DEF CommitFreezeOp, DepositsDone, TypeOK, asset
        <3>3. QED
            BY <1>5, <3>1, <3>2
    <2>6. frozen' \in SUBSET (Outpoints \cup {NoOutpoint})
        <3>1. CASE CommitFreezeOp
            <4>1. job.pendingFreezeOps[job.i] \in Txs
                BY <2>2, <3>1 DEF CommitFreezeOp, ConnectJob
            <4>2. QED
                BY <3>1, <4>1, OpTypes DEF CommitFreezeOp, TypeOK
        <3>2. CASE CommitDeposit \/ DepositsDone
            BY <3>2 DEF CommitDeposit, DepositsDone, TypeOK, asset
        <3>3. QED
            BY <1>5, <3>1, <3>2
    <2>7. QED
        BY <2>1, <2>4, <2>5, <2>6 DEF TypeOK
<1>6. CASE CommitOutpoint
    BY <1>6 DEF CommitOutpoint, TypeOK, ConnectJob
<1>7. CASE CommitSupply
    BY <1>7 DEF CommitSupply, TypeOK, ConnectJob
<1>8. CASE ConnectTip
    <2>1. job \in ConnectJob
        BY <1>8 DEF ConnectTip, TypeOK
    <2>2. Append(chain, job.block) \in Seq(Blocks)
        BY <2>1 DEF TypeOK, ConnectJob
    <2>3. QED
        BY <1>8, <2>1, <2>2 DEF ConnectTip, Abandon, TypeOK, ConnectJob, asset
<1>9. QED
    BY <1>1, <1>2, <1>3, <1>4, <1>5, <1>6, <1>7, <1>8 DEF Connecting

LEMMA DisconnectSafe == SafeInv /\ Disconnecting => SafeInv'
<1> SUFFICES ASSUME SafeInv, Disconnecting PROVE SafeInv'
    OBVIOUS
<1> USE DEF SafeInv, ConnectPCs, UndoPCs
<1>0. chain # <<>> /\ chain \in Seq(Blocks) /\ Tip \in Blocks /\ Len(chain) \in Nat
    <2>1. chain # <<>> /\ chain \in Seq(Blocks)
        BY DEF Disconnecting, UndoSupply, UndoOutpoint, UndoRegistry, DisconnectTip, TypeOK
    <2>2. QED
        BY <2>1 DEF Tip
<1>1. CASE UndoSupply
    <2> DEFINE m == Total(MintedBy, Tip)
               b == Total(BurnedBy, Tip)
               f == Active(Len(chain)) => ReversalOK(supply, m, b)
               v == UndoCoins(coins, Tip)
    <2>1. m \in Int /\ b \in Int
        <3> DEFINE blk == Tip
        <3> HIDE DEF blk
        <3>1. blk \in Blocks
            BY <1>0 DEF blk
        <3>2. Total(MintedBy, blk) \in Nat /\ Total(BurnedBy, blk) \in Nat
            BY <3>1, BlockSums
        <3>3. QED
            BY <3>2 DEF blk
    <2>2. Reversed(supply, m, b) \in SupplyType /\ SupplyInvariant(Reversed(supply, m, b))
        <3> HIDE DEF m, b
        <3>1. QED
            BY <2>1, DeltaSafe DEF TypeOK
    <2>3. v \in SUBSET Outpoints /\ f \in BOOLEAN
        BY <1>0, ViewTypes DEF TypeOK
    <2>4. /\ job' = [fClean |-> f, i |-> 1, view |-> v]
          /\ supply' = IF Active(Len(chain)) THEN Reversed(supply, m, b) ELSE supply
        BY <1>1 DEF UndoSupply
    <2> HIDE DEF f, v, m, b
    <2>5. job' \in UndoJob
        BY <2>3, <2>4 DEF UndoJob
    <2>6. supply' \in SupplyType /\ SupplyInvariant(supply')
        BY <2>2, <2>4 DEF TypeOK
    <2>7. QED
        BY <1>0, <1>1, <2>5, <2>6 DEF UndoSupply, TypeOK
<1>2. CASE UndoOutpoint
    <2>1. job \in UndoJob
        BY <1>2 DEF UndoOutpoint, TypeOK
    <2>2. authOutpoint' \in Outpoints \cup {NoOutpoint}
        BY <1>0, <1>2, <2>1, ViewTypes DEF UndoOutpoint, TypeOK, UndoJob
    <2>3. QED
        BY <1>0, <1>2, <2>1, <2>2 DEF UndoOutpoint, TypeOK
<1>3. CASE UndoRegistry
    <2>1. job \in UndoJob /\ job.i \in Nat \ {0}
        BY <1>3 DEF UndoRegistry, TypeOK, UndoJob
    <2> DEFINE k == job.i + 1
    <2>2. job' = [job EXCEPT !.i = k] /\ k \in Nat \ {0}
        BY <1>3, <2>1 DEF UndoRegistry
    <2> HIDE DEF k
    <2>3. job' \in UndoJob
        BY <2>1, <2>2 DEF UndoJob
    <2>4. Tip[job.i] \in Txs
        BY <1>0, <1>3, <2>1, BlockTx DEF UndoRegistry
    <2>5. frozen' \in SUBSET (Outpoints \cup {NoOutpoint})
        BY <1>3, <2>4, OpTypes DEF UndoRegistry, TypeOK
    <2>6. mintedDeposits' \in SUBSET Deposits
        BY <1>3 DEF UndoRegistry, DepositsAfterUndo, TypeOK
    <2>7. QED
        BY <1>0, <1>3, <2>3, <2>5, <2>6 DEF UndoRegistry, TypeOK
<1>4. CASE DisconnectTip
    <2>1. job \in UndoJob
        BY <1>4 DEF DisconnectTip, TypeOK
    <2>2. SubSeq(chain, 1, Len(chain) - 1) \in Seq(Blocks)
        BY <1>0
    <2>3. coins' \in SUBSET Outpoints /\ chain' \in Seq(Blocks)
        BY <1>4, <2>1, <2>2 DEF DisconnectTip, TypeOK, UndoJob
    <2>4. QED
        BY <1>4, <2>3 DEF DisconnectTip, Abandon, TypeOK, asset
<1>5. QED
    BY <1>1, <1>2, <1>3, <1>4 DEF Disconnecting
-----------------------------------------------------------------------------
(* The freeze registry, when a block moves each target in one direction.    *)

Tag(t) == IF IsAuthorityTx(t) THEN Op[t].tag ELSE "none"
FrozenIn(b, m) == {Op[b[k]].target : k \in {j \in 1..m : Tag(b[j]) = "freeze"}}
ThawedIn(b, m) == {Op[b[k]].target : k \in {j \in 1..m : Tag(b[j]) = "unfreeze"}}
FrozenAfter(F, b, m) == (F \ ThawedIn(b, m)) \cup FrozenIn(b, m)

\* The same of a list of transactions with freeze operations.
FrozenBy(ts, m) == {Op[ts[k]].target : k \in {j \in 1..m : Op[ts[j]].tag = "freeze"}}
ThawedBy(ts, m) == {Op[ts[k]].target : k \in {j \in 1..m : Op[ts[j]].tag # "freeze"}}

\* What the freeze and spend checks of ConnectBlock established; a transaction's
\* own operation comes after its spends.
FreezeSound(F, v, b, m) ==
    /\ FrozenIn(b, m) \cap F = {} /\ ThawedIn(b, m) \subseteq F
    /\ FrozenIn(b, m) \subseteq {o \in ViewAt(v, b, Len(b)) : Kind[o] = "asset"}
    /\ \A k \in 1..m : \A o \in Ins(b[k]) : Kind[o] = "asset" => o \notin FrozenAfter(F, b, k - 1)

\* The outpoints frozen by a chain and not thawed by a later block of it.
FrozenAt(c, n) ==
    UNION {FrozenIn(c[h], Len(c[h])) \ UNION {ThawedIn(c[g], Len(c[g])) : g \in (h + 1)..n} : h \in 1..n}

LEMMA FreezeStep ==
    ASSUME NEW b, NEW m \in Nat
    PROVE  /\ FrozenIn(b, m + 1)
                = FrozenIn(b, m) \cup (IF Tag(b[m + 1]) = "freeze" THEN {Op[b[m + 1]].target} ELSE {})
           /\ ThawedIn(b, m + 1)
                = ThawedIn(b, m) \cup (IF Tag(b[m + 1]) = "unfreeze" THEN {Op[b[m + 1]].target} ELSE {})
           /\ FrozenIn(b, 0) = {} /\ ThawedIn(b, 0) = {}
<1>1. 1..(m + 1) = (1..m) \cup {m + 1} /\ 1..0 = {}
    OBVIOUS
<1>2. QED
    BY <1>1 DEF FrozenIn, ThawedIn

\* No target is both frozen and thawed.
LEMMA FreezeDisjoint ==
    ASSUME NEW b \in Blocks, OneWay(b), NEW m \in 0..Len(b)
    PROVE  /\ FrozenIn(b, m) \cap ThawedIn(b, m) = {}
           /\ FrozenIn(b, m) \subseteq FrozenIn(b, Len(b)) /\ ThawedIn(b, m) \subseteq ThawedIn(b, Len(b))
<1>1. Len(b) \in Nat /\ DOMAIN b = 1..Len(b)
    BY TxConstants
<1>2. \A k \in 1..m : k \in 1..Len(b)
    BY <1>1
<1>3. /\ FrozenIn(b, m) \subseteq FrozenIn(b, Len(b))
      /\ ThawedIn(b, m) \subseteq ThawedIn(b, Len(b))
    BY <1>2 DEF FrozenIn, ThawedIn
<1>4. ASSUME NEW x, x \in FrozenIn(b, Len(b)), x \in ThawedIn(b, Len(b)) PROVE FALSE
    <2>1. PICK j \in 1..Len(b) : Tag(b[j]) = "freeze" /\ Op[b[j]].target = x
        BY <1>4 DEF FrozenIn
    <2>2. PICK k \in 1..Len(b) : Tag(b[k]) = "unfreeze" /\ Op[b[k]].target = x
        BY <1>4 DEF ThawedIn
    <2>3. j \in AuthorityTxs(b) /\ k \in AuthorityTxs(b)
        BY <1>1, <2>1, <2>2 DEF Tag, AuthorityTxs
    <2>4. Op[b[j]].tag = "freeze" /\ Op[b[k]].tag = "unfreeze"
        BY <2>1, <2>2 DEF Tag
    <2>5. QED
        BY <2>1, <2>2, <2>3, <2>4 DEF OneWay
<1>5. QED
    BY <1>3, <1>4

\* One block more.
LEMMA ChainFrozen ==
    ASSUME NEW c, NEW n \in Nat
    PROVE  /\ FrozenAt(c, 0) = {}
           /\ FrozenAt(c, n + 1) = FrozenAfter(FrozenAt(c, n), c[n + 1], Len(c[n + 1]))
<1> DEFINE f(h) == FrozenIn(c[h], Len(c[h]))
           t(h) == ThawedIn(c[h], Len(c[h]))
<1>1. FrozenAt(c, 0) = {}
    <2>1. 1..0 = {}
        OBVIOUS
    <2>2. QED
        BY <2>1 DEF FrozenAt
<1>2. ASSUME NEW x
      PROVE  x \in FrozenAt(c, n + 1) <=> (x \in FrozenAt(c, n) /\ x \notin t(n + 1)) \/ x \in f(n + 1)
    <2>1. \A m : x \in FrozenAt(c, m) <=>
              \E h \in 1..m : x \in f(h) /\ \A g \in (h + 1)..m : x \notin t(g)
        BY DEF FrozenAt
    <2> HIDE DEF f, t
    <2>2. ASSUME NEW h \in 1..(n + 1), x \in f(h), \A g \in (h + 1)..(n + 1) : x \notin t(g)
          PROVE  (x \in FrozenAt(c, n) /\ x \notin t(n + 1)) \/ x \in f(n + 1)
        <3>1. CASE h = n + 1
            BY <2>2, <3>1
        <3>2. CASE h \in 1..n
            <4>1. n + 1 \in (h + 1)..(n + 1) /\ \A g \in (h + 1)..n : g \in (h + 1)..(n + 1)
                BY <3>2
            <4>2. QED
                BY <2>1, <2>2, <3>2, <4>1
        <3>3. QED
            BY <3>1, <3>2
    <2>3. ASSUME x \in FrozenAt(c, n), x \notin t(n + 1) PROVE x \in FrozenAt(c, n + 1)
        <3>1. PICK h \in 1..n : x \in f(h) /\ \A g \in (h + 1)..n : x \notin t(g)
            BY <2>1, <2>3
        <3>2. h \in 1..(n + 1) /\ \A g \in (h + 1)..(n + 1) : g \in (h + 1)..n \/ g = n + 1
            OBVIOUS
        <3>3. QED
            BY <2>1, <2>3, <3>1, <3>2
    <2>4. ASSUME x \in f(n + 1) PROVE x \in FrozenAt(c, n + 1)
        <3>1. n + 1 \in 1..(n + 1) /\ ((n + 1) + 1)..(n + 1) = {}
            OBVIOUS
        <3>2. QED
            BY <2>1, <2>4, <3>1
    <2>5. QED
        BY <2>1, <2>2, <2>3, <2>4
<1>3. QED
    BY <1>1, <1>2 DEF FrozenAfter

\* The registry at a height depends on the blocks below it.
LEMMA SameFrozen ==
    ASSUME NEW c, NEW d, NEW n \in Nat, \A h \in 1..n : c[h] = d[h]
    PROVE  FrozenAt(c, n) = FrozenAt(d, n)
<1>1. \A h \in 1..n : \A g \in (h + 1)..n : g \in 1..n
    OBVIOUS
<1>2. \A x : x \in FrozenAt(c, n) <=>
          \E h \in 1..n : /\ x \in FrozenIn(c[h], Len(c[h]))
                          /\ \A g \in (h + 1)..n : x \notin ThawedIn(c[g], Len(c[g]))
    BY DEF FrozenAt
<1>3. \A x : x \in FrozenAt(d, n) <=>
          \E h \in 1..n : /\ x \in FrozenIn(d[h], Len(d[h]))
                          /\ \A g \in (h + 1)..n : x \notin ThawedIn(d[g], Len(d[g]))
    BY DEF FrozenAt
<1>4. QED
    BY <1>1, <1>2, <1>3

\* The rules are on at every height above genesis.
LEMMA RulesOn ==
    ASSUME RulesFromGenesis, NEW h \in Nat \ {0}, NEW t
    PROVE  Active(h) /\ Enforced(h) /\ AppliedOp(t, h) = Tag(t)
<1>1. Active(h) /\ Enforced(h)
    BY BtcsoqConstants DEF RulesFromGenesis, Active, Enforced
<1>2. QED
    BY <1>1 DEF AppliedOp, Tag
-----------------------------------------------------------------------------
(* The inductive invariant behind the theorems on reorganisations.          *)

\* The flows of the first m transactions are the ones their operations declare.
MintDeclared(t) == IF Tag(t) = "mint" THEN Op[t].sats ELSE 0
BurnDeclared(t) == IF Tag(t) = "burn" THEN Op[t].sats ELSE 0
Declared(b, m) ==
    \A k \in 1..m : MintedBy(b[k]) = MintDeclared(b[k]) /\ BurnedBy(b[k]) = BurnDeclared(b[k])

\* What ConnectBlock established of the first m transactions of a block on a
\* chain with coins v and frozen outpoints F.
Passes(v, F, b, m) ==
    /\ \E o \in Outpoints \cup {NoOutpoint} : Tracks(v, o)
    /\ Valued(v, b, Len(b)) /\ Guarded(v, b, m) /\ FreezeSound(F, v, b, m) /\ Declared(b, m)

Accepted(c, h) == Passes(CoinsAt(c, h - 1), FrozenAt(c, h - 1), c[h], Len(c[h]))
Lawful(c) == \A h \in 1..Len(c) : Accepted(c, h)

\* How many transactions of the block the second pass has been through.
Passed == IF pc = "assets" THEN job.i - 1 ELSE Len(job.block)

\* The locals of ConnectBlock.
Gathered ==
    LET v == CoinsAt(chain, Len(chain))
        b == job.block
        m == Passed
        ts == job.pendingFreezeOps
    IN  /\ m <= Len(b) /\ Passes(v, FrozenAt(chain, Len(chain)), b, m)
        /\ job.view = ViewAt(v, b, Len(b))
        /\ Tracks(ViewAt(v, b, m), job.localAuthOutpoint)
        /\ ~job.commitOutpoint => Tracks(v, job.localAuthOutpoint)
        /\ job.frozenAdd = FrozenIn(b, m) /\ job.frozenRemove = ThawedIn(b, m)
        /\ FrozenBy(ts, Len(ts)) = FrozenIn(b, m) /\ ThawedBy(ts, Len(ts)) = ThawedIn(b, m)
        /\ job.minted = MintedUpTo(b, m) /\ job.burned = BurnedUpTo(b, m)

\* The supply that the commit point will write.
Pending ==
    job.pendingSupply = [minted |-> MintedAt(chain, Len(chain)) + Total(MintedBy, job.block),
                         burned |-> BurnedAt(chain, Len(chain)) + Total(BurnedBy, job.block)]

\* Each asset global while a block is being connected or disconnected.
SupplyInv ==
    /\ pc \notin {"connected"} \cup UndoPCs => supply = SupplyAt(chain, Len(chain))
    /\ pc \in ConnectPCs \ {"assets"} => Pending
    /\ pc = "connected" => supply = job.pendingSupply
    /\ pc \in UndoPCs => supply = SupplyAt(chain, Len(chain) - 1) /\ job.fClean

TrackerInv ==
    /\ pc \notin {"commitSupply", "connected", "undoRegistry"} =>
           Tracks(CoinsAt(chain, Len(chain)), authOutpoint)
    /\ pc \in {"commitSupply", "connected"} => Tracks(job.view, authOutpoint)
    /\ pc = "undoRegistry" => Tracks(CoinsAt(chain, Len(chain) - 1), authOutpoint)

FrozenInv ==
    LET F == FrozenAt(chain, Len(chain))
        b == chain[Len(chain)]
    IN  /\ pc \notin {"commitFreeze", "commitSupply", "connected", "undoRegistry"} => frozen = F
        /\ pc = "commitFreeze" =>
               /\ job.i <= Len(job.pendingFreezeOps) + 1
               /\ frozen = (F \ ThawedBy(job.pendingFreezeOps, job.i - 1))
                               \cup FrozenBy(job.pendingFreezeOps, job.i - 1)
        /\ pc \in {"commitSupply", "connected"} => frozen = FrozenAfter(F, job.block, Len(job.block))
        /\ pc = "undoOutpoint" => job.i = 1
        /\ pc = "undoRegistry" =>
               /\ job.i <= Len(b) + 1
               /\ frozen = (F \ FrozenIn(b, job.i - 1)) \cup ThawedIn(b, job.i - 1)

AssetInv ==
    /\ Lawful(chain) /\ coins = CoinsAt(chain, Len(chain))
    /\ pc \in ConnectPCs => Gathered
    /\ pc \in UndoPCs => job.view = CoinsAt(chain, Len(chain) - 1)
    /\ SupplyInv /\ TrackerInv /\ FrozenInv

ReorgInv == SafeInv /\ AssetInv
-----------------------------------------------------------------------------
(* ConnectBlock keeps the invariant.                                        *)

LEMMA LawfulLinear == ASSUME NEW c, Lawful(c) PROVE Linear(c)
BY ValuedFits DEF Lawful, Accepted, Passes, Linear

LEMMA OneTracked == ASSUME NEW v, NEW o, NEW p, Tracks(v, o), Tracks(v, p) PROVE o = p
BY DEF Tracks

LEMMA ConnectFacts ==
    ASSUME PlainBlocks, ReorgInv, pc \in ConnectPCs
    PROVE  /\ job \in ConnectJob /\ job.block \in Blocks /\ Len(job.block) \in Nat /\ OneWay(job.block)
           /\ job.i \in Nat \ {0} /\ job.pendingFreezeOps \in Seq(Txs)
           /\ DOMAIN job.block = 1..Len(job.block)
           /\ chain \in Seq(Blocks) /\ Len(chain) \in Nat /\ Len(chain) \in 0..Len(chain)
           /\ Len(chain) + 1 \in Nat \ {0}
           /\ Lawful(chain) /\ Linear(chain) /\ coins = CoinsAt(chain, Len(chain)) /\ Gathered
           /\ SupplyInv /\ TrackerInv /\ FrozenInv
<1>1. job \in ConnectJob /\ chain \in Seq(Blocks) /\ Len(chain) \in Nat
    BY DEF ReorgInv, SafeInv, TypeOK
<1>2. job.block \in Blocks /\ job.i \in Nat \ {0} /\ job.pendingFreezeOps \in Seq(Txs)
    BY <1>1 DEF ConnectJob
<1>3. Len(job.block) \in Nat /\ OneWay(job.block) /\ DOMAIN job.block = 1..Len(job.block)
    BY <1>2, TxConstants DEF PlainBlocks
<1>4. QED
    BY <1>1, <1>2, <1>3, LawfulLinear DEF ReorgInv, AssetInv

\* The operation ends, or starts, with the asset globals of the tip.
LEMMA IdleAssets ==
    ASSUME AssetInv, pc \notin {"commitFreeze", "commitSupply", "connected"} \cup UndoPCs,
           pc' = "idle", chain' = chain, coins' = coins, UNCHANGED asset
    PROVE  AssetInv'
BY DEF AssetInv, SupplyInv, TrackerInv, FrozenInv, ConnectPCs, UndoPCs, asset

\* The steps that leave the pending changes alone.
KeepsPending ==
    /\ job'.block = job.block /\ job'.view = job.view
    /\ job'.localAuthOutpoint = job.localAuthOutpoint
    /\ job'.commitOutpoint = job.commitOutpoint
    /\ job'.frozenAdd = job.frozenAdd /\ job'.frozenRemove = job.frozenRemove
    /\ job'.pendingFreezeOps = job.pendingFreezeOps
    /\ job'.minted = job.minted /\ job'.burned = job.burned

LEMMA KeepGathered ==
    ASSUME Gathered, KeepsPending, chain' = chain, Passed' = Passed
    PROVE  Gathered'
BY DEF Gathered, KeepsPending

LEMMA BlockBegins ==
    ASSUME RulesFromGenesis, PlainBlocks, ReorgInv, NEW b \in Blocks, NEW f \in BOOLEAN,
           BeginConnect(b, f)
    PROVE  AssetInv'
<1> DEFINE n == Len(chain)
           v == CoinsAt(chain, n)
           F == FrozenAt(chain, n)
           j == NewJob(b, f)
<1>1. /\ chain \in Seq(Blocks) /\ n \in Nat /\ Len(b) \in Nat /\ n + 1 \in Nat \ {0} /\ n \in 0..n
      /\ DOMAIN b = 1..Len(b)
    BY TxConstants DEF ReorgInv, SafeInv, TypeOK
<1>2. /\ pc = "idle" /\ job' = j /\ chain' = chain /\ coins' = coins /\ UNCHANGED asset
      /\ InputsOK(b, coins, n + 1) /\ Active(n + 1)
    BY <1>1, RulesOn DEF BeginConnect
<1>3. pc' = "assets"
    BY <1>2 DEF BeginConnect
<1>4. /\ j.block = b /\ j.i = 1 /\ j.view = ViewBefore(b, Len(b) + 1, coins)
      /\ j.localAuthOutpoint = authOutpoint /\ j.commitOutpoint = FALSE
      /\ j.frozenAdd = {} /\ j.frozenRemove = {} /\ j.pendingFreezeOps = <<>>
      /\ j.minted = 0 /\ j.burned = 0
    BY DEF NewJob, Locals
<1> HIDE DEF j
<1>5. /\ Lawful(chain) /\ coins = v /\ supply = SupplyAt(chain, n) /\ Tracks(v, authOutpoint) /\ frozen = F
    BY <1>2 DEF ReorgInv, AssetInv, SupplyInv, TrackerInv, FrozenInv, UndoPCs
<1>6. Valued(v, b, Len(b))
    <2> SUFFICES ASSUME NEW k \in 1..Len(b) PROVE CheckTxInputs(b[k], ViewAt(v, b, k - 1), TRUE)
        BY DEF Valued
    <2>1. ViewBefore(b, k, v) = ViewAt(v, b, k - 1)
        BY DEF ViewBefore, ViewAt, OutsUpTo, InsUpTo
    <2> HIDE DEF v
    <2>2. CheckTxInputs(b[k], ViewBefore(b, k, v), Active(n + 1))
        BY <1>1, <1>2, <1>5 DEF InputsOK
    <2>3. CheckTxInputs(b[k], ViewBefore(b, k, v), TRUE)
        BY <1>2, <2>2
    <2>4. QED
        BY <2>1, <2>3
<1>7. j.view = ViewAt(v, b, Len(b))
    BY <1>1, <1>4, <1>5, ViewBeforeIs
<1>8. Passed' = 0 /\ 0 <= Len(b) /\ 1..0 = {} /\ FrozenIn(b, 0) = {} /\ ThawedIn(b, 0) = {}
    BY <1>1, <1>2, <1>3, <1>4 DEF Passed, FrozenIn, ThawedIn
<1>9. Passes(v, F, b, 0)
    <2>1. authOutpoint \in Outpoints \cup {NoOutpoint}
        BY DEF ReorgInv, SafeInv, TypeOK
    <2> HIDE DEF v, F
    <2>2. QED
        BY <1>5, <1>6, <1>8, <2>1 DEF Passes, Guarded, FreezeSound, Declared
<1>10. Tracks(ViewAt(v, b, 0), authOutpoint)
    BY <1>5, ViewStart
<1>11. FrozenBy(<<>>, 0) = {} /\ ThawedBy(<<>>, 0) = {} /\ Len(<<>>) = 0
    BY DEF FrozenBy, ThawedBy
<1>12. MintedUpTo(b, 0) = 0 /\ BurnedUpTo(b, 0) = 0
    BY BlockSums
<1>13. Gathered'
    <2>1. v = CoinsAt(chain', Len(chain')) /\ F = FrozenAt(chain', Len(chain'))
        BY <1>2
    <2> HIDE DEF v, F
    <2>2. QED
        BY <1>2, <1>4, <1>5, <1>7, <1>8, <1>9, <1>10, <1>11, <1>12, <2>1 DEF Gathered
<1>14. SupplyInv' /\ TrackerInv' /\ FrozenInv'
    BY <1>2, <1>3, <1>5 DEF SupplyInv, TrackerInv, FrozenInv, ConnectPCs, UndoPCs, asset
<1>15. QED
    BY <1>2, <1>3, <1>5, <1>13, <1>14 DEF AssetInv, UndoPCs

\* The supply delta of the whole block.
LEMMA SupplyChecked ==
    ASSUME PlainBlocks, ReorgInv, CheckSupply
    PROVE  AssetInv'
<1> DEFINE b == job.block
<1>1. /\ pc = "assets" /\ pc' = "scripts" /\ pc \in ConnectPCs /\ job.i > Len(b)
      /\ chain' = chain /\ coins' = coins /\ UNCHANGED asset
    BY DEF CheckSupply, ConnectPCs
<1>2. /\ job \in ConnectJob /\ b \in Blocks /\ Len(b) \in Nat /\ job.i \in Nat \ {0}
      /\ Gathered /\ SupplyInv /\ TrackerInv /\ FrozenInv /\ Lawful(chain) /\ coins = CoinsAt(chain, Len(chain))
    BY <1>1, ConnectFacts
<1>3. supply \in SupplyType /\ job.minted \in Nat /\ job.burned \in Nat
    BY <1>2 DEF ReorgInv, SafeInv, TypeOK, ConnectJob
<1>4. Applied(supply, job.minted, job.burned)
        = [minted |-> supply.minted + job.minted, burned |-> supply.burned + job.burned]
    BY <1>3, AppliedIs DEF CheckSupply
<1>5. /\ KeepsPending
      /\ job'.pendingSupply = [minted |-> supply.minted + job.minted, burned |-> supply.burned + job.burned]
    BY <1>2, <1>4 DEF CheckSupply, ConnectJob, KeepsPending
<1>6. Passed = Len(b) /\ Passed' = Len(b)
    <2>1. Passed = job.i - 1 /\ Passed <= Len(b)
        BY <1>1, <1>2 DEF Passed, Gathered
    <2>2. QED
        BY <1>1, <1>2, <1>5, <2>1 DEF Passed, KeepsPending
<1>7. Gathered'
    BY <1>1, <1>2, <1>5, <1>6, KeepGathered
<1>8. Pending'
    <2>1. job.minted = MintedUpTo(b, Len(b)) /\ job.burned = BurnedUpTo(b, Len(b))
        BY <1>2, <1>6 DEF Gathered
    <2>2. job.minted = Total(MintedBy, b) /\ job.burned = Total(BurnedBy, b)
        BY <1>2, <2>1, BlockSums
    <2>3. supply = SupplyAt(chain, Len(chain))
        BY <1>1, <1>2 DEF SupplyInv, UndoPCs
    <2>4. supply.minted = MintedAt(chain, Len(chain)) /\ supply.burned = BurnedAt(chain, Len(chain))
        BY <2>3 DEF SupplyAt
    <2>5. QED
        BY <1>1, <1>5, <2>2, <2>4 DEF Pending, KeepsPending
<1>9. SupplyInv'
    BY <1>1, <1>2, <1>8 DEF SupplyInv, UndoPCs, asset
<1>10. TrackerInv' /\ FrozenInv'
    BY <1>1, <1>2 DEF TrackerInv, FrozenInv, asset
<1>11. QED
    BY <1>1, <1>2, <1>7, <1>9, <1>10 DEF AssetInv, ConnectPCs, UndoPCs

\* The verdict of the scripts, and every refusal.
LEMMA VerdictGiven ==
    ASSUME PlainBlocks, ReorgInv, ScriptsPass \/ Reject
    PROVE  AssetInv'
<1>1. /\ pc \in {"assets", "scripts"} /\ pc \in ConnectPCs
      /\ chain' = chain /\ coins' = coins /\ UNCHANGED asset
    BY DEF ScriptsPass, Reject, ConnectPCs
<1>2. CASE pc' = "idle"
    BY <1>1, <1>2, IdleAssets DEF ReorgInv, UndoPCs
<1>3. CASE pc' # "idle"
    <2>1. pc = "scripts" /\ pc' = "commitDeposits" /\ job' = [job EXCEPT !.i = 1]
        BY <1>3 DEF ScriptsPass, Reject, Abandon
    <2>2. /\ job \in ConnectJob /\ Gathered /\ SupplyInv /\ TrackerInv /\ FrozenInv
          /\ Lawful(chain) /\ coins = CoinsAt(chain, Len(chain))
        BY <1>1, ConnectFacts
    <2>3. KeepsPending /\ job'.pendingSupply = job.pendingSupply
        BY <2>1, <2>2 DEF ConnectJob, KeepsPending
    <2>4. Passed' = Passed
        BY <2>1, <2>3 DEF Passed, KeepsPending
    <2>5. Gathered'
        BY <1>1, <2>2, <2>3, <2>4, KeepGathered
    <2>6. SupplyInv'
        BY <1>1, <2>1, <2>2, <2>3 DEF SupplyInv, Pending, KeepsPending, ConnectPCs, UndoPCs, asset
    <2>7. TrackerInv' /\ FrozenInv'
        BY <1>1, <2>1, <2>2 DEF TrackerInv, FrozenInv, asset
    <2>8. QED
        BY <1>1, <2>1, <2>2, <2>5, <2>6, <2>7 DEF AssetInv, ConnectPCs, UndoPCs
<1>4. QED
    BY <1>2, <1>3

\* The commit point: deposits first, none of which the asset globals hold.
LEMMA DepositsWritten ==
    ASSUME PlainBlocks, ReorgInv, CommitDeposit \/ DepositsDone
    PROVE  AssetInv'
<1>1. /\ pc = "commitDeposits" /\ pc \in ConnectPCs /\ pc' \in {"commitDeposits", "commitFreeze"}
      /\ UNCHANGED <<chain, coins, supply, authOutpoint, frozen>>
    BY DEF CommitDeposit, DepositsDone, ConnectPCs, asset
<1>2. /\ job \in ConnectJob /\ Gathered /\ SupplyInv /\ TrackerInv /\ FrozenInv
      /\ Lawful(chain) /\ coins = CoinsAt(chain, Len(chain)) /\ job.pendingFreezeOps \in Seq(Txs)
    BY <1>1, ConnectFacts
<1>3. /\ KeepsPending /\ job'.pendingSupply = job.pendingSupply
      /\ pc' = "commitFreeze" => job'.i = 1
    <2>1. PICK i : job' = [job EXCEPT !.i = i] /\ (pc' = "commitFreeze" => i = 1)
        BY <1>1 DEF CommitDeposit, DepositsDone
    <2>2. QED
        BY <1>2, <2>1 DEF ConnectJob, KeepsPending
<1>4. Passed' = Passed
    BY <1>1, <1>3 DEF Passed, KeepsPending
<1>5. Gathered'
    BY <1>1, <1>2, <1>3, <1>4, KeepGathered
<1>6. SupplyInv'
    BY <1>1, <1>2, <1>3 DEF SupplyInv, Pending, KeepsPending, ConnectPCs, UndoPCs
<1>7. TrackerInv'
    BY <1>1, <1>2 DEF TrackerInv
<1>8. FrozenInv'
    <2> DEFINE ts == job.pendingFreezeOps
               F == FrozenAt(chain, Len(chain))
    <2>1. FrozenBy(ts, 0) = {} /\ ThawedBy(ts, 0) = {} /\ 1 - 1 = 0 /\ 1 <= Len(ts) + 1
        BY <1>2 DEF FrozenBy, ThawedBy
    <2>2. frozen' = F /\ job'.pendingFreezeOps = ts /\ F = FrozenAt(chain', Len(chain'))
        BY <1>1, <1>2, <1>3 DEF FrozenInv, KeepsPending
    <2> HIDE DEF ts, F
    <2>3. frozen' = (F \ ThawedBy(ts, 0)) \cup FrozenBy(ts, 0)
        BY <2>1, <2>2
    <2>4. QED
        BY <1>1, <1>3, <2>1, <2>2, <2>3 DEF FrozenInv
<1>9. QED
    BY <1>1, <1>2, <1>5, <1>6, <1>7, <1>8 DEF AssetInv, ConnectPCs, UndoPCs

\* One operation of a list more.
LEMMA OpsPrefix ==
    ASSUME NEW ts \in Seq(Txs), NEW i \in 1..Len(ts)
    PROVE  /\ FrozenBy(ts, i)
                = FrozenBy(ts, i - 1) \cup (IF Op[ts[i]].tag = "freeze" THEN {Op[ts[i]].target} ELSE {})
           /\ ThawedBy(ts, i)
                = ThawedBy(ts, i - 1) \cup (IF Op[ts[i]].tag # "freeze" THEN {Op[ts[i]].target} ELSE {})
           /\ FrozenBy(ts, i) \subseteq FrozenBy(ts, Len(ts))
           /\ ThawedBy(ts, i) \subseteq ThawedBy(ts, Len(ts))
<1>1. 1..i = (1..(i - 1)) \cup {i} /\ \A k \in 1..i : k \in 1..Len(ts)
    OBVIOUS
<1>2. QED
    BY <1>1 DEF FrozenBy, ThawedBy

\* The freeze operations are written one by one.
LEMMA FreezeWritten ==
    ASSUME PlainBlocks, ReorgInv, CommitFreezeOp
    PROVE  AssetInv'
<1> DEFINE b == job.block
           ts == job.pendingFreezeOps
           i == job.i
           F == FrozenAt(chain, Len(chain))
<1>1. /\ pc = "commitFreeze" /\ pc' = "commitFreeze" /\ pc \in ConnectPCs /\ i <= Len(ts)
      /\ UNCHANGED <<chain, coins, supply, authOutpoint>> /\ job' = [job EXCEPT !.i = job.i + 1]
    BY DEF CommitFreezeOp, ConnectPCs
<1>2. /\ job \in ConnectJob /\ b \in Blocks /\ Len(b) \in 0..Len(b) /\ OneWay(b)
      /\ Gathered /\ SupplyInv /\ TrackerInv /\ FrozenInv /\ ts \in Seq(Txs) /\ i \in Nat \ {0}
      /\ Lawful(chain) /\ coins = CoinsAt(chain, Len(chain))
    BY <1>1, ConnectFacts
<1>3. KeepsPending /\ job'.pendingSupply = job.pendingSupply /\ job'.i = i + 1
    BY <1>1, <1>2 DEF ConnectJob, KeepsPending
<1>4. Passed' = Passed /\ Passed = Len(b)
    BY <1>1, <1>3 DEF Passed, KeepsPending
<1>5. Gathered'
    BY <1>1, <1>2, <1>3, <1>4, KeepGathered
<1>6. SupplyInv' /\ TrackerInv'
    BY <1>1, <1>2, <1>3 DEF SupplyInv, TrackerInv, Pending, KeepsPending, ConnectPCs, UndoPCs
<1>7. FrozenBy(ts, Len(ts)) \cap ThawedBy(ts, Len(ts)) = {}
    <2>1. FrozenBy(ts, Len(ts)) = FrozenIn(b, Len(b)) /\ ThawedBy(ts, Len(ts)) = ThawedIn(b, Len(b))
        BY <1>2, <1>4 DEF Gathered
    <2> HIDE DEF b
    <2>2. QED
        BY <1>2, <2>1, FreezeDisjoint
<1>8. frozen' = (F \ ThawedBy(ts, i)) \cup FrozenBy(ts, i)
    <2>1. frozen = (F \ ThawedBy(ts, i - 1)) \cup FrozenBy(ts, i - 1)
        BY <1>1, <1>2 DEF FrozenInv
    <2>2. frozen' = IF Op[ts[i]].tag = "freeze" THEN frozen \cup {Op[ts[i]].target}
                    ELSE frozen \ {Op[ts[i]].target}
        BY DEF CommitFreezeOp
    <2>3. i \in 1..Len(ts)
        BY <1>1, <1>2
    <2> HIDE DEF ts, i, F
    <2>4. /\ FrozenBy(ts, i)
               = FrozenBy(ts, i - 1) \cup (IF Op[ts[i]].tag = "freeze" THEN {Op[ts[i]].target} ELSE {})
          /\ ThawedBy(ts, i)
               = ThawedBy(ts, i - 1) \cup (IF Op[ts[i]].tag # "freeze" THEN {Op[ts[i]].target} ELSE {})
        BY <1>2, <2>3, OpsPrefix
    <2>5. FrozenBy(ts, i) \cap ThawedBy(ts, i) = {}
        BY <1>2, <1>7, <2>3, OpsPrefix
    <2>6. QED
        BY <2>1, <2>2, <2>4, <2>5
<1>9. FrozenInv'
    <2>1. job'.pendingFreezeOps = ts /\ job'.i - 1 = i /\ job'.i <= Len(ts) + 1
        BY <1>1, <1>2, <1>3 DEF KeepsPending
    <2>2. F = FrozenAt(chain', Len(chain'))
        BY <1>1
    <2> HIDE DEF ts, i, F
    <2>3. QED
        BY <1>1, <1>8, <2>1, <2>2 DEF FrozenInv
<1>10. QED
    BY <1>1, <1>2, <1>5, <1>6, <1>9 DEF AssetInv, ConnectPCs, UndoPCs

\* Then the outpoint.
LEMMA OutpointWritten ==
    ASSUME PlainBlocks, ReorgInv, CommitOutpoint
    PROVE  AssetInv'
<1> DEFINE b == job.block
           ts == job.pendingFreezeOps
           v == CoinsAt(chain, Len(chain))
           F == FrozenAt(chain, Len(chain))
<1>1. /\ pc = "commitFreeze" /\ pc' = "commitSupply" /\ pc \in ConnectPCs /\ job.i > Len(ts)
      /\ UNCHANGED <<chain, coins, supply, frozen, job>>
    BY DEF CommitOutpoint, ConnectPCs
<1>2. /\ job \in ConnectJob /\ b \in Blocks /\ Len(b) \in Nat /\ ts \in Seq(Txs) /\ job.i \in Nat \ {0}
      /\ Gathered /\ SupplyInv /\ TrackerInv /\ FrozenInv
      /\ Lawful(chain) /\ coins = CoinsAt(chain, Len(chain))
    BY <1>1, ConnectFacts
<1>3. Passed' = Passed /\ Passed = Len(b) /\ KeepsPending
    BY <1>1 DEF Passed, KeepsPending
<1>4. Gathered'
    BY <1>1, <1>2, <1>3, KeepGathered
<1>5. SupplyInv'
    BY <1>1, <1>2 DEF SupplyInv, Pending, ConnectPCs, UndoPCs
<1>6. TrackerInv'
    <2>1. Tracks(job.view, job.localAuthOutpoint)
        BY <1>2, <1>3 DEF Gathered
    <2>2. authOutpoint' = job.localAuthOutpoint
        <3>1. CASE job.commitOutpoint
            BY <3>1 DEF CommitOutpoint
        <3>2. CASE ~job.commitOutpoint
            <4>1. Tracks(v, job.localAuthOutpoint) /\ Tracks(v, authOutpoint)
                BY <1>1, <1>2, <3>2 DEF Gathered, TrackerInv
            <4>2. authOutpoint' = authOutpoint
                BY <3>2 DEF CommitOutpoint
            <4>3. QED
                BY <4>1, <4>2, OneTracked
        <3>3. QED
            BY <3>1, <3>2
    <2>3. QED
        BY <1>1, <2>1, <2>2 DEF TrackerInv
<1>7. FrozenInv'
    <2>1. job.i - 1 = Len(ts)
        <3>1. job.i <= Len(ts) + 1
            BY <1>1, <1>2 DEF FrozenInv
        <3>2. QED
            BY <1>1, <1>2, <3>1
    <2>2. frozen = (F \ ThawedBy(ts, job.i - 1)) \cup FrozenBy(ts, job.i - 1)
        BY <1>1, <1>2 DEF FrozenInv
    <2>3. FrozenBy(ts, Len(ts)) = FrozenIn(b, Len(b)) /\ ThawedBy(ts, Len(ts)) = ThawedIn(b, Len(b))
        BY <1>2, <1>3 DEF Gathered
    <2>4. frozen = FrozenAfter(F, b, Len(b))
        <3> HIDE DEF ts, b, F
        <3>1. QED
            BY <2>1, <2>2, <2>3, Zenon DEF FrozenAfter
    <2>5. QED
        BY <1>1, <2>4 DEF FrozenInv
<1>8. QED
    BY <1>1, <1>2, <1>4, <1>5, <1>6, <1>7 DEF AssetInv, ConnectPCs, UndoPCs

\* The supply comes last.
LEMMA SupplyWritten ==
    ASSUME PlainBlocks, ReorgInv, CommitSupply
    PROVE  AssetInv'
<1>1. /\ pc = "commitSupply" /\ pc' = "connected" /\ pc \in ConnectPCs /\ supply' = job.pendingSupply
      /\ UNCHANGED <<chain, coins, authOutpoint, frozen, job>>
    BY DEF CommitSupply, ConnectPCs
<1>2. /\ Gathered /\ SupplyInv /\ TrackerInv /\ FrozenInv
      /\ Lawful(chain) /\ coins = CoinsAt(chain, Len(chain))
    BY <1>1, ConnectFacts
<1>3. Gathered'
    BY <1>1, <1>2, KeepGathered DEF Passed, KeepsPending
<1>4. SupplyInv' /\ TrackerInv'
    BY <1>1, <1>2 DEF SupplyInv, TrackerInv, Pending, ConnectPCs, UndoPCs
<1>5. FrozenInv'
    BY <1>1, <1>2 DEF FrozenInv
<1>6. QED
    BY <1>1, <1>2, <1>3, <1>4, <1>5 DEF AssetInv, ConnectPCs, UndoPCs

\* One more transaction passed the freeze checks.
LEMMA FreezeChecked ==
    ASSUME NEW b \in Blocks, OneWay(b), NEW m \in Nat, m < Len(b), NEW F, NEW v,
           FreezeSound(F, v, b, m), NEW t, t = b[m + 1], NEW x, x = Op[t].target,
           Tag(t) = "freeze" => /\ x \in ViewAt(v, b, Len(b)) /\ Kind[x] = "asset"
                                /\ x \notin FrozenAfter(F, b, m),
           Tag(t) = "unfreeze" => x \in FrozenAfter(F, b, m),
           \A o \in Ins(t) : Kind[o] = "asset" => o \notin FrozenAfter(F, b, m)
    PROVE  FreezeSound(F, v, b, m + 1)
<1> DEFINE n == m + 1
<1>1. Len(b) \in Nat /\ m \in 0..Len(b) /\ n \in 0..Len(b) /\ n - 1 = m
    BY TxConstants
<1>2. /\ FrozenIn(b, n) = FrozenIn(b, m) \cup (IF Tag(t) = "freeze" THEN {x} ELSE {})
      /\ ThawedIn(b, n) = ThawedIn(b, m) \cup (IF Tag(t) = "unfreeze" THEN {x} ELSE {})
    BY FreezeStep
<1>3. FrozenIn(b, n) \cap ThawedIn(b, n) = {}
    BY <1>1, FreezeDisjoint
<1>4. /\ FrozenIn(b, m) \cap F = {} /\ ThawedIn(b, m) \subseteq F
      /\ FrozenIn(b, m) \subseteq {o \in ViewAt(v, b, Len(b)) : Kind[o] = "asset"}
      /\ \A k \in 1..m : \A o \in Ins(b[k]) : Kind[o] = "asset" => o \notin FrozenAfter(F, b, k - 1)
    BY DEF FreezeSound
<1>5. FrozenAfter(F, b, m) = (F \ ThawedIn(b, m)) \cup FrozenIn(b, m)
    BY DEF FrozenAfter
<1>6. \A k \in 1..n : k \in 1..m \/ k = n
    OBVIOUS
<1>7. b[n] = t
    OBVIOUS
<1> HIDE DEF n
<1>8. FrozenIn(b, n) \cap F = {}
    BY <1>2, <1>3, <1>4, <1>5
<1>9. ThawedIn(b, n) \subseteq F
    BY <1>2, <1>3, <1>4, <1>5
<1>10. FrozenIn(b, n) \subseteq {o \in ViewAt(v, b, Len(b)) : Kind[o] = "asset"}
    BY <1>2, <1>4
<1>11. \A k \in 1..n : \A o \in Ins(b[k]) : Kind[o] = "asset" => o \notin FrozenAfter(F, b, k - 1)
    BY <1>1, <1>4, <1>6, <1>7
<1>12. FreezeSound(F, v, b, n)
    BY <1>8, <1>9, <1>10, <1>11 DEF FreezeSound
<1>13. QED
    BY <1>12 DEF n

\* The list of operations to commit, one longer.
LEMMA OpsStep ==
    ASSUME NEW ts \in Seq(Txs), NEW t \in Txs
    PROVE  /\ FrozenBy(Append(ts, t), Len(Append(ts, t)))
                = FrozenBy(ts, Len(ts)) \cup (IF Op[t].tag = "freeze" THEN {Op[t].target} ELSE {})
           /\ ThawedBy(Append(ts, t), Len(Append(ts, t)))
                = ThawedBy(ts, Len(ts)) \cup (IF Op[t].tag # "freeze" THEN {Op[t].target} ELSE {})
<1> DEFINE q == Append(ts, t)
           n == Len(ts)
<1>1. n \in Nat /\ Len(q) = n + 1 /\ q[n + 1] = t /\ \A k \in 1..n : q[k] = ts[k]
    OBVIOUS
<1>2. 1..(n + 1) = (1..n) \cup {n + 1}
    BY <1>1
<1> HIDE DEF q, n
<1>3. FrozenBy(q, n + 1) = FrozenBy(ts, n) \cup (IF Op[t].tag = "freeze" THEN {Op[t].target} ELSE {})
    BY <1>1, <1>2 DEF FrozenBy
<1>4. ThawedBy(q, n + 1) = ThawedBy(ts, n) \cup (IF Op[t].tag # "freeze" THEN {Op[t].target} ELSE {})
    BY <1>1, <1>2 DEF ThawedBy
<1>5. QED
    BY <1>1, <1>3, <1>4 DEF q, n

\* What the operation of an accepted transaction declares is what it moves.
LEMMA OpDeclared ==
    ASSUME NEW t \in Txs, IsAuthorityTx(t) => OpOK(t)
    PROVE  MintedBy(t) = MintDeclared(t) /\ BurnedBy(t) = BurnDeclared(t)
           /\ (IsAuthorityTx(t) => Tag(t) # "none")
<1>1. MintedBy(t) \in Nat /\ BurnedBy(t) \in Nat /\ Op[t].sats \in Nat
    BY DeltaNat, OpTypes
<1>2. CASE ~IsAuthorityTx(t)
    BY <1>2 DEF MintedBy, BurnedBy, MintDeclared, BurnDeclared, Tag
<1>3. CASE IsAuthorityTx(t)
    <2>1. /\ MintedBy(t) > 0 => Op[t].tag = "mint"
          /\ BurnedBy(t) > 0 => Op[t].tag = "burn"
          /\ Op[t].tag \in {"mint", "burn", "freeze", "unfreeze"}
        BY <1>3, OpTypes DEF OpOK
    <2>2. Op[t].tag = "mint" => MintedBy(t) = Op[t].sats
        <3>1. Op[t].tag = "mint" => MintOK(t)
            BY <1>3 DEF OpOK
        <3>2. QED
            BY <1>3, <3>1 DEF MintOK, MintedBy
    <2>3. Op[t].tag = "burn" => BurnedBy(t) = Op[t].sats
        <3>1. Op[t].tag = "burn" => BurnOK(t)
            BY <1>3 DEF OpOK
        <3>2. QED
            BY <3>1 DEF BurnOK
    <2>4. Tag(t) = Op[t].tag
        BY <1>3 DEF Tag
    <2>5. MintedBy(t) = MintDeclared(t)
        BY <1>1, <2>1, <2>2, <2>4 DEF MintDeclared
    <2>6. BurnedBy(t) = BurnDeclared(t)
        BY <1>1, <2>1, <2>3, <2>4 DEF BurnDeclared
    <2>7. QED
        BY <2>1, <2>4, <2>5, <2>6
<1>4. QED
    BY <1>2, <1>3

\* One transaction of the second pass.
LEMMA TxPassed ==
    ASSUME RulesFromGenesis, PlainBlocks, ReorgInv, ConnectAsset
    PROVE  AssetInv'
<1> DEFINE b == job.block
           m == job.i - 1
           t == b[job.i]
           x == Op[t].target
           v == CoinsAt(chain, Len(chain))
           F == FrozenAt(chain, Len(chain))
           ts == job.pendingFreezeOps
<1>1. /\ pc = "assets" /\ pc' = "assets" /\ pc \in ConnectPCs /\ job.i <= Len(b)
      /\ chain' = chain /\ coins' = coins /\ UNCHANGED asset
    BY DEF ConnectAsset, ConnectPCs
<1>2. /\ job \in ConnectJob /\ b \in Blocks /\ Len(b) \in Nat /\ OneWay(b) /\ DOMAIN b = 1..Len(b)
      /\ job.i \in Nat \ {0} /\ ts \in Seq(Txs)
      /\ chain \in Seq(Blocks) /\ Len(chain) \in 0..Len(chain) /\ Len(chain) + 1 \in Nat \ {0}
      /\ Linear(chain) /\ Lawful(chain) /\ coins = v
      /\ Gathered /\ SupplyInv /\ TrackerInv /\ FrozenInv
    BY <1>1, ConnectFacts
<1>3. frozen = F
    BY <1>1, <1>2 DEF FrozenInv
<1>4. m \in Nat /\ m < Len(b) /\ m + 1 = job.i /\ Passed = m /\ t \in Txs /\ t = b[m + 1]
    BY <1>1, <1>2, BlockTx DEF Passed
<1>5. /\ Passes(v, F, b, m) /\ job.view = ViewAt(v, b, Len(b))
      /\ Tracks(ViewAt(v, b, m), job.localAuthOutpoint)
      /\ ~job.commitOutpoint => Tracks(v, job.localAuthOutpoint)
      /\ job.frozenAdd = FrozenIn(b, m) /\ job.frozenRemove = ThawedIn(b, m)
      /\ FrozenBy(ts, Len(ts)) = FrozenIn(b, m) /\ ThawedBy(ts, Len(ts)) = ThawedIn(b, m)
      /\ job.minted = MintedUpTo(b, m) /\ job.burned = BurnedUpTo(b, m)
    BY <1>2, <1>4 DEF Gathered
<1>6. Enforced(Height) /\ AppliedOp(t, Height) = Tag(t)
    BY <1>2, RulesOn DEF Height
<1>7. SpendsOK(t) /\ (IsAuthorityTx(t) => AuthorityOK(t) /\ OpOK(t))
    BY <1>6 DEF ConnectAsset, AssetOK
<1>8. MintedBy(t) = MintDeclared(t) /\ BurnedBy(t) = BurnDeclared(t) /\ (IsAuthorityTx(t) => Tag(t) # "none")
    BY <1>4, <1>7, OpDeclared
<1>9. Tag(t) # "none" <=> IsAuthorityTx(t)
    BY <1>8 DEF Tag
<1> DEFINE l == IF IsAuthorityTx(t) THEN AuthorityOutput(t) ELSE job.localAuthOutpoint
           op == Tag(t)
           us == IF op \in {"freeze", "unfreeze"} THEN Append(ts, t) ELSE ts
           add == IF op = "freeze" THEN job.frozenAdd \cup {x}
                  ELSE IF op = "unfreeze" THEN job.frozenAdd \ {x} ELSE job.frozenAdd
           remove == IF op = "unfreeze" THEN job.frozenRemove \cup {x}
                     ELSE IF op = "freeze" THEN job.frozenRemove \ {x} ELSE job.frozenRemove
<1>10. /\ job'.i = job.i + 1 /\ job'.block = b /\ job'.view = job.view
       /\ job'.localAuthOutpoint = l
       /\ job'.commitOutpoint = (job.commitOutpoint \/ op # "none")
       /\ job'.frozenAdd = add /\ job'.frozenRemove = remove /\ job'.pendingFreezeOps = us
       /\ job'.minted = job.minted + MintedBy(t) /\ job'.burned = job.burned + BurnedBy(t)
    <2>1. PICK ds : job' = [job EXCEPT !.i = job.i + 1, !.localAuthOutpoint = l,
                                       !.commitOutpoint = job.commitOutpoint \/ op # "none",
                                       !.pendingDeposits = ds, !.pendingFreezeOps = us,
                                       !.frozenAdd = add, !.frozenRemove = remove,
                                       !.minted = job.minted + MintedBy(t),
                                       !.burned = job.burned + BurnedBy(t)]
        BY <1>6 DEF ConnectAsset
    <2> HIDE DEF l, us, add, remove, op
    <2>2. QED
        BY <1>2, <2>1 DEF ConnectJob
<1> HIDE DEF l, us, add, remove
<1>11. /\ FrozenIn(b, m + 1) = FrozenIn(b, m) \cup (IF op = "freeze" THEN {x} ELSE {})
       /\ ThawedIn(b, m + 1) = ThawedIn(b, m) \cup (IF op = "unfreeze" THEN {x} ELSE {})
       /\ FrozenIn(b, m + 1) \cap ThawedIn(b, m + 1) = {}
    <2>1. m + 1 \in 0..Len(b) /\ x = Op[b[m + 1]].target
        BY <1>2, <1>4
    <2> HIDE DEF b, m, t, x
    <2>2. /\ FrozenIn(b, m + 1) = FrozenIn(b, m) \cup (IF op = "freeze" THEN {x} ELSE {})
          /\ ThawedIn(b, m + 1) = ThawedIn(b, m) \cup (IF op = "unfreeze" THEN {x} ELSE {})
        BY <1>4, <2>1, FreezeStep
    <2>3. FrozenIn(b, m + 1) \cap ThawedIn(b, m + 1) = {}
        BY <1>2, <2>1, FreezeDisjoint
    <2>4. QED
        BY <2>2, <2>3
<1>12. Guarded(v, b, m + 1)
    <2>0. Guarded(v, b, m)
        BY <1>5 DEF Passes
    <2>1. IsAuthorityTx(t) => Markers(ViewAt(v, b, m)) \subseteq Ins(t)
        BY <1>5, <1>7 DEF AuthorityOK, Tracks
    <2>2. ~IsAuthorityTx(t) => Markers(Ins(t)) = {}
        BY <1>7 DEF SpendsOK, Markers
    <2>3. \A k \in 1..(m + 1) : k \in 1..m \/ (k = m + 1 /\ k - 1 = m)
        BY <1>4
    <2> HIDE DEF v, b, m, t
    <2>4. QED
        BY <1>4, <2>0, <2>1, <2>2, <2>3, Zenon DEF Guarded
<1>13. FreezeSound(F, v, b, m + 1)
    <2>1. \A o : FrozenInBlock(o) <=> o \in FrozenAfter(F, b, m)
        BY <1>3, <1>5 DEF FrozenInBlock, FrozenAfter
    <2>2. op \in {"freeze", "unfreeze"} => IsAuthorityTx(t) /\ op = Op[t].tag /\ FreezeOK(t)
        <3>1. op \in {"freeze", "unfreeze"} => IsAuthorityTx(t) /\ op = Op[t].tag
            BY DEF Tag
        <3>2. QED
            BY <1>7, <3>1 DEF OpOK
    <2>3. /\ op = "freeze" => x \in job.view /\ Kind[x] = "asset" /\ ~FrozenInBlock(x)
          /\ op = "unfreeze" => FrozenInBlock(x)
        BY <2>2 DEF FreezeOK
    <2>4. \A o \in Ins(t) : Kind[o] = "asset" => ~FrozenInBlock(o)
        BY <1>7, Zenon DEF SpendsOK
    <2>5. FreezeSound(F, v, b, m) /\ x = Op[t].target
        BY <1>5 DEF Passes
    <2> HIDE DEF v, b, m, t, F, x
    <2>6. /\ op = "freeze" => /\ x \in ViewAt(v, b, Len(b)) /\ Kind[x] = "asset" /\ x \notin FrozenAfter(F, b, m)
          /\ op = "unfreeze" => x \in FrozenAfter(F, b, m)
          /\ \A o \in Ins(t) : Kind[o] = "asset" => o \notin FrozenAfter(F, b, m)
        BY <1>5, <2>1, <2>3, <2>4, Zenon
    <2>7. QED
        BY <1>2, <1>4, <2>5, <2>6, FreezeChecked
<1>14. Declared(b, m + 1)
    <2>1. \A k \in 1..(m + 1) : k \in 1..m \/ k = m + 1
        BY <1>4
    <2>2. Declared(b, m)
        BY <1>5 DEF Passes
    <2> HIDE DEF b, m, t
    <2>3. QED
        BY <1>4, <1>8, <2>1, <2>2 DEF Declared
<1>15. Passes(v, F, b, m + 1)
    <2> HIDE DEF v, F, b, m
    <2>1. QED
        BY <1>5, <1>12, <1>13, <1>14 DEF Passes
<1>16. Tracks(ViewAt(v, b, m + 1), l)
    <2>1. Fits(v, b, m + 1)
        <3>1. \A k \in 1..(m + 1) : k \in 1..Len(b)
            BY <1>2, <1>4
        <3>2. Fits(v, b, Len(b))
            BY <1>5, ValuedFits DEF Passes
        <3> HIDE DEF v, b, m
        <3>3. QED
            BY <3>1, <3>2, Zenon DEF Fits
    <2>2. OneMarker(b[m + 1])
        BY <1>1, <1>2, <1>4 DEF OneWay
    <2> DEFINE lo == job.localAuthOutpoint
    <2>3. Tracks(ViewAt(v, b, m), lo)
        BY <1>5
    <2> HIDE DEF b, m, t, lo
    <2>4. Tracks(ViewAt(v, b, m + 1), IF IsAuthorityTx(b[m + 1]) THEN AuthorityOutput(b[m + 1]) ELSE lo)
        BY <1>2, <1>4, <1>12, <2>1, <2>2, <2>3, TrackStep
    <2>5. QED
        BY <1>4, <2>4, Zenon DEF l, lo
<1>17. ~(job.commitOutpoint \/ op # "none") => Tracks(v, l)
    BY <1>5, <1>9 DEF l
<1>18. add = FrozenIn(b, m + 1) /\ remove = ThawedIn(b, m + 1)
    <2> DEFINE A == FrozenIn(b, m)
               T == ThawedIn(b, m)
    <2>1. job.frozenAdd = A /\ job.frozenRemove = T
        BY <1>5
    <2> HIDE DEF A, T, op, x
    <2>2. QED
        BY <1>11, <2>1 DEF A, T, add, remove
<1>19. FrozenBy(us, Len(us)) = FrozenIn(b, m + 1) /\ ThawedBy(us, Len(us)) = ThawedIn(b, m + 1)
    <2>1. CASE op \notin {"freeze", "unfreeze"}
        <3>1. us = ts
            BY <2>1 DEF us
        <3>2. FrozenIn(b, m + 1) = FrozenIn(b, m) /\ ThawedIn(b, m + 1) = ThawedIn(b, m)
            BY <1>11, <2>1
        <3>3. QED
            BY <1>5, <3>1, <3>2, Zenon
    <2>2. CASE op \in {"freeze", "unfreeze"}
        <3>1. us = Append(ts, t) /\ op = Op[t].tag
            BY <2>2 DEF us, Tag
        <3> HIDE DEF ts, t
        <3>2. /\ FrozenBy(us, Len(us)) = FrozenBy(ts, Len(ts)) \cup (IF Op[t].tag = "freeze" THEN {Op[t].target} ELSE {})
              /\ ThawedBy(us, Len(us)) = ThawedBy(ts, Len(ts)) \cup (IF Op[t].tag # "freeze" THEN {Op[t].target} ELSE {})
            BY <1>2, <1>4, <3>1, OpsStep
        <3>3. (op # "freeze") <=> (op = "unfreeze")
            BY <2>2
        <3> HIDE DEF b, m, op
        <3>4. QED
            BY <1>5, <1>11, <3>1, <3>2, <3>3, Zenon
    <2>3. QED
        BY <2>1, <2>2
<1>20. /\ job.minted + MintedBy(t) = MintedUpTo(b, m + 1)
       /\ job.burned + BurnedBy(t) = BurnedUpTo(b, m + 1)
    <2> HIDE DEF b, m, t
    <2>1. /\ MintedUpTo(b, m + 1) = MintedUpTo(b, m) + MintedBy(b[m + 1])
          /\ BurnedUpTo(b, m + 1) = BurnedUpTo(b, m) + BurnedBy(b[m + 1])
        BY <1>2, <1>4, BlockSums
    <2>2. QED
        BY <1>4, <1>5, <2>1, Zenon
<1>21. Passed' = m + 1 /\ m + 1 <= Len(b)
    BY <1>1, <1>2, <1>4, <1>10 DEF Passed
<1>22. Gathered'
    <2>1. v = CoinsAt(chain', Len(chain')) /\ F = FrozenAt(chain', Len(chain'))
        BY <1>1
    <2> DEFINE n == m + 1
    <2> HIDE DEF v, F, b, t, n, m, op
    <2>2. /\ n <= Len(b) /\ Passed' = n /\ Passes(v, F, b, n)
          /\ job'.view = ViewAt(v, b, Len(b))
          /\ Tracks(ViewAt(v, b, n), job'.localAuthOutpoint)
          /\ ~job'.commitOutpoint => Tracks(v, job'.localAuthOutpoint)
          /\ job'.frozenAdd = FrozenIn(b, n) /\ job'.frozenRemove = ThawedIn(b, n)
          /\ FrozenBy(job'.pendingFreezeOps, Len(job'.pendingFreezeOps)) = FrozenIn(b, n)
          /\ ThawedBy(job'.pendingFreezeOps, Len(job'.pendingFreezeOps)) = ThawedIn(b, n)
          /\ job'.minted = MintedUpTo(b, n) /\ job'.burned = BurnedUpTo(b, n)
        BY <1>5, <1>10, <1>15, <1>16, <1>17, <1>18, <1>19, <1>20, <1>21, Zenon DEF n
    <2>3. QED
        BY <1>10, <2>1, <2>2, Zenon DEF Gathered
<1>23. SupplyInv' /\ TrackerInv' /\ FrozenInv'
    BY <1>1, <1>2 DEF SupplyInv, TrackerInv, FrozenInv, UndoPCs, ConnectPCs, asset
<1>24. QED
    BY <1>1, <1>2, <1>22, <1>23 DEF AssetInv, ConnectPCs, UndoPCs

\* A chain that shares its blocks with a lawful one is lawful as far.
LEMMA LawfulShared ==
    ASSUME NEW c \in Seq(Blocks), NEW d \in Seq(Blocks), Lawful(c),
           NEW n \in Nat, n <= Len(c), n <= Len(d), \A h \in 1..n : d[h] = c[h]
    PROVE  /\ \A h \in 1..n : Accepted(d, h)
           /\ CoinsAt(d, n) = CoinsAt(c, n) /\ SupplyAt(d, n) = SupplyAt(c, n)
           /\ FrozenAt(d, n) = FrozenAt(c, n)
<1>1. ASSUME NEW h \in 1..n PROVE Accepted(d, h)
    <2> DEFINE j == h - 1
    <2>1. j \in Nat /\ j <= Len(c) /\ j <= Len(d) /\ (\A k \in 1..j : k \in 1..n) /\ h \in 1..Len(c)
        OBVIOUS
    <2>2. Accepted(c, h) /\ d[h] = c[h]
        BY <2>1 DEF Lawful
    <2>3. \A k \in 1..j : d[k] = c[k]
        BY <2>1
    <2> HIDE DEF j
    <2>4. CoinsAt(d, j) = CoinsAt(c, j)
        BY <2>1, <2>3, SamePrefix
    <2>5. FrozenAt(d, j) = FrozenAt(c, j)
        BY <2>1, <2>3, SameFrozen
    <2>6. QED
        BY <2>2, <2>4, <2>5 DEF Accepted, j
<1>2. CoinsAt(d, n) = CoinsAt(c, n) /\ SupplyAt(d, n) = SupplyAt(c, n)
    BY SamePrefix
<1>3. FrozenAt(d, n) = FrozenAt(c, n)
    BY SameFrozen
<1>4. QED
    BY <1>1, <1>2, <1>3

\* ConnectTip extends the chain by a block that passed every check.
LEMMA LawfulAppend ==
    ASSUME NEW c \in Seq(Blocks), Lawful(c),
           NEW b \in Blocks, NEW v, v = CoinsAt(c, Len(c)), NEW F, F = FrozenAt(c, Len(c)),
           Passes(v, F, b, Len(b)), NEW d, d = Append(c, b)
    PROVE  /\ Lawful(d) /\ CoinsAt(d, Len(d)) = ViewAt(v, b, Len(b))
           /\ FrozenAt(d, Len(d)) = FrozenAfter(F, b, Len(b))
           /\ SupplyAt(d, Len(d)) = [minted |-> MintedAt(c, Len(c)) + Total(MintedBy, b),
                                     burned |-> BurnedAt(c, Len(c)) + Total(BurnedBy, b)]
<1> DEFINE n == Len(c)
<1>1. n \in Nat /\ d \in Seq(Blocks) /\ Len(d) = n + 1 /\ d[n + 1] = b /\ \A h \in 1..n : d[h] = c[h]
    OBVIOUS
<1>2. CoinsAt(d, Len(d)) = ViewAt(v, b, Len(b))
    <2>1. Fits(v, b, Len(b)) /\ Linear(c)
        BY ValuedFits, LawfulLinear DEF Passes
    <2>2. QED
        BY <2>1, LinearAppend
<1>3. /\ \A h \in 1..n : Accepted(d, h)
      /\ CoinsAt(d, n) = CoinsAt(c, n) /\ SupplyAt(d, n) = SupplyAt(c, n) /\ FrozenAt(d, n) = FrozenAt(c, n)
    <2>1. n <= Len(c) /\ n <= Len(d)
        BY <1>1
    <2> HIDE DEF n
    <2>2. QED
        BY <1>1, <2>1, LawfulShared
<1>4. Accepted(d, n + 1)
    <2>1. (n + 1) - 1 = n
        BY <1>1
    <2>2. QED
        BY <1>1, <1>3, <2>1 DEF Accepted
<1>5. Lawful(d)
    <2>1. \A h \in 1..Len(d) : h \in 1..n \/ h = n + 1
        BY <1>1
    <2>2. QED
        BY <1>3, <1>4, <2>1 DEF Lawful
<1>6. FrozenAt(d, Len(d)) = FrozenAfter(F, b, Len(b))
    <2> HIDE DEF n
    <2>1. FrozenAt(d, n + 1) = FrozenAfter(FrozenAt(d, n), d[n + 1], Len(d[n + 1]))
        BY <1>1, ChainFrozen
    <2>2. QED
        BY <1>1, <1>3, <2>1 DEF n
<1>7. SupplyAt(d, Len(d)) = [minted |-> MintedAt(c, n) + Total(MintedBy, b),
                             burned |-> BurnedAt(c, n) + Total(BurnedBy, b)]
    <2> HIDE DEF n
    <2>1. n < Len(d)
        BY <1>1
    <2>2. /\ MintedAt(d, n + 1) = MintedAt(d, n) + Total(MintedBy, d[n + 1])
          /\ BurnedAt(d, n + 1) = BurnedAt(d, n) + Total(BurnedBy, d[n + 1])
        BY <1>1, <2>1, ChainSums
    <2>3. MintedAt(d, n) = MintedAt(c, n) /\ BurnedAt(d, n) = BurnedAt(c, n)
        BY <1>3 DEF SupplyAt
    <2>4. QED
        BY <1>1, <2>2, <2>3 DEF SupplyAt
<1>8. QED
    BY <1>2, <1>5, <1>6, <1>7

\* The asset globals at rest on a chain.
AtTip(c) ==
    /\ supply = SupplyAt(c, Len(c)) /\ Tracks(CoinsAt(c, Len(c)), authOutpoint)
    /\ frozen = FrozenAt(c, Len(c)) /\ coins = CoinsAt(c, Len(c))

LEMMA RestingAssets == ASSUME pc = "idle" PROVE AssetInv <=> Lawful(chain) /\ AtTip(chain)
BY DEF AssetInv, AtTip, SupplyInv, TrackerInv, FrozenInv, ConnectPCs, UndoPCs

LEMMA TipConnected ==
    ASSUME PlainBlocks, ReorgInv, ConnectTip
    PROVE  AssetInv'
<1> DEFINE b == job.block
           c == chain
           v == CoinsAt(c, Len(c))
           F == FrozenAt(c, Len(c))
<1>1. /\ pc = "connected" /\ pc' = "idle" /\ pc \in ConnectPCs
      /\ chain' = Append(c, b) /\ coins' = job.view /\ UNCHANGED asset
    BY DEF ConnectTip, ConnectPCs, Abandon
<1>2. /\ Gathered /\ SupplyInv /\ TrackerInv /\ FrozenInv /\ Lawful(c)
      /\ b \in Blocks /\ c \in Seq(Blocks)
    BY <1>1, ConnectFacts
<1>3. Passes(v, F, b, Len(b)) /\ job.view = ViewAt(v, b, Len(b))
    <2>1. Passed = Len(b)
        BY <1>1 DEF Passed
    <2>2. QED
        BY <1>2, <2>1 DEF Gathered
<1>4. /\ Lawful(chain') /\ CoinsAt(chain', Len(chain')) = ViewAt(v, b, Len(b))
      /\ FrozenAt(chain', Len(chain')) = FrozenAfter(F, b, Len(b))
      /\ SupplyAt(chain', Len(chain')) = [minted |-> MintedAt(c, Len(c)) + Total(MintedBy, b),
                                          burned |-> BurnedAt(c, Len(c)) + Total(BurnedBy, b)]
    <2> DEFINE d == Append(c, b)
    <2>1. v = CoinsAt(c, Len(c)) /\ F = FrozenAt(c, Len(c)) /\ d = Append(c, b)
        OBVIOUS
    <2> HIDE DEF v, F, b, d
    <2>2. /\ Lawful(d) /\ CoinsAt(d, Len(d)) = ViewAt(v, b, Len(b))
          /\ FrozenAt(d, Len(d)) = FrozenAfter(F, b, Len(b))
          /\ SupplyAt(d, Len(d)) = [minted |-> MintedAt(c, Len(c)) + Total(MintedBy, b),
                                    burned |-> BurnedAt(c, Len(c)) + Total(BurnedBy, b)]
        BY <1>2, <1>3, <2>1, LawfulAppend
    <2>3. chain' = d
        BY <1>1, <2>1
    <2>4. QED
        BY <2>2, <2>3
<1>5. /\ supply = job.pendingSupply /\ Pending /\ frozen = FrozenAfter(F, b, Len(b))
      /\ Tracks(job.view, authOutpoint)
    BY <1>1, <1>2 DEF SupplyInv, TrackerInv, FrozenInv, ConnectPCs
<1>6. supply' = SupplyAt(chain', Len(chain'))
    BY <1>1, <1>4, <1>5 DEF Pending, asset
<1>7. /\ frozen' = FrozenAt(chain', Len(chain')) /\ coins' = CoinsAt(chain', Len(chain'))
      /\ Tracks(CoinsAt(chain', Len(chain')), authOutpoint')
    BY <1>1, <1>3, <1>4, <1>5 DEF asset
<1>8. AtTip(chain)'
    BY <1>6, <1>7 DEF AtTip
<1>9. QED
    BY <1>1, <1>4, <1>8 DEF AssetInv, AtTip, SupplyInv, TrackerInv, FrozenInv, ConnectPCs, UndoPCs

\* Every step of ConnectBlock and ConnectTip.
LEMMA ConnectAssets ==
    ASSUME RulesFromGenesis, PlainBlocks, ReorgInv, Connecting
    PROVE  AssetInv'
<1>1. CASE \E blk \in Blocks, fJustCheck \in BOOLEAN : BeginConnect(blk, fJustCheck)
    BY <1>1, BlockBegins
<1>2. CASE ConnectAsset
    BY <1>2, TxPassed
<1>3. CASE CheckSupply
    BY <1>3, SupplyChecked
<1>4. CASE ScriptsPass \/ Reject
    BY <1>4, VerdictGiven
<1>5. CASE CommitDeposit \/ DepositsDone
    BY <1>5, DepositsWritten
<1>6. CASE CommitFreezeOp
    BY <1>6, FreezeWritten
<1>7. CASE CommitOutpoint
    BY <1>7, OutpointWritten
<1>8. CASE CommitSupply
    BY <1>8, SupplyWritten
<1>9. CASE ConnectTip
    BY <1>9, TipConnected
<1>10. QED
    BY <1>1, <1>2, <1>3, <1>4, <1>5, <1>6, <1>7, <1>8, <1>9 DEF Connecting
-----------------------------------------------------------------------------
(* DisconnectBlock keeps the invariant.                                     *)

\* What every step of a disconnection knows of the tip.
LEMMA TipFacts ==
    ASSUME PlainBlocks, ReorgInv, chain # <<>>
    PROVE  /\ chain \in Seq(Blocks) /\ Lawful(chain) /\ Linear(chain) /\ Len(chain) \in Nat \ {0}
           /\ Len(chain) - 1 \in 0..Len(chain) /\ Len(chain) - 1 \in Nat /\ Len(chain) - 1 < Len(chain)
           /\ (Len(chain) - 1) + 1 = Len(chain) /\ coins = CoinsAt(chain, Len(chain))
           /\ Tip \in Blocks /\ Len(Tip) \in Nat /\ DOMAIN Tip = 1..Len(Tip) /\ OneWay(Tip)
           /\ Accepted(chain, Len(chain)) /\ SupplyInv /\ TrackerInv /\ FrozenInv
<1>1. chain \in Seq(Blocks) /\ Lawful(chain) /\ coins = CoinsAt(chain, Len(chain))
      /\ SupplyInv /\ TrackerInv /\ FrozenInv
    BY DEF ReorgInv, SafeInv, TypeOK, AssetInv
<1>2. /\ Len(chain) \in 1..Len(chain) /\ Len(chain) \in Nat \ {0}
      /\ Len(chain) - 1 \in 0..Len(chain) /\ Len(chain) - 1 \in Nat
      /\ Len(chain) - 1 < Len(chain) /\ (Len(chain) - 1) + 1 = Len(chain)
    BY <1>1
<1>3. Tip \in Blocks /\ Len(Tip) \in Nat /\ DOMAIN Tip = 1..Len(Tip)
    BY <1>1, <1>2, ChainTx DEF Tip
<1>4. OneWay(Tip) /\ Accepted(chain, Len(chain)) /\ Linear(chain)
    BY <1>1, <1>2, <1>3, LawfulLinear DEF PlainBlocks, Lawful
<1>5. QED
    BY <1>1, <1>2, <1>3, <1>4

LEMMA UndoFacts ==
    ASSUME ReorgInv, pc \in UndoPCs
    PROVE  /\ chain # <<>> /\ job \in UndoJob /\ job.i \in Nat \ {0}
           /\ job.view = CoinsAt(chain, Len(chain) - 1)
           /\ supply = SupplyAt(chain, Len(chain) - 1) /\ job.fClean
<1>1. chain # <<>> /\ job \in UndoJob
    BY DEF ReorgInv, SafeInv, TypeOK
<1>2. QED
    BY <1>1 DEF ReorgInv, AssetInv, SupplyInv, UndoJob

\* The reversal of the supply is never refused.
LEMMA SupplyUndone ==
    ASSUME RulesFromGenesis, PlainBlocks, ReorgInv, UndoSupply
    PROVE  AssetInv'
<1> DEFINE n == Len(chain)
           j == n - 1
           blk == Tip
           x == MintedAt(chain, j)
           y == BurnedAt(chain, j)
           m == Total(MintedBy, blk)
           b == Total(BurnedBy, blk)
<1>1. /\ pc = "idle" /\ pc' = "undoOutpoint" /\ chain # <<>>
      /\ UNCHANGED <<chain, coins, authOutpoint, frozen>>
    BY DEF UndoSupply
<1>2. /\ chain \in Seq(Blocks) /\ Lawful(chain) /\ Linear(chain) /\ n \in Nat \ {0}
      /\ j \in 0..n /\ j \in Nat /\ j < n /\ j + 1 = n /\ coins = CoinsAt(chain, n)
      /\ blk \in Blocks /\ OneWay(blk) /\ SupplyInv /\ TrackerInv /\ FrozenInv
    BY <1>1, TipFacts
<1>3. supply = SupplyAt(chain, n) /\ Tracks(CoinsAt(chain, n), authOutpoint) /\ frozen = FrozenAt(chain, n)
    BY <1>1, <1>2 DEF SupplyInv, TrackerInv, FrozenInv, UndoPCs
<1>4. Active(n)
    BY <1>2, RulesOn
<1>5. /\ supply' = Reversed(supply, m, b)
      /\ job' = [fClean |-> ReversalOK(supply, m, b), i |-> 1, view |-> UndoCoins(coins, blk)]
    <2>1. supply' = Reversed(supply, m, b)
        BY <1>4 DEF UndoSupply
    <2>2. job' = [fClean |-> Active(n) => ReversalOK(supply, m, b), i |-> 1, view |-> UndoCoins(coins, blk)]
        BY DEF UndoSupply
    <2>3. (Active(n) => ReversalOK(supply, m, b)) = ReversalOK(supply, m, b)
        BY <1>4 DEF ReversalOK
    <2>4. QED
        BY <2>1, <2>2, <2>3
<1>6. x \in Nat /\ y \in Nat
    <2> HIDE DEF j
    <2>1. QED
        BY <1>2, ChainSums
<1>7. m \in Nat /\ b \in Nat /\ (m = 0 \/ b = 0)
    <2> HIDE DEF blk
    <2>1. m \in Nat /\ b \in Nat
        BY <1>2, BlockSums
    <2>2. QED
        BY <1>2, <2>1, OneTotalZero DEF OneWay
<1>8. supply = [minted |-> x + m, burned |-> y + b]
    <2> HIDE DEF j
    <2>1. /\ MintedAt(chain, j + 1) = MintedAt(chain, j) + Total(MintedBy, chain[j + 1])
          /\ BurnedAt(chain, j + 1) = BurnedAt(chain, j) + Total(BurnedBy, chain[j + 1])
        BY <1>2, ChainSums
    <2>2. QED
        BY <1>2, <1>3, <2>1 DEF SupplyAt, Tip
<1>9. y <= x
    <2> HIDE DEF j
    <2>1. \A h \in 1..Len(chain) : Valued(CoinsAt(chain, h - 1), chain[h], Len(chain[h]))
        BY <1>2 DEF Lawful, Accepted, Passes
    <2>2. Outstanding(SupplyAt(chain, j)) = Amount(CoinsAt(chain, j), {"asset"})
        BY <1>2, <2>1, ChainBacked
    <2>3. Amount(CoinsAt(chain, j), {"asset"}) \in Nat
        BY <1>2, CoinsType, AmountNat
    <2>4. x - y \in Nat
        BY <2>2, <2>3 DEF Outstanding, SupplyAt
    <2>5. QED
        BY <1>6, <2>4
<1>10. UndoCoins(coins, blk) = CoinsAt(chain, j)
    <2> HIDE DEF j
    <2>1. UndoCoins(CoinsAt(chain, j + 1), chain[j + 1]) = CoinsAt(chain, j)
        BY <1>2, ViewEnd
    <2>2. QED
        BY <1>2, <2>1 DEF Tip
<1> HIDE DEF x, y, m, b
<1>11. ReversalOK(supply, m, b) /\ Reversed(supply, m, b) = [minted |-> x, burned |-> y]
    <2>1. SupplyInvariant([minted |-> x + m, burned |-> y + b])
        BY <1>8 DEF ReorgInv, SafeInv
    <2>2. QED
        BY <1>6, <1>7, <1>8, <1>9, <2>1, ReversedIs
<1>12. supply' = SupplyAt(chain, j) /\ job'.fClean /\ job'.i = 1 /\ job'.view = CoinsAt(chain, j)
    <2> HIDE DEF j, blk
    <2>1. QED
        BY <1>5, <1>10, <1>11 DEF SupplyAt, x, y
<1>13. SupplyInv' /\ TrackerInv' /\ FrozenInv'
    BY <1>1, <1>3, <1>12 DEF SupplyInv, TrackerInv, FrozenInv, UndoPCs, ConnectPCs
<1>14. QED
    BY <1>1, <1>2, <1>12, <1>13 DEF AssetInv, ConnectPCs, UndoPCs

\* The tracker goes back to the marker the block spent first.
LEMMA OutpointUndone ==
    ASSUME RulesFromGenesis, PlainBlocks, ReorgInv, UndoOutpoint
    PROVE  AssetInv'
<1> DEFINE n == Len(chain)
           j == n - 1
           b == Tip
           v == CoinsAt(chain, j)
<1>1. /\ pc = "undoOutpoint" /\ pc' = "undoRegistry" /\ pc \in UndoPCs
      /\ UNCHANGED <<chain, coins, supply, frozen, job>>
    BY DEF UndoOutpoint, UndoPCs
<1>2. chain # <<>> /\ job \in UndoJob /\ job.view = v /\ supply = SupplyAt(chain, j) /\ job.fClean
    BY <1>1, UndoFacts
<1>3. /\ chain \in Seq(Blocks) /\ Lawful(chain) /\ Linear(chain) /\ n \in Nat \ {0}
      /\ j \in 0..n /\ j \in Nat /\ j < n /\ j + 1 = n /\ coins = CoinsAt(chain, n)
      /\ b \in Blocks /\ Len(b) \in Nat /\ DOMAIN b = 1..Len(b) /\ Accepted(chain, n)
      /\ SupplyInv /\ TrackerInv /\ FrozenInv
    BY <1>2, TipFacts
<1>4. Tracks(CoinsAt(chain, n), authOutpoint) /\ frozen = FrozenAt(chain, n) /\ job.i = 1
    BY <1>1, <1>3 DEF TrackerInv, FrozenInv
<1>5. authOutpoint' = IF AuthorityTxs(b) # {} THEN RestoredOutpoint(b, v) ELSE authOutpoint
    <2>1. Active(n)
        BY <1>3, RulesOn
    <2>2. QED
        BY <1>2, <2>1 DEF UndoOutpoint
<1>6. /\ Guarded(v, b, Len(b)) /\ Valued(v, b, Len(b))
      /\ \E o \in Outpoints \cup {NoOutpoint} : Tracks(v, o)
    BY <1>3 DEF Accepted, Passes, Tip
<1>7. Fits(v, b, Len(b)) /\ v \in SUBSET Outpoints
    <2> HIDE DEF j, b
    <2>1. v \in SUBSET Outpoints
        BY <1>3, CoinsType
    <2> HIDE DEF v
    <2>2. QED
        BY <1>6, <2>1, ValuedFits
<1>8. Tracks(v, authOutpoint')
    <2>1. CASE AuthorityTxs(b) # {}
        <3> HIDE DEF v, b
        <3>1. PICK o \in Outpoints \cup {NoOutpoint} : Tracks(v, o)
            BY <1>6
        <3>2. RestoredOutpoint(b, v) = o
            BY <1>3, <1>6, <1>7, <2>1, <3>1, Restored
        <3>3. QED
            BY <1>5, <2>1, <3>1, <3>2
    <2>2. CASE AuthorityTxs(b) = {}
        <3>1. \A k \in 1..Len(b) : ~IsAuthorityTx(b[k])
            BY <1>3, <2>2 DEF AuthorityTxs
        <3>2. ViewAt(v, b, Len(b)) = CoinsAt(chain, n)
            <4> HIDE DEF j
            <4>1. ViewAt(CoinsAt(chain, j), chain[j + 1], Len(chain[j + 1])) = CoinsAt(chain, j + 1)
                BY <1>3, ViewEnd
            <4>2. QED
                BY <1>3, <4>1 DEF Tip
        <3> HIDE DEF v, b
        <3>3. Markers(ViewAt(v, b, Len(b))) = Markers(v)
            BY <1>3, <1>6, <3>1, QuietMarkers
        <3>4. QED
            BY <1>4, <1>5, <2>2, <3>2, <3>3 DEF Tracks
    <2>3. QED
        BY <2>1, <2>2
<1>9. FrozenInv'
    <2>1. 1 - 1 = 0 /\ 1 <= Len(b) + 1
        BY <1>3
    <2>2. FrozenIn(b, 0) = {} /\ ThawedIn(b, 0) = {}
        <3> HIDE DEF b
        <3>1. QED
            BY FreezeStep
    <2>3. /\ frozen' = (FrozenAt(chain', Len(chain')) \ FrozenIn(chain'[Len(chain')], 0))
                          \cup ThawedIn(chain'[Len(chain')], 0)
          /\ job'.i - 1 = 0 /\ job'.i <= Len(chain'[Len(chain')]) + 1
        BY <1>1, <1>4, <2>1, <2>2 DEF Tip
    <2>4. QED
        BY <1>1, <2>3 DEF FrozenInv
<1>10. SupplyInv' /\ TrackerInv'
    BY <1>1, <1>2, <1>8 DEF SupplyInv, TrackerInv, UndoPCs, ConnectPCs
<1>11. QED
    BY <1>1, <1>2, <1>3, <1>9, <1>10 DEF AssetInv, ConnectPCs, UndoPCs

\* One operation is inverted.
LEMMA RegistryUndone ==
    ASSUME RulesFromGenesis, PlainBlocks, ReorgInv, UndoRegistry
    PROVE  AssetInv'
<1> DEFINE n == Len(chain)
           b == Tip
           m == job.i - 1
           t == b[job.i]
           x == Op[t].target
           G == FrozenAt(chain, n)
<1>1. /\ pc = "undoRegistry" /\ pc' = "undoRegistry" /\ pc \in UndoPCs /\ job.i <= Len(b)
      /\ UNCHANGED <<chain, coins, supply, authOutpoint>> /\ job' = [job EXCEPT !.i = job.i + 1]
    BY DEF UndoRegistry, UndoPCs
<1>2. /\ chain # <<>> /\ job \in UndoJob /\ job.view = CoinsAt(chain, n - 1) /\ job.i \in Nat \ {0}
      /\ supply = SupplyAt(chain, n - 1) /\ job.fClean
    BY <1>1, UndoFacts
<1>3. /\ job'.fClean = job.fClean /\ job'.view = job.view /\ job'.i = job.i + 1
    BY <1>1, <1>2 DEF UndoJob
<1>4. /\ Lawful(chain) /\ n \in Nat \ {0} /\ coins = CoinsAt(chain, n)
      /\ b \in Blocks /\ Len(b) \in Nat /\ OneWay(b) /\ SupplyInv /\ TrackerInv /\ FrozenInv
    BY <1>2, TipFacts
<1>5. /\ Tracks(CoinsAt(chain, n - 1), authOutpoint)
      /\ frozen = (G \ FrozenIn(b, m)) \cup ThawedIn(b, m)
    BY <1>1, <1>4 DEF TrackerInv, FrozenInv, Tip
<1>6. m \in Nat /\ m + 1 = job.i /\ m + 1 \in 0..Len(b) /\ t = b[m + 1]
    BY <1>1, <1>2, <1>4
<1>7. AppliedOp(t, n) = Tag(t)
    BY <1>4, RulesOn
<1>8. frozen' = CASE Tag(t) = "freeze" -> frozen \ {x}
                  [] Tag(t) = "unfreeze" -> frozen \cup {x}
                  [] OTHER -> frozen
    BY <1>7 DEF UndoRegistry
<1>9. x = Op[b[m + 1]].target
    BY <1>6
<1> HIDE DEF b, m, t, x, G
<1>10. /\ FrozenIn(b, m + 1) = FrozenIn(b, m) \cup (IF Tag(t) = "freeze" THEN {x} ELSE {})
       /\ ThawedIn(b, m + 1) = ThawedIn(b, m) \cup (IF Tag(t) = "unfreeze" THEN {x} ELSE {})
    BY <1>6, <1>9, FreezeStep
<1>11. FrozenIn(b, m + 1) \cap ThawedIn(b, m + 1) = {}
    BY <1>4, <1>6, FreezeDisjoint
<1>12. frozen' = (G \ FrozenIn(b, m + 1)) \cup ThawedIn(b, m + 1)
    <2>1. CASE Tag(t) = "freeze"
        BY <1>5, <1>8, <1>10, <1>11, <2>1
    <2>2. CASE Tag(t) = "unfreeze"
        BY <1>5, <1>8, <1>10, <1>11, <2>2
    <2>3. CASE Tag(t) \notin {"freeze", "unfreeze"}
        BY <1>5, <1>8, <1>10, <1>11, <2>3
    <2>4. QED
        BY <2>1, <2>2, <2>3
<1>13. FrozenInv'
    <2>1. job'.i - 1 = m + 1 /\ job'.i <= Len(b) + 1
        BY <1>3, <1>4, <1>6
    <2>2. G = FrozenAt(chain', Len(chain')) /\ b = chain'[Len(chain')]
        BY <1>1 DEF G, b, Tip
    <2>3. QED
        BY <1>1, <1>12, <2>1, <2>2 DEF FrozenInv
<1>14. SupplyInv' /\ TrackerInv'
    BY <1>1, <1>2, <1>3, <1>5 DEF SupplyInv, TrackerInv, UndoPCs, ConnectPCs
<1>15. QED
    BY <1>1, <1>2, <1>3, <1>4, <1>13, <1>14 DEF AssetInv, ConnectPCs, UndoPCs

\* DisconnectTip lowers the tip with the asset state of the chain below.
LEMMA TipDisconnected ==
    ASSUME RulesFromGenesis, PlainBlocks, ReorgInv, DisconnectTip
    PROVE  AssetInv'
<1> DEFINE c == chain
           n == Len(c)
           j == n - 1
           b == c[n]
           F == FrozenAt(c, j)
           v == CoinsAt(c, j)
<1>1. /\ pc = "undoRegistry" /\ pc' = "idle" /\ pc \in UndoPCs /\ UNCHANGED asset
      /\ job.i > Len(Tip)
    BY DEF DisconnectTip, UndoPCs, Abandon
<1>2. /\ c # <<>> /\ job.view = v /\ job.i \in Nat \ {0} /\ supply = SupplyAt(c, j) /\ job.fClean
    BY <1>1, UndoFacts
<1>3. /\ c \in Seq(Blocks) /\ Lawful(c) /\ n \in Nat /\ j \in Nat /\ j < n /\ j + 1 = n
      /\ b \in Blocks /\ Len(b) \in Nat /\ Accepted(c, n) /\ TrackerInv /\ FrozenInv /\ Tip = b
    BY <1>2, TipFacts DEF Tip
<1>4. /\ Tracks(v, authOutpoint) /\ job.i <= Len(b) + 1
      /\ frozen = (FrozenAt(c, n) \ FrozenIn(b, job.i - 1)) \cup ThawedIn(b, job.i - 1)
    BY <1>1, <1>3 DEF TrackerInv, FrozenInv
<1>5. job.i - 1 = Len(b)
    BY <1>1, <1>2, <1>3, <1>4
<1>6. frozen = F
    <2>1. FreezeSound(F, v, b, Len(b))
        BY <1>3 DEF Accepted, Passes
    <2>2. FrozenAt(c, n) = FrozenAfter(F, b, Len(b))
        <3> HIDE DEF c, j
        <3>1. FrozenAt(c, j + 1) = FrozenAfter(FrozenAt(c, j), c[j + 1], Len(c[j + 1]))
            BY <1>3, ChainFrozen
        <3>2. QED
            BY <1>3, <3>1
    <2> HIDE DEF F, v, b, c, n
    <2>3. frozen = (FrozenAt(c, n) \ FrozenIn(b, Len(b))) \cup ThawedIn(b, Len(b))
        BY <1>4, <1>5
    <2>4. FrozenIn(b, Len(b)) \cap F = {} /\ ThawedIn(b, Len(b)) \subseteq F
        BY <2>1 DEF FreezeSound
    <2>5. QED
        BY <2>2, <2>3, <2>4 DEF FrozenAfter
<1> DEFINE d == SubSeq(c, 1, j)
<1>7. chain' = d /\ coins' = v
    BY <1>2 DEF DisconnectTip
<1>8. d \in Seq(Blocks) /\ Len(d) = j /\ \A h \in 1..j : d[h] = c[h]
    BY <1>3
<1> HIDE DEF d
<1>9. /\ \A h \in 1..j : Accepted(d, h)
      /\ CoinsAt(d, j) = CoinsAt(c, j) /\ SupplyAt(d, j) = SupplyAt(c, j) /\ FrozenAt(d, j) = FrozenAt(c, j)
    <2>1. j <= Len(c) /\ j <= Len(d)
        BY <1>3, <1>8
    <2> HIDE DEF c, j
    <2>2. QED
        BY <1>3, <1>8, <2>1, LawfulShared
<1>10. Lawful(chain')
    BY <1>7, <1>8, <1>9 DEF Lawful
<1>11. AtTip(chain)'
    BY <1>1, <1>2, <1>4, <1>6, <1>7, <1>8, <1>9 DEF AtTip, asset
<1>12. QED
    BY <1>1, <1>10, <1>11 DEF AssetInv, AtTip, SupplyInv, TrackerInv, FrozenInv, ConnectPCs, UndoPCs

LEMMA StartAssets == Init => AssetInv
<1> SUFFICES ASSUME Init PROVE AssetInv
    OBVIOUS
<1>1. chain = <<>> /\ Len(chain) = 0 /\ chain \in Seq(Blocks) /\ pc = "idle"
    BY DEF Init
<1>2. Lawful(chain)
    BY <1>1 DEF Lawful
<1>3. supply = SupplyAt(chain, 0)
    BY <1>1, ChainSums DEF Init
<1>4. coins = CoinsAt(chain, 0) /\ Tracks(CoinsAt(chain, 0), authOutpoint)
    <2>1. CoinsAt(chain, 0) = GenesisCoins
        BY ChainStep DEF CoinsAt
    <2>2. QED
        BY <2>1, OutpointsAssumption DEF Tracks, Markers, Init
<1>5. frozen = FrozenAt(chain, 0)
    BY ChainFrozen DEF Init
<1>6. AtTip(chain)
    BY <1>1, <1>3, <1>4, <1>5 DEF AtTip
<1>7. QED
    BY <1>1, <1>2, <1>6, RestingAssets

LEMMA ReorgInvStarts == Init => ReorgInv
BY SafeStart, StartAssets DEF ReorgInv

LEMMA ReorgInvKept ==
    ASSUME RulesFromGenesis, PlainBlocks, ReorgInv, [Next]_vars
    PROVE  ReorgInv'
<1>1. CASE Connecting
    BY <1>1, ConnectSafe, ConnectAssets DEF ReorgInv
<1>2. CASE Disconnecting
    <2>1. SafeInv'
        BY <1>2, DisconnectSafe DEF ReorgInv
    <2>2. AssetInv'
        BY <1>2, SupplyUndone, OutpointUndone, RegistryUndone, TipDisconnected DEF Disconnecting
    <2>3. QED
        BY <2>1, <2>2 DEF ReorgInv
<1>3. CASE UNCHANGED vars
    <2>1. SafeInv'
        BY <1>3 DEF ReorgInv, SafeInv, TypeOK, vars, asset
    <2>2. AssetInv'
        BY <1>3 DEF ReorgInv, AssetInv, Gathered, Pending, Passed, SupplyInv, TrackerInv, FrozenInv,
                    vars, asset
    <2>3. QED
        BY <2>1, <2>2 DEF ReorgInv
<1>4. QED
    BY <1>1, <1>2, <1>3 DEF Next

\* No reorganisation is refused: the supply counter lets every tip that was
\* connected be disconnected again.
THEOREM ReorgsNotRefused ==
    ASSUME RulesFromGenesis, PlainBlocks
    PROVE  Spec => []DisconnectClean
<1>1. ReorgInv /\ [Next]_vars => ReorgInv'
    BY ReorgInvKept
<1>2. ReorgInv => DisconnectClean
    BY DEF ReorgInv, AssetInv, SupplyInv, DisconnectClean
<1>3. QED
    BY <1>1, <1>2, ReorgInvStarts, PTL DEF Spec
-----------------------------------------------------------------------------
(* The satoshis declared on the chain are the ones counted.                 *)

\* The positions of the operations with a tag, and the satoshis they declare.
PosIn(tag, c, h, m) == {<<h, k>> : k \in {j \in 1..m : Tag(c[h][j]) = tag}}
PosUpTo(tag, c, n) == UNION {PosIn(tag, c, h, Len(c[h])) : h \in 1..n}
DeclaredBy(tag, t) == IF Tag(t) = tag THEN Op[t].sats ELSE 0
BlockSats(tag, b, m) == SumFunctionOnSet([k \in DOMAIN b |-> DeclaredBy(tag, b[k])], 1..m)
ChainSats(tag, c, n) == SumFunctionOnSet([h \in DOMAIN c |-> BlockSats(tag, c[h], Len(c[h]))], 1..n)

LEMMA SatsOfBlock ==
    ASSUME NEW tag, NEW c \in Seq(Blocks), NEW h \in 1..Len(c), NEW f,
           \A k \in 1..Len(c[h]) : f[<<h, k>>] = Op[c[h][k]].sats, NEW n \in 0..Len(c[h])
    PROVE  /\ IsFiniteSet(PosIn(tag, c, h, n)) /\ BlockSats(tag, c[h], n) \in Nat
           /\ SumFunctionOnSet(f, PosIn(tag, c, h, n)) = BlockSats(tag, c[h], n)
<1> DEFINE b == c[h]
           N == Len(b)
           g == [k \in DOMAIN b |-> DeclaredBy(tag, b[k])]
           S(m) == PosIn(tag, c, h, m)
           P == {m \in 0..N : /\ IsFiniteSet(S(m))
                              /\ SumFunctionOnSet(f, S(m)) = SumFunctionOnSet(g, 1..m)}
<1>1. b \in Blocks /\ N \in Nat /\ DOMAIN b = 1..N /\ \A k \in 1..N : b[k] \in Txs
    BY ChainTx
<1>2. \A k \in 1..N : g[k] = DeclaredBy(tag, b[k]) /\ g[k] \in Nat /\ f[<<h, k>>] \in Nat
    BY <1>1, OpTypes DEF DeclaredBy
<1>3. /\ SumFunctionOnSet(g, 1..0) = 0
      /\ \A m \in 0..N : SumFunctionOnSet(g, 1..m) \in Nat
      /\ \A m \in Nat : m < N => SumFunctionOnSet(g, 1..(m + 1)) = SumFunctionOnSet(g, 1..m) + g[m + 1]
    <2> HIDE DEF g, N, b
    <2>1. QED
        BY <1>1, <1>2, PrefixSum
<1>4. 0 \in P
    <2>1. S(0) = {}
        <3>1. 1..0 = {}
            OBVIOUS
        <3>2. QED
            BY <3>1 DEF PosIn
    <2>2. IsFiniteSet(S(0)) /\ SumFunctionOnSet(f, S(0)) = 0
        BY <2>1, FS_EmptySet, SumEmpty, Zenon
    <2>3. QED
        BY <1>1, <1>3, <2>2
<1>5. ASSUME NEW k \in 1..N, k - 1 \in P PROVE k \in P
    <2> DEFINE m == k - 1
               z == <<h, k>>
    <2>1. m \in Nat /\ m < N /\ m + 1 = k /\ m \in 0..N /\ k \in 0..N /\ 1..k = (1..m) \cup {k}
        BY <1>1
    <2>2. IsFiniteSet(S(m)) /\ SumFunctionOnSet(f, S(m)) = SumFunctionOnSet(g, 1..m)
        BY <1>5
    <2>3. SumFunctionOnSet(g, 1..k) = SumFunctionOnSet(g, 1..m) + DeclaredBy(tag, b[k])
        <3> HIDE DEF m
        <3>1. SumFunctionOnSet(g, 1..(m + 1)) = SumFunctionOnSet(g, 1..m) + g[m + 1]
            BY <1>3, <2>1
        <3>2. QED
            BY <1>2, <2>1, <3>1
    <2>4. S(k) = S(m) \cup (IF Tag(b[k]) = tag THEN {z} ELSE {})
        BY <2>1 DEF PosIn
    <2>5. CASE Tag(b[k]) = tag
        <3>1. S(k) = S(m) \cup {z} /\ z \notin S(m)
            BY <2>1, <2>4, <2>5 DEF PosIn
        <3>2. \A x \in S(m) \cup {z} : f[x] \in Int
            <4> SUFFICES ASSUME NEW x \in S(m) \cup {z} PROVE f[x] \in Nat
                OBVIOUS
            <4>1. PICK i \in 1..N : x = <<h, i>>
                BY <2>1 DEF PosIn
            <4>2. f[<<h, i>>] \in Nat
                BY <1>2
            <4>3. QED
                BY <4>1, <4>2
        <3>3. f[z] = DeclaredBy(tag, b[k])
            BY <2>5 DEF DeclaredBy
        <3>4. IsFiniteSet(S(m) \cup {z})
            <4> HIDE DEF S, z
            <4>1. QED
                BY <2>2, FS_AddElement
        <3>5. SumFunctionOnSet(f, S(m) \cup {z}) = SumFunctionOnSet(f, S(m)) + f[z]
            <4> HIDE DEF S, z
            <4>1. QED
                BY <2>2, <3>1, <3>2, SumAdd
        <3> HIDE DEF S, m, g, z
        <3>6. QED
            BY <2>1, <2>2, <2>3, <3>1, <3>3, <3>4, <3>5
    <2>6. CASE Tag(b[k]) # tag
        <3>1. S(k) = S(m) /\ DeclaredBy(tag, b[k]) = 0
            BY <2>4, <2>6 DEF DeclaredBy
        <3>2. SumFunctionOnSet(g, 1..m) \in Nat
            BY <1>3, <2>1
        <3> HIDE DEF S, m, g
        <3>3. QED
            BY <2>1, <2>2, <2>3, <3>1, <3>2
    <2>7. QED
        BY <2>5, <2>6
<1>6. n \in P
    <2> HIDE DEF P
    <2>1. QED
        BY <1>1, <1>4, <1>5, IntervalInduction
<1>7. QED
    BY <1>3, <1>6 DEF BlockSats

LEMMA SatsOfChain ==
    ASSUME NEW tag, NEW c \in Seq(Blocks), NEW f, NEW n \in 0..Len(c),
           \A h \in 1..Len(c) : \A k \in 1..Len(c[h]) : f[<<h, k>>] = Op[c[h][k]].sats
    PROVE  IsFiniteSet(PosUpTo(tag, c, n)) /\ SumFunctionOnSet(f, PosUpTo(tag, c, n)) = ChainSats(tag, c, n)
<1> DEFINE N == Len(c)
           g == [h \in DOMAIN c |-> BlockSats(tag, c[h], Len(c[h]))]
           S(m) == PosUpTo(tag, c, m)
           B(h) == PosIn(tag, c, h, Len(c[h]))
           P == {m \in 0..N : /\ IsFiniteSet(S(m))
                              /\ SumFunctionOnSet(f, S(m)) = SumFunctionOnSet(g, 1..m)}
<1>1. N \in Nat /\ DOMAIN c = 1..N
    OBVIOUS
<1>2. ASSUME NEW h \in 1..N
      PROVE  g[h] \in Nat /\ IsFiniteSet(B(h)) /\ SumFunctionOnSet(f, B(h)) = g[h]
    <2> DEFINE l == Len(c[h])
    <2>1. l \in Nat /\ l \in 0..l
        BY ChainTx
    <2>2. g[h] = BlockSats(tag, c[h], l)
        BY <1>1
    <2>3. \A k \in 1..Len(c[h]) : f[<<h, k>>] = Op[c[h][k]].sats
        OBVIOUS
    <2>4. l \in 0..Len(c[h]) /\ B(h) = PosIn(tag, c, h, l) /\ h \in 1..Len(c)
        BY <2>1
    <2> HIDE DEF l, g, B, N
    <2>5. /\ IsFiniteSet(PosIn(tag, c, h, l)) /\ BlockSats(tag, c[h], l) \in Nat
          /\ SumFunctionOnSet(f, PosIn(tag, c, h, l)) = BlockSats(tag, c[h], l)
        BY <2>3, <2>4, SatsOfBlock
    <2>6. QED
        BY <2>2, <2>4, <2>5
<1>3. /\ SumFunctionOnSet(g, 1..0) = 0
      /\ \A m \in 0..N : SumFunctionOnSet(g, 1..m) \in Nat
      /\ \A m \in Nat : m < N => SumFunctionOnSet(g, 1..(m + 1)) = SumFunctionOnSet(g, 1..m) + g[m + 1]
    <2> HIDE DEF g, N
    <2>1. QED
        BY <1>1, <1>2, PrefixSum
<1>4. 0 \in P
    <2>1. S(0) = {}
        <3>1. 1..0 = {}
            OBVIOUS
        <3>2. QED
            BY <3>1 DEF PosUpTo
    <2>2. IsFiniteSet(S(0)) /\ SumFunctionOnSet(f, S(0)) = 0
        BY <2>1, FS_EmptySet, SumEmpty, Zenon
    <2>3. QED
        BY <1>1, <1>3, <2>2
<1>5. ASSUME NEW h \in 1..N, h - 1 \in P PROVE h \in P
    <2> DEFINE m == h - 1
    <2>1. m \in Nat /\ m < N /\ m + 1 = h /\ m \in 0..N /\ h \in 0..N /\ 1..h = (1..m) \cup {h} /\ h \notin 1..m
        BY <1>1
    <2>2. IsFiniteSet(S(m)) /\ SumFunctionOnSet(f, S(m)) = SumFunctionOnSet(g, 1..m)
        BY <1>5
    <2>3. SumFunctionOnSet(g, 1..h) = SumFunctionOnSet(g, 1..m) + g[h]
        <3> HIDE DEF m, g
        <3>1. SumFunctionOnSet(g, 1..(m + 1)) = SumFunctionOnSet(g, 1..m) + g[m + 1]
            BY <1>3, <2>1
        <3>2. QED
            BY <2>1, <3>1
    <2>4. S(h) = S(m) \cup B(h)
        <3>1. \A i, p : p \in S(i) <=> \E k \in 1..i : p \in B(k)
            BY DEF PosUpTo
        <3> HIDE DEF m, S, B
        <3>2. QED
            BY <2>1, <3>1
    <2>5. S(m) \cap B(h) = {}
        <3> HIDE DEF m
        <3>1. QED
            BY <2>1 DEF PosUpTo, PosIn
    <2>6. \A x \in S(m) \cup B(h) : f[x] \in Int
        <3>1. ASSUME NEW i \in 1..N, NEW x \in B(i) PROVE f[x] \in Int
            <4>1. PICK k \in 1..Len(c[i]) : x = <<i, k>>
                BY DEF PosIn
            <4>2. f[x] = Op[c[i][k]].sats /\ c[i][k] \in Txs
                BY <4>1, ChainTx
            <4>3. QED
                BY <4>2, OpTypes
        <3>2. \A x \in S(m) : \E i \in 1..N : x \in B(i)
            BY <2>1 DEF PosUpTo
        <3> HIDE DEF B, S, m
        <3>3. QED
            BY <3>1, <3>2
    <2> HIDE DEF B, S, m, g
    <2>7. SumFunctionOnSet(f, S(m) \cup B(h)) = SumFunctionOnSet(f, S(m)) + SumFunctionOnSet(f, B(h))
        BY <1>2, <2>2, <2>5, <2>6, SumUnion
    <2>8. IsFiniteSet(S(m) \cup B(h))
        BY <1>2, <2>2, FS_Union
    <2>9. QED
        BY <1>2, <2>1, <2>2, <2>3, <2>4, <2>7, <2>8
<1>6. n \in P
    <2> HIDE DEF P
    <2>1. QED
        BY <1>1, <1>4, <1>5, IntervalInduction
<1>7. QED
    BY <1>6 DEF ChainSats

\* On a lawful chain the flows are the declared ones.
LEMMA DeclaredFlows ==
    ASSUME NEW c \in Seq(Blocks), Lawful(c)
    PROVE  /\ MintedAt(c, Len(c)) = ChainSats("mint", c, Len(c))
           /\ BurnedAt(c, Len(c)) = ChainSats("burn", c, Len(c))
<1>1. Len(c) \in Nat /\ DOMAIN c = 1..Len(c) /\ IsFiniteSet(1..Len(c))
    BY FS_Interval
<1>2. ASSUME NEW h \in 1..Len(c)
      PROVE  /\ Total(MintedBy, c[h]) = BlockSats("mint", c[h], Len(c[h]))
             /\ Total(BurnedBy, c[h]) = BlockSats("burn", c[h], Len(c[h]))
    <2> DEFINE b == c[h]
               N == Len(b)
    <2>1. b \in Blocks /\ N \in Nat /\ DOMAIN b = 1..N /\ IsFiniteSet(1..N)
        BY ChainTx, FS_Interval
    <2>2. Declared(b, N)
        BY DEF Lawful, Accepted, Passes
    <2>3. \A k \in 1..N : MintedBy(b[k]) = DeclaredBy("mint", b[k]) /\ BurnedBy(b[k]) = DeclaredBy("burn", b[k])
        BY <2>2 DEF Declared, MintDeclared, BurnDeclared, DeclaredBy
    <2> HIDE DEF b
    <2>4. MintedUpTo(b, N) = BlockSats("mint", b, N)
        BY <2>1, <2>3, SumSame DEF MintedUpTo, BlockSats
    <2>5. BurnedUpTo(b, N) = BlockSats("burn", b, N)
        BY <2>1, <2>3, SumSame DEF BurnedUpTo, BlockSats
    <2>6. Total(MintedBy, b) = MintedUpTo(b, N) /\ Total(BurnedBy, b) = BurnedUpTo(b, N)
        BY <2>1, BlockSums
    <2>7. QED
        BY <2>4, <2>5, <2>6 DEF b
<1>3. MintedAt(c, Len(c)) = ChainSats("mint", c, Len(c))
    BY <1>1, <1>2, SumSame DEF MintedAt, ChainSats
<1>4. BurnedAt(c, Len(c)) = ChainSats("burn", c, Len(c))
    BY <1>1, <1>2, SumSame DEF BurnedAt, ChainSats
<1>5. QED
    BY <1>3, <1>4

\* The reference sum over the operations applied on the active chain.
LEMMA AppliedSats ==
    ASSUME RulesFromGenesis, NEW tag, chain \in Seq(Blocks)
    PROVE  Sats(OpsApplied(tag)) = ChainSats(tag, chain, Len(chain))
<1> DEFINE c == chain
           N == Len(c)
           ps == PosUpTo(tag, c, N)
           f == [p \in ps |-> Op[TxAt(p)].sats]
           g == [p \in (1..N) \X Nat |-> Op[TxAt(p)].sats]
<1>1. N \in Nat /\ N \in 0..N /\ DOMAIN c = 1..N
    OBVIOUS
<1>2. OpsApplied(tag) = ps
    <2>1. \A p : p \in Positions <=> \E h \in 1..N : \E k \in 1..Len(c[h]) : p = <<h, k>>
        <3>1. \A h \in 1..N : DOMAIN c[h] = 1..Len(c[h])
            BY ChainTx
        <3>2. QED
            BY <1>1, <3>1 DEF Positions, OpsAt
    <2>2. ASSUME NEW h \in 1..N, NEW k \in 1..Len(c[h])
          PROVE  AppliedOp(TxAt(<<h, k>>), <<h, k>>[1]) = Tag(c[h][k])
        BY RulesOn DEF TxAt
    <2>3. \A p : p \in OpsApplied(tag) <=> \E h \in 1..N : \E k \in 1..Len(c[h]) : p = <<h, k>> /\ Tag(c[h][k]) = tag
        BY <2>1, <2>2 DEF OpsApplied
    <2>4. \A p : p \in ps <=> \E h \in 1..N : \E k \in 1..Len(c[h]) : p = <<h, k>> /\ Tag(c[h][k]) = tag
        BY DEF PosUpTo, PosIn
    <2> HIDE DEF ps
    <2>5. QED
        BY <2>3, <2>4
<1>3. \A h \in 1..N : \A k \in 1..Len(c[h]) : g[<<h, k>>] = Op[c[h][k]].sats
    BY DEF TxAt
<1>4. \A p \in ps : p \in (1..N) \X Nat
    <2>1. \A h \in 1..N : Len(c[h]) \in Nat
        BY ChainTx
    <2>2. QED
        BY <2>1 DEF PosUpTo, PosIn
<1>5. IsFiniteSet(ps) /\ SumFunctionOnSet(g, ps) = ChainSats(tag, c, N)
    <2> HIDE DEF g
    <2>1. QED
        BY <1>1, <1>3, SatsOfChain
<1>6. \A p \in ps : f[p] = g[p]
    BY <1>4
<1>7. SumFunctionOnSet(f, ps) = SumFunctionOnSet(g, ps)
    <2> HIDE DEF f, g, ps
    <2>1. QED
        BY <1>5, <1>6, SumSame
<1>8. Sats(ps) = SumFunctionOnSet(f, ps)
    <2>1. Sats(ps) = SumFunctionOnSet(f, DOMAIN f) /\ DOMAIN f = ps
        BY Zenon DEF Sats, SumFunction
    <2>2. QED
        BY <2>1
<1>9. QED
    BY <1>2, <1>5, <1>7, <1>8

\* Every frozen outpoint of a lawful chain is an unspent BTCSOQ output.
LEMMA ChainFrozenLive ==
    ASSUME PlainBlocks, NEW c \in Seq(Blocks), Lawful(c), NEW n \in 0..Len(c)
    PROVE  FrozenAt(c, n) \subseteq {o \in CoinsAt(c, n) : Kind[o] = "asset"}
<1> DEFINE A(m) == {o \in CoinsAt(c, m) : Kind[o] = "asset"}
           P == {m \in 0..Len(c) : FrozenAt(c, m) \subseteq A(m)}
<1>0. Len(c) \in Nat
    OBVIOUS
<1>1. 0 \in P
    BY <1>0, ChainFrozen
<1>2. ASSUME NEW h \in 1..Len(c), h - 1 \in P PROVE h \in P
    <2> DEFINE j == h - 1
               b == c[h]
               v == CoinsAt(c, j)
               F == FrozenAt(c, j)
    <2>1. j \in Nat /\ j < Len(c) /\ j + 1 = h /\ h \in 0..Len(c)
        BY <1>0
    <2>2. b \in Blocks /\ OneWay(b) /\ Len(b) \in Nat
        BY ChainTx DEF PlainBlocks
    <2>3. FreezeSound(F, v, b, Len(b)) /\ F \subseteq {o \in v : Kind[o] = "asset"}
        BY <1>2 DEF Lawful, Accepted, Passes
    <2>4. FrozenAt(c, h) = FrozenAfter(F, b, Len(b)) /\ CoinsAt(c, h) = ViewAt(v, b, Len(b))
        <3> HIDE DEF j
        <3>1. FrozenAt(c, j + 1) = FrozenAfter(FrozenAt(c, j), c[j + 1], Len(c[j + 1]))
            BY <2>1, ChainFrozen
        <3>2. ViewAt(CoinsAt(c, j), c[j + 1], Len(c[j + 1])) = CoinsAt(c, j + 1)
            BY <2>1, LawfulLinear, ViewEnd
        <3>3. QED
            BY <2>1, <3>1, <3>2
    <2> HIDE DEF b, v, F
    <2>5. ASSUME NEW o \in F \ ThawedIn(b, Len(b)) PROVE o \in ViewAt(v, b, Len(b)) /\ Kind[o] = "asset"
        <3>1. o \in v /\ Kind[o] = "asset"
            BY <2>3
        <3>2. ASSUME NEW k \in 1..Len(b) PROVE o \notin Ins(b[k])
            <4>1. k - 1 \in 0..Len(b)
                BY <2>2
            <4>2. ThawedIn(b, k - 1) \subseteq ThawedIn(b, Len(b))
                BY <2>2, <4>1, FreezeDisjoint
            <4>3. o \in FrozenAfter(F, b, k - 1)
                BY <4>2 DEF FrozenAfter
            <4>4. QED
                BY <2>3, <3>1, <4>3 DEF FreezeSound
        <3>3. o \notin InsUpTo(b, Len(b))
            BY <3>2 DEF InsUpTo
        <3>4. QED
            BY <3>1, <3>3 DEF ViewAt
    <2>6. FrozenIn(b, Len(b)) \subseteq {o \in ViewAt(v, b, Len(b)) : Kind[o] = "asset"}
        BY <2>3 DEF FreezeSound
    <2>7. QED
        BY <2>1, <2>4, <2>5, <2>6 DEF FrozenAfter
<1>3. n \in P
    <2> HIDE DEF P
    <2>1. QED
        BY <1>0, <1>1, <1>2, IntervalInduction
<1>4. QED
    BY <1>3

\* After any sequence of connects, refusals, dry runs and disconnects every
\* unit is backed: unspent BTCSOQ, the supply counter and the attested satoshis
\* less the released ones agree, the tracked outpoint is an unspent marker and
\* every frozen outpoint an unspent BTCSOQ output.
THEOREM EverySatoshiBacked ==
    ASSUME RulesFromGenesis, PlainBlocks
    PROVE  Spec => []AssetsMatchCoins
<1>1. ReorgInv /\ [Next]_vars => ReorgInv'
    BY ReorgInvKept
<1>2. ReorgInv => AssetsMatchCoins
    <2> SUFFICES ASSUME ReorgInv PROVE AssetsMatchCoins
        OBVIOUS
    <2> DEFINE n == Len(chain)
    <2>1. TypeOK /\ chain \in Seq(Blocks) /\ n \in 0..n /\ coins = CoinsAt(chain, n)
        BY DEF ReorgInv, SafeInv, TypeOK, AssetInv
    <2>2. Lawful(chain) /\ Linear(chain) /\ (pc = "idle" => AtTip(chain))
        BY LawfulLinear, RestingAssets DEF ReorgInv, AssetInv
    <2>3. FullyBacked
        <3>1. \A h \in 1..Len(chain) : Valued(CoinsAt(chain, h - 1), chain[h], Len(chain[h]))
            BY <2>2 DEF Lawful, Accepted, Passes
        <3>2. Outstanding(SupplyAt(chain, n)) = Amount(CoinsAt(chain, n), {"asset"})
            <4> HIDE DEF n
            <4>1. QED
                BY <2>1, <2>2, <3>1, ChainBacked DEF n
        <3>3. MintedAt(chain, n) = Sats(OpsApplied("mint")) /\ BurnedAt(chain, n) = Sats(OpsApplied("burn"))
            BY <2>1, <2>2, DeclaredFlows, AppliedSats
        <3>4. Outstanding(SupplyAt(chain, n)) = MintedAt(chain, n) - BurnedAt(chain, n)
            BY DEF Outstanding, SupplyAt
        <3>5. QED
            BY <2>1, <2>2, <3>2, <3>3, <3>4 DEF FullyBacked, AtTip
    <2>4. TrackerLive
        BY <2>1, <2>2 DEF TrackerLive, AtTip, Tracks, Markers
    <2>5. FrozenLive
        <3>1. FrozenAt(chain, n) \subseteq {o \in CoinsAt(chain, n) : Kind[o] = "asset"}
            BY <2>1, <2>2, ChainFrozenLive
        <3>2. QED
            BY <2>1, <2>2, <3>1 DEF FrozenLive, AtTip
    <2>6. QED
        BY <2>1, <2>3, <2>4, <2>5 DEF AssetsMatchCoins
<1>3. QED
    BY <1>1, <1>2, ReorgInvStarts, PTL DEF Spec

\* With no disconnect refused, the two theorems on deposits hold outright: one
\* deposit backs one mint, and the registry is that of the active chain.
THEOREM DepositsSafe ==
    ASSUME RulesFromGenesis, PlainBlocks
    PROVE  Spec => [](MintedOnce /\ DepositsOfChain)
<1>1. Spec => []DisconnectClean
    BY ReorgsNotRefused
<1>2. QED
    BY <1>1, DepositMintedOnce, RegistryIsChain, PTL
=============================================================================
