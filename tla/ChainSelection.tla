--------------------------- MODULE ChainSelection ---------------------------
(***************************************************************************)
(* Chain selection in validation.cpp: the block index and its failure      *)
(* flags, setBlockIndexCandidates, mapBlocksUnlinked, gFailedBlocks, the   *)
(* loop of ActivateBestChain, which lets go of cs_main between two         *)
(* improvements of the tip, the invalidateblock, reconsiderblock and       *)
(* preciousblock calls, pruning, and what a restart finds on disk.         *)
(*                                                                         *)
(* cs_main is `sec': only the thread inside ActivateBestChain's locked     *)
(* part takes its small steps; every other call is one step.               *)
(***************************************************************************)
EXTENDS Integers, FiniteSets

CONSTANTS
  Blocks,           \* every block there will be
  Genesis,
  Parent,           \* pprev, for the blocks other than Genesis
  Proof,            \* GetBlockProof of a block
  Addr,             \* the order of the index entries' addresses
  Threads,          \* message handler, RPC workers, import
  NoBlock,          \* NULL
  Settings,         \* what a node meets, see Setting
  MaxSeq,           \* bound on the sequence ids given out in one run
  MaxPairs,         \* bound on the copies of a pair of mapBlocksUnlinked at a call
  MaxPrecious       \* bound on the preciousblock calls on one tip

\* The blocks that arrive, those that ConnectBlock and those that
\* ContextualCheckBlock finds invalid, the threads and the calls that are made,
\* nMaxReorgDepth (0 when disabled) and MIN_BLOCKS_TO_KEEP.
Setting ==
  [blocks : SUBSET Blocks, bad : SUBSET Blocks, malformed : SUBSET Blocks,
   threads : SUBSET Threads, horizon : Nat, keep : Nat,
   ops : SUBSET {"invalidate", "reconsider", "precious", "prune", "crash"}]

ASSUME ChainAssumption ==
  /\ Genesis \in Blocks /\ NoBlock \notin Blocks
  /\ Parent \in [Blocks \ {Genesis} -> Blocks] /\ IsFiniteSet(Blocks) /\ IsFiniteSet(Threads)
  /\ \A S \in SUBSET Blocks :      \* every block descends from Genesis
       Genesis \in S /\ (\A b \in Blocks \ {Genesis} : Parent[b] \in S => b \in S) => S = Blocks
  /\ Proof \in [Blocks -> Nat \ {0}] /\ Addr \in [Blocks -> Nat]
  /\ MaxSeq \in Nat \ {0} /\ MaxPrecious \in Nat /\ MaxPairs \in Nat
  /\ Settings \subseteq Setting
  /\ \A s \in Settings : Genesis \in s.blocks \ (s.bad \cup s.malformed)

VARIABLES
  setting,    \* one of Settings
  idx,        \* mapBlockIndex: the part of each entry that is stored on disk
  linked,     \* the blocks with nChainTx # 0
  seq,        \* nSequenceId
  nextSeq,    \* nBlockSequenceId
  precious,   \* nLastPreciousChainwork and nBlockReverseSequenceId
  cand,       \* setBlockIndexCandidates
  pairs,      \* mapBlocksUnlinked, a multimap: the copies of (pprev, block)
  failedSet,  \* gFailedBlocks
  tip,        \* chainActive.Tip()
  dirty,      \* setDirtyBlockIndex
  thr,        \* per thread: in ActivateBestChain or not, and its pindexMostWork
  sec,        \* who holds cs_main inside ActivateBestChain, and where
  fault,      \* why the process stopped, "none" while it runs
  disk        \* block index database and best block of the coin database

index  == <<setting, idx, linked, seq, nextSeq, precious, pairs, failedSet, dirty>>
vars   == <<index, cand, tip, thr, sec, fault, disk>>

-----------------------------------------------------------------------------
(* The block tree. *)

\* A block and its ancestors.
Chain[b \in Blocks] == IF b = Genesis THEN {b} ELSE {b} \cup Chain[Parent[b]]

Height == [b \in Blocks |-> Cardinality(Chain[b]) - 1]

\* nChainWork
Work[b \in Blocks] ==
  IF b = Genesis THEN Proof[b] ELSE Work[Parent[b]] + Proof[b]

\* CBlockIndexWorkComparator, for the sequence ids s: a sorts before b.
WorseAt(s, a, b) ==
  \/ Work[a] < Work[b]
  \/ Work[a] = Work[b] /\ s[a] > s[b]
  \/ Work[a] = Work[b] /\ s[a] = s[b] /\ Addr[a] > Addr[b]

Worse(a, b) == WorseAt(seq, a, b)

Entry == [known : BOOLEAN, failedValid : BOOLEAN, failedChild : BOOLEAN,
          data : BOOLEAN, tx : BOOLEAN, scripts : BOOLEAN]

Unknown == [known |-> FALSE, failedValid |-> FALSE, failedChild |-> FALSE,
            data |-> FALSE, tx |-> FALSE, scripts |-> FALSE]

Known == {b \in Blocks : idx[b].known}

\* The blocks that mapBlocksUnlinked has pairs for.
unlinked == {b \in Blocks : pairs[b] > 0}

\* nStatus & BLOCK_FAILED_MASK
FailedIn(i, b) == i[b].failedValid \/ i[b].failedChild
Failed(b)      == FailedIn(idx, b)

\* A slip: nChainTx is not looked at.
SelectableUnlinked(i, l) == {b \in Blocks : i[b].tx /\ ~FailedIn(i, b)}

\* IsValid(BLOCK_VALID_TRANSACTIONS) && nChainTx
SelectableIn(i, l) == {b \in Blocks : i[b].tx /\ ~FailedIn(i, b) /\ b \in l}

\* A slip: the tip itself is dropped as well.
PrunedWithTip(s, c, t) == {b \in c : WorseAt(s, t, b)}

\* PruneBlockIndexCandidates: what is left of c when the tip is t.
Pruned(s, c, t) == {b \in c : ~WorseAt(s, b, t)}

\* The assert at its end, on what is left.
PruneFault(left) == IF left = {} THEN "candidates" ELSE "none"

\* The block of a chain that all the others are ancestors of.
TopOf(chain) == CHOOSE b \in chain : chain \subseteq Chain[b]

Idle   == [pc |-> "idle", most |-> NoBlock]
Loop   == [pc |-> "loop", most |-> NoBlock]
Free   == [pc |-> "free", by |-> NoBlock, old |-> NoBlock]

NoFailures == fault = "none"
Unlocked   == NoFailures /\ sec.pc = "free"
Quiet      == Unlocked /\ \A t \in Threads : thr[t].pc = "idle"

TypeOK ==
  /\ setting \in Settings
  /\ idx \in [Blocks -> Entry]
  /\ linked \subseteq Blocks /\ cand \subseteq Blocks
  /\ pairs \in [Blocks -> Nat] /\ failedSet \subseteq Blocks
  /\ dirty \subseteq Blocks /\ tip \in Blocks
  /\ seq \in [Blocks -> (-MaxPrecious)..MaxSeq] /\ nextSeq \in 1..(MaxSeq + 1)
  /\ precious \in [work : Nat, seq : (-MaxPrecious - 1)..-1]
  /\ thr \in [Threads -> [pc : {"idle", "loop"}, most : Blocks \cup {NoBlock}]]
  /\ sec \in {Free} \cup [pc : {"find", "step"}, by : Threads, old : Blocks]
  /\ fault \in {"none", "candidates", "failedit", "read"}
  /\ disk \in [idx : [Blocks -> Entry], best : Blocks]

Init ==
  /\ setting \in Settings
  /\ idx = [b \in Blocks |->
              IF b = Genesis
              THEN [Unknown EXCEPT !.known = TRUE, !.data = TRUE, !.tx = TRUE,
                                   !.scripts = TRUE]
              ELSE Unknown]
  /\ linked = {Genesis} /\ cand = {Genesis} /\ tip = Genesis
  /\ pairs = [b \in Blocks |-> 0] /\ failedSet = {} /\ dirty = {}
  /\ seq = [b \in Blocks |-> IF b = Genesis THEN 1 ELSE 0]
  /\ nextSeq = 2 /\ precious = [work |-> 0, seq |-> -1]
  /\ thr = [t \in Threads |-> Idle] /\ sec = Free
  /\ fault = "none"
  /\ disk = [idx |-> idx, best |-> Genesis]

-----------------------------------------------------------------------------
(* Headers and blocks arrive. *)

\* ContextualCheckBlockHeader's finality horizon, for a header on top of p.
WithinHorizon(p) ==
  setting.horizon > 0 => Cardinality(Chain[tip] \ Chain[p]) < setting.horizon

\* The blocks of gFailedBlocks that AcceptBlockHeader finds below p.
FailedBelow(p) ==
  IF idx[p].scripts /\ ~Failed(p) THEN {} ELSE failedSet \cap Chain[p]

\* AcceptBlockHeader of a header whose parent is in the index.
AcceptBlockHeader(b) ==
  /\ Unlocked
  /\ b \in setting.blocks \ Known /\ Parent[b] \in Known
  /\ ~Failed(Parent[b])
  /\ WithinHorizon(Parent[b])
  /\ IF FailedBelow(Parent[b]) = {}
     THEN /\ idx' = [idx EXCEPT ![b].known = TRUE]
          /\ dirty' = dirty \cup {b}
          /\ UNCHANGED fault
     ELSE \E f \in FailedBelow(Parent[b]) :
            IF ~idx[f].failedValid
            THEN fault' = "failedit" /\ UNCHANGED <<idx, dirty>>
            ELSE LET walked == Chain[Parent[b]] \ Chain[f] IN
                 /\ idx' = [x \in Blocks |->
                              [idx[x] EXCEPT !.failedChild = @ \/ x \in walked]]
                 /\ dirty' = dirty \cup walked
                 /\ UNCHANGED fault
  /\ UNCHANGED <<setting, linked, seq, nextSeq, precious, cand, pairs, failedSet,
                 tip, thr, sec, disk>>

\* What AcceptBlock requires before it stores a block.
Wanted(b, requested) ==
  /\ ~idx[b].data
  /\ ~requested => /\ ~idx[b].tx
                   /\ Work[b] > Work[tip]
                   /\ Height[b] <= Height[tip] + setting.keep

\* The blocks that ReceivedBlockTransactions(b) links: b, and what waits for it.
NowLinked(b) ==
  {x \in Blocks : b \in Chain[x] /\ (Chain[x] \ Chain[b]) \subseteq unlinked}

\* The turns of its queue that visit the blocks of S: one for b, and for each of
\* the others one for every copy of its pair.
Visits(b, S) == UNION {{x} \X (1..(IF x = b THEN 1 ELSE pairs[x])) : x \in S}

\* The sequence ids that a queue of pairs, level by level, leaves with the blocks
\* of S: each turn takes the next id, and the last one of a block counts.
Numberings(b, S) ==
  LET upTo(P) == nextSeq - 1 + Cardinality(Visits(b, P)) IN
  {s \in [S -> nextSeq..upTo(S)] :
     \A x \in S :
       /\ \A y \in S \ {x} : s[x] # s[y] /\ (Height[x] < Height[y] => s[x] < s[y])
       /\ s[x] \in upTo({y \in S : s[y] <= s[x]})..upTo({y \in S : Height[y] <= Height[x]})}

\* mapBlocksUnlinked with one more copy for each of the blocks, and without them.
Inserted(blocks) == [x \in Blocks |-> IF x \in blocks THEN pairs[x] + 1 ELSE pairs[x]]
Erased(blocks)   == [x \in Blocks |-> IF x \in blocks THEN 0 ELSE pairs[x]]

\* mapBlocksUnlinked when b arrives before its parent is linked.
Waiting(b) == IF Failed(Parent[b]) THEN pairs ELSE Inserted({b})

\* ReceivedBlockTransactions
ReceivedBlockTransactions(b) ==
  /\ idx' = [idx EXCEPT ![b].data = TRUE, ![b].tx = TRUE]
  /\ dirty' = dirty \cup {b}
  /\ IF Parent[b] \in linked
     THEN LET new == NowLinked(b) IN
          /\ nextSeq' = nextSeq + Cardinality(Visits(b, new))
          /\ nextSeq' <= MaxSeq + 1
          /\ \E s \in Numberings(b, new) :
               /\ seq' = [x \in Blocks |-> IF x \in new THEN s[x] ELSE seq[x]]
               /\ cand' = cand \cup {x \in new : ~WorseAt(seq', x, tip)}
          /\ linked' = linked \cup new
          /\ pairs' = Erased(new \ {b})
     ELSE /\ linked' = linked \ {b}
          /\ pairs' = Waiting(b)
          /\ UNCHANGED <<seq, nextSeq, cand>>

\* ProcessNewBlock of a block whose header is in the index.
ProcessNewBlock(t, b, requested) ==
  /\ Unlocked /\ t \in setting.threads /\ thr[t].pc = "idle"
  /\ b \in Known \ {Genesis} /\ ~Failed(b)
  /\ IF ~Wanted(b, requested)
     THEN /\ thr' = [thr EXCEPT ![t] = Loop]
          /\ UNCHANGED <<index, cand>>
     ELSE IF b \in setting.malformed
     THEN /\ idx' = [idx EXCEPT ![b].failedValid = TRUE]
          /\ dirty' = dirty \cup {b}
          /\ UNCHANGED <<thr, linked, seq, nextSeq, pairs, cand, failedSet,
                         precious>>
     ELSE /\ ReceivedBlockTransactions(b)
          /\ thr' = [thr EXCEPT ![t] = Loop]
          /\ UNCHANGED <<failedSet, precious>>
  /\ UNCHANGED <<setting, tip, sec, fault, disk>>

-----------------------------------------------------------------------------
(* ActivateBestChain. *)

\* The thread returns from ActivateBestChain.
Return(t) == sec' = Free /\ thr' = [thr EXCEPT ![t] = Idle]

\* The lock is let go between two rounds of the loop; m is pindexMostWork.
NextRound(t, m) ==
  sec' = Free /\ thr' = [thr EXCEPT ![t] = [pc |-> "loop", most |-> m]]

\* A round begins: cs_main is taken, with pindexMostWork of the round before.
EnterRound(t) ==
  /\ Unlocked /\ thr[t].pc = "loop"
  /\ IF thr[t].most = tip
     THEN Return(t)
     ELSE /\ sec' = [pc  |-> IF thr[t].most = NoBlock THEN "find" ELSE "step",
                     by  |-> t, old |-> tip]
          /\ UNCHANGED thr
  /\ UNCHANGED <<index, cand, tip, fault, disk>>

\* A slip: the set is read from its other end.
BestFirst == CHOOSE b \in cand : \A c \in cand : ~Worse(c, b)

\* The best candidate.
Best == CHOOSE b \in cand : \A c \in cand : ~Worse(b, c)

\* The blocks on its way to the active chain that cannot be used.
Obstacles == {b \in Chain[Best] \ Chain[tip] : Failed(b) \/ ~idx[b].data}

\* mapBlocksUnlinked when the blocks beyond the first obstacle are given up.
SetAside(first, beyond) ==
  IF Failed(first) THEN pairs ELSE Inserted(beyond)

\* One turn of FindMostWorkChain's loop, and the test that follows the call.
FindMostWorkChain(t) ==
  /\ NoFailures /\ sec.pc = "find" /\ sec.by = t
  /\ \/ /\ cand # {} => (Obstacles = {} /\ Best = tip)
        /\ Return(t)
        /\ UNCHANGED <<idx, cand, pairs>>
     \/ /\ cand # {} /\ Obstacles = {} /\ Best # tip
        /\ thr' = [thr EXCEPT ![t].most = Best]
        /\ sec' = [sec EXCEPT !.pc = "step"]
        /\ UNCHANGED <<idx, cand, pairs>>
     \/ /\ cand # {} /\ Obstacles # {}
        /\ LET first  == TopOf(Obstacles)
               beyond == Chain[Best] \ Chain[first]
           IN /\ cand' = cand \ (beyond \cup {first})
              /\ idx' = [x \in Blocks |->
                           [idx[x] EXCEPT !.failedChild =
                              @ \/ (Failed(first) /\ x \in beyond)]]
              /\ pairs' = SetAside(first, beyond)
        /\ UNCHANGED <<thr, sec>>
  /\ UNCHANGED <<setting, linked, seq, nextSeq, precious, failedSet, tip, dirty, fault,
                 disk>>

\* The locked part of ActivateBestChainStep.
Stepping(t) == NoFailures /\ sec.pc = "step" /\ sec.by = t

\* DisconnectTip, and the end of the round when that reaches pindexMostWork.
DisconnectTip(t) ==
  /\ Stepping(t)
  /\ tip \notin Chain[thr[t].most]
  /\ IF ~idx[tip].data
     THEN fault' = "read" /\ UNCHANGED <<tip, thr, sec>>
     ELSE /\ tip' = Parent[tip]
          /\ IF tip' = thr[t].most THEN Return(t) ELSE UNCHANGED <<thr, sec>>
          /\ UNCHANGED fault
  /\ UNCHANGED <<index, cand, disk>>

\* The next block of vpindexToConnect.
NextToConnect(t) == CHOOSE b \in Chain[thr[t].most] \ {Genesis} : Parent[b] = tip

\* ConnectTip of a block that ConnectBlock accepts, PruneBlockIndexCandidates
\* and the test for progress; AbortNode when the block cannot be read.
ConnectTip(t) ==
  /\ Stepping(t)
  /\ tip \in Chain[thr[t].most]
  /\ LET b == NextToConnect(t) IN
     /\ b \in setting.bad => ~idx[b].data
     /\ IF ~idx[b].data
        THEN fault' = "read" /\ UNCHANGED <<idx, dirty, cand, tip, thr, sec>>
        ELSE /\ tip' = b
             /\ idx' = [idx EXCEPT ![b].scripts = @ \/ ~Failed(b)]
             /\ dirty' = IF idx[b].scripts /\ ~Failed(b) THEN dirty
                                                        ELSE dirty \cup {b}
             /\ cand' = Pruned(seq, cand, b)
             /\ fault' = PruneFault(cand')
             /\ IF b = thr[t].most THEN Return(t)
                ELSE IF Work[b] > Work[sec.old] THEN NextRound(t, thr[t].most)
                ELSE UNCHANGED <<thr, sec>>
  /\ UNCHANGED <<setting, linked, seq, nextSeq, precious, pairs, failedSet, disk>>

\* A slip: the target of the round is kept.
MostKept(t) == thr[t].most

\* pindexMostWork is wiped when a block of its chain was found invalid.
MostAfterFailure(t) == NoBlock

\* ConnectTip of a block that ConnectBlock refuses: InvalidBlockFound.
ConnectTipFails(t) ==
  /\ Stepping(t)
  /\ tip \in Chain[thr[t].most]
  /\ LET b == NextToConnect(t) IN
     /\ b \in setting.bad /\ idx[b].data
     /\ idx' = [idx EXCEPT ![b].failedValid = TRUE]
     /\ failedSet' = failedSet \cup {b}
     /\ dirty' = dirty \cup {b}
     /\ cand' = cand \ {b}
  /\ NextRound(t, MostAfterFailure(t))
  /\ UNCHANGED <<setting, linked, seq, nextSeq, precious, pairs, tip, fault, disk>>

-----------------------------------------------------------------------------
(* The calls of the RPC interface. *)

Called(t, op) ==
  /\ Unlocked /\ t \in setting.threads /\ thr[t].pc = "idle" /\ op \in setting.ops
  /\ \A b \in Blocks : pairs[b] <= MaxPairs

\* The blocks that InvalidateBlock(p) disconnects.
Disconnected(p) ==
  IF p \in Chain[tip] THEN Chain[tip] \ Chain[Parent[p]] ELSE {}

\* A slip: the new tip is not made a candidate again.
RestoredNone(i, t) == {}

\* The blocks that are candidates again once the tip is t.
Restored(i, t) == {b \in SelectableIn(i, linked) : ~Worse(b, t)}

\* InvalidateBlock, then ActivateBestChain.
InvalidateBlock(t, p) ==
  /\ Called(t, "invalidate") /\ p \in Known \ {Genesis}
  /\ LET gone    == Disconnected(p)
         marked  == [x \in Blocks |->
                       [idx[x] EXCEPT !.failedChild = @ \/ x \in gone \ {p},
                                      !.failedValid = @ \/ x = p]]
         newTip  == TopOf(Chain[tip] \ gone)
         again   == Restored(marked, newTip)
     IN IF \E b \in gone : ~idx[b].data
        THEN fault' = "read"
             /\ UNCHANGED <<idx, tip, cand, failedSet, dirty, thr>>
        ELSE /\ idx' = marked
             /\ tip' = newTip
             /\ cand' = (cand \ (gone \cup {p})) \cup again
             /\ failedSet' = (failedSet \cup {p}) \ again
             /\ dirty' = dirty \cup gone \cup {p}
             /\ thr' = [thr EXCEPT ![t] = Loop]
             /\ UNCHANGED fault
  /\ UNCHANGED <<setting, linked, seq, nextSeq, precious, pairs, sec, disk>>

\* ResetBlockFailureFlags, then ActivateBestChain.
ReconsiderBlock(t, p) ==
  /\ Called(t, "reconsider") /\ p \in Known
  /\ LET below   == {b \in Known : p \in Chain[b] /\ (Failed(b) \/ ~idx[b].tx)}
         cleared == {b \in below \cup Chain[p] : Failed(b)}
     IN /\ idx' = [x \in Blocks |->
                     IF x \in cleared
                     THEN [idx[x] EXCEPT !.failedValid = FALSE, !.failedChild = FALSE]
                     ELSE idx[x]]
        /\ dirty' = dirty \cup below \cup cleared
        /\ cand' = cand \cup {b \in SelectableIn(idx', linked) \cap below :
                                 Worse(tip, b)}
  /\ thr' = [thr EXCEPT ![t] = Loop]
  /\ UNCHANGED <<setting, linked, seq, nextSeq, precious, pairs, failedSet, tip, sec,
                 fault, disk>>

\* nBlockReverseSequenceId after the id was given to a block.
NextPrecious(id) == id - 1

\* PreciousBlock
PreciousBlock(t, p) ==
  /\ Called(t, "precious") /\ p \in Known
  /\ Work[p] >= Work[tip]
  /\ LET id == IF Work[tip] > precious.work THEN -1 ELSE precious.seq IN
     /\ id >= -MaxPrecious
     /\ seq' = [seq EXCEPT ![p] = id]
     /\ precious' = [work |-> Work[tip], seq |-> NextPrecious(id)]
     /\ IF p \in SelectableIn(idx, linked)
        THEN /\ cand' = Pruned(seq', cand \cup {p}, tip)
             /\ fault' = PruneFault(cand')
        ELSE cand' = cand \ {p} /\ UNCHANGED fault
  /\ thr' = [thr EXCEPT ![t] = Loop]
  /\ UNCHANGED <<setting, idx, linked, nextSeq, pairs, failedSet, dirty, tip, sec, disk>>

-----------------------------------------------------------------------------
(* Pruning, flushing, restarting. *)

\* The index entries after WriteBatchSync of the dirty ones.
IndexWritten == [b \in Blocks |-> IF b \in dirty THEN idx[b] ELSE disk.idx[b]]

\* FlushStateToDisk writes the block index only: between two calls, or the
\* process dies before it writes the coins as well.
WriteIndex ==
  /\ NoFailures /\ sec.pc \in {"free", "step"} /\ "crash" \in setting.ops
  /\ dirty # {}
  /\ disk' = [disk EXCEPT !.idx = IndexWritten]
  /\ dirty' = {}
  /\ UNCHANGED <<setting, idx, linked, seq, nextSeq, precious, cand, pairs, failedSet,
                 tip, thr, sec, fault>>

\* A slip: the coins are written without the block index.
FlushedCoins == [disk EXCEPT !.best = tip]

\* What a full flush leaves on disk.
Flushed == [idx |-> IndexWritten, best |-> tip]

\* FlushStateToDisk writes the block index and the coins.
FlushAll ==
  /\ NoFailures /\ sec.pc \in {"free", "step"} /\ "crash" \in setting.ops
  /\ disk' = Flushed
  /\ dirty' = {}
  /\ UNCHANGED <<setting, idx, linked, seq, nextSeq, precious, cand, pairs, failedSet,
                 tip, thr, sec, fault>>

\* PruneOneBlockFile of a file that holds b, and the full flush that follows.
PruneOneBlockFile(b) ==
  /\ Unlocked /\ "prune" \in setting.ops
  /\ idx[b].data /\ b # Genesis
  /\ Height[b] + setting.keep <= Height[tip]
  /\ idx' = [idx EXCEPT ![b].data = FALSE]
  /\ pairs' = Erased({b})
  /\ dirty' = {}
  /\ disk' = [idx |-> [x \in Blocks |-> IF x \in dirty \cup {b} THEN idx'[x]
                                        ELSE disk.idx[x]],
              best |-> tip]
  /\ UNCHANGED <<setting, linked, seq, nextSeq, precious, cand, failedSet, tip, thr, sec,
                 fault>>

\* LoadBlockIndexDB: blocks with data below a failed block become failed.
Loaded(i) ==
  [b \in Blocks |->
     [i[b] EXCEPT !.failedChild = @ \/ /\ i[b].tx /\ ~i[b].failedValid
                                       /\ \E a \in Chain[b] \ {b} :
                                            /\ FailedIn(i, a)
                                            /\ \A x \in Chain[b] \ Chain[a] :
                                                 i[x].tx]]

\* The blocks that LoadBlockIndexDB gives an nChainTx.
LinkedOnDisk(i) == {b \in Blocks : \A a \in Chain[b] : i[a].tx}

\* The process dies and starts again: LoadBlockIndexDB, then the import
\* thread calls ActivateBestChain.
Restart(t) ==
  /\ "crash" \in setting.ops /\ t \in setting.threads
  /\ idx' = Loaded(disk.idx)
  /\ dirty' = {b \in Blocks : idx'[b] # disk.idx[b]}
  /\ linked' = LinkedOnDisk(disk.idx)
  /\ pairs' = [b \in Blocks |->
                 IF b \notin linked' /\ disk.idx[b].tx /\ Parent[b] \notin linked'
                 THEN 1 ELSE 0]
  /\ seq' = [b \in Blocks |-> 0] /\ nextSeq' = 1
  /\ precious' = [work |-> 0, seq |-> -1]
  /\ failedSet' = {}
  /\ tip' = disk.best
  /\ cand' = Pruned(seq', SelectableIn(idx', linked'), disk.best)
  /\ fault' = PruneFault(cand')
  /\ thr' = [u \in Threads |-> IF u = t THEN Loop ELSE Idle]
  /\ sec' = Free
  /\ UNCHANGED <<setting, disk>>

-----------------------------------------------------------------------------

Activate(t) ==
  \/ EnterRound(t) \/ FindMostWorkChain(t) \/ DisconnectTip(t)
  \/ ConnectTip(t) \/ ConnectTipFails(t)

Next ==
  \/ \E b \in Blocks : AcceptBlockHeader(b) \/ PruneOneBlockFile(b)
  \/ \E t \in Threads :
       \/ Activate(t) \/ Restart(t)
       \/ \E b \in Blocks :
            \/ \E requested \in BOOLEAN : ProcessNewBlock(t, b, requested)
            \/ InvalidateBlock(t, b) \/ ReconsiderBlock(t, b) \/ PreciousBlock(t, b)
  \/ WriteIndex \/ FlushAll

Safety == Init /\ [][Next]_vars

\* The scheduler runs every thread that can run, and cs_main is not kept from
\* a thread for ever.
Spec == Safety /\ \A t \in Threads : SF_vars(Activate(t))

-----------------------------------------------------------------------------
(* Properties. *)

OneThread   == Cardinality(setting.threads) = 1
Without(op) == op \notin setting.ops
NotBoth(op1, op2) == Without(op1) \/ Without(op2)

\* Blocks below which, themselves included, some block is marked invalid, or
\* has never been received, or has no data now.
HasInvalid(b) == \E a \in Chain[b] : idx[a].failedValid
HasUnseen(b)  == \E a \in Chain[b] : ~idx[a].tx
HasMissing(b) == \E a \in Chain[b] : ~idx[a].data

\* No assert of the code fails: PruneBlockIndexCandidates leaves a candidate
\* (validation.cpp:6536), and a member of gFailedBlocks that
\* AcceptBlockHeader comes across is marked BLOCK_FAILED_VALID (:7550).
\* Excepted: reconsiderblock, which leaves the block in gFailedBlocks, and for
\* the first of them invalidateblock with a second thread, which goes back to a
\* pindexMostWork that was invalidated meanwhile, or with a death when only
\* the index was written.
AssertsHold ==
  /\ Without("reconsider") => fault # "failedit"
  /\ Without("invalidate") \/ (OneThread /\ Without("crash") /\ Without("reconsider")) =>
       fault # "candidates"

\* FindMostWorkChain's assert on nChainTx (:6489): a candidate and its
\* ancestors have all been received, also after blocks were invalidated,
\* reconsidered and received again in any order.
CandidatesLinked == \A b \in cand : Chain[b] \subseteq linked /\ ~HasUnseen(b)

\* CheckBlockIndex on setBlockIndexCandidates (:8528-8541): a block that could
\* replace the tip is a candidate, and the tip itself is; a worse block, or one
\* whose ancestors were not all received, is not.
CandidatesChecked ==
  \A b \in Known :
    IF ~Worse(b, tip) /\ ~HasUnseen(b)
    THEN ~HasInvalid(b) /\ (HasMissing(b) => b = tip) => b \in cand
    ELSE b \notin cand

\* It holds when every call of ActivateBestChain has returned; excepted as for
\* TipIsBest.
CandidatesExact ==
  Quiet /\ OneThread /\ Without("reconsider") /\ NotBoth("invalidate", "prune") =>
    CandidatesChecked

\* CheckBlockIndex on the failure flags (:8523-8526): a block is marked failed
\* only when it or one of its ancestors was found invalid.  reconsiderblock of
\* one child of an invalid block leaves the flag of its siblings.
FailedBelowInvalid ==
  Unlocked /\ Without("reconsider") => \A b \in Known : Failed(b) => HasInvalid(b)

\* CheckBlockIndex on mapBlocksUnlinked (:8554-8575): a block that arrived
\* before one of its ancestors is remembered there, and so is a block that was
\* taken off the candidates because a pruned ancestor is missing.  One that
\* arrived while its parent was failed is forgotten if that is reconsidered,
\* a pruned tip that is submitted again falls behind others, as for TipIsBest, and
\* LoadBlockIndexDB remembers those that were pruned before they were linked.
UnlinkedComplete ==
  Unlocked /\ Without("reconsider") =>
    \A b \in Known \ {Genesis} :
      /\ idx[b].data /\ ~HasInvalid(b) =>
           /\ HasUnseen(b) => b \in unlinked
           /\ HasMissing(b) /\ ~Worse(b, tip) /\ b \notin cand /\ NotBoth("invalidate", "prune") =>
                b \in unlinked
      /\ b \in unlinked /\ NotBoth("prune", "crash") => idx[b].data /\ HasMissing(b)

\* "Make the best chain active" (:6640): when every call of
\* ActivateBestChain has returned, no chain whose blocks are all there and none
\* of them marked failed sorts before the active one.  Excepted: a second
\* thread, which may come back to a pindexMostWork that is out of date, and
\* reconsiderblock, which does not make the block's ancestors candidates, and
\* a pruning node that invalidateblock takes back to a pruned tip, which gets a
\* new nSequenceId, behind its rivals, when it is submitted again.
TipIsBest ==
  Quiet /\ OneThread /\ Without("reconsider") /\ NotBoth("invalidate", "prune") =>
    \A b \in Known :
      ~HasMissing(b) /\ (\A a \in Chain[b] : ~Failed(a)) => ~Worse(tip, b)

\* "we know all blocks in it are valid already" (:6485): whenever cs_main is
\* free no block of the active chain is marked failed, all were received.
\* Excepted: a second thread that connects what was invalidated meanwhile, and a
\* death after invalidateblock when only the index was written.
ActiveChainValid ==
  Unlocked /\ (Without("invalidate") \/ (OneThread /\ Without("crash"))) =>
    \A b \in Chain[tip] : ~Failed(b) /\ idx[b].tx /\ b \in linked

\* Block index and coins on disk fit together at any moment (:5847): the best
\* block of the coins and its ancestors are in the index on disk, received and
\* never found invalid.  Excepted: invalidateblock, after which the index may be
\* written and the coins, which are still those of the old tip, not.
DiskConsistent ==
  Without("invalidate") =>
    \A b \in Chain[disk.best] : disk.idx[b].tx /\ ~FailedIn(disk.idx, b)

\* setBlockIndexCandidates is ordered by nSequenceId, so the id of a member
\* must not change in place (:6917-6922): a block that arrives for the first time
\* renumbers no candidate, and visits none of those that wait for it twice.
\* Excepted: a block that arrives again after it was pruned, for whose
\* descendants FindMostWorkChain may have put several copies of a pair into
\* mapBlocksUnlinked, and deaths of a pruning node, after which the pairs
\* come back from the index and the pruned blocks may be asked for again.
CandidateKeysFixed ==
  Unlocked /\ NotBoth("prune", "crash") =>
    \A b \in Known \ {Genesis} :
      ~Failed(b) /\ ~idx[b].tx /\ Parent[b] \in linked =>
        /\ NowLinked(b) \cap cand = {}
        /\ \A x \in NowLinked(b) \ {b} : pairs[x] = 1

\* The block index and the sets beside it are consistent, as CheckBlockIndex has
\* it: failure flags have a cause, the active chain is valid, a block that waits
\* for another is remembered, candidates are linked and keep their keys.
IndexConsistent ==
  /\ TypeOK
  /\ FailedBelowInvalid
  /\ ActiveChainValid
  /\ UnlinkedComplete
  /\ CandidatesLinked
  /\ CandidateKeysFixed

\* The loop of ActivateBestChain ends (:6716), whatever the other threads do
\* meanwhile and whichever blocks turn out invalid, unless the process ends.
ActivationEnds ==
  \A t \in Threads :
    thr[t].pc = "loop" /\ Without("crash") ~> thr[t].pc = "idle" \/ ~NoFailures
=============================================================================
