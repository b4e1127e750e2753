------------------------- MODULE WitnessCompaction -------------------------
(***************************************************************************)
(* Block files and their compaction (validation.cpp): blocks are appended   *)
(* to blk files and their undo data to rev files under the same number, the *)
(* block index says where, and CompactWitnessFiles rewrites a file of final *)
(* blocks without witnesses under a fresh number.  The process may die at   *)
(* any step; what was written to a file or to LevelDB survives it.          *)
(*                                                                          *)
(* cs_main makes each critical section one step; ActivateBestChainStep and  *)
(* a full flush hold it over several (`most', `flushing').  Positions in a  *)
(* file count blocks, and a file holds Capacity of them.  A rev name points *)
(* to an inode, so that two names may share one: the inode is called by the *)
(* number it was created under.                                             *)
(***************************************************************************)
EXTENDS Integers, FiniteSets

CONSTANTS
    Blocks, Genesis,
    Parent, Height,     \* the block tree; work is height
    Capacity,           \* blocks per file (MAX_BLOCKFILE_SIZE)
    MaxFile,            \* bound: file numbers
    Horizon,            \* nMaxReorgDepth
    None,
    Settings            \* what a start finds and what it will meet, see SettingType

Files == 0..MaxFile
Slots == 1..Capacity
InfoType == [n : 0..Capacity, u : 0..Capacity]      \* CBlockFileInfo: blocks, undo records
NoInfo == [n |-> 0, u |-> 0]
Entries ==
    [st : {"none", "header", "data"}, file : Files, pos : 0..Capacity,
     upos : 0..Capacity, pruned : BOOLEAN, valid : BOOLEAN, failed : BOOLEAN]
Content == [block : Blocks, stripped : BOOLEAN] \cup {None}

\* A start finds the known headers, the stored blocks with their places and the
\* append file: a fresh node, or after a reindex.  Then those of `blocks' come that
\* are new, writes to the databases or to a new file may fail, and the process
\* dies `crashes' times at most.
SettingType ==
    [known : SUBSET Blocks, stored : SUBSET Blocks, file : [Blocks -> Files],
     pos : [Blocks -> Nat], last : Files, blocks : SUBSET Blocks, fail : BOOLEAN, crashes : Nat]

\* Above the append file every number up to the highest in use has blocks.
\* FindBlockPos and a pass keep it so; a reindex could leave a file out that
\* holds only what other files hold too.
StoredAt(l, f) == {b \in l.stored : l.file[b] = f}
NoGap(l) ==
    \A f, g \in Files : l.last < f /\ f < g /\ StoredAt(l, g) # {} => StoredAt(l, f) # {}

ASSUME CompactionConstants ==
    /\ Genesis \in Blocks /\ None \notin Blocks /\ None \notin Files
    /\ Parent \in [Blocks -> Blocks] /\ Height \in [Blocks -> Nat]
    /\ Height[Genesis] = 0
    /\ \A b \in Blocks \ {Genesis} : Height[b] = Height[Parent[b]] + 1
    /\ Capacity \in Nat \ {0} /\ MaxFile \in Nat /\ Horizon \in Nat \ {0}
    /\ Settings \subseteq SettingType
    /\ \A l \in Settings :
        /\ Genesis \in l.stored /\ l.stored \subseteq l.known
        /\ \A b \in l.known : Parent[b] \in l.known
        /\ \A b \in l.stored : l.pos[b] \in Slots
        /\ \A b, c \in l.stored : b # c => <<l.file[b], l.pos[b]>> # <<l.file[c], l.pos[c]>>
        /\ \A f \in Files : \A p \in 1..Cardinality({b \in l.stored : l.file[b] = f}) :
            \E b \in l.stored : l.file[b] = f /\ l.pos[b] = p

VARIABLES
    setting,                \* one of Settings
    index, info, last,      \* mapBlockIndex, vinfoBlockFile, nLastBlockFile
    disk,                   \* the same three in the block tree database
    tip, diskTip,           \* chainActive.Tip(), best block of the coins database
    bestHeader, ibd,        \* pindexBestHeader, IsInitialBlockDownload()
    blk, rev, undo,         \* file system: blk files, rev names, their inodes
    most, oldTip,           \* locals of ActivateBestChainStep while it holds cs_main
    flushing,               \* who is between the two writes of a full flush
    pass,                   \* the scheduler thread's compaction pass
    crashes,
    lostBlock, deepReorg,   \* history: a stripped block was connected again, a
                            \* pruned one asked to disconnect
    overlooked              \* history: a pass began beside a chain of Overlooked

memory == <<index, info, last>>
files == <<blk, rev, undo>>
chainVars == <<tip, bestHeader, ibd>>
locks == <<most, oldTip, flushing>>
history == <<setting, crashes, lostBlock, deepReorg, overlooked>>
vars == <<memory, disk, tip, diskTip, bestHeader, ibd, files, locks, pass, history>>
-----------------------------------------------------------------------------
(* The tree.                                                                *)

Back[k \in Nat] ==       \* the block k steps of pprev back
    IF k = 0 THEN [b \in Blocks |-> b]
    ELSE LET back == Back[k - 1] IN [b \in Blocks |-> back[Parent[b]]]
\* GetAncestor
AncestorAt(b, h) == IF Height[b] <= h THEN b ELSE Back[Height[b] - h][b]
IsAncestor(a, b) == Height[a] <= Height[b] /\ AncestorAt(b, Height[a]) = a
OnChain(b) == IsAncestor(b, tip)
\* chainActive.FindFork
ForkHeight(b) ==
    LET hs == {h \in 0..Height[b] : OnChain(AncestorAt(b, h))}
    IN  CHOOSE h \in hs : \A k \in hs : k <= h

NoPass == [pc |-> "idle", src |-> 0, target |-> 0, moving |-> {}, orphans |-> {},
           eligible |-> {}]
NewEntry == [st |-> "none", file |-> 0, pos |-> 0, upos |-> 0,
             pruned |-> FALSE, valid |-> FALSE, failed |-> FALSE]
Unlocked == most = None /\ flushing = "no"

\* InitBlockIndex has stored the genesis block in file 0.  A reindex has gone
\* through the files in the order of the chain and left the append pointer at
\* the last block it accepted, which need not be in the highest file.

Init ==
    \E l \in Settings :
        /\ setting = l
        /\ index = [b \in Blocks |->
            IF b \in l.stored
            THEN [NewEntry EXCEPT !.st = "data", !.file = l.file[b], !.pos = l.pos[b]]
            ELSE [NewEntry EXCEPT !.st = IF b \in l.known THEN "header" ELSE "none"]]
        /\ info = [f \in Files |-> [n |-> Cardinality(StoredAt(l, f)), u |-> 0]]
        /\ last = l.last
        /\ disk = [index |-> index, info |-> info, last |-> last]
        /\ tip = Genesis /\ diskTip = Genesis /\ ibd = TRUE
        /\ bestHeader \in {b \in l.known : \A c \in l.known : Height[c] <= Height[b]}
        /\ blk = [f \in Files |-> [p \in Slots |->
            IF \E b \in StoredAt(l, f) : l.pos[b] = p
            THEN [block |-> CHOOSE b \in StoredAt(l, f) : l.pos[b] = p, stripped |-> FALSE]
            ELSE None]]
        /\ rev = [f \in Files |-> None]
        /\ undo = [f \in Files |-> [p \in Slots |-> None]]
        /\ most = None /\ oldTip = Genesis /\ flushing = "no"
        /\ pass = NoPass
        /\ crashes = 0 /\ lostBlock = FALSE /\ deepReorg = FALSE /\ overlooked = FALSE
-----------------------------------------------------------------------------
(* Headers and blocks arrive.                                               *)

\* ContextualCheckBlockHeader: the finality horizon, not during initial download.
WithinHorizon(b) == ibd \/ Height[tip] - ForkHeight(Parent[b]) < Horizon

AcceptBlockHeader(b) ==
    /\ Unlocked /\ b \in setting.blocks
    /\ index[b].st = "none" /\ index[Parent[b]].st # "none" /\ ~index[Parent[b]].failed
    /\ WithinHorizon(b)
    /\ index' = [index EXCEPT ![b].st = "header"]
    /\ bestHeader' = IF Height[b] > Height[bestHeader] THEN b ELSE bestHeader
    /\ UNCHANGED <<info, last, disk, tip, diskTip, ibd, files, locks, pass, history>>

LeaveInitialDownload ==
    /\ Unlocked /\ ibd
    /\ ibd' = FALSE
    /\ UNCHANGED <<memory, disk, tip, diskTip, bestHeader, files, locks, pass, history>>

\* FindBlockPos: forward from the append file to the first with room.
AppendFile(f) ==
    /\ f >= last /\ info[f].n < Capacity
    /\ \A g \in last..(f - 1) : info[g].n >= Capacity

\* FlushBlockFile(true) on the file that is left: the tails beyond its info go.
Truncated(content, n) == [p \in Slots |-> IF p <= n THEN content[p] ELSE None]

\* RemoveStrayFilesAtFreshNumber
StrayRemoved(f) == f # last /\ info[f] = NoInfo

AcceptBlock(b, f) ==
    /\ Unlocked /\ b \in setting.blocks
    /\ index[b].st = "header" /\ ~index[b].failed
    /\ AppendFile(f)
    /\ LET p == info[f].n + 1
           old == IF StrayRemoved(f) THEN [q \in Slots |-> None] ELSE blk[f]
       IN  /\ blk' = [g \in Files |->
                IF g = f THEN [old EXCEPT ![p] = [block |-> b, stripped |-> FALSE]]
                ELSE IF g = last THEN Truncated(blk[g], info[g].n) ELSE blk[g]]
           /\ index' = [index EXCEPT ![b].st = "data", ![b].file = f, ![b].pos = p]
           /\ info' = [info EXCEPT ![f].n = p]
    /\ rev' = IF StrayRemoved(f) THEN [rev EXCEPT ![f] = None] ELSE rev
    /\ undo' = [i \in Files |-> IF f # last /\ i = rev[last]
                                THEN Truncated(undo[i], info[last].u) ELSE undo[i]]
    /\ last' = f
    /\ UNCHANGED <<disk, tip, diskTip, bestHeader, ibd, locks, pass, history>>
-----------------------------------------------------------------------------
(* ActivateBestChainStep, under cs_main: to the fork, then up until the tip *)
(* is better than the one it started from.                                  *)

Complete(b) ==
    \A h \in 0..Height[b] :
        index[AncestorAt(b, h)].st = "data" /\ ~index[AncestorAt(b, h)].failed
Candidates == {b \in Blocks : Height[b] > Height[tip] /\ Complete(b)}

BeginActivate(b) ==
    /\ Unlocked
    /\ b \in Candidates /\ \A c \in Candidates : Height[c] <= Height[b]
    /\ most' = b /\ oldTip' = tip
    /\ UNCHANGED <<memory, disk, tip, diskTip, bestHeader, ibd, files, flushing, pass, history>>

Release == most' = None /\ oldTip' = Genesis /\ UNCHANGED flushing

\* DisconnectTip; DisconnectBlock aborts the node on a pruned block.
DisconnectTip ==
    /\ flushing = "no" /\ most # None /\ ~IsAncestor(tip, most)
    /\ IF index[tip].pruned
       THEN /\ deepReorg' = TRUE /\ Release
            /\ UNCHANGED tip
       ELSE /\ tip' = Parent[tip]
            /\ UNCHANGED <<deepReorg, locks>>
    /\ UNCHANGED <<memory, disk, diskTip, bestHeader, ibd, files, pass, setting, crashes, lostBlock, overlooked>>

\* ConnectTip of the next block b.  Without its witnesses it fails and is
\* marked so; otherwise its undo data is appended to its rev file, once.  A
\* block that cannot be read at all is AbortNode: no step.
ConnectTip ==
    /\ flushing = "no" /\ most # None /\ IsAncestor(tip, most) /\ tip # most
    /\ LET b == AncestorAt(most, Height[tip] + 1)
           f == index[b].file
           p == info[f].u + 1
           inode == IF rev[f] = None THEN f ELSE rev[f]
           better == Height[b] > Height[oldTip]
       IN  \/ /\ blk[f][index[b].pos] = [block |-> b, stripped |-> TRUE]
              /\ index' = [index EXCEPT ![b].failed = TRUE]
              /\ lostBlock' = TRUE /\ Release
              /\ UNCHANGED <<tip, info, last, files>>
           \/ /\ blk[f][index[b].pos] = [block |-> b, stripped |-> FALSE]
              /\ tip' = b
              /\ IF index[b].upos = 0
                 THEN /\ info' = [info EXCEPT ![f].u = p]
                      /\ index' = [index EXCEPT ![b].upos = p, ![b].valid = TRUE]
                      /\ rev' = [rev EXCEPT ![f] = inode]
                      /\ undo' = [undo EXCEPT ![inode][p] = b]
                 ELSE UNCHANGED <<index, info, rev, undo>>
              /\ IF better THEN Release ELSE UNCHANGED locks
              /\ UNCHANGED <<last, blk, lostBlock>>
    /\ UNCHANGED <<disk, diskTip, bestHeader, ibd, pass, setting, crashes, deepReorg, overlooked>>
-----------------------------------------------------------------------------
(* FlushStateToDisk: the index in one batch; in a full flush then the coins. *)
(* A thread that connects or disconnects may need a full one in between.     *)

Saved == [index |-> index, info |-> info, last |-> last]

WriteIndex(full) ==
    /\ flushing = "no" /\ (full \/ most = None)
    /\ disk' = Saved
    /\ flushing' = IF full THEN "node" ELSE "no"
    /\ UNCHANGED <<memory, tip, diskTip, bestHeader, ibd, files, most, oldTip, pass, history>>

WriteCoins ==
    /\ flushing = "node"
    /\ diskTip' = tip /\ flushing' = "no"
    /\ UNCHANGED <<memory, disk, tip, bestHeader, ibd, files, most, oldTip, pass, history>>
-----------------------------------------------------------------------------
(* CompactWitnessFiles, on the scheduler thread.                            *)

InFile(f) == {b \in Blocks : index[b].st # "none" /\ index[b].file = f}
ReferencedByHeaders ==      \* slip: a header without data counts for file 0
    {index[b].file : b \in {c \in Blocks : index[c].st # "none"}}
Referenced == {index[b].file : b \in {c \in Blocks : index[c].st = "data"}}

\* WitnessFileEligibleForCompaction.  A header without data has file number 0.
Eligible(f) ==
    /\ f # last /\ info[f].n # 0
    /\ \A b \in InFile(f) :
        /\ index[b].st = "data" /\ ~index[b].pruned
        /\ b # Genesis => index[b].valid /\ ~index[b].failed
        /\ OnChain(b) /\ Height[tip] - Height[b] > Horizon

\* A header chain with more work than the tip that forks off below the horizon.
ForksBelow(b) == Height[b] > Height[tip] /\ Height[tip] - ForkHeight(b) > Horizon

HeadersIgnored == TRUE      \* slip: the gate of IsInitialBlockDownload is enough

\* The gate of CompactWitnessFiles: it looks at pindexBestHeader only.
HeadersSettled == ~ForksBelow(bestHeader)

\* The chains of that kind that are known and not behind the best header.
Overlooked == {b \in Blocks : /\ index[b].st # "none" /\ ForksBelow(b)
                              /\ ~IsAncestor(b, bestHeader)}

LastUsed == last            \* slip: the append file is not always the highest

\* One below the size of vinfoBlockFile: the highest number in use.
HighestUsed ==
    LET used == Referenced \cup {last} \cup {f \in Files : info[f] # NoInfo}
    IN  CHOOSE f \in used : \A g \in used : g <= f

Orphans == {f \in (0..HighestUsed) \ (Referenced \cup {last}) :
                info[f].n = 0 /\ \E p \in Slots : blk[f][p] # None}

BeginPass ==
    /\ Unlocked /\ pass.pc = "idle"
    /\ ~ibd /\ HeadersSettled
    /\ Orphans \cup {f \in Files : Eligible(f)} # {}     \* else the pass does nothing
    /\ pass' = [NoPass EXCEPT !.pc = "sweep", !.orphans = Orphans,
                              !.eligible = {f \in Files : Eligible(f)}]
    /\ overlooked' = (overlooked \/ Overlooked # {})
    /\ UNCHANGED <<memory, disk, tip, diskTip, bestHeader, ibd, files, locks>>
    /\ UNCHANGED <<setting, crashes, lostBlock, deepReorg>>

\* Removing one file's two names.
NoBlk(f) == blk' = [blk EXCEPT ![f] = [p \in Slots |-> None]]
NoRev(f) == rev' = [rev EXCEPT ![f] = None]

Sweep(f) ==
    /\ pass.pc = "sweep" /\ f \in pass.orphans
    /\ NoBlk(f) /\ NoRev(f)
    /\ pass' = [pass EXCEPT !.orphans = @ \ {f}]
    /\ UNCHANGED <<memory, disk, tip, diskTip, bestHeader, ibd, undo, locks, history>>

\* The snapshot a rewrite works from: later headers are not in it.
Rewriting(f) == [pass EXCEPT !.pc = "rewrite", !.eligible = @ \ {f}, !.src = f,
                             !.target = HighestUsed + 1, !.moving = InFile(f)]

\* Reserve the target: the append pointer moves past it, in memory and in the
\* database, before any file is written.
ReserveDurably(f) ==
    LET m == HighestUsed + 1
    IN  \/ /\ pass' = Rewriting(f)
           /\ disk' = [disk EXCEPT !.info[m] = NoInfo, !.info[m + 1] = info[m + 1], !.last = m + 1]
        \/ setting.fail /\ pass' = NoPass /\ UNCHANGED disk

Reserve(f) ==
    /\ Unlocked
    /\ pass.pc = "sweep" /\ pass.orphans = {} /\ f \in pass.eligible
    /\ HighestUsed + 2 <= MaxFile
    /\ IF Eligible(f)
       THEN /\ ReserveDurably(f)
            /\ info' = [info EXCEPT ![HighestUsed + 1] = NoInfo]
            /\ last' = HighestUsed + 2
            /\ blk' = [blk EXCEPT ![last] = Truncated(@, info[last].n)]
            /\ undo' = [i \in Files |-> IF i = rev[last] THEN Truncated(undo[i], info[last].u)
                                        ELSE undo[i]]
       ELSE /\ pass' = [pass EXCEPT !.eligible = @ \ {f}]
            /\ UNCHANGED <<disk, info, last, blk, undo>>
    /\ UNCHANGED <<index, tip, diskTip, bestHeader, ibd, rev, locks, history>>

EndPass ==
    /\ pass.pc = "sweep" /\ pass.orphans = {} /\ pass.eligible = {}
    /\ pass' = NoPass
    /\ UNCHANGED <<memory, disk, tip, diskTip, bestHeader, ibd, files, locks, history>>

\* Without cs_main: the stripped blocks under the new number.  A block that
\* cannot be read (ReadBlockFromDisk) or another error ends the pass with what
\* was written so far.
Readable(b) == blk[pass.src][index[b].pos] \in [block : {b}, stripped : BOOLEAN]
Copied(n) == {b \in pass.moving : index[b].pos <= n}
StrippedTo(n) ==
    [p \in Slots |-> IF \E b \in Copied(n) : index[b].pos = p
                     THEN [block |-> blk[pass.src][p].block, stripped |-> TRUE] ELSE None]

Rewrite ==
    /\ pass.pc = "rewrite"
    /\ \E n \in 0..Capacity :
        /\ \A b \in Copied(n) : Readable(b)
        /\ blk' = [blk EXCEPT ![pass.target] = StrippedTo(n)]
        /\ \/ Copied(n) = pass.moving /\ pass' = [pass EXCEPT !.pc = "link"]
           \/ setting.fail /\ pass' = NoPass
    /\ UNCHANGED <<memory, disk, tip, diskTip, bestHeader, ibd, rev, undo, locks, history>>

\* The undo data gets a second name.
LinkUndo ==
    /\ pass.pc = "link"
    /\ \/ /\ rev' = [rev EXCEPT ![pass.target] = IF rev[pass.src] = None THEN @ ELSE rev[pass.src]]
          /\ pass' = [pass EXCEPT !.pc = "commit"]
       \/ setting.fail /\ rev[pass.src] # None /\ pass' = NoPass /\ UNCHANGED rev
    /\ UNCHANGED <<memory, disk, tip, diskTip, bestHeader, ibd, blk, undo, locks, history>>

Commit ==
    /\ Unlocked /\ pass.pc = "commit"
    /\ info' = [info EXCEPT ![pass.target] = info[pass.src], ![pass.src] = NoInfo]
    /\ index' = [b \in Blocks |-> IF b \in pass.moving
                                  THEN [index[b] EXCEPT !.file = pass.target, !.pruned = TRUE]
                                  ELSE index[b]]
    /\ pass' = [pass EXCEPT !.pc = "flush"]
    /\ UNCHANGED <<last, disk, tip, diskTip, bestHeader, ibd, files, locks, history>>

\* FlushStateToDisk() returns nothing: the pass goes on whether it failed or not.
PassWritesIndex ==
    /\ Unlocked /\ pass.pc = "flush"
    /\ \/ disk' = Saved /\ flushing' = "pass" /\ UNCHANGED pass
       \/ /\ setting.fail
          /\ pass' = [pass EXCEPT !.pc = "deleteBlk"]
          /\ UNCHANGED <<disk, flushing>>
    /\ UNCHANGED <<memory, tip, diskTip, bestHeader, ibd, files, most, oldTip, history>>

PassWritesCoins ==
    /\ flushing = "pass"
    /\ diskTip' = tip \/ (setting.fail /\ UNCHANGED diskTip)
    /\ flushing' = "no"
    /\ pass' = [pass EXCEPT !.pc = "deleteBlk"]
    /\ UNCHANGED <<memory, disk, tip, bestHeader, ibd, files, most, oldTip, history>>

DeleteBlk ==
    /\ pass.pc = "deleteBlk"
    /\ NoBlk(pass.src)
    /\ pass' = [pass EXCEPT !.pc = "deleteRev"]
    /\ UNCHANGED <<memory, disk, tip, diskTip, bestHeader, ibd, rev, undo, locks, history>>

DeleteRev ==
    /\ pass.pc = "deleteRev"
    /\ NoRev(pass.src)
    /\ pass' = [NoPass EXCEPT !.pc = "sweep", !.eligible = pass.eligible]
    /\ UNCHANGED <<memory, disk, tip, diskTip, bestHeader, ibd, blk, undo, locks, history>>
-----------------------------------------------------------------------------
(* The process dies and LoadBlockIndexDB runs.                              *)

BestHeaders(idx) ==
    LET known == {b \in Blocks : idx[b].st # "none" /\ ~idx[b].failed}
    IN  {b \in known : \A c \in known : Height[c] <= Height[b]}

CrashRestart(best) ==
    /\ crashes < setting.crashes /\ crashes' = crashes + 1
    /\ index' = disk.index /\ info' = disk.info /\ last' = disk.last
    /\ tip' = diskTip
    /\ best \in BestHeaders(disk.index) /\ bestHeader' = best
    /\ ibd' = TRUE
    /\ most' = None /\ oldTip' = Genesis /\ flushing' = "no"
    /\ pass' = NoPass
    /\ UNCHANGED <<setting, disk, diskTip, files, lostBlock, deepReorg, overlooked>>
-----------------------------------------------------------------------------
Node ==
    \/ \E b \in Blocks : AcceptBlockHeader(b) \/ BeginActivate(b)
    \/ \E b \in Blocks, f \in Files : AcceptBlock(b, f)
    \/ LeaveInitialDownload
    \/ DisconnectTip \/ ConnectTip
    \/ \E full \in BOOLEAN : WriteIndex(full)
    \/ WriteCoins

Pass ==
    \/ BeginPass \/ EndPass
    \/ \E f \in Files : Sweep(f) \/ Reserve(f)
    \/ Rewrite \/ LinkUndo \/ Commit
    \/ PassWritesIndex \/ PassWritesCoins \/ DeleteBlk \/ DeleteRev

Next == Node \/ Pass \/ (\E b \in Blocks : CrashRestart(b))

Safety == Init /\ [][Next]_vars

\* The scheduler retries every ten minutes and gets cs_main again and again; the
\* thread that holds it goes on.
Fairness ==
    /\ SF_vars(BeginPass) /\ SF_vars(\E f \in Files : Reserve(f))
    /\ SF_vars(Commit) /\ SF_vars(PassWritesIndex)
    /\ WF_vars(PassWritesCoins) /\ WF_vars(\E f \in Files : Sweep(f)) /\ WF_vars(EndPass)
    /\ WF_vars(Rewrite) /\ WF_vars(LinkUndo) /\ WF_vars(DeleteBlk) /\ WF_vars(DeleteRev)
    /\ SF_vars(DisconnectTip) /\ SF_vars(ConnectTip) /\ WF_vars(WriteCoins)

Spec == Safety /\ Fairness
-----------------------------------------------------------------------------
(* Properties.                                                              *)

PassType ==
    [pc : {"idle", "sweep", "rewrite", "link", "commit", "flush", "deleteBlk", "deleteRev"},
     src : Files, target : Files, moving : SUBSET Blocks, orphans : SUBSET Files,
     eligible : SUBSET Files]

\* Type correctness of the index, the files and the pass.
TypeOK ==
    /\ setting \in Settings
    /\ index \in [Blocks -> Entries] /\ info \in [Files -> InfoType] /\ last \in Files
    /\ disk \in [index : [Blocks -> Entries], info : [Files -> InfoType], last : Files]
    /\ tip \in Blocks /\ diskTip \in Blocks /\ bestHeader \in Blocks /\ ibd \in BOOLEAN
    /\ blk \in [Files -> [Slots -> Content]] /\ rev \in [Files -> Files \cup {None}]
    /\ undo \in [Files -> [Slots -> Blocks \cup {None}]]
    /\ most \in Blocks \cup {None} /\ oldTip \in Blocks
    /\ flushing \in {"no", "node", "pass"}
    /\ pass \in PassType

\* A block that an index entry says is stored is at that place, in the form the
\* entry says, and so is its undo data.
Resolves(idx) ==
    \A b \in {c \in Blocks : idx[c].st = "data"} :
        /\ blk[idx[b].file][idx[b].pos] = [block |-> b, stripped |-> idx[b].pruned]
        /\ idx[b].upos # 0 => /\ rev[idx[b].file] # None
                              /\ undo[rev[idx[b].file]][idx[b].upos] = b

\* At every instant, inside a compaction and after a death at any step of it,
\* the index in memory and the index in the database point at data that is there.
\* When writes fail it is true of the index in memory only, and until the process
\* dies: the flush before the originals are deleted does not say whether it
\* succeeded.
ReadsResolve ==
    /\ Resolves(index) \/ (setting.fail /\ crashes > 0)
    /\ Resolves(disk.index) \/ setting.fail

\* Index, append pointer and files are well formed and fit together at every
\* instant of a compaction, beside appends and flushes, and after a death.
FilesSound == TypeOK /\ ReadsResolve

\* No block that must be validated again has lost its witnesses, and no
\* reorganisation reaches a block that has: the gate on the best header, the
\* horizon on new headers and the depth a file must have work together, over the
\* steps at which a pass releases cs_main.  Two exceptions.  A death between the
\* index and the coins can leave stripped blocks above the tip.  And CompactWitness-
\* Files looks at the best header alone: when a pass begins while a second header
\* chain better than the tip forks below the horizon, that chain's blocks may come
\* before those of the best one.
WitnessesNotNeeded == crashes = 0 /\ ~overlooked => ~lostBlock /\ ~deepReorg

\* What an interrupted pass left behind, the original or the half-made copy, is
\* removed in the end, unless the node stays in its initial download or below a
\* better header chain, where CompactWitnessFiles does nothing.
Leftover(f) ==
    /\ f < last /\ info[f].n = 0 /\ \E p \in Slots : blk[f][p] # None
    /\ \A b \in Blocks : index[b].st = "data" => index[b].file # f
LeftoversSwept ==
    []<>(setting.fail \/ ibd \/ ~HeadersSettled \/ \A f \in Files : ~Leftover(f))
=============================================================================
