------------------------------ MODULE MiningRpc ------------------------------
(***************************************************************************)
(* The mining RPCs (rpc/mining.cpp, rpc/auxpow.cpp) with what they meet:    *)
(* the message thread that also processes blocks and dispatches signals     *)
(* without one, the dispatch of validation signals (MainSignals), the       *)
(* scheduler whose queue                                                    *)
(* SyncWithValidationInterfaceQueue waits on (Scheduler), and Shutdown.     *)
(*                                                                          *)
(* Blocks are the heights of one chain; choosing between chains is          *)
(* ChainSelection's.  A step is what a process does between two points      *)
(* where it may wait for a lock, a signal or another thread; a section of   *)
(* cs_main without such a point is one step that needs cs_main free.  The   *)
(* chain has at most two blocks: with three a thread can come back to a     *)
(* pindexMostWork behind the tip, which is ChainSelection's.                *)
(***************************************************************************)
EXTENDS MainSignals, Scheduler

CONSTANTS
    Submit, AuxSubmit,      \* calls of submitblock and of submitauxblock
    AuxCreate,              \* calls of createauxblock
    Template, Longpoll,     \* calls of getblocktemplate; those with a longpollid
    Net,                    \* the message thread: at most one
    MaxBlock,               \* heights of the blocks: 1 .. MaxBlock
    Scenes                  \* which of them there are, which blocks fail ConnectBlock, and
                            \* whether the node is shut down

VARIABLES
    scene,          \* one of Scenes
    pc, blk,        \* where a process is, and the block it was given
    most,           \* its pindexMostWork, 0 for NULL
    about,          \* what the signal it dispatches is about: a block checked, the new tip
    cs,             \* who holds each lock
    tip, have, failed,
    found,          \* submitblock_StateCatcher::found
    owed,           \* ghost: a verdict on the block was dispatched while the catcher was there
    watched, cached,        \* hashWatchedChain and hashBestChainCached of a longpoll
    heard,          \* tip of peerLogic's last UpdatedBlockTip
    shut            \* how far Shutdown has come

Catchers == Submit \cup AuxSubmit
Calls == Catchers \cup AuxCreate \cup Template
Procs == Calls \cup Net
CallKinds == <<Submit, AuxSubmit, AuxCreate, Template, Net>>
Locks == {"cs_main", "cs_blocktemplate", "cs_auxpowrpc", "csBestBlock"}
Free == "free"

OneThread == [threads |-> {"scheduler"}, tasks |-> {}, ops |-> {"interrupt"}]

\* Every process is of one kind and none is one of the names used here; each
\* dispatches signals, and one thread runs the callbacks.
ASSUME MiningConstants ==
    /\ MaxBlock \in 0 .. 2
    /\ Longpoll \subseteq Template /\ Cardinality(Net) <= 1
    /\ \A i, j \in 1 .. 5 : i # j => CallKinds[i] \cap CallKinds[j] = {}
    /\ {Free, Nobody, "peerLogic", "ProcessQueue"} \cap Procs = {}
    /\ Scenes \subseteq [procs : SUBSET Procs, bad : SUBSET (1 .. MaxBlock), stop : BOOLEAN]
    /\ Interfaces = Catchers \cup {"peerLogic"} /\ Walks = Procs
    /\ MaxEntries = Cardinality(Catchers) + 1
    /\ Threads = {"scheduler"} /\ Callbacks = Catchers /\ Once = {} /\ Every = {}
    /\ Settings = {OneThread}

process == <<scene, pc, blk, most, about>>
chain == <<tip, have, failed>>
catcher == <<found, owed>>
longpoll == <<watched, cached>>
signals == signalVars
sched == vars
miningVars == <<process, cs, chain, catcher, longpoll, heard, shut, signals, sched>>

\* peerLogic is registered before the threads that process blocks start.
MiningInit ==
    /\ scene \in Scenes
    /\ pc = [p \in Procs |-> "idle"]
    /\ blk = [p \in Procs |-> 0] /\ most = [p \in Procs |-> 0] /\ about = [p \in Procs |-> 0]
    /\ cs = [l \in Locks |-> Free]
    /\ tip = 0 /\ have = {} /\ failed = {}
    /\ found = [c \in Catchers |-> FALSE] /\ owed = [c \in Catchers |-> FALSE]
    /\ watched = [p \in Longpoll |-> 0] /\ cached = [p \in Longpoll |-> 0]
    /\ heard = 0 /\ shut = "no"
    /\ m_list = {1} /\ made = 1
    /\ callbacks = [n \in Entries |-> IF n = 1 THEN "peerLogic" ELSE Nobody]
    /\ count = [n \in Entries |-> IF n = 1 THEN 1 ELSE 0]
    /\ m_map = [i \in Interfaces |-> IF i = "peerLogic" THEN 1 ELSE 0]
    /\ at = [p \in Procs |-> 0] /\ due = [p \in Procs |-> {}]
    /\ Init

Goto(p, from, to) == pc[p] = from /\ pc' = [pc EXCEPT ![p] = to]
Lock(l, p) == cs[l] = Free /\ cs' = [cs EXCEPT ![l] = p]
Unlocked(l, p) == [cs EXCEPT ![l] = IF @ = p THEN Free ELSE @]
-----------------------------------------------------------------------------
(* ProcessNewBlock and ActivateBestChain, by a submitter or by the message  *)
(* thread.                                                                  *)

\* Where a submitter goes after ProcessNewBlock, and the message thread.
After(p) == IF p \in Net THEN "idle" ELSE "sync"

Acceptable(b) == (b = 1 \/ b - 1 \in have) /\ \A k \in 1 .. b : k \notin failed

\* FindMostWorkChain.
MostWork == Cardinality({b \in 1 .. MaxBlock : \A k \in 1 .. b : k \in have \ failed})

\* Catchers of block b that are registered when its verdict is dispatched.
OwedFor(b) == [c \in Catchers |-> owed[c] \/ (blk[c] = b /\ m_map[c] # 0)]

AcceptBlock(p) ==
    /\ pc[p] = "accept" /\ cs["cs_main"] = Free
    /\ IF Acceptable(blk[p])
       THEN /\ have' = have \cup {blk[p]}
            /\ pc' = [pc EXCEPT ![p] = "activate"]
            /\ UNCHANGED <<cs, about, owed, signals>>
       ELSE /\ pc' = [pc EXCEPT ![p] = "refused"]
            /\ cs' = [cs EXCEPT !["cs_main"] = p]
            /\ about' = [about EXCEPT ![p] = blk[p]]
            /\ owed' = OwedFor(blk[p])
            /\ IterateBegin(p)
            /\ UNCHANGED have
    /\ UNCHANGED <<scene, blk, most, tip, failed, found, longpoll, heard, shut, sched>>

\* The verdict on a refused block is out.
BlockRefused(p) ==
    /\ at[p] = 0 /\ Goto(p, "refused", After(p))
    /\ cs' = Unlocked("cs_main", p)
    /\ UNCHANGED <<scene, blk, most, about, chain, catcher, longpoll, heard, shut, signals, sched>>

\* ActivateBestChain takes cs_main: nothing to do, or the next block is
\* connected and its verdict dispatched.
ActivateBestChain(p) ==
    LET m == IF most[p] # 0 THEN most[p] ELSE MostWork
        next == tip + 1
    IN  /\ pc[p] = "activate" /\ cs["cs_main"] = Free
        /\ IF m = tip
           THEN /\ pc' = [pc EXCEPT ![p] = After(p)] /\ most' = [most EXCEPT ![p] = 0]
                /\ UNCHANGED <<cs, about, owed, signals>>
           ELSE /\ pc' = [pc EXCEPT ![p] = "checked"] /\ most' = [most EXCEPT ![p] = m]
                /\ cs' = [cs EXCEPT !["cs_main"] = p]
                /\ about' = [about EXCEPT ![p] = next]
                /\ owed' = OwedFor(next)
                /\ IterateBegin(p)
        /\ UNCHANGED <<scene, blk, chain, found, longpoll, heard, shut, sched>>

Woken == [p \in Procs |-> IF pc[p] = "lpwait" THEN "lpwoken" ELSE pc[p]]   \* cvBlockChange.notify_all

\* InvalidBlockFound.
FailedAfter(p) == IF about[p] \in scene.bad THEN failed \cup {about[p]} ELSE failed

\* The end of ActivateBestChainStep; cs_main is released.
ConnectTip(p) ==
    LET bad == about[p] \in scene.bad
        newTip == IF bad THEN tip ELSE about[p]
    IN  /\ pc[p] = "checked" /\ at[p] = 0
        /\ tip' = newTip
        /\ failed' = FailedAfter(p)
        /\ most' = IF bad THEN [most EXCEPT ![p] = 0] ELSE most
        /\ about' = [about EXCEPT ![p] = newTip]
        /\ pc' = [(IF bad THEN pc ELSE Woken) EXCEPT ![p] = "notify"]
        /\ cs' = Unlocked("cs_main", p)
        /\ UNCHANGED <<scene, blk, have, catcher, longpoll, heard, shut, signals, sched>>

\* UpdatedBlockTip, without cs_main.
UpdatedBlockTip(p) ==
    /\ Goto(p, "notify", "tip")
    /\ IterateBegin(p)
    /\ UNCHANGED <<scene, blk, most, about, cs, chain, catcher, longpoll, heard, shut, sched>>

TipNotified(p) ==
    LET ends == shut # "no" \/ (most[p] # 0 /\ about[p] = most[p])
    IN  /\ at[p] = 0 /\ Goto(p, "tip", IF ends THEN After(p) ELSE "activate")
        /\ most' = IF ends THEN [most EXCEPT ![p] = 0] ELSE most
        /\ UNCHANGED <<scene, blk, about, cs, chain, catcher, longpoll, heard, shut, signals, sched>>

Reports(p) == pc[p] \in {"refused", "checked"}

FoundIfValid(p) ==      \* slip: only the verdict on a valid block is noted
    [c \in Catchers |-> found[c]
        \/ (Reports(p) /\ callbacks[at[p]] = c /\ blk[c] = about[p] /\ pc[p] = "checked" /\ about[p] \notin scene.bad)]
\* submitblock_StateCatcher::BlockChecked.
FoundAfter(p) ==
    [c \in Catchers |-> found[c] \/ (Reports(p) /\ callbacks[at[p]] = c /\ blk[c] = about[p])]

\* An interface handled the signal, and the dispatch goes on to the next one.
Handled(p) ==
    /\ at[p] # 0
    /\ found' = FoundAfter(p)
    /\ heard' = IF pc[p] = "tip" /\ callbacks[at[p]] = "peerLogic" THEN about[p] ELSE heard
    /\ IterateNext(p)
    /\ UNCHANGED <<process, cs, chain, owed, longpoll, shut, sched>>

\* A block message.
NetBlock(p) ==
    /\ p \in Net /\ shut = "no" /\ Goto(p, "idle", "accept")
    /\ \E b \in 1 .. MaxBlock : blk' = [blk EXCEPT ![p] = b]
    /\ UNCHANGED <<scene, most, about, cs, chain, catcher, longpoll, heard, shut, signals, sched>>

\* A round without a block: Broadcast in SendMessages, SyncTransaction for a
\* transaction.  Both are dispatched with cs_main held and change nothing here.
Broadcast(p) ==
    /\ p \in Net /\ shut = "no" /\ Goto(p, "idle", "broadcast")
    /\ Lock("cs_main", p)
    /\ IterateBegin(p)
    /\ UNCHANGED <<scene, blk, most, about, chain, catcher, longpoll, heard, shut, sched>>

BroadcastDone(p) ==
    /\ at[p] = 0 /\ Goto(p, "broadcast", "idle")
    /\ cs' = Unlocked("cs_main", p)
    /\ UNCHANGED <<scene, blk, most, about, chain, catcher, longpoll, heard, shut, signals, sched>>
-----------------------------------------------------------------------------
(* submitblock and AuxMiningSubmitBlock.                                    *)

\* The work queue hands no call to a worker once it is interrupted.
SubmitCalled(p) ==
    /\ p \in Catchers /\ shut = "no"
    /\ Goto(p, "idle", IF p \in Submit THEN "check" ELSE "auxlock")
    /\ \E b \in 1 .. MaxBlock : blk' = [blk EXCEPT ![p] = b]
    /\ UNCHANGED <<scene, most, about, cs, chain, catcher, longpoll, heard, shut, signals, sched>>

\* A block with a verdict is a duplicate.
CheckDuplicate(p) ==
    /\ cs["cs_main"] = Free
    /\ Goto(p, "check", IF blk[p] <= tip \/ blk[p] \in failed THEN "done" ELSE "register")
    /\ UNCHANGED <<scene, blk, most, about, cs, chain, catcher, longpoll, heard, shut, signals, sched>>

RegisterCatcher(p) ==
    /\ Goto(p, "register", "lock")
    /\ Register(p)
    /\ UNCHANGED <<scene, blk, most, about, cs, chain, catcher, longpoll, heard, shut, sched>>

LockTemplate(p) ==
    /\ Goto(p, "lock", "accept") /\ Lock("cs_blocktemplate", p)
    /\ UNCHANGED <<scene, blk, most, about, chain, catcher, longpoll, heard, shut, signals, sched>>

AuxLock(p) ==
    /\ Goto(p, "auxlock", "accept") /\ Lock("cs_auxpowrpc", p)
    /\ Register(p)
    /\ UNCHANGED <<scene, blk, most, about, chain, catcher, longpoll, heard, shut, sched>>

\* The submitted hash is not in auxBlockCache.
AuxUnknown(p) ==
    /\ cs["cs_auxpowrpc"] = Free /\ Goto(p, "auxlock", "done")
    /\ UNCHANGED <<scene, blk, most, about, cs, chain, catcher, longpoll, heard, shut, signals, sched>>

SyncWithValidationInterfaceQueue(p) ==
    /\ Goto(p, "sync", "wait")
    /\ AddToProcessQueue(p)
    /\ UNCHANGED <<scene, blk, most, about, cs, chain, catcher, longpoll, heard, shut, signals>>

ReturnHolding(p) ==     \* slip: the lock is not released
    /\ Goto(p, "wait", "done") /\ \E i \in DOMAIN ran : ran[i] = p
    /\ Unregister(p)
    /\ UNCHANGED <<scene, blk, most, about, cs, chain, catcher, longpoll, heard, shut, sched>>
\* The promise is set: the catcher is unregistered, the call returns and the
\* catcher on its stack is gone.
Return(p) ==
    /\ Goto(p, "wait", "done") /\ \E i \in DOMAIN ran : ran[i] = p
    /\ Unregister(p)
    /\ cs' = [l \in Locks |-> IF cs[l] = p THEN Free ELSE cs[l]]
    /\ UNCHANGED <<scene, blk, most, about, chain, catcher, longpoll, heard, shut, sched>>
-----------------------------------------------------------------------------
(* createauxblock and getblocktemplate.                                     *)

others == <<scene, blk, most, about, chain, catcher, heard, shut, signals, sched>>

CreateCalled(p) ==
    /\ p \in AuxCreate /\ shut = "no" /\ Goto(p, "idle", "auxcreate")
    /\ Lock("cs_auxpowrpc", p)
    /\ UNCHANGED <<others, longpoll>>

CreateBlock(p) ==
    /\ Goto(p, "auxcreate", "done") /\ cs["cs_main"] = Free
    /\ cs' = Unlocked("cs_auxpowrpc", p)
    /\ UNCHANGED <<others, longpoll>>

\* LOCK(cs_main); with a longpollid it is left again to wait.
TemplateCalled(p) ==
    /\ p \in Template /\ shut = "no" /\ cs["cs_main"] = Free
    /\ Goto(p, "idle", IF p \in Longpoll THEN "lp" ELSE "template")
    /\ IF p \in Longpoll
       THEN /\ \E w \in 0 .. tip : watched' = [watched EXCEPT ![p] = w]
            /\ cached' = [cached EXCEPT ![p] = tip]
            /\ UNCHANGED cs
       ELSE cs' = [cs EXCEPT !["cs_main"] = p] /\ UNCHANGED longpoll
    /\ UNCHANGED others

StillSame(p) == cached[p] = watched[p]      \* slip: a stopping server is not noticed
KeepsWaiting(p) == cached[p] = watched[p] /\ shut = "no"

\* The condition of the loop, tested with csBestBlock held.
LongpollTest(p) ==
    /\ cs["csBestBlock"] \in {Free, p}
    /\ Goto(p, "lp", IF KeepsWaiting(p) THEN "lpready" ELSE "lpend")
    /\ cs' = [cs EXCEPT !["csBestBlock"] = IF KeepsWaiting(p) THEN p ELSE Free]
    /\ UNCHANGED <<others, longpoll>>

\* timed_wait releases csBestBlock; nobody notifies with csBestBlock held, so
\* what was notified before this step is lost.
LongpollWait(p) ==
    /\ Goto(p, "lpready", "lpwait")
    /\ cs' = Unlocked("csBestBlock", p)
    /\ UNCHANGED <<others, longpoll>>

EndsOrWaits(p) ==       \* slip: after the timeout the tip is not read again
    /\ cs["csBestBlock"] = Free
    /\ \E txs \in BOOLEAN : Goto(p, "lpwait", IF txs THEN "lpend" ELSE "lp")
    /\ UNCHANGED <<others, cs, longpoll>>
\* timed_wait timed out: new transactions end the wait.
LongpollTimeout(p) ==
    /\ cs["csBestBlock"] = Free
    /\ \E txs \in BOOLEAN :
           /\ Goto(p, "lpwait", IF txs THEN "lpend" ELSE "recache")
           /\ cs' = IF txs THEN cs ELSE [cs EXCEPT !["csBestBlock"] = p]
    /\ UNCHANGED <<others, longpoll>>

LongpollWoken(p) ==
    /\ Goto(p, "lpwoken", "recache") /\ Lock("csBestBlock", p)
    /\ UNCHANGED <<others, longpoll>>

\* The tip is read again under cs_main, csBestBlock held, and the loop goes on.
Recache(p) ==
    /\ cs["cs_main"] = Free
    /\ Goto(p, "recache", "lp")
    /\ cached' = [cached EXCEPT ![p] = tip]
    /\ UNCHANGED <<others, cs, watched>>

\* ENTER_CRITICAL_SECTION(cs_main): to the template, or the server is stopping.
LongpollEnd(p) ==
    /\ cs["cs_main"] = Free
    /\ Goto(p, "lpend", IF shut = "no" THEN "template" ELSE "done")
    /\ cs' = IF shut = "no" THEN [cs EXCEPT !["cs_main"] = p] ELSE cs
    /\ UNCHANGED <<others, longpoll>>

\* LOCK(cs_blocktemplate) with cs_main held; the template is made and returned.
MakeTemplate(p) ==
    /\ Goto(p, "template", "done") /\ cs["cs_blocktemplate"] = Free
    /\ cs' = Unlocked("cs_main", p)
    /\ UNCHANGED <<others, longpoll>>
-----------------------------------------------------------------------------
(* The scheduler thread, and the end of the node.                           *)

node == <<process, cs, chain, catcher, longpoll, heard>>

SchedulerThread ==
    /\ \/ serviceQueue("scheduler") \/ TimedOut("scheduler")
       \/ ProcessQueue("scheduler") \/ CallbackDone("scheduler")
    /\ UNCHANGED <<node, shut, signals>>

\* WaitForShutdown: Interrupt, then join_all.
InterruptNode ==
    /\ scene.stop /\ shut = "no" /\ shut' = "interrupted"
    /\ Interrupt
    /\ UNCHANGED <<node, signals>>

JoinAll ==
    /\ shut = "interrupted" /\ th["scheduler"].at = "done" /\ shut' = "joined"
    /\ UNCHANGED <<node, signals, sched>>

\* Shutdown: StopRPC wakes the longpolls (OnRPCStopped).
StopRPC ==
    /\ shut = "joined" /\ shut' = "rpc stopped"
    /\ pc' = Woken
    /\ UNCHANGED <<scene, blk, most, about, cs, chain, catcher, longpoll, heard, signals, sched>>

\* WorkQueue::WaitExit: every worker is out of its call.
StopHTTPServer ==
    /\ shut = "rpc stopped" /\ \A p \in Calls : pc[p] \in {"idle", "done"}
    /\ shut' = "http stopped"
    /\ UNCHANGED <<node, signals, sched>>

DropPeerLogic ==
    /\ shut = "http stopped" /\ shut' = "no peerLogic"
    /\ Unregister("peerLogic")
    /\ UNCHANGED <<node, sched>>

\* g_connman.reset() joins the message thread; then UnregisterAllValidationInterfaces.
StopNet ==
    /\ shut = "no peerLogic" /\ \A p \in Net : pc[p] = "idle"
    /\ shut' = "flushing"
    /\ Clear
    /\ UNCHANGED <<node, sched>>

FlushBackgroundCallbacks ==
    /\ shut = "flushing"
    /\ EmptyQueue
    /\ shut' = IF flush' = "returned" THEN "ended" ELSE shut
    /\ UNCHANGED <<node, signals>>
-----------------------------------------------------------------------------
Blockwork(p) ==
    \/ AcceptBlock(p) \/ BlockRefused(p) \/ ActivateBestChain(p) \/ ConnectTip(p)
    \/ UpdatedBlockTip(p) \/ TipNotified(p) \/ Handled(p) \/ BroadcastDone(p)

Submission(p) ==
    \/ CheckDuplicate(p) \/ RegisterCatcher(p) \/ LockTemplate(p) \/ AuxLock(p) \/ AuxUnknown(p)
    \/ SyncWithValidationInterfaceQueue(p) \/ Return(p)

Templating(p) ==
    \/ CreateBlock(p) \/ LongpollTest(p) \/ LongpollWait(p) \/ LongpollTimeout(p) \/ LongpollWoken(p)
    \/ Recache(p) \/ LongpollEnd(p) \/ MakeTemplate(p)

Called(p) ==
    /\ p \in scene.procs
    /\ SubmitCalled(p) \/ CreateCalled(p) \/ TemplateCalled(p) \/ NetBlock(p) \/ Broadcast(p)

Stopping ==
    \/ JoinAll \/ StopRPC \/ StopHTTPServer \/ DropPeerLogic \/ StopNet
    \/ FlushBackgroundCallbacks

MiningNext ==
    \/ \E p \in Procs : Called(p) \/ Blockwork(p) \/ Submission(p) \/ Templating(p)
    \/ SchedulerThread \/ InterruptNode \/ Stopping

MiningSpec == MiningInit /\ [][MiningNext]_miningVars

\* A thread in a call goes on when it can, and gets a lock that is free again
\* and again; waits with a deadline time out.
MiningFairSpec ==
    /\ MiningSpec
    /\ \A p \in Procs : SF_miningVars(Blockwork(p) \/ Submission(p) \/ Templating(p))
    /\ WF_miningVars(SchedulerThread) /\ WF_miningVars(Stopping)
-----------------------------------------------------------------------------
(* Properties.                                                              *)

MiningTypeOK ==
    /\ scene \in Scenes
    /\ pc \in [Procs -> {"idle", "check", "register", "lock", "auxlock", "accept", "refused",
                         "activate", "checked", "notify", "tip", "sync", "wait", "auxcreate",
                         "template", "lp", "lpready", "lpwait", "lpwoken", "recache", "lpend", "broadcast", "done"}]
    /\ \A f \in {blk, most, about} : f \in [Procs -> 0 .. MaxBlock]
    /\ cs \in [Locks -> Procs \cup {Free}]
    /\ tip \in 0 .. MaxBlock /\ heard \in 0 .. MaxBlock
    /\ have \subseteq 1 .. MaxBlock /\ failed \subseteq scene.bad
    /\ SignalsTypeOK /\ TypeOK

Alive(i) ==
    IF i = "peerLogic" THEN shut \notin {"no peerLogic", "flushing", "ended"}
    ELSE pc[i] # "done"

\* An interface whose owner is gone, the catcher on the stack of a call that
\* returned or the peerLogic that Shutdown deleted, is left in the list only while
\* a dispatch stands on its entry: no dispatch comes to it but beside one that was
\* there before.  Nothing keeps the interface alive for those: the message thread,
\* and a submitter under another lock, may call it after its end.
OnlyBesideAnother ==
    \A n \in m_list : Alive(callbacks[n]) \/ \E p \in Procs : at[p] = n

\* The threads that process blocks exclude each other: by cs_blocktemplate, by
\* cs_auxpowrpc, or because only the message thread does it.
OneProcessor ==
    Cardinality({k \in {Submit, AuxSubmit, Net} : k \cap scene.procs # {}}) <= 1

\* A call returns the verdict on its block if one was dispatched while its
\* catcher was registered, whichever thread processed the block.  Not so if a
\* block below it failed and the threads do not exclude each other: then its
\* block is never connected, the call waits for nothing and may return while
\* another thread still dispatches a refusal of the block.
VerdictFound ==
    \A c \in Catchers : pc[c] = "done" /\ owed[c] =>
        \/ found[c]
        \/ ~OneProcessor /\ \E k \in 1 .. blk[c] - 1 : k \in failed

\* When no block is being processed, the last tip that peerLogic was told of is
\* the tip of the chain.  Threads that do not exclude each other may announce
\* their tips in the wrong order.
TipHeard ==
    /\ OneProcessor
    /\ \A p \in Procs : pc[p] \notin {"checked", "notify", "tip"}
    /\ m_map["peerLogic"] # 0
    => heard = tip

\* The interfaces are served: none is found by a dispatch that begins after its
\* end alone, a catcher has the verdict it waits for, peerLogic the latest tip.
InterfacesServed == MiningTypeOK /\ OnlyBesideAnother /\ VerdictFound /\ TipHeard

\* submitblock takes cs_blocktemplate and then cs_main, getblocktemplate the
\* other way round: each holds what the other waits for.
OppositeOrder ==
    \E s \in Submit, t \in Template :
        /\ cs["cs_blocktemplate"] = s /\ pc[s] \in {"accept", "activate"}
        /\ cs["cs_main"] = t /\ pc[t] = "template"

\* A submitter waits for a callback that the scheduler thread, already joined,
\* will not run, and Shutdown waits for the submitter.
JoinedTooEarly ==
    \E c \in Catchers :
        pc[c] = "wait" /\ th["scheduler"].at = "done" /\ \A i \in DOMAIN ran : ran[i] # c

Entangled == OppositeOrder \/ JoinedTooEarly

\* Every call of a mining RPC returns, but for a longpoll, unless the node falls
\* into one of the two cycles of waiting above.
CallsReturn == \A p \in Calls \ Longpoll : pc[p] # "idle" ~> pc[p] = "done" \/ Entangled

\* A longpoll answers once the tip is another than the one it watches, also if
\* the tip changed, and was notified, before it waited; with the same exception.
LongpollWakes ==
    \A p \in Longpoll :
        (pc[p] \notin {"idle", "done"} /\ tip # watched[p]) ~> pc[p] = "done" \/ Entangled

\* The node that is told to stop does, with the same exception.
ShutdownEnds == shut = "interrupted" ~> shut = "ended" \/ Entangled
=============================================================================
