--------------------------- MODULE Mining_proofs ---------------------------
(***************************************************************************)
(* What is promised of the mining calls (MiningRpc), for any number of      *)
(* calls of every kind, any of them together with the message thread, any   *)
(* invalid blocks, and whether the node is shut down or not.  The parts of  *)
(* the state that are MainSignals' and Scheduler's obey those modules, so   *)
(* their invariants hold here too.                                          *)
(***************************************************************************)
EXTENDS MiningRpc, Callbacks_proofs

\* Where a submitter or the message thread is: before ProcessNewBlock, in it
\* and after it; in ActivateBestChain; after ProcessNewBlock.
Before == {"check", "register", "lock", "auxlock"}
Working == {"accept", "refused", "activate", "checked", "notify", "tip", "sync", "wait"}
Activating == {"activate", "checked", "notify", "tip"}
Back == {"sync", "wait"}

\* Interface i is still to handle what p dispatches, or does it now.
Pending(p, i) == i \in due[p] \/ (at[p] # 0 /\ callbacks[at[p]] = i)

\* Who can be where, and with which locks.
Places ==
    /\ \A p \in Procs :
           /\ pc[p] # "idle" => p \in scene.procs
           /\ pc[p] \in {"check", "register", "lock"} => p \in Submit
           /\ pc[p] = "auxlock" => p \in AuxSubmit
           /\ pc[p] \in Back => p \in Catchers
           /\ pc[p] \in Working => p \in Catchers \cup Net
           /\ pc[p] = "broadcast" => p \in Net
           /\ at[p] # 0 => pc[p] \in {"refused", "checked", "tip", "broadcast"}
           /\ pc[p] \in {"refused", "checked", "broadcast"} => cs["cs_main"] = p
    /\ \A p \in Submit : pc[p] \in Working => cs["cs_blocktemplate"] = p
    /\ \A p \in AuxSubmit : pc[p] \in Working => cs["cs_auxpowrpc"] = p

Gone == {"no peerLogic", "flushing", "ended"}

\* A catcher is registered during its call, peerLogic until Shutdown drops it,
\* which is after the calls.
Registrations ==
    /\ \A c \in Catchers : m_map[c] # 0 <=> pc[c] \in Working \cup {"lock"}
    /\ m_map["peerLogic"] # 0 <=> shut \notin Gone
    /\ shut # "no" => scene.stop
    /\ shut \in {"http stopped"} \cup Gone => \A p \in Calls : pc[p] \in {"idle", "done"}

\* The active chain is of accepted blocks that did not fail; what a thread is
\* about to connect, connected or refused.
Blocks ==
    /\ \A k \in 1 .. tip : k \in have \ failed
    /\ \A k \in have : k = 1 \/ k - 1 \in have
    /\ \A p \in Procs :
           /\ pc[p] \in Before \cup Working => blk[p] # 0
           /\ pc[p] \notin Activating => most[p] = 0
           /\ \A k \in 1 .. most[p] : k \in have
           /\ pc[p] = "activate" /\ most[p] # 0 => most[p] = MaxBlock
           /\ pc[p] = "checked" => about[p] = tip + 1 /\ about[p] <= most[p]
           /\ pc[p] \in {"notify", "tip"} =>
                  about[p] <= tip /\ (most[p] # 0 => about[p] # 0 /\ about[p] <= most[p])
           /\ pc[p] = "refused" => about[p] = blk[p] /\ ~Acceptable(blk[p])
           /\ pc[p] \in Activating => \A k \in 1 .. blk[p] : k \in have

\* A callback of SyncWithValidationInterfaceQueue is added by the call that
\* waits for it; one task at most runs callbacks, and only if there are some; an
\* interrupted scheduler thread waits for nothing more.
Scheduling ==
    /\ stopRequested = FALSE /\ stopWhenEmpty = FALSE
    /\ \A c \in Catchers : pc[c] \notin {"wait", "done"} => \A i \in DOMAIN added : added[i] # c
    /\ flush = "no" /\ (taskQueue # <<>> \/ th["scheduler"].at = "run") => m_callbacks_pending # <<>>
    /\ shut # "no" => th["scheduler"].intr /\ th["scheduler"].at \notin {"wait", "timed"}
    /\ flush # "no" => shut \in {"flushing", "ended"}

\* A call that came back early because the node stops: its callback is not run.
Stranded(c) ==
    /\ shut # "no"
    /\ \A i \in DOMAIN ran : ran[i] # c
    /\ th["scheduler"].at = "run" => Head(m_callbacks_pending) # c

FailedUpTo(b) == \E k \in 1 .. b : k \in failed

\* What is known of the verdict on the block of catcher c.
VerdictKnown(c) ==
    /\ pc[c] \in Activating \cup Back /\ blk[c] \in failed => found[c]
    /\ pc[c] = "refused" => found[c] \/ Pending(c, c)
    /\ pc[c] \in Activating /\ most[c] # 0 => blk[c] <= most[c] \/ FailedUpTo(blk[c])
    /\ pc[c] \in Back => found[c] \/ blk[c] <= tip \/ FailedUpTo(blk[c]) \/ Stranded(c)
    /\ \A p \in Procs : pc[p] = "checked" /\ about[p] = blk[c] /\ pc[c] \in Activating \cup Back =>
           found[c] \/ Pending(p, c)
    /\ owed[c] => pc[c] \in Working \cup {"lock", "done"}
    /\ owed[c] /\ pc[c] # "done" =>
           found[c] \/ \E p \in Procs : Reports(p) /\ about[p] = blk[c] /\ Pending(p, c)

Verdicts == VerdictFound /\ \A c \in Catchers : VerdictKnown(c)

\* With one thread at work peerLogic knows the tip, or will be told it.
Hearing ==
    OneProcessor =>
        /\ \A p \in Procs : pc[p] \in {"notify", "tip"} => about[p] = tip
        /\ m_map["peerLogic"] # 0 =>
               \/ heard = tip
               \/ \E p \in Procs : pc[p] = "notify" \/ (pc[p] = "tip" /\ Pending(p, "peerLogic"))

Pcs == {"idle", "check", "register", "lock", "auxlock", "accept", "refused", "activate", "checked",
        "notify", "tip", "sync", "wait", "auxcreate", "template", "lp", "lpready", "lpwait",
        "lpwoken", "recache", "lpend", "broadcast", "done"}

\* The types of the variables of MiningRpc.
OwnTypes ==
    /\ scene \in Scenes
    /\ pc \in [Procs -> Pcs]
    /\ blk \in [Procs -> 0 .. MaxBlock] /\ most \in [Procs -> 0 .. MaxBlock]
    /\ about \in [Procs -> 0 .. MaxBlock]
    /\ cs \in [Locks -> Procs \cup {Free}]
    /\ tip \in 0 .. MaxBlock /\ heard \in 0 .. MaxBlock
    /\ have \subseteq 1 .. MaxBlock /\ failed \subseteq scene.bad
    /\ found \in [Catchers -> BOOLEAN] /\ owed \in [Catchers -> BOOLEAN]

MiningInv ==
    /\ OwnTypes /\ SignalsInv /\ IInv
    /\ Places /\ Registrations /\ Blocks /\ Scheduling /\ Verdicts /\ Hearing
-----------------------------------------------------------------------------
(* The constants, and steps that leave blocks and callbacks alone.          *)

\* What the proofs use of the constants.
LEMMA Consts ==
    /\ Walks = Procs /\ Interfaces = Catchers \cup {"peerLogic"} /\ "peerLogic" \notin Procs
    /\ Free \notin Procs /\ Threads = {"scheduler"} /\ Callbacks = Catchers
    /\ Catchers \subseteq Calls /\ Calls \subseteq Procs /\ Net \subseteq Procs
    /\ Procs = Calls \cup Net /\ Catchers = Submit \cup AuxSubmit
    /\ Catchers \cap Net = {} /\ Submit \cap AuxSubmit = {}
    /\ MaxBlock \in Nat /\ MaxBlock <= 2
    /\ \A s \in Scenes : s.procs \subseteq Procs /\ s.bad \subseteq 1 .. MaxBlock /\ s.stop \in BOOLEAN
<1>1. Submit \cap AuxSubmit = {} /\ Submit \cap Net = {} /\ AuxSubmit \cap Net = {}
    <2>1. CallKinds[1] = Submit /\ CallKinds[2] = AuxSubmit /\ CallKinds[5] = Net
        BY DEF CallKinds
    <2>2. \A i, j \in 1 .. 5 : i # j => CallKinds[i] \cap CallKinds[j] = {}
        BY MiningConstants
    <2>3. CallKinds[1] \cap CallKinds[2] = {} /\ CallKinds[1] \cap CallKinds[5] = {} /\ CallKinds[2] \cap CallKinds[5] = {}
        BY <2>2
    <2>4. QED
        BY <2>1, <2>3
<1>2. QED
    BY <1>1, MiningConstants DEF Catchers, Calls, Procs, Free

\* A finite set with two different elements has at least two.
LEMMA TwoElements ==
    ASSUME NEW S, IsFiniteSet(S), NEW a \in S, NEW b \in S, a # b
    PROVE  Cardinality(S) >= 2
<1>1. IsFiniteSet({a}) /\ Cardinality({a}) = 1
    BY FS_Singleton
<1>2. IsFiniteSet({a} \cup {b}) /\ Cardinality({a} \cup {b}) = 2
    <2>1. b \notin {a}
        OBVIOUS
    <2>2. QED
        BY <1>1, <2>1, FS_AddElement
<1>3. {a} \cup {b} \subseteq S
    OBVIOUS
<1>4. QED
    BY <1>2, <1>3, FS_Subset, FS_CardinalityType

\* Where the kinds of processes exclude each other, so do their locks: at most
\* one process is in ProcessNewBlock or waits for the queue after it.
LEMMA OneWorks ==
    ASSUME OwnTypes, Places, OneProcessor, NEW p \in Procs, NEW q \in Procs,
           pc[p] \in Working, pc[q] \in Working
    PROVE  p = q
<1>1. p \in scene.procs /\ q \in scene.procs /\ p \in Catchers \cup Net /\ q \in Catchers \cup Net
    BY DEF Places, Working
<1> DEFINE Here == {k \in {Submit, AuxSubmit, Net} : k \cap scene.procs # {}}
<1>2. \A k, l \in Here : k = l
    <2>1. IsFiniteSet({Submit, AuxSubmit, Net})
        <3>1. IsFiniteSet({Submit} \cup {AuxSubmit} \cup {Net})
            BY FS_Singleton, FS_Union
        <3>2. QED
            BY <3>1
    <2>2. IsFiniteSet(Here) /\ Cardinality(Here) \in Nat
        BY <2>1, FS_Subset, FS_CardinalityType
    <2>3. SUFFICES ASSUME NEW k \in Here, NEW l \in Here, k # l PROVE FALSE
        OBVIOUS
    <2>4. Cardinality(Here) >= 2
        BY <2>2, <2>3, TwoElements
    <2>5. QED
        BY <2>2, <2>4 DEF OneProcessor
<1>3. CASE p \in Submit
    <2>1. q \in Submit
        BY <1>1, <1>2, <1>3, Consts
    <2>2. QED
        BY <1>3, <2>1 DEF Places
<1>4. CASE p \in AuxSubmit
    <2>1. q \in AuxSubmit
        BY <1>1, <1>2, <1>4, Consts
    <2>2. QED
        BY <1>4, <2>1 DEF Places
<1>5. CASE p \in Net
    <2>1. q \in Net
        BY <1>1, <1>2, <1>5, Consts
    <2>2. IsFiniteSet(Net) /\ Cardinality(Net) <= 1
        BY Consts, MainSignalsConstants, MiningConstants, FS_Subset
    <2>3. p # q => Cardinality(Net) >= 2
        BY <1>5, <2>1, <2>2, TwoElements
    <2>4. QED
        BY <2>2, <2>3, FS_CardinalityType
<1>6. QED
    BY <1>1, <1>3, <1>4, <1>5, Consts

\* A step of createauxblock or getblocktemplate: blocks, signals and callbacks
\* are as they were, and so is who holds the locks of a process at work.
QuietStep ==
    /\ UNCHANGED others
    /\ pc' \in [Procs -> Pcs] /\ cs' \in [Locks -> Procs \cup {Free}]
    /\ \A q \in Procs : pc'[q] # pc[q] =>
           /\ pc[q] \notin Before \cup Working \cup {"broadcast", "done"}
           /\ pc'[q] \notin Before \cup Working \cup {"broadcast", "idle"}
           /\ q \in scene.procs /\ (pc[q] = "idle" => shut = "no")
    /\ cs'["cs_blocktemplate"] = cs["cs_blocktemplate"]
    /\ \A l \in {"cs_main", "cs_auxpowrpc"} : \A q \in Procs :
           cs[l] = q /\ pc[q] \in Working \cup {"broadcast"} => cs'[l] = q

\* The steps of createauxblock and getblocktemplate are of that kind.
LEMMA QuietSteps ==
    ASSUME OwnTypes, Places, NEW p \in Procs,
           \/ p \in scene.procs /\ (CreateCalled(p) \/ TemplateCalled(p))
           \/ Templating(p)
    PROVE  QuietStep
<1> USE DEF OwnTypes, Places, QuietStep, Pcs, Before, Working, Locks, Goto
<1>1. CASE p \in scene.procs /\ CreateCalled(p)
    BY <1>1, Consts DEF CreateCalled, Lock
<1>2. CASE p \in scene.procs /\ TemplateCalled(p)
    BY <1>2, Consts DEF TemplateCalled
<1>3. CASE CreateBlock(p)
    BY <1>3, Consts DEF CreateBlock, Unlocked
<1>4. CASE LongpollTest(p)
    BY <1>4, Consts DEF LongpollTest
<1>5. CASE LongpollWait(p)
    BY <1>5, Consts DEF LongpollWait, Unlocked
<1>6. CASE LongpollTimeout(p)
    BY <1>6, Consts DEF LongpollTimeout
<1>7. CASE LongpollWoken(p)
    BY <1>7, Consts DEF LongpollWoken, Lock
<1>8. CASE Recache(p)
    BY <1>8, Consts DEF Recache
<1>9. CASE LongpollEnd(p)
    BY <1>9, Consts DEF LongpollEnd
<1>10. CASE MakeTemplate(p)
    BY <1>10, Consts DEF MakeTemplate, Unlocked
<1>11. QED
    BY <1>1, <1>2, <1>3, <1>4, <1>5, <1>6, <1>7, <1>8, <1>9, <1>10 DEF Templating

\* Every step does to the interfaces what MainSignals allows.
LEMMA SignalsSteps ==
    ASSUME OwnTypes, Places, [MiningNext]_miningVars
    PROVE  [SignalsNext]_signalVars
<1> USE DEF signals
<1>1. CASE UNCHANGED miningVars
    BY <1>1 DEF miningVars
<1>2. ASSUME NEW p \in Procs, Called(p) PROVE [SignalsNext]_signalVars
    <2>1. p \in Walks
        BY Consts
    <2>2. QED
        BY <1>2, <2>1 DEF Called, SubmitCalled, NetBlock, Broadcast, CreateCalled, TemplateCalled, others,
           SignalsNext
<1>3. ASSUME NEW p \in Procs, Blockwork(p) PROVE [SignalsNext]_signalVars
    <2>1. p \in Walks
        BY Consts
    <2>2. QED
        BY <1>3, <2>1 DEF Blockwork, AcceptBlock, BlockRefused, ActivateBestChain, ConnectTip,
           UpdatedBlockTip,
            TipNotified, Handled, BroadcastDone, SignalsNext
<1>4. ASSUME NEW p \in Procs, Submission(p) PROVE [SignalsNext]_signalVars
    <2>1. RegisterCatcher(p) \/ AuxLock(p) \/ Return(p) => p \in Interfaces
        BY Consts DEF RegisterCatcher, AuxLock, Return, Goto, Places, Before, Back
    <2>2. QED
        BY <1>4, <2>1 DEF Submission, CheckDuplicate, RegisterCatcher, LockTemplate, AuxLock, AuxUnknown,
            SyncWithValidationInterfaceQueue, Return, SignalsNext
<1>5. ASSUME NEW p \in Procs, Templating(p) PROVE [SignalsNext]_signalVars
    BY <1>5, QuietSteps DEF QuietStep, others
<1>6. CASE SchedulerThread \/ InterruptNode
    BY <1>6 DEF SchedulerThread, InterruptNode
<1>7. CASE Stopping
    BY <1>7, Consts DEF Stopping, JoinAll, StopRPC, StopHTTPServer, DropPeerLogic, StopNet,
        FlushBackgroundCallbacks, SignalsNext
<1>8. QED
    BY <1>1, <1>2, <1>3, <1>4, <1>5, <1>6, <1>7 DEF MiningNext

\* Every step does to the queues what Scheduler allows.
LEMMA SchedulerSteps ==
    ASSUME OwnTypes, Places, [MiningNext]_miningVars
    PROVE  [Next]_vars
<1> USE DEF sched
<1>1. CASE UNCHANGED miningVars
    BY <1>1 DEF miningVars
<1>2. ASSUME NEW p \in Procs, Called(p) PROVE [Next]_vars
    BY <1>2 DEF Called, SubmitCalled, NetBlock, Broadcast, CreateCalled, TemplateCalled, others
<1>3. ASSUME NEW p \in Procs, Blockwork(p) PROVE [Next]_vars
    BY <1>3 DEF Blockwork, AcceptBlock, BlockRefused, ActivateBestChain, ConnectTip, UpdatedBlockTip,
        TipNotified, Handled, BroadcastDone
<1>4. ASSUME NEW p \in Procs, Submission(p) PROVE [Next]_vars
    <2>1. SyncWithValidationInterfaceQueue(p) => p \in Callbacks
        BY Consts DEF SyncWithValidationInterfaceQueue, Goto, Places, Before, Back
    <2>2. QED
        BY <1>4, <2>1 DEF Submission, CheckDuplicate, RegisterCatcher, LockTemplate, AuxLock, AuxUnknown,
            SyncWithValidationInterfaceQueue, Return, Next
<1>5. ASSUME NEW p \in Procs, Templating(p) PROVE [Next]_vars
    BY <1>5, QuietSteps DEF QuietStep, others
<1>6. CASE SchedulerThread \/ InterruptNode
    BY <1>6, Consts DEF SchedulerThread, InterruptNode, Next
<1>7. CASE Stopping
    BY <1>7, Consts DEF Stopping, JoinAll, StopRPC, StopHTTPServer, DropPeerLogic, StopNet,
        FlushBackgroundCallbacks, Next
<1>8. QED
    BY <1>1, <1>2, <1>3, <1>4, <1>5, <1>6, <1>7 DEF MiningNext
-----------------------------------------------------------------------------
(* What a dispatch has still to deliver.                                    *)

\* Other dispatches than p's are where they were.
Apart(p) ==
    \A q \in Procs \ {p} : at'[q] = at[q] /\ \A i : Pending(q, i)' <=> Pending(q, i)

\* A dispatch that begins owes a call to everybody who is registered.
LEMMA BeginEffect ==
    ASSUME SignalsInv, NEW p \in Procs, IterateBegin(p)
    PROVE  /\ m_map' = m_map /\ callbacks' = callbacks /\ Apart(p)
           /\ \A i \in Interfaces : m_map[i] # 0 => Pending(p, i)'
           /\ at'[p] \in m_list \cup {0}
<1>1. /\ at \in [Procs -> Entries \cup {0}] /\ due \in [Procs -> SUBSET Interfaces]
      /\ m_list \subseteq Entries
    BY Consts DEF SignalsInv, SignalsTypeOK
<1> DEFINE n == Following(0, m_list)
<1>2. /\ at' = [at EXCEPT ![p] = n] /\ m_map' = m_map /\ callbacks' = callbacks
      /\ due' = [due EXCEPT ![p] = {i \in Interfaces : m_map[i] # 0 /\ (n # 0 => callbacks[n] # i)}]
    BY DEF IterateBegin, StandOn
<1>3. n \in m_list \cup {0}
    BY <1>1, FollowingLeast
<1> HIDE DEF n
<1>4. Apart(p)
    BY <1>1, <1>2 DEF Apart, Pending
<1>5. QED
    BY <1>1, <1>2, <1>3, <1>4 DEF Pending

\* A dispatch that goes on owes what it owed, but for the call that returned.
LEMMA NextEffect ==
    ASSUME SignalsInv, NEW p \in Procs, IterateNext(p)
    PROVE  /\ m_map' = m_map /\ callbacks' = callbacks /\ Apart(p)
           /\ \A i : Pending(p, i) /\ callbacks[at[p]] # i => Pending(p, i)'
           /\ at'[p] \in m_list \cup {0}
<1>1. /\ at \in [Procs -> Entries \cup {0}] /\ due \in [Procs -> SUBSET Interfaces]
      /\ m_list \subseteq Entries
    BY Consts DEF SignalsInv, SignalsTypeOK
<1>0. at[p] \in Nat
    BY <1>1, EntriesNat
<1> DEFINE n == Following(at[p], m_list)
<1>2. /\ at' = [at EXCEPT ![p] = n] /\ m_map' = m_map /\ callbacks' = callbacks
      /\ due' = [due EXCEPT ![p] = IF n = 0 THEN @ ELSE @ \ {callbacks[n]}]
    BY DEF IterateNext, StandOn
<1>3. n \in m_list \cup {0}
    BY <1>0, <1>1, FollowingLeast
<1> HIDE DEF n
<1>4. Apart(p)
    BY <1>1, <1>2 DEF Apart, Pending
<1>5. QED
    BY <1>1, <1>2, <1>3, <1>4 DEF Pending

\* A dispatch that ended owes nothing.
LEMMA EndedOwesNothing ==
    ASSUME SignalsInv, NEW p \in Procs, at[p] = 0
    PROVE  \A i : ~Pending(p, i)
BY Consts DEF SignalsInv, Ahead, Pending

\* To register an interface changes no dispatch under way.
LEMMA RegisterEffect ==
    ASSUME SignalsInv, NEW i \in Interfaces, Register(i)
    PROVE  /\ at' = at /\ \A q \in Procs : \A j : Pending(q, j)' <=> Pending(q, j)
           /\ m_map'[i] # 0 /\ \A j \in Interfaces \ {i} : m_map'[j] = m_map[j]
           /\ \A n \in m_list : callbacks'[n] = callbacks[n]
<1>1. /\ m_map \in [Interfaces -> Entries \cup {0}] /\ made \in Nat /\ m_list \subseteq 1 .. made
      /\ callbacks \in [Entries -> Interfaces \cup {Nobody}] /\ m_list \subseteq Entries
    BY MainSignalsConstants DEF SignalsInv, SignalsTypeOK
<1>2. \A n \in m_list : callbacks'[n] = callbacks[n]
    BY <1>1 DEF Register
<1>3. \A q \in Procs : at[q] # 0 => at[q] \in m_list
    BY Consts DEF SignalsInv, EntriesAlive
<1>4. \A q \in Procs : \A j : Pending(q, j)' <=> Pending(q, j)
    BY <1>2, <1>3 DEF Pending, Register
<1>5. QED
    BY <1>1, <1>2, <1>4 DEF Register

\* To unregister one only takes its own calls from the dispatches under way.
LEMMA UnregisterEffect ==
    ASSUME SignalsInv, NEW i \in Interfaces, Unregister(i)
    PROVE  /\ at' = at /\ callbacks' = callbacks
           /\ \A q \in Procs : \A j : j # i => (Pending(q, j)' <=> Pending(q, j))
           /\ m_map'[i] = 0 /\ \A j \in Interfaces \ {i} : m_map'[j] = m_map[j]
<1>1. m_map \in [Interfaces -> Entries \cup {0}] /\ due \in [Procs -> SUBSET Interfaces]
    BY Consts DEF SignalsInv, SignalsTypeOK
<1>2. at' = at /\ callbacks' = callbacks /\ due' = [w \in Procs |-> due[w] \ {i}]
    BY Consts DEF Unregister
<1>3. m_map'[i] = 0 /\ \A j \in Interfaces \ {i} : m_map'[j] = m_map[j]
    BY <1>1 DEF Unregister
<1>4. QED
    BY <1>1, <1>2, <1>3 DEF Pending

\* An entry of the list is that of a registered interface, or a dispatch stands on it.
LEMMA ListUsed ==
    ASSUME SignalsInv, NEW n \in m_list
    PROVE  (\E i \in Interfaces : m_map[i] = n) \/ \E p \in Procs : at[p] = n
<1>1. /\ count[n] = Cardinality(On(n)) + (IF Registered(n) THEN 1 ELSE 0)
      /\ count[n] > 0
    BY DEF SignalsInv, CountExact, On
<1>2. CASE Registered(n)
    BY <1>2 DEF Registered
<1>3. CASE ~Registered(n)
    <2>1. Cardinality(On(n)) > 0
        BY <1>1, <1>3, OnFinite
    <2>2. On(n) # {}
        BY <2>1, FS_EmptySet
    <2>3. QED
        BY <2>2, Consts DEF On
<1>4. QED
    BY <1>2, <1>3

\* A step of the message thread at the ends of a round without a block.
RoundStep(p) ==
    /\ p \in Net /\ p \in scene.procs
    /\ UNCHANGED <<scene, blk, most, about, tip, have, failed, found, owed, heard, shut, m_map>>
    /\ UNCHANGED vars
    /\ \/ /\ pc[p] = "idle" /\ pc' = [pc EXCEPT ![p] = "broadcast"] /\ shut = "no"
          /\ cs["cs_main"] = Free /\ cs' = [cs EXCEPT !["cs_main"] = p]
       \/ /\ pc[p] = "broadcast" /\ pc' = [pc EXCEPT ![p] = "idle"] /\ at'[p] = 0
          /\ cs["cs_main"] = p /\ cs' = [cs EXCEPT !["cs_main"] = Free]
    /\ Apart(p)

LEMMA Rounds ==
    ASSUME OwnTypes, Places, SignalsInv, NEW p \in Procs,
           (p \in scene.procs /\ Broadcast(p)) \/ BroadcastDone(p)
    PROVE  RoundStep(p)
<1>1. CASE p \in scene.procs /\ Broadcast(p)
    <2>1. m_map' = m_map /\ Apart(p)
        BY <1>1, BeginEffect DEF Broadcast
    <2>2. QED
        BY <1>1, <2>1 DEF Broadcast, Goto, Lock, RoundStep, chain, catcher, sched
<1>2. CASE BroadcastDone(p)
    <2>1. /\ at[p] = 0 /\ pc[p] = "broadcast" /\ p \in Net /\ p \in scene.procs /\ cs["cs_main"] = p
        BY <1>2 DEF BroadcastDone, Goto, Places
    <2>2. UNCHANGED signalVars
        BY <1>2 DEF BroadcastDone, signals
    <2>3. Apart(p) /\ at' = at /\ m_map' = m_map
        BY <2>2 DEF Apart, Pending, signalVars
    <2>4. QED
        BY <1>2, <2>1, <2>3 DEF BroadcastDone, Goto, Unlocked, RoundStep, chain, catcher, sched
<1>3. QED
    BY <1>1, <1>2
-----------------------------------------------------------------------------
(* The parts of the invariant, one after the other.                         *)

\* MostWork is the longest prefix of the chain that is there and did not fail.
LEMMA MostWorkBest ==
    ASSUME MiningInv
    PROVE  /\ MostWork \in tip .. MaxBlock
           /\ \A k \in 1 .. MostWork : k \in have \ failed
           /\ \A b \in 1 .. MaxBlock : (\A k \in 1 .. b : k \in have \ failed) => b <= MostWork
<1> DEFINE Good == {b \in 1 .. MaxBlock : \A k \in 1 .. b : k \in have \ failed}
<1>1. MaxBlock \in 0 .. 2 /\ tip \in 0 .. MaxBlock /\ \A k \in 1 .. tip : k \in have \ failed
    BY Consts DEF MiningInv, OwnTypes, Blocks
<1>2. MostWork = Cardinality(Good)
    BY DEF MostWork
<1>3. Cardinality({}) = 0 /\ Cardinality({1}) = 1 /\ Cardinality({1} \cup {2}) = 2
    <2>1. IsFiniteSet({1}) /\ Cardinality({1}) = 1
        BY FS_Singleton
    <2>2. 2 \notin {1}
        OBVIOUS
    <2>3. Cardinality({1} \cup {2}) = 1 + 1
        BY <2>1, <2>2, FS_AddElement
    <2>4. QED
        BY <2>1, <2>3, FS_EmptySet
<1>4. \A b \in Good : b \in 1 .. MaxBlock /\ b \in {1, 2} /\ (b = 2 => 1 \in Good)
    BY <1>1
<1>5. CASE 2 \in Good
    <2>1. Good = {1} \cup {2}
        BY <1>4, <1>5
    <2>2. MostWork = 2 /\ MaxBlock = 2
        BY <1>1, <1>2, <1>3, <1>4, <1>5, <2>1
    <2>3. QED
        BY <1>1, <1>5, <2>2
<1>6. CASE 2 \notin Good /\ 1 \in Good
    <2>1. Good = {1}
        BY <1>4, <1>6
    <2>2. MostWork = 1 /\ 1 <= MaxBlock
        BY <1>1, <1>2, <1>3, <1>4, <1>6, <2>1
    <2>3. tip # 2
        BY <1>1, <1>6
    <2>4. QED
        BY <1>1, <1>6, <2>2, <2>3
<1>7. CASE Good = {}
    <2>1. MostWork = 0
        BY <1>2, <1>3, <1>7
    <2>2. tip = 0
        BY <1>1, <1>7
    <2>3. \A b \in 1 .. MaxBlock : ~(\A k \in 1 .. b : k \in have \ failed)
        BY <1>7
    <2>4. QED
        BY <1>1, <2>1, <2>2, <2>3
<1>8. QED
    BY <1>4, <1>5, <1>6, <1>7

\* Who takes part, and whether they exclude each other, is settled.
LEMMA SceneKept ==
    ASSUME OwnTypes, Places, SignalsInv, [MiningNext]_miningVars
    PROVE  scene' = scene /\ (OneProcessor' <=> OneProcessor)
<1> USE DEF process
<1> SUFFICES scene' = scene
    BY DEF OneProcessor
<1>1. ASSUME NEW p \in Procs, p \in scene.procs, SubmitCalled(p) PROVE scene' = scene
    BY <1>1 DEF SubmitCalled, Goto
<1>2. ASSUME NEW p \in Procs, p \in scene.procs, NetBlock(p) PROVE scene' = scene
    BY <1>2 DEF NetBlock, Goto
<1>3. ASSUME NEW p \in Procs, AcceptBlock(p) PROVE scene' = scene
    BY <1>3 DEF AcceptBlock, OwedFor
<1>4. ASSUME NEW p \in Procs, BlockRefused(p) PROVE scene' = scene
    BY <1>4 DEF BlockRefused, Goto, Unlocked, After
<1>5. ASSUME NEW p \in Procs, ActivateBestChain(p) PROVE scene' = scene
    BY <1>5 DEF ActivateBestChain, After, OwedFor
<1>6. ASSUME NEW p \in Procs, ConnectTip(p) PROVE scene' = scene
    BY <1>6 DEF ConnectTip, Unlocked, Woken, FailedAfter
<1>7. ASSUME NEW p \in Procs, UpdatedBlockTip(p) PROVE scene' = scene
    BY <1>7 DEF UpdatedBlockTip, Goto
<1>8. ASSUME NEW p \in Procs, TipNotified(p) PROVE scene' = scene
    BY <1>8 DEF TipNotified, Goto, After
<1>9. ASSUME NEW p \in Procs, Handled(p) PROVE scene' = scene
    BY <1>9 DEF Handled, FoundAfter
<1>10. ASSUME NEW p \in Procs, CheckDuplicate(p) PROVE scene' = scene
    BY <1>10 DEF CheckDuplicate, Goto
<1>11. ASSUME NEW p \in Procs, RegisterCatcher(p) PROVE scene' = scene
    BY <1>11 DEF RegisterCatcher, Goto
<1>12. ASSUME NEW p \in Procs, LockTemplate(p) PROVE scene' = scene
    BY <1>12 DEF LockTemplate, Goto, Lock
<1>13. ASSUME NEW p \in Procs, AuxLock(p) PROVE scene' = scene
    BY <1>13 DEF AuxLock, Goto, Lock
<1>14. ASSUME NEW p \in Procs, AuxUnknown(p) PROVE scene' = scene
    BY <1>14 DEF AuxUnknown, Goto
<1>15. ASSUME NEW p \in Procs, SyncWithValidationInterfaceQueue(p) PROVE scene' = scene
    BY <1>15 DEF SyncWithValidationInterfaceQueue, Goto
<1>16. ASSUME NEW p \in Procs, Return(p) PROVE scene' = scene
    BY <1>16 DEF Return, Goto
<1>17. ASSUME QuietStep PROVE scene' = scene
    BY <1>17 DEF QuietStep, others
<1>18. CASE SchedulerThread
    BY <1>18 DEF SchedulerThread, node, process
<1>19. CASE InterruptNode
    BY <1>19 DEF InterruptNode, node, process
<1>20. CASE JoinAll
    BY <1>20 DEF JoinAll, node, process
<1>21. CASE StopRPC
    BY <1>21 DEF StopRPC, Woken, node, process
<1>22. CASE StopHTTPServer
    BY <1>22 DEF StopHTTPServer, node, process
<1>23. CASE DropPeerLogic
    BY <1>23 DEF DropPeerLogic, node, process
<1>24. CASE StopNet
    BY <1>24 DEF StopNet, node, process
<1>25. CASE FlushBackgroundCallbacks
    BY <1>25 DEF FlushBackgroundCallbacks, node, process
<1>26. CASE UNCHANGED miningVars
    BY <1>26 DEF miningVars, process
<1>27. ASSUME NEW p \in Procs, RoundStep(p) PROVE scene' = scene
    BY <1>27 DEF RoundStep
<1>28. QED
    BY <1>1, <1>2, <1>3, <1>4, <1>5, <1>6, <1>7, <1>8, <1>9, <1>10, <1>11, <1>12, <1>13, <1>14, <1>15,
       <1>16, <1>17, <1>18, <1>19, <1>20, <1>21, <1>22, <1>23, <1>24, <1>25, <1>26, <1>27, QuietSteps,
       Rounds
    DEF MiningNext, Called, Blockwork, Submission, Stopping, MiningInv

\* The types are kept.
LEMMA OwnTypesKept ==
    ASSUME MiningInv, [MiningNext]_miningVars
    PROVE  OwnTypes'
<1> USE DEF OwnTypes, Pcs, chain, catcher
<1>0. /\ OwnTypes /\ Places /\ Blocks /\ tip \in Nat /\ MaxBlock \in Nat
      /\ scene.bad \subseteq 1 .. MaxBlock
    BY Consts DEF MiningInv, OwnTypes
<1>00. MostWork \in tip .. MaxBlock
    BY MostWorkBest DEF MiningInv
<1>1. ASSUME NEW p \in Procs, p \in scene.procs, SubmitCalled(p) PROVE OwnTypes'
    BY <1>1, <1>0, Consts DEF SubmitCalled, Goto
<1>2. ASSUME NEW p \in Procs, p \in scene.procs, NetBlock(p) PROVE OwnTypes'
    BY <1>2, <1>0, Consts DEF NetBlock, Goto
<1>3. ASSUME NEW p \in Procs, AcceptBlock(p) PROVE OwnTypes'
    <2>1. owed' \in [Catchers -> BOOLEAN]
        BY <1>3, <1>0 DEF AcceptBlock, OwedFor
    <2>2. blk[p] # 0 /\ blk[p] \in 1 .. MaxBlock
        BY <1>3, <1>0 DEF AcceptBlock, Blocks, Working
    <2>3. CASE Acceptable(blk[p])
        BY <1>3, <1>0, <2>1, <2>2, <2>3 DEF AcceptBlock
    <2>4. CASE ~Acceptable(blk[p])
        <3>1. /\ pc' = [pc EXCEPT ![p] = "refused"] /\ cs' = [cs EXCEPT !["cs_main"] = p]
              /\ about' = [about EXCEPT ![p] = blk[p]]
              /\ UNCHANGED <<have, scene, blk, most, tip, failed, found, heard>>
            BY <1>3, <2>4 DEF AcceptBlock
        <3>2. QED
            BY <1>0, <2>1, <3>1 DEF Locks
    <2>5. QED
        BY <2>3, <2>4
<1>4. ASSUME NEW p \in Procs, BlockRefused(p) PROVE OwnTypes'
    BY <1>4, <1>0, Consts DEF BlockRefused, Goto, Unlocked, After
<1>5. ASSUME NEW p \in Procs, ActivateBestChain(p) PROVE OwnTypes'
    <2>1. owed' \in [Catchers -> BOOLEAN]
        BY <1>5, <1>0 DEF ActivateBestChain, OwedFor
    <2> DEFINE m == IF most[p] # 0 THEN most[p] ELSE MostWork
    <2>2. m \in tip .. MaxBlock
        BY <1>5, <1>0, <1>00, Consts DEF ActivateBestChain, Blocks
    <2>3. m # tip => tip + 1 \in 0 .. MaxBlock
        BY <1>0, <2>2
    <2>4. m \in 0 .. MaxBlock
        BY <1>0, <2>2
    <2> HIDE DEF m
    <2>5. /\ pc' = [pc EXCEPT ![p] = IF m = tip THEN After(p) ELSE "checked"]
          /\ most' = [most EXCEPT ![p] = IF m = tip THEN 0 ELSE m]
          /\ cs' = IF m = tip THEN cs ELSE [cs EXCEPT !["cs_main"] = p]
          /\ about' = IF m = tip THEN about ELSE [about EXCEPT ![p] = tip + 1]
          /\ UNCHANGED <<scene, blk, chain, found, heard>>
        BY <1>5 DEF ActivateBestChain, m
    <2>6. pc' \in [Procs -> Pcs]
        BY <1>0, <2>5 DEF After
    <2>7. QED
        BY <1>0, <2>1, <2>3, <2>4, <2>5, <2>6 DEF Locks
<1>6. ASSUME NEW p \in Procs, ConnectTip(p) PROVE OwnTypes'
    <2>1. pc' \in [Procs -> Pcs]
        BY <1>6, <1>0 DEF ConnectTip, Woken
    <2>2. tip' \in 0 .. MaxBlock /\ failed' \subseteq scene.bad
        BY <1>6, <1>0 DEF ConnectTip, FailedAfter
    <2>3. about' \in [Procs -> 0 .. MaxBlock] /\ most' \in [Procs -> 0 .. MaxBlock]
        BY <1>6, <1>0 DEF ConnectTip
    <2>4. QED
        BY <1>6, <1>0, <2>1, <2>2, <2>3 DEF ConnectTip, Unlocked, Locks
<1>7. ASSUME NEW p \in Procs, UpdatedBlockTip(p) PROVE OwnTypes'
    BY <1>7, <1>0, Consts DEF UpdatedBlockTip, Goto
<1>8. ASSUME NEW p \in Procs, TipNotified(p) PROVE OwnTypes'
    BY <1>8, <1>0, Consts DEF TipNotified, Goto, After
<1>9. ASSUME NEW p \in Procs, Handled(p) PROVE OwnTypes'
    <2>1. found' \in [Catchers -> BOOLEAN]
        BY <1>9, <1>0 DEF Handled, FoundAfter
    <2>2. QED
        BY <1>9, <1>0, <2>1 DEF Handled, process
<1>10. ASSUME NEW p \in Procs, CheckDuplicate(p) PROVE OwnTypes'
    BY <1>10, <1>0, Consts DEF CheckDuplicate, Goto
<1>11. ASSUME NEW p \in Procs, RegisterCatcher(p) PROVE OwnTypes'
    BY <1>11, <1>0, Consts DEF RegisterCatcher, Goto
<1>12. ASSUME NEW p \in Procs, LockTemplate(p) PROVE OwnTypes'
    BY <1>12, <1>0, Consts DEF LockTemplate, Goto, Lock
<1>13. ASSUME NEW p \in Procs, AuxLock(p) PROVE OwnTypes'
    BY <1>13, <1>0, Consts DEF AuxLock, Goto, Lock
<1>14. ASSUME NEW p \in Procs, AuxUnknown(p) PROVE OwnTypes'
    BY <1>14, <1>0, Consts DEF AuxUnknown, Goto
<1>15. ASSUME NEW p \in Procs, SyncWithValidationInterfaceQueue(p) PROVE OwnTypes'
    BY <1>15, <1>0, Consts DEF SyncWithValidationInterfaceQueue, Goto
<1>16. ASSUME NEW p \in Procs, Return(p) PROVE OwnTypes'
    BY <1>16, <1>0, Consts DEF Return, Goto
<1>17. ASSUME QuietStep PROVE OwnTypes'
    BY <1>17, <1>0, Consts DEF QuietStep, others
<1>18. CASE SchedulerThread
    BY <1>18, <1>0, Consts DEF SchedulerThread, node, process
<1>19. CASE InterruptNode
    BY <1>19, <1>0, Consts DEF InterruptNode, node, process
<1>20. CASE JoinAll
    BY <1>20, <1>0, Consts DEF JoinAll, node, process
<1>21. CASE StopRPC
    BY <1>21, <1>0, Consts DEF StopRPC, Woken, node, process
<1>22. CASE StopHTTPServer
    BY <1>22, <1>0, Consts DEF StopHTTPServer, node, process
<1>23. CASE DropPeerLogic
    BY <1>23, <1>0, Consts DEF DropPeerLogic, node, process
<1>24. CASE StopNet
    BY <1>24, <1>0, Consts DEF StopNet, node, process
<1>25. CASE FlushBackgroundCallbacks
    BY <1>25, <1>0, Consts DEF FlushBackgroundCallbacks, node, process
<1>26. CASE UNCHANGED miningVars
    BY <1>26, <1>0, Consts DEF miningVars, process
<1>27. ASSUME NEW p \in Procs, RoundStep(p) PROVE OwnTypes'
    BY <1>27, <1>0, Consts DEF RoundStep, Locks
<1>28. QED
    BY <1>1, <1>2, <1>3, <1>4, <1>5, <1>6, <1>7, <1>8, <1>9, <1>10, <1>11, <1>12, <1>13, <1>14, <1>15,
       <1>16, <1>17, <1>18, <1>19, <1>20, <1>21, <1>22, <1>23, <1>24, <1>25, <1>26, <1>27, QuietSteps,
       Rounds
    DEF MiningNext, Called, Blockwork, Submission, Stopping, MiningInv

\* Processes stay where they can be, with the locks they have there.
LEMMA PlacesKept ==
    ASSUME MiningInv, [MiningNext]_miningVars
    PROVE  Places'
<1> USE DEF OwnTypes, Places, Before, Working, Back, Locks, Pcs, signals, signalVars
<1>0. OwnTypes /\ Places /\ SignalsInv
    BY DEF MiningInv
<1>1. ASSUME NEW p \in Procs, p \in scene.procs, SubmitCalled(p) PROVE Places'
    BY <1>1, <1>0, Consts DEF SubmitCalled, Goto
<1>2. ASSUME NEW p \in Procs, p \in scene.procs, NetBlock(p) PROVE Places'
    BY <1>2, <1>0, Consts DEF NetBlock, Goto
<1>3. ASSUME NEW p \in Procs, AcceptBlock(p) PROVE Places'
    BY <1>3, <1>0, Consts, BeginEffect DEF AcceptBlock, OwedFor, Apart
<1>4. ASSUME NEW p \in Procs, BlockRefused(p) PROVE Places'
    BY <1>4, <1>0, Consts DEF BlockRefused, Goto, Unlocked, After
<1>5. ASSUME NEW p \in Procs, ActivateBestChain(p) PROVE Places'
    BY <1>5, <1>0, Consts, BeginEffect DEF ActivateBestChain, After, OwedFor, Apart
<1>6. ASSUME NEW p \in Procs, ConnectTip(p) PROVE Places'
    BY <1>6, <1>0, Consts DEF ConnectTip, Unlocked, Woken, FailedAfter
<1>7. ASSUME NEW p \in Procs, UpdatedBlockTip(p) PROVE Places'
    BY <1>7, <1>0, Consts, BeginEffect DEF UpdatedBlockTip, Goto, Apart
<1>8. ASSUME NEW p \in Procs, TipNotified(p) PROVE Places'
    BY <1>8, <1>0, Consts DEF TipNotified, Goto, After
<1>9. ASSUME NEW p \in Procs, Handled(p) PROVE Places'
    BY <1>9, <1>0, Consts, NextEffect DEF Handled, FoundAfter, Apart, process
<1>10. ASSUME NEW p \in Procs, CheckDuplicate(p) PROVE Places'
    BY <1>10, <1>0, Consts DEF CheckDuplicate, Goto
<1>11. ASSUME NEW p \in Procs, RegisterCatcher(p) PROVE Places'
    BY <1>11, <1>0, Consts, RegisterEffect DEF RegisterCatcher, Goto
<1>12. ASSUME NEW p \in Procs, LockTemplate(p) PROVE Places'
    BY <1>12, <1>0, Consts DEF LockTemplate, Goto, Lock
<1>13. ASSUME NEW p \in Procs, AuxLock(p) PROVE Places'
    BY <1>13, <1>0, Consts, RegisterEffect DEF AuxLock, Goto, Lock
<1>14. ASSUME NEW p \in Procs, AuxUnknown(p) PROVE Places'
    BY <1>14, <1>0, Consts DEF AuxUnknown, Goto
<1>15. ASSUME NEW p \in Procs, SyncWithValidationInterfaceQueue(p) PROVE Places'
    BY <1>15, <1>0, Consts DEF SyncWithValidationInterfaceQueue, Goto
<1>16. ASSUME NEW p \in Procs, Return(p) PROVE Places'
    BY <1>16, <1>0, Consts, UnregisterEffect DEF Return, Goto
<1>17. ASSUME QuietStep PROVE Places'
    BY <1>17, <1>0, Consts DEF QuietStep, others
<1>18. CASE SchedulerThread
    BY <1>18, <1>0, Consts DEF SchedulerThread, node, process
<1>19. CASE InterruptNode
    BY <1>19, <1>0, Consts DEF InterruptNode, node, process
<1>20. CASE JoinAll
    BY <1>20, <1>0, Consts DEF JoinAll, node, process
<1>21. CASE StopRPC
    BY <1>21, <1>0, Consts DEF StopRPC, Woken, node, process
<1>22. CASE StopHTTPServer
    BY <1>22, <1>0, Consts DEF StopHTTPServer, node, process
<1>23. CASE DropPeerLogic
    BY <1>23, <1>0, Consts DEF DropPeerLogic, node, process, Unregister
<1>24. CASE StopNet
    BY <1>24, <1>0, Consts DEF StopNet, node, process, Clear
<1>25. CASE FlushBackgroundCallbacks
    BY <1>25, <1>0, Consts DEF FlushBackgroundCallbacks, node, process
<1>26. CASE UNCHANGED miningVars
    BY <1>26, <1>0, Consts DEF miningVars, process
<1>27. ASSUME NEW p \in Procs, RoundStep(p) PROVE Places'
    BY <1>27, <1>0, Consts DEF RoundStep, Apart
<1>28. QED
    BY <1>1, <1>2, <1>3, <1>4, <1>5, <1>6, <1>7, <1>8, <1>9, <1>10, <1>11, <1>12, <1>13, <1>14, <1>15,
       <1>16, <1>17, <1>18, <1>19, <1>20, <1>21, <1>22, <1>23, <1>24, <1>25, <1>26, <1>27, QuietSteps,
       Rounds
    DEF MiningNext, Called, Blockwork, Submission, Stopping, MiningInv

\* A process at work stays at work, unless it is the message thread.
LEMMA RegistrationsFrame ==
    ASSUME OwnTypes, Places, Registrations, NEW p \in Procs, pc[p] \in Working \cup {"lock"},
           m_map' = m_map, shut' = shut, scene' = scene, pc' \in [Procs -> Pcs],
           p \in Net \/ pc'[p] \in Working,
           \A q \in Procs \ {p} : pc'[q] = pc[q] \/ (pc[q] = "lpwait" /\ pc'[q] = "lpwoken")
    PROVE  Registrations'
<1> USE DEF Registrations, Working
<1>1. \A c \in Catchers : m_map'[c] # 0 <=> pc'[c] \in Working \cup {"lock"}
    BY Consts, ZenonT(60)
<1>2. shut' \in {"http stopped"} \cup Gone => \A q \in Calls : pc'[q] \in {"idle", "done"}
    BY Consts
<1>3. QED
    BY <1>1, <1>2 DEF Gone

\* Catchers are registered by their calls, peerLogic is dropped by Shutdown.
LEMMA RegistrationsKept ==
    ASSUME MiningInv, [MiningNext]_miningVars
    PROVE  Registrations'
<1>0. OwnTypes /\ Places /\ Registrations /\ SignalsInv
    BY DEF MiningInv
<1>00. OwnTypes' /\ scene' = scene
    BY OwnTypesKept, SceneKept DEF MiningInv
<1>1. ASSUME NEW p \in Procs, p \in scene.procs, SubmitCalled(p) PROVE Registrations'
    BY <1>1, <1>0, <1>00, Consts DEF SubmitCalled, Goto, OwnTypes, Places, Registrations, Before, Working,
       Back, Pcs, Gone, signals, signalVars
<1>2. ASSUME NEW p \in Procs, p \in scene.procs, NetBlock(p) PROVE Registrations'
    BY <1>2, <1>0, <1>00, Consts DEF NetBlock, Goto, OwnTypes, Places, Registrations, Before, Working,
       Back, Pcs, Gone, signals, signalVars
<1>3. ASSUME NEW p \in Procs, AcceptBlock(p) PROVE Registrations'
    <2>1. /\ pc[p] \in Working /\ m_map' = m_map /\ shut' = shut
          /\ p \in Net \/ pc'[p] \in Working
          /\ \A q \in Procs \ {p} : pc'[q] = pc[q] \/ (pc[q] = "lpwait" /\ pc'[q] = "lpwoken")
        BY <1>3, <1>0, BeginEffect DEF AcceptBlock, OwnTypes, Working, signals, signalVars
    <2>2. QED
        BY <1>0, <1>00, <2>1, RegistrationsFrame DEF OwnTypes
<1>4. ASSUME NEW p \in Procs, BlockRefused(p) PROVE Registrations'
    <2>1. /\ pc[p] \in Working /\ m_map' = m_map /\ shut' = shut
          /\ p \in Net \/ pc'[p] \in Working
          /\ \A q \in Procs \ {p} : pc'[q] = pc[q] \/ (pc[q] = "lpwait" /\ pc'[q] = "lpwoken")
        BY <1>4, <1>0 DEF BlockRefused, Goto, After, OwnTypes, Working, signals, signalVars
    <2>2. QED
        BY <1>0, <1>00, <2>1, RegistrationsFrame DEF OwnTypes
<1>5. ASSUME NEW p \in Procs, ActivateBestChain(p) PROVE Registrations'
    <2>1. /\ pc[p] \in Working /\ m_map' = m_map /\ shut' = shut
          /\ p \in Net \/ pc'[p] \in Working
          /\ \A q \in Procs \ {p} : pc'[q] = pc[q] \/ (pc[q] = "lpwait" /\ pc'[q] = "lpwoken")
        BY <1>5, <1>0, BeginEffect DEF ActivateBestChain, After, OwnTypes, Working, signals, signalVars
    <2>2. QED
        BY <1>0, <1>00, <2>1, RegistrationsFrame DEF OwnTypes
<1>6. ASSUME NEW p \in Procs, ConnectTip(p) PROVE Registrations'
    <2>1. /\ pc[p] \in Working /\ m_map' = m_map /\ shut' = shut
          /\ p \in Net \/ pc'[p] \in Working
          /\ \A q \in Procs \ {p} : pc'[q] = pc[q] \/ (pc[q] = "lpwait" /\ pc'[q] = "lpwoken")
        BY <1>6, <1>0 DEF ConnectTip, Woken, OwnTypes, Working, signals, signalVars
    <2>2. QED
        BY <1>0, <1>00, <2>1, RegistrationsFrame DEF OwnTypes
<1>7. ASSUME NEW p \in Procs, UpdatedBlockTip(p) PROVE Registrations'
    <2>1. /\ pc[p] \in Working /\ m_map' = m_map /\ shut' = shut
          /\ p \in Net \/ pc'[p] \in Working
          /\ \A q \in Procs \ {p} : pc'[q] = pc[q] \/ (pc[q] = "lpwait" /\ pc'[q] = "lpwoken")
        BY <1>7, <1>0, BeginEffect DEF UpdatedBlockTip, Goto, OwnTypes, Working, signals, signalVars
    <2>2. QED
        BY <1>0, <1>00, <2>1, RegistrationsFrame DEF OwnTypes
<1>8. ASSUME NEW p \in Procs, TipNotified(p) PROVE Registrations'
    <2>1. /\ pc[p] \in Working /\ m_map' = m_map /\ shut' = shut
          /\ p \in Net \/ pc'[p] \in Working
          /\ \A q \in Procs \ {p} : pc'[q] = pc[q] \/ (pc[q] = "lpwait" /\ pc'[q] = "lpwoken")
        BY <1>8, <1>0 DEF TipNotified, Goto, After, OwnTypes, Working, signals, signalVars
    <2>2. QED
        BY <1>0, <1>00, <2>1, RegistrationsFrame DEF OwnTypes
<1>9. ASSUME NEW p \in Procs, Handled(p) PROVE Registrations'
    <2>1. pc' = pc /\ shut' = shut /\ m_map' = m_map
        BY <1>9, <1>0, NextEffect DEF Handled, process
    <2>2. QED
        BY <1>0, <1>00, <2>1 DEF Registrations
<1>10. ASSUME NEW p \in Procs, CheckDuplicate(p) PROVE Registrations'
    <2>1. pc[p] = "check" /\ pc'[p] \in {"done", "register"}
        BY <1>10, <1>0 DEF CheckDuplicate, Goto, OwnTypes
    <2>2. m_map' = m_map /\ shut' = shut /\ \A q \in Procs \ {p} : pc'[q] = pc[q]
        BY <1>10, <1>0 DEF CheckDuplicate, Goto, OwnTypes, signals, signalVars
    <2>3. \A c \in Catchers : m_map'[c] # 0 <=> pc'[c] \in Working \cup {"lock"}
        BY <1>0, <2>1, <2>2, Consts DEF Registrations, Working
    <2>4. shut \notin {"http stopped"} \cup Gone
        BY <1>0, <2>1, Consts DEF Registrations, Places, Before
    <2>5. QED
        BY <1>0, <1>00, <2>2, <2>3, <2>4 DEF Registrations
<1>11. ASSUME NEW p \in Procs, RegisterCatcher(p) PROVE Registrations'
    <2>1. p \in Submit /\ p \in Catchers /\ p \in Interfaces /\ pc[p] = "register" /\ pc' = [pc EXCEPT ![p] = "lock"]
        BY <1>11, <1>0, Consts DEF RegisterCatcher, Goto, Places
    <2>2. m_map'[p] # 0 /\ \A j \in Interfaces \ {p} : m_map'[j] = m_map[j]
        BY <1>11, <1>0, <2>1, RegisterEffect DEF RegisterCatcher
    <2>3. \A c \in Catchers : m_map'[c] # 0 <=> pc'[c] \in Working \cup {"lock"}
        BY <1>0, <2>1, <2>2, Consts DEF OwnTypes, Registrations, Working
    <2>4. shut' = shut /\ m_map'["peerLogic"] = m_map["peerLogic"]
        BY <1>11, <2>1, <2>2, Consts DEF RegisterCatcher
    <2>5. shut \notin {"http stopped"} \cup Gone
        BY <1>0, <2>1, Consts DEF Registrations
    <2>6. QED
        BY <1>0, <1>00, <2>3, <2>4, <2>5 DEF Registrations
<1>12. ASSUME NEW p \in Procs, LockTemplate(p) PROVE Registrations'
    <2>1. /\ pc[p] = "lock" /\ pc' = [pc EXCEPT ![p] = "accept"] /\ m_map' = m_map /\ shut' = shut
        BY <1>12 DEF LockTemplate, Goto, signals, signalVars
    <2>2. QED
        BY <1>0, <1>00, <2>1, RegistrationsFrame DEF OwnTypes, Working
<1>13. ASSUME NEW p \in Procs, AuxLock(p) PROVE Registrations'
    <2>1. p \in AuxSubmit /\ p \in Catchers /\ p \in Interfaces /\ pc[p] = "auxlock" /\ pc' = [pc EXCEPT ![p] = "accept"]
        BY <1>13, <1>0, Consts DEF AuxLock, Goto, Places
    <2>2. m_map'[p] # 0 /\ \A j \in Interfaces \ {p} : m_map'[j] = m_map[j]
        BY <1>13, <1>0, <2>1, RegisterEffect DEF AuxLock
    <2>3. \A c \in Catchers : m_map'[c] # 0 <=> pc'[c] \in Working \cup {"lock"}
        BY <1>0, <2>1, <2>2, Consts DEF OwnTypes, Registrations, Working
    <2>4. shut' = shut /\ m_map'["peerLogic"] = m_map["peerLogic"]
        BY <1>13, <2>1, <2>2, Consts DEF AuxLock
    <2>5. shut \notin {"http stopped"} \cup Gone
        BY <1>0, <2>1, Consts DEF Registrations
    <2>6. QED
        BY <1>0, <1>00, <2>3, <2>4, <2>5 DEF Registrations
<1>14. ASSUME NEW p \in Procs, AuxUnknown(p) PROVE Registrations'
    <2>1. pc[p] = "auxlock" /\ pc'[p] = "done"
        BY <1>14, <1>0 DEF AuxUnknown, Goto, OwnTypes
    <2>2. m_map' = m_map /\ shut' = shut /\ \A q \in Procs \ {p} : pc'[q] = pc[q]
        BY <1>14, <1>0 DEF AuxUnknown, Goto, OwnTypes, signals, signalVars
    <2>3. \A c \in Catchers : m_map'[c] # 0 <=> pc'[c] \in Working \cup {"lock"}
        BY <1>0, <2>1, <2>2, Consts DEF Registrations, Working
    <2>4. shut \notin {"http stopped"} \cup Gone
        BY <1>0, <2>1, Consts DEF Registrations, Places, Before
    <2>5. QED
        BY <1>0, <1>00, <2>2, <2>3, <2>4 DEF Registrations
<1>15. ASSUME NEW p \in Procs, SyncWithValidationInterfaceQueue(p) PROVE Registrations'
    <2>1. /\ pc[p] \in Working /\ m_map' = m_map /\ shut' = shut
          /\ p \in Net \/ pc'[p] \in Working
          /\ \A q \in Procs \ {p} : pc'[q] = pc[q] \/ (pc[q] = "lpwait" /\ pc'[q] = "lpwoken")
        BY <1>15, <1>0 DEF SyncWithValidationInterfaceQueue, Goto, OwnTypes, Working, signals, signalVars
    <2>2. QED
        BY <1>0, <1>00, <2>1, RegistrationsFrame DEF OwnTypes
<1>16. ASSUME NEW p \in Procs, Return(p) PROVE Registrations'
    <2>1. p \in Catchers /\ p \in Interfaces /\ pc[p] = "wait" /\ pc' = [pc EXCEPT ![p] = "done"]
        BY <1>16, <1>0, Consts DEF Return, Goto, Places, Back
    <2>2. m_map'[p] = 0 /\ \A j \in Interfaces \ {p} : m_map'[j] = m_map[j]
        BY <1>16, <1>0, <2>1, UnregisterEffect DEF Return
    <2>3. \A c \in Catchers : m_map'[c] # 0 <=> pc'[c] \in Working \cup {"lock"}
        BY <1>0, <2>1, <2>2, Consts, ZenonT(60) DEF OwnTypes, Registrations, Working
    <2>4. shut' = shut /\ m_map'["peerLogic"] = m_map["peerLogic"]
        BY <1>16, <2>1, <2>2, Consts DEF Return
    <2>5. shut \notin {"http stopped"} \cup Gone
        BY <1>0, <2>1, Consts DEF Registrations
    <2>6. QED
        BY <1>0, <1>00, <2>3, <2>4, <2>5 DEF Registrations
<1>17. ASSUME QuietStep PROVE Registrations'
    <2>1. m_map' = m_map /\ shut' = shut
        BY <1>17 DEF QuietStep, others, signals, signalVars
    <2>2. \A c \in Catchers : m_map'[c] # 0 <=> pc'[c] \in Working \cup {"lock"}
        BY <1>17, <1>0, <2>1, Consts DEF QuietStep, Registrations, Before
    <2>3. shut \in {"http stopped"} \cup Gone => \A r \in Calls : pc'[r] = pc[r]
        BY <1>17, <1>0, Consts DEF QuietStep, Registrations, Gone
    <2>4. QED
        BY <1>0, <1>00, <2>1, <2>2, <2>3 DEF Registrations
<1>18. CASE SchedulerThread
    <2>1. pc' = pc /\ shut' = shut /\ m_map' = m_map
        BY <1>18 DEF SchedulerThread, node, process, signals, signalVars
    <2>2. QED
        BY <1>0, <1>00, <2>1 DEF Registrations
<1>19. CASE InterruptNode
    BY <1>19, <1>0, <1>00, Consts DEF InterruptNode, node, process, OwnTypes, Places, Registrations,
       Before, Working, Back, Pcs, Gone, signals, signalVars
<1>20. CASE JoinAll
    BY <1>20, <1>0, <1>00, Consts DEF JoinAll, node, process, OwnTypes, Places, Registrations, Before,
       Working, Back, Pcs, Gone, signals, signalVars
<1>21. CASE StopRPC
    <2>1. shut = "joined" /\ shut' = "rpc stopped" /\ m_map' = m_map
        BY <1>21 DEF StopRPC, signals, signalVars
    <2>2. \A q \in Procs : pc'[q] = pc[q] \/ (pc[q] = "lpwait" /\ pc'[q] = "lpwoken")
        BY <1>21 DEF StopRPC, Woken
    <2>3. \A c \in Catchers : m_map'[c] # 0 <=> pc'[c] \in Working \cup {"lock"}
        BY <1>0, <2>1, <2>2, Consts DEF Registrations, Working
    <2>4. QED
        BY <1>0, <1>00, <2>1, <2>3 DEF Registrations, Gone
<1>22. CASE StopHTTPServer
    BY <1>22, <1>0, <1>00, Consts, ZenonT(60) DEF StopHTTPServer, node, process, OwnTypes, Places, Registrations,
       Before, Working, Back, Pcs, Gone, signals, signalVars
<1>23. CASE DropPeerLogic
    <2>1. "peerLogic" \in Interfaces /\ pc' = pc /\ shut = "http stopped" /\ shut' = "no peerLogic"
        BY <1>23, Consts DEF DropPeerLogic, node, process
    <2>2. m_map'["peerLogic"] = 0 /\ \A j \in Interfaces \ {"peerLogic"} : m_map'[j] = m_map[j]
        BY <1>23, <1>0, <2>1, UnregisterEffect DEF DropPeerLogic
    <2>3. QED
        BY <1>0, <1>00, <2>1, <2>2, Consts DEF Registrations, Gone
<1>24. CASE StopNet
    <2>1. pc' = pc /\ shut = "no peerLogic" /\ shut' = "flushing" /\ \A i \in Interfaces : m_map'[i] = 0
        BY <1>24 DEF StopNet, node, process, Clear
    <2>2. \A c \in Catchers : pc[c] \in {"idle", "done"}
        BY <1>0, <2>1, Consts DEF Registrations, Gone
    <2>3. QED
        BY <1>0, <1>00, <2>1, <2>2, Consts DEF Registrations, Gone, Working
<1>25. CASE FlushBackgroundCallbacks
    BY <1>25, <1>0, <1>00, Consts DEF FlushBackgroundCallbacks, node, process, OwnTypes, Places,
       Registrations, Before, Working, Back, Pcs, Gone, signals, signalVars
<1>26. CASE UNCHANGED miningVars
    <2>1. pc' = pc /\ shut' = shut /\ m_map' = m_map
        BY <1>26 DEF miningVars, process, signals, signalVars
    <2>2. QED
        BY <1>0, <1>00, <2>1 DEF Registrations
<1>27. ASSUME NEW p \in Procs, RoundStep(p) PROVE Registrations'
    <2>1. m_map' = m_map /\ shut' = shut /\ p \notin Catchers /\ \A q \in Procs \ {p} : pc'[q] = pc[q]
        BY <1>27, <1>0, Consts DEF RoundStep, OwnTypes
    <2>2. \A c \in Catchers : m_map'[c] # 0 <=> pc'[c] \in Working \cup {"lock"}
        BY <1>0, <2>1, Consts DEF Registrations
    <2>3. shut # "no" => pc'[p] = "idle"
        BY <1>27, <1>0 DEF RoundStep, OwnTypes
    <2>4. shut' \in {"http stopped"} \cup Gone => \A q \in Calls : pc'[q] \in {"idle", "done"}
        BY <1>0, <2>1, <2>3, Consts DEF Registrations, Gone
    <2>5. QED
        BY <1>0, <1>00, <2>1, <2>2, <2>4 DEF Registrations
<1>28. QED
    BY <1>1, <1>2, <1>3, <1>4, <1>5, <1>6, <1>7, <1>8, <1>9, <1>10, <1>11, <1>12, <1>13, <1>14, <1>15,
       <1>16, <1>17, <1>18, <1>19, <1>20, <1>21, <1>22, <1>23, <1>24, <1>25, <1>26, <1>27, QuietSteps,
       Rounds
    DEF MiningNext, Called, Blockwork, Submission, Stopping, MiningInv

\* The active chain stays valid, and threads about to extend it.
LEMMA BlocksKept ==
    ASSUME MiningInv, [MiningNext]_miningVars
    PROVE  Blocks'
<1> USE DEF OwnTypes, Places, Blocks, Acceptable, Before, Working, Activating, Pcs, chain
<1>0. OwnTypes /\ Places /\ Blocks
    BY DEF MiningInv
<1>1. ASSUME NEW p \in Procs, p \in scene.procs, SubmitCalled(p) PROVE Blocks'
    BY <1>1, <1>0, Consts DEF SubmitCalled, Goto
<1>2. ASSUME NEW p \in Procs, p \in scene.procs, NetBlock(p) PROVE Blocks'
    BY <1>2, <1>0, Consts DEF NetBlock, Goto
<1>3. ASSUME NEW p \in Procs, AcceptBlock(p) PROVE Blocks'
    <2>0. blk[p] \in 1 .. MaxBlock /\ pc[p] = "accept" /\ most[p] = 0
        BY <1>3, <1>0 DEF AcceptBlock
    <2>1. CASE Acceptable(blk[p])
        <3>1. /\ have' = have \cup {blk[p]} /\ pc' = [pc EXCEPT ![p] = "activate"]
              /\ UNCHANGED <<cs, about, scene, blk, most, tip, failed>>
            BY <1>3, <2>1 DEF AcceptBlock
        <3>2. \A k \in 1 .. blk[p] : k \in have'
            BY <1>0, <2>0, <2>1, <3>1, Consts
        <3>3. \A q \in Procs : pc[q] # "refused"
            BY <1>3, <1>0, Consts DEF AcceptBlock
        <3>4. \A k \in have' : k = 1 \/ k - 1 \in have'
            BY <1>0, <2>1, <3>1
        <3>5. QED
            BY <1>0, <2>0, <3>1, <3>2, <3>3, <3>4
    <2>2. CASE ~Acceptable(blk[p])
        <3>1. /\ pc' = [pc EXCEPT ![p] = "refused"] /\ about' = [about EXCEPT ![p] = blk[p]]
              /\ UNCHANGED <<have, scene, blk, most, tip, failed>>
            BY <1>3, <2>2 DEF AcceptBlock
        <3>2. QED
            BY <1>0, <2>0, <2>2, <3>1
    <2>3. QED
        BY <2>1, <2>2
<1>4. ASSUME NEW p \in Procs, BlockRefused(p) PROVE Blocks'
    BY <1>4, <1>0, Consts DEF BlockRefused, Goto, Unlocked, After
<1>5. ASSUME NEW p \in Procs, ActivateBestChain(p) PROVE Blocks'
    BY <1>5, <1>0, Consts, MostWorkBest DEF ActivateBestChain, After, OwedFor
<1>6. ASSUME NEW p \in Procs, ConnectTip(p) PROVE Blocks'
    BY <1>6, <1>0, Consts DEF ConnectTip, Unlocked, Woken, FailedAfter
<1>7. ASSUME NEW p \in Procs, UpdatedBlockTip(p) PROVE Blocks'
    BY <1>7, <1>0, Consts DEF UpdatedBlockTip, Goto
<1>8. ASSUME NEW p \in Procs, TipNotified(p) PROVE Blocks'
    BY <1>8, <1>0, Consts DEF TipNotified, Goto, After
<1>9. ASSUME NEW p \in Procs, Handled(p) PROVE Blocks'
    BY <1>9, <1>0, Consts DEF Handled, FoundAfter, process
<1>10. ASSUME NEW p \in Procs, CheckDuplicate(p) PROVE Blocks'
    BY <1>10, <1>0, Consts DEF CheckDuplicate, Goto
<1>11. ASSUME NEW p \in Procs, RegisterCatcher(p) PROVE Blocks'
    BY <1>11, <1>0, Consts DEF RegisterCatcher, Goto
<1>12. ASSUME NEW p \in Procs, LockTemplate(p) PROVE Blocks'
    BY <1>12, <1>0, Consts DEF LockTemplate, Goto, Lock
<1>13. ASSUME NEW p \in Procs, AuxLock(p) PROVE Blocks'
    BY <1>13, <1>0, Consts DEF AuxLock, Goto, Lock
<1>14. ASSUME NEW p \in Procs, AuxUnknown(p) PROVE Blocks'
    BY <1>14, <1>0, Consts DEF AuxUnknown, Goto
<1>15. ASSUME NEW p \in Procs, SyncWithValidationInterfaceQueue(p) PROVE Blocks'
    BY <1>15, <1>0, Consts DEF SyncWithValidationInterfaceQueue, Goto
<1>16. ASSUME NEW p \in Procs, Return(p) PROVE Blocks'
    BY <1>16, <1>0, Consts DEF Return, Goto
<1>17. ASSUME QuietStep PROVE Blocks'
    BY <1>17, <1>0, Consts DEF QuietStep, others
<1>18. CASE SchedulerThread
    BY <1>18, <1>0, Consts DEF SchedulerThread, node, process
<1>19. CASE InterruptNode
    BY <1>19, <1>0, Consts DEF InterruptNode, node, process
<1>20. CASE JoinAll
    BY <1>20, <1>0, Consts DEF JoinAll, node, process
<1>21. CASE StopRPC
    BY <1>21, <1>0, Consts, ZenonT(60) DEF StopRPC, Woken, node, process
<1>22. CASE StopHTTPServer
    BY <1>22, <1>0, Consts DEF StopHTTPServer, node, process
<1>23. CASE DropPeerLogic
    BY <1>23, <1>0, Consts DEF DropPeerLogic, node, process
<1>24. CASE StopNet
    BY <1>24, <1>0, Consts DEF StopNet, node, process
<1>25. CASE FlushBackgroundCallbacks
    BY <1>25, <1>0, Consts DEF FlushBackgroundCallbacks, node, process
<1>26. CASE UNCHANGED miningVars
    BY <1>26, <1>0, Consts DEF miningVars, process
<1>27. ASSUME NEW p \in Procs, RoundStep(p) PROVE Blocks'
    BY <1>27, <1>0, Consts DEF RoundStep
<1>28. QED
    BY <1>1, <1>2, <1>3, <1>4, <1>5, <1>6, <1>7, <1>8, <1>9, <1>10, <1>11, <1>12, <1>13, <1>14, <1>15,
       <1>16, <1>17, <1>18, <1>19, <1>20, <1>21, <1>22, <1>23, <1>24, <1>25, <1>26, <1>27, QuietSteps,
       Rounds
    DEF MiningNext, Called, Blockwork, Submission, Stopping, MiningInv

\* The callbacks are as they were, and nobody leaves the wait but for the end.
LEMMA SchedulingFrame ==
    ASSUME Scheduling, UNCHANGED vars, shut' = shut,
           \A c \in Catchers : pc[c] \in {"wait", "done"} => pc'[c] \in {"wait", "done"}
    PROVE  Scheduling'
BY DEF Scheduling, vars, queue, stops, client, ghosts

\* While callbacks are processed, no task is queued: there is no other.
LEMMA NothingQueued ==
    ASSUME IInv, th["scheduler"].at = "job" \/ (th["scheduler"].at = "run" /\ th["scheduler"].f = "ProcessQueue")
    PROVE  flush = "no" /\ taskQueue = <<>>
<1>1. flush = "no"
    BY Consts DEF IInv, Joined
<1>2. "scheduler" \in ActiveIn(th)
    BY Consts DEF ActiveIn
<1>3. QueuedIn(taskQueue) = {}
    BY <1>1, <1>2 DEF IInv, OneProcessing
<1>4. taskQueue \in Seq(Entry) /\ Tasks = {"ProcessQueue"}
    BY TypedParts, MiningConstants DEF IInv, Tasks
<1>5. SUFFICES ASSUME taskQueue # <<>> PROVE FALSE
    BY <1>1
<1>6. taskQueue[1] \in Entry /\ 1 \in DOMAIN taskQueue
    <2>1. Len(taskQueue) \in Nat /\ Len(taskQueue) # 0
        BY <1>4, <1>5
    <2>2. QED
        BY <1>4, <2>1
<1>7. taskQueue[1].f = "ProcessQueue"
    BY <1>4, <1>6 DEF Entry
<1>8. QED
    BY <1>3, <1>6, <1>7 DEF QueuedIn

\* Nobody is woken if the only thread does not wait.
LEMMA NobodyToWake ==
    ASSUME NEW ths, ths["scheduler"].at \notin {"wait", "timed"}
    PROVE  Notified(ths) = {ths}
BY Consts DEF Notified, Waiting

\* The queue of callbacks is kept in order.
LEMMA SchedulingKept ==
    ASSUME MiningInv, [MiningNext]_miningVars
    PROVE  Scheduling'
<1>0. OwnTypes /\ Places /\ Scheduling /\ IInv /\ Threads = {"scheduler"}
    BY Consts DEF MiningInv
<1>00. th \in [Threads -> ThreadType] /\ th["scheduler"] \in ThreadType
    BY <1>0, TypedParts DEF IInv
<1>1. ASSUME NEW p \in Procs, p \in scene.procs, SubmitCalled(p) PROVE Scheduling'
    <2>1. /\ UNCHANGED vars /\ shut' = shut
          /\ \A c \in Catchers : pc[c] \in {"wait", "done"} => pc'[c] \in {"wait", "done"}
        BY <1>1, <1>0, Consts DEF SubmitCalled, Goto, sched, process, OwnTypes
    <2>2. QED
        BY <1>0, <2>1, SchedulingFrame
<1>2. ASSUME NEW p \in Procs, p \in scene.procs, NetBlock(p) PROVE Scheduling'
    <2>1. /\ UNCHANGED vars /\ shut' = shut
          /\ \A c \in Catchers : pc[c] \in {"wait", "done"} => pc'[c] \in {"wait", "done"}
        BY <1>2, <1>0, Consts DEF NetBlock, Goto, sched, process, OwnTypes
    <2>2. QED
        BY <1>0, <2>1, SchedulingFrame
<1>3. ASSUME NEW p \in Procs, AcceptBlock(p) PROVE Scheduling'
    <2>1. /\ UNCHANGED vars /\ shut' = shut
          /\ \A c \in Catchers : pc[c] \in {"wait", "done"} => pc'[c] \in {"wait", "done"}
        BY <1>3, <1>0, Consts DEF AcceptBlock, OwedFor, sched, process, OwnTypes
    <2>2. QED
        BY <1>0, <2>1, SchedulingFrame
<1>4. ASSUME NEW p \in Procs, BlockRefused(p) PROVE Scheduling'
    <2>1. /\ UNCHANGED vars /\ shut' = shut
          /\ \A c \in Catchers : pc[c] \in {"wait", "done"} => pc'[c] \in {"wait", "done"}
        BY <1>4, <1>0, Consts DEF BlockRefused, Goto, Unlocked, After, sched, process, OwnTypes
    <2>2. QED
        BY <1>0, <2>1, SchedulingFrame
<1>5. ASSUME NEW p \in Procs, ActivateBestChain(p) PROVE Scheduling'
    <2>1. /\ UNCHANGED vars /\ shut' = shut
          /\ \A c \in Catchers : pc[c] \in {"wait", "done"} => pc'[c] \in {"wait", "done"}
        BY <1>5, <1>0, Consts DEF ActivateBestChain, After, OwedFor, sched, process, OwnTypes
    <2>2. QED
        BY <1>0, <2>1, SchedulingFrame
<1>6. ASSUME NEW p \in Procs, ConnectTip(p) PROVE Scheduling'
    <2>1. /\ UNCHANGED vars /\ shut' = shut
          /\ \A c \in Catchers : pc[c] \in {"wait", "done"} => pc'[c] \in {"wait", "done"}
        BY <1>6, <1>0, Consts DEF ConnectTip, Unlocked, Woken, FailedAfter, sched, process, OwnTypes
    <2>2. QED
        BY <1>0, <2>1, SchedulingFrame
<1>7. ASSUME NEW p \in Procs, UpdatedBlockTip(p) PROVE Scheduling'
    <2>1. /\ UNCHANGED vars /\ shut' = shut
          /\ \A c \in Catchers : pc[c] \in {"wait", "done"} => pc'[c] \in {"wait", "done"}
        BY <1>7, <1>0, Consts DEF UpdatedBlockTip, Goto, sched, process, OwnTypes
    <2>2. QED
        BY <1>0, <2>1, SchedulingFrame
<1>8. ASSUME NEW p \in Procs, TipNotified(p) PROVE Scheduling'
    <2>1. /\ UNCHANGED vars /\ shut' = shut
          /\ \A c \in Catchers : pc[c] \in {"wait", "done"} => pc'[c] \in {"wait", "done"}
        BY <1>8, <1>0, Consts DEF TipNotified, Goto, After, sched, process, OwnTypes
    <2>2. QED
        BY <1>0, <2>1, SchedulingFrame
<1>9. ASSUME NEW p \in Procs, Handled(p) PROVE Scheduling'
    <2>1. /\ UNCHANGED vars /\ shut' = shut
          /\ \A c \in Catchers : pc[c] \in {"wait", "done"} => pc'[c] \in {"wait", "done"}
        BY <1>9, <1>0, Consts DEF Handled, FoundAfter, sched, process, OwnTypes
    <2>2. QED
        BY <1>0, <2>1, SchedulingFrame
<1>10. ASSUME NEW p \in Procs, CheckDuplicate(p) PROVE Scheduling'
    <2>1. /\ UNCHANGED vars /\ shut' = shut
          /\ \A c \in Catchers : pc[c] \in {"wait", "done"} => pc'[c] \in {"wait", "done"}
        BY <1>10, <1>0, Consts DEF CheckDuplicate, Goto, sched, process, OwnTypes
    <2>2. QED
        BY <1>0, <2>1, SchedulingFrame
<1>11. ASSUME NEW p \in Procs, RegisterCatcher(p) PROVE Scheduling'
    <2>1. /\ UNCHANGED vars /\ shut' = shut
          /\ \A c \in Catchers : pc[c] \in {"wait", "done"} => pc'[c] \in {"wait", "done"}
        BY <1>11, <1>0, Consts DEF RegisterCatcher, Goto, sched, process, OwnTypes
    <2>2. QED
        BY <1>0, <2>1, SchedulingFrame
<1>12. ASSUME NEW p \in Procs, LockTemplate(p) PROVE Scheduling'
    <2>1. /\ UNCHANGED vars /\ shut' = shut
          /\ \A c \in Catchers : pc[c] \in {"wait", "done"} => pc'[c] \in {"wait", "done"}
        BY <1>12, <1>0, Consts DEF LockTemplate, Goto, Lock, sched, process, OwnTypes
    <2>2. QED
        BY <1>0, <2>1, SchedulingFrame
<1>13. ASSUME NEW p \in Procs, AuxLock(p) PROVE Scheduling'
    <2>1. /\ UNCHANGED vars /\ shut' = shut
          /\ \A c \in Catchers : pc[c] \in {"wait", "done"} => pc'[c] \in {"wait", "done"}
        BY <1>13, <1>0, Consts DEF AuxLock, Goto, Lock, sched, process, OwnTypes
    <2>2. QED
        BY <1>0, <2>1, SchedulingFrame
<1>14. ASSUME NEW p \in Procs, AuxUnknown(p) PROVE Scheduling'
    <2>1. /\ UNCHANGED vars /\ shut' = shut
          /\ \A c \in Catchers : pc[c] \in {"wait", "done"} => pc'[c] \in {"wait", "done"}
        BY <1>14, <1>0, Consts DEF AuxUnknown, Goto, sched, process, OwnTypes
    <2>2. QED
        BY <1>0, <2>1, SchedulingFrame
<1>15. ASSUME NEW p \in Procs, SyncWithValidationInterfaceQueue(p) PROVE Scheduling'
    <2>1. /\ pc[p] = "sync" /\ pc' = [pc EXCEPT ![p] = "wait"] /\ shut' = shut
          /\ AddToProcessQueue(p) /\ p \in Catchers
        BY <1>15, <1>0 DEF SyncWithValidationInterfaceQueue, Goto, Places, Back
    <2>2. m_callbacks_pending \in Seq(Catchers) /\ added \in Seq(Catchers)
        BY <1>0, TypedParts, Consts DEF IInv
    <2>3. m_callbacks_pending' # <<>>
        <3>1. m_callbacks_pending' = Append(m_callbacks_pending, p)
            BY <2>1 DEF AddToProcessQueue
        <3>2. QED
            BY <2>1, <2>2, <3>1
    <2>4. \A c \in Catchers : pc'[c] \notin {"wait", "done"} => \A i \in DOMAIN added' : added'[i] # c
        <3>1. added' = Append(added, p)
            BY <2>1 DEF AddToProcessQueue
        <3>2. \A i \in DOMAIN added' : added'[i] = p \/ (i \in DOMAIN added /\ added'[i] = added[i])
            BY <2>1, <2>2, <3>1
        <3>3. QED
            BY <1>0, <2>1, <3>2, Consts DEF Scheduling, OwnTypes
    <2>5. shut # "no" => th' = th
        BY <1>0, <2>1, NobodyToWake DEF AddToProcessQueue, Scheduling, queue
    <2>6. QED
        BY <1>0, <2>1, <2>3, <2>4, <2>5 DEF AddToProcessQueue, Scheduling, stops
<1>16. ASSUME NEW p \in Procs, Return(p) PROVE Scheduling'
    <2>1. /\ UNCHANGED vars /\ shut' = shut
          /\ \A c \in Catchers : pc[c] \in {"wait", "done"} => pc'[c] \in {"wait", "done"}
        BY <1>16, <1>0, Consts DEF Return, Goto, sched, process, OwnTypes
    <2>2. QED
        BY <1>0, <2>1, SchedulingFrame
<1>17. ASSUME QuietStep PROVE Scheduling'
    <2>1. /\ UNCHANGED vars /\ shut' = shut
          /\ \A c \in Catchers : pc[c] \in {"wait", "done"} => pc'[c] \in {"wait", "done"}
        BY <1>17, <1>0, Consts DEF QuietStep, others, Working, sched, process, OwnTypes
    <2>2. QED
        BY <1>0, <2>1, SchedulingFrame
<1>18. CASE SchedulerThread
    <2> DEFINE s == "scheduler"
    <2>1. /\ pc' = pc /\ shut' = shut
          /\ serviceQueue(s) \/ TimedOut(s) \/ ProcessQueue(s) \/ CallbackDone(s)
        BY <1>18 DEF SchedulerThread, node, process
    <2>2. /\ added' = added /\ stopRequested' = stopRequested /\ stopWhenEmpty' = stopWhenEmpty /\ flush' = flush
        BY <2>1 DEF serviceQueue, TimedOut, ProcessQueue, CallbackDone, stops, ghosts
    <2>3. SUFFICES /\ flush = "no" /\ (taskQueue' # <<>> \/ th'[s].at = "run") => m_callbacks_pending' # <<>>
                   /\ shut # "no" => th'[s].intr /\ th'[s].at \notin {"wait", "timed"}
        BY <1>0, <2>1, <2>2 DEF Scheduling
    <2>4. ASSUME th' \in LoopedAt(s)
          PROVE  /\ th'[s].at # "run"
                 /\ th[s].intr => th'[s].intr /\ th'[s].at = "done"
        <3> DEFINE done == [th EXCEPT ![s] = Thread("done", Nothing, 0, th[s].intr)]
        <3>1. done[s].at = "done" /\ done[s].intr = th[s].intr
            BY <1>0, <1>00 DEF Thread
        <3>2. Notified(done) = {done}
            BY <3>1, NobodyToWake
        <3>3. th'[s].at \in {"done", "wait", "timed"}
            BY <1>0, <2>4, LoopedEndsOrWaits DEF IInv
        <3>4. th[s].intr => th' = done
            BY <2>4, <3>2 DEF LoopedAt
        <3>5. QED
            BY <3>1, <3>3, <3>4
    <2>5. CASE serviceQueue(s)
        BY <1>0, <2>4, <2>5 DEF serviceQueue, Scheduling, client
    <2>6. CASE TimedOut(s)
        <3>1. shut = "no"
            BY <1>0, <2>6 DEF TimedOut, Scheduling
        <3>2. CASE shouldStop \/ taskQueue = <<>>
            BY <1>0, <2>4, <2>6, <3>1, <3>2 DEF TimedOut, Scheduling, client
        <3>3. CASE ~(shouldStop \/ taskQueue = <<>>)
            BY <1>0, <2>6, <3>1, <3>3 DEF TimedOut, Scheduling, client
        <3>4. QED
            BY <3>2, <3>3
    <2>7. CASE ProcessQueue(s)
        <3>1. taskQueue' = <<>>
            BY <1>0, <2>7, NothingQueued DEF ProcessQueue
        <3>2. th'[s].at # "run" /\ th'[s].intr = th[s].intr /\ th'[s].at \notin {"wait", "timed"}
            BY <1>0, <1>00, <2>7 DEF ProcessQueue, Thread, ThreadType
        <3>3. QED
            BY <1>0, <3>1, <3>2 DEF Scheduling
    <2>8. CASE CallbackDone(s)
        <3> DEFINE ended == [th EXCEPT ![s] = Thread("awake", Nothing, 0, th[s].intr)]
        <3>1. ended[s].at = "awake" /\ ended[s].intr = th[s].intr
            BY <1>0, <1>00 DEF Thread
        <3>2. th' = ended
            BY <2>8, <3>1, NobodyToWake DEF CallbackDone
        <3>3. m_callbacks_pending = <<>> => taskQueue' = <<>>
            BY <1>0, <2>8, NothingQueued DEF CallbackDone
        <3>4. m_callbacks_pending' = m_callbacks_pending
            BY <2>8 DEF CallbackDone
        <3>5. QED
            BY <1>0, <3>1, <3>2, <3>3, <3>4 DEF Scheduling
    <2>9. QED
        BY <2>1, <2>5, <2>6, <2>7, <2>8
<1>19. CASE InterruptNode
    <2>1. pc' = pc /\ shut = "no" /\ shut' = "interrupted" /\ Interrupt
        BY <1>19 DEF InterruptNode, node, process
    <2>2. /\ th'["scheduler"].intr = TRUE
          /\ th'["scheduler"].at \notin {"wait", "timed"} /\ (th'["scheduler"].at = "run" => th["scheduler"].at = "run")
        <3>1. th'["scheduler"] = [th["scheduler"] EXCEPT !.intr = TRUE,
                  !.at = IF "scheduler" \in Waiting(th) THEN "awake" ELSE th["scheduler"].at]
            BY <1>0, <2>1 DEF Interrupt
        <3>2. "scheduler" \in Waiting(th) <=> th["scheduler"].at \in {"wait", "timed"}
            BY <1>0 DEF Waiting
        <3>3. QED
            BY <1>00, <3>1, <3>2 DEF ThreadType
    <2>3. QED
        BY <1>0, <2>1, <2>2 DEF Interrupt, Scheduling, stops, client, ghosts
<1>20. CASE JoinAll
    <2>1. /\ UNCHANGED vars /\ shut \notin {"no", "flushing", "ended"} /\ shut' # "no"
          /\ \A c \in Catchers : pc[c] \in {"wait", "done"} => pc'[c] \in {"wait", "done"}
        BY <1>20, <1>0, Consts DEF JoinAll, node, process, sched
    <2>2. QED
        BY <1>0, <2>1 DEF Scheduling, vars, queue, stops, client, ghosts
<1>21. CASE StopRPC
    <2>1. /\ UNCHANGED vars /\ shut \notin {"no", "flushing", "ended"} /\ shut' # "no"
          /\ \A c \in Catchers : pc[c] \in {"wait", "done"} => pc'[c] \in {"wait", "done"}
        BY <1>21, <1>0, Consts DEF StopRPC, Woken, node, process, sched
    <2>2. QED
        BY <1>0, <2>1 DEF Scheduling, vars, queue, stops, client, ghosts
<1>22. CASE StopHTTPServer
    <2>1. /\ UNCHANGED vars /\ shut \notin {"no", "flushing", "ended"} /\ shut' # "no"
          /\ \A c \in Catchers : pc[c] \in {"wait", "done"} => pc'[c] \in {"wait", "done"}
        BY <1>22, <1>0, Consts DEF StopHTTPServer, node, process, sched
    <2>2. QED
        BY <1>0, <2>1 DEF Scheduling, vars, queue, stops, client, ghosts
<1>23. CASE DropPeerLogic
    <2>1. /\ UNCHANGED vars /\ shut \notin {"no", "flushing", "ended"} /\ shut' # "no"
          /\ \A c \in Catchers : pc[c] \in {"wait", "done"} => pc'[c] \in {"wait", "done"}
        BY <1>23, <1>0, Consts DEF DropPeerLogic, node, process, sched
    <2>2. QED
        BY <1>0, <2>1 DEF Scheduling, vars, queue, stops, client, ghosts
<1>24. CASE StopNet
    <2>1. /\ UNCHANGED vars /\ shut \notin {"no", "flushing", "ended"} /\ shut' # "no"
          /\ \A c \in Catchers : pc[c] \in {"wait", "done"} => pc'[c] \in {"wait", "done"}
        BY <1>24, <1>0, Consts DEF StopNet, node, process, sched
    <2>2. QED
        BY <1>0, <2>1 DEF Scheduling, vars, queue, stops, client, ghosts
<1>25. CASE FlushBackgroundCallbacks
    <2>1. /\ pc' = pc /\ shut = "flushing" /\ shut' \in {"flushing", "ended"} /\ flush' # "no" /\ EmptyQueue
        BY <1>25 DEF FlushBackgroundCallbacks, EmptyQueue, node, process
    <2>2. QED
        BY <1>0, <2>1 DEF EmptyQueue, Scheduling, stops, queue
<1>26. CASE UNCHANGED miningVars
    <2>1. UNCHANGED vars /\ shut' = shut /\ pc' = pc
        BY <1>26 DEF miningVars, sched, process
    <2>2. QED
        BY <1>0, <2>1, SchedulingFrame
<1>27. ASSUME NEW p \in Procs, RoundStep(p) PROVE Scheduling'
    <2>1. /\ UNCHANGED vars /\ shut' = shut
          /\ \A c \in Catchers : pc[c] \in {"wait", "done"} => pc'[c] \in {"wait", "done"}
        BY <1>27, <1>0, Consts DEF RoundStep, OwnTypes
    <2>2. QED
        BY <1>0, <2>1, SchedulingFrame
<1>28. QED
    BY <1>1, <1>2, <1>3, <1>4, <1>5, <1>6, <1>7, <1>8, <1>9, <1>10, <1>11, <1>12, <1>13, <1>14, <1>15,
       <1>16, <1>17, <1>18, <1>19, <1>20, <1>21, <1>22, <1>23, <1>24, <1>25, <1>26, <1>27, QuietSteps,
       Rounds
    DEF MiningNext, Called, Blockwork, Submission, Stopping, MiningInv

\* What peerLogic has to be told stays so.
LEMMA HearingFrame ==
    ASSUME Hearing, OneProcessor' <=> OneProcessor, tip' = tip, heard' = heard,
           \A q \in Procs : pc'[q] \in {"notify", "tip"} \/ pc[q] \in {"notify", "tip"} =>
               pc'[q] = pc[q] /\ about'[q] = about[q],
           \A q \in Procs : pc[q] = "tip" /\ Pending(q, "peerLogic") /\ m_map'["peerLogic"] # 0 =>
               Pending(q, "peerLogic")',
           m_map'["peerLogic"] # 0 => m_map["peerLogic"] # 0
    PROVE  Hearing'
<1> SUFFICES ASSUME OneProcessor' PROVE Hearing'
    BY DEF Hearing
<1>1. \A p \in Procs : pc'[p] \in {"notify", "tip"} => about'[p] = tip'
    BY DEF Hearing
<1>2. ASSUME m_map'["peerLogic"] # 0, heard' # tip'
      PROVE  \E p \in Procs : pc'[p] = "notify" \/ (pc'[p] = "tip" /\ Pending(p, "peerLogic")')
    <2>1. PICK p \in Procs : pc[p] = "notify" \/ (pc[p] = "tip" /\ Pending(p, "peerLogic"))
        BY <1>2 DEF Hearing
    <2>2. QED
        BY <1>2, <2>1
<1>3. QED
    BY <1>1, <1>2 DEF Hearing

\* peerLogic is told every new tip, or will be.
LEMMA HearingKept ==
    ASSUME MiningInv, [MiningNext]_miningVars
    PROVE  Hearing'
<1>0. OwnTypes /\ Places /\ Hearing /\ SignalsInv /\ "peerLogic" \in Interfaces
    BY Consts DEF MiningInv
<1>00. OneProcessor' <=> OneProcessor
    BY SceneKept DEF MiningInv
<1>1. ASSUME NEW p \in Procs, p \in scene.procs, SubmitCalled(p) PROVE Hearing'
    <2>1. /\ tip' = tip /\ heard' = heard
          /\ \A q \in Procs : pc'[q] \in {"notify", "tip"} \/ pc[q] \in {"notify", "tip"} =>
                 pc'[q] = pc[q] /\ about'[q] = about[q]
        BY <1>1, <1>0 DEF SubmitCalled, Goto, process, chain, OwnTypes, Working
    <2>2. /\ \A q \in Procs : pc[q] = "tip" /\ Pending(q, "peerLogic") /\ m_map'["peerLogic"] # 0 =>
                 Pending(q, "peerLogic")'
          /\ m_map'["peerLogic"] # 0 => m_map["peerLogic"] # 0
        BY <1>1, <1>0 DEF SubmitCalled, Goto, process, signals, signalVars, Pending
    <2>3. QED
        BY <1>0, <1>00, <2>1, <2>2, HearingFrame
<1>2. ASSUME NEW p \in Procs, p \in scene.procs, NetBlock(p) PROVE Hearing'
    <2>1. /\ tip' = tip /\ heard' = heard
          /\ \A q \in Procs : pc'[q] \in {"notify", "tip"} \/ pc[q] \in {"notify", "tip"} =>
                 pc'[q] = pc[q] /\ about'[q] = about[q]
        BY <1>2, <1>0 DEF NetBlock, Goto, process, chain, OwnTypes, Working
    <2>2. /\ \A q \in Procs : pc[q] = "tip" /\ Pending(q, "peerLogic") /\ m_map'["peerLogic"] # 0 =>
                 Pending(q, "peerLogic")'
          /\ m_map'["peerLogic"] # 0 => m_map["peerLogic"] # 0
        BY <1>2, <1>0 DEF NetBlock, Goto, process, signals, signalVars, Pending
    <2>3. QED
        BY <1>0, <1>00, <2>1, <2>2, HearingFrame
<1>3. ASSUME NEW p \in Procs, AcceptBlock(p) PROVE Hearing'
    <2>1. /\ tip' = tip /\ heard' = heard
          /\ \A q \in Procs : pc'[q] \in {"notify", "tip"} \/ pc[q] \in {"notify", "tip"} =>
                 pc'[q] = pc[q] /\ about'[q] = about[q]
        BY <1>3, <1>0 DEF AcceptBlock, OwedFor, process, chain, OwnTypes, Working
    <2>2. /\ \A q \in Procs : pc[q] = "tip" /\ Pending(q, "peerLogic") /\ m_map'["peerLogic"] # 0 =>
                 Pending(q, "peerLogic")'
          /\ m_map'["peerLogic"] # 0 => m_map["peerLogic"] # 0
        BY <1>3, <1>0, BeginEffect DEF AcceptBlock, OwedFor, process, signals, signalVars, Apart, Pending
    <2>3. QED
        BY <1>0, <1>00, <2>1, <2>2, HearingFrame
<1>4. ASSUME NEW p \in Procs, BlockRefused(p) PROVE Hearing'
    <2>1. /\ tip' = tip /\ heard' = heard
          /\ \A q \in Procs : pc'[q] \in {"notify", "tip"} \/ pc[q] \in {"notify", "tip"} =>
                 pc'[q] = pc[q] /\ about'[q] = about[q]
        BY <1>4, <1>0 DEF BlockRefused, Goto, Unlocked, After, process, chain, OwnTypes, Working
    <2>2. /\ \A q \in Procs : pc[q] = "tip" /\ Pending(q, "peerLogic") /\ m_map'["peerLogic"] # 0 =>
                 Pending(q, "peerLogic")'
          /\ m_map'["peerLogic"] # 0 => m_map["peerLogic"] # 0
        BY <1>4, <1>0 DEF BlockRefused, Goto, Unlocked, After, process, signals, signalVars, Pending
    <2>3. QED
        BY <1>0, <1>00, <2>1, <2>2, HearingFrame
<1>5. ASSUME NEW p \in Procs, ActivateBestChain(p) PROVE Hearing'
    <2>1. /\ tip' = tip /\ heard' = heard
          /\ \A q \in Procs : pc'[q] \in {"notify", "tip"} \/ pc[q] \in {"notify", "tip"} =>
                 pc'[q] = pc[q] /\ about'[q] = about[q]
        BY <1>5, <1>0 DEF ActivateBestChain, After, OwedFor, process, chain, OwnTypes, Working
    <2>2. /\ \A q \in Procs : pc[q] = "tip" /\ Pending(q, "peerLogic") /\ m_map'["peerLogic"] # 0 =>
                 Pending(q, "peerLogic")'
          /\ m_map'["peerLogic"] # 0 => m_map["peerLogic"] # 0
        BY <1>5, <1>0, BeginEffect DEF ActivateBestChain, After, OwedFor, process, signals, signalVars,
           Apart, Pending
    <2>3. QED
        BY <1>0, <1>00, <2>1, <2>2, HearingFrame
<1>6. ASSUME NEW p \in Procs, ConnectTip(p) PROVE Hearing'
    <2>1. pc[p] = "checked" /\ pc'[p] = "notify" /\ about'[p] = tip'
        BY <1>6, <1>0 DEF ConnectTip, Woken, OwnTypes
    <2>2. \A q \in Procs \ {p} : pc'[q] \in {"notify", "tip"} => pc[q] \in {"notify", "tip"}
        BY <1>6, <1>0 DEF ConnectTip, Woken, OwnTypes
    <2>3. OneProcessor => \A q \in Procs \ {p} : pc'[q] \notin {"notify", "tip"}
        BY <1>0, <2>1, <2>2, OneWorks DEF Working
    <2>4. QED
        BY <1>00, <2>1, <2>3 DEF Hearing
<1>7. ASSUME NEW p \in Procs, UpdatedBlockTip(p) PROVE Hearing'
    <2>1. /\ pc[p] = "notify" /\ pc' = [pc EXCEPT ![p] = "tip"] /\ about' = about /\ tip' = tip /\ heard' = heard
        BY <1>7 DEF UpdatedBlockTip, Goto, chain
    <2>2. m_map' = m_map /\ (m_map["peerLogic"] # 0 => Pending(p, "peerLogic")')
        BY <1>7, <1>0, BeginEffect DEF UpdatedBlockTip
    <2>3. OneProcessor => \A q \in Procs : pc'[q] \in {"notify", "tip"} => about'[q] = tip'
        BY <1>0, <2>1 DEF Hearing, OwnTypes
    <2>4. pc'[p] = "tip"
        BY <1>0, <2>1 DEF OwnTypes
    <2>5. QED
        BY <1>00, <2>2, <2>3, <2>4 DEF Hearing
<1>8. ASSUME NEW p \in Procs, TipNotified(p) PROVE Hearing'
    <2>1. /\ pc[p] = "tip" /\ at[p] = 0 /\ about' = about /\ tip' = tip /\ heard' = heard /\ m_map' = m_map
          /\ \A q \in Procs : pc'[q] \in {"notify", "tip"} => pc'[q] = pc[q]
        BY <1>8, <1>0 DEF TipNotified, Goto, After, chain, OwnTypes, signals, signalVars
    <2>2. ~Pending(p, "peerLogic")
        BY <1>0, <2>1, EndedOwesNothing
    <2>3. OneProcessor => \A q \in Procs : pc[q] \in {"notify", "tip"} => q = p
        BY <1>0, <2>1, OneWorks DEF Working
    <2>4. OneProcessor /\ m_map["peerLogic"] # 0 => heard = tip
        BY <1>0, <2>1, <2>2, <2>3 DEF Hearing
    <2>5. QED
        BY <1>0, <1>00, <2>1, <2>4 DEF Hearing
<1>9. ASSUME NEW p \in Procs, Handled(p) PROVE Hearing'
    <2>1. /\ pc' = pc /\ about' = about /\ tip' = tip /\ m_map' = m_map /\ Apart(p)
          /\ Pending(p, "peerLogic") /\ callbacks[at[p]] # "peerLogic" => Pending(p, "peerLogic")'
        BY <1>9, <1>0, NextEffect DEF Handled, process, chain
    <2>2. CASE pc[p] = "tip" /\ callbacks[at[p]] = "peerLogic"
        <3>1. heard' = about[p]
            BY <1>9, <2>2 DEF Handled
        <3>2. QED
            BY <1>0, <1>00, <2>1, <2>2, <3>1 DEF Hearing
    <2>3. CASE ~(pc[p] = "tip" /\ callbacks[at[p]] = "peerLogic")
        <3>1. heard' = heard
            BY <1>9, <2>3 DEF Handled
        <3>2. \A q \in Procs : pc[q] = "tip" /\ Pending(q, "peerLogic") => Pending(q, "peerLogic")'
            BY <2>1, <2>3 DEF Apart
        <3>3. QED
            BY <1>0, <1>00, <2>1, <3>1, <3>2, HearingFrame
    <2>4. QED
        BY <2>2, <2>3
<1>10. ASSUME NEW p \in Procs, CheckDuplicate(p) PROVE Hearing'
    <2>1. /\ tip' = tip /\ heard' = heard
          /\ \A q \in Procs : pc'[q] \in {"notify", "tip"} \/ pc[q] \in {"notify", "tip"} =>
                 pc'[q] = pc[q] /\ about'[q] = about[q]
        BY <1>10, <1>0 DEF CheckDuplicate, Goto, process, chain, OwnTypes, Working
    <2>2. /\ \A q \in Procs : pc[q] = "tip" /\ Pending(q, "peerLogic") /\ m_map'["peerLogic"] # 0 =>
                 Pending(q, "peerLogic")'
          /\ m_map'["peerLogic"] # 0 => m_map["peerLogic"] # 0
        BY <1>10, <1>0 DEF CheckDuplicate, Goto, process, signals, signalVars, Pending
    <2>3. QED
        BY <1>0, <1>00, <2>1, <2>2, HearingFrame
<1>11. ASSUME NEW p \in Procs, RegisterCatcher(p) PROVE Hearing'
    <2>0. p \in Interfaces /\ p # "peerLogic"
        BY <1>11, <1>0, Consts DEF RegisterCatcher, Goto, Places
    <2>1. /\ tip' = tip /\ heard' = heard
          /\ \A q \in Procs : pc'[q] \in {"notify", "tip"} \/ pc[q] \in {"notify", "tip"} =>
                 pc'[q] = pc[q] /\ about'[q] = about[q]
        BY <1>11, <1>0 DEF RegisterCatcher, Goto, process, chain, OwnTypes, Working
    <2>2. /\ \A q \in Procs : pc[q] = "tip" /\ Pending(q, "peerLogic") /\ m_map'["peerLogic"] # 0 =>
                 Pending(q, "peerLogic")'
          /\ m_map'["peerLogic"] # 0 => m_map["peerLogic"] # 0
        BY <1>11, <1>0, <2>0, RegisterEffect DEF RegisterCatcher, Goto, process, signals, signalVars
    <2>3. QED
        BY <1>0, <1>00, <2>1, <2>2, HearingFrame
<1>12. ASSUME NEW p \in Procs, LockTemplate(p) PROVE Hearing'
    <2>1. /\ tip' = tip /\ heard' = heard
          /\ \A q \in Procs : pc'[q] \in {"notify", "tip"} \/ pc[q] \in {"notify", "tip"} =>
                 pc'[q] = pc[q] /\ about'[q] = about[q]
        BY <1>12, <1>0 DEF LockTemplate, Goto, Lock, process, chain, OwnTypes, Working
    <2>2. /\ \A q \in Procs : pc[q] = "tip" /\ Pending(q, "peerLogic") /\ m_map'["peerLogic"] # 0 =>
                 Pending(q, "peerLogic")'
          /\ m_map'["peerLogic"] # 0 => m_map["peerLogic"] # 0
        BY <1>12, <1>0 DEF LockTemplate, Goto, Lock, process, signals, signalVars, Pending
    <2>3. QED
        BY <1>0, <1>00, <2>1, <2>2, HearingFrame
<1>13. ASSUME NEW p \in Procs, AuxLock(p) PROVE Hearing'
    <2>0. p \in Interfaces /\ p # "peerLogic"
        BY <1>13, <1>0, Consts DEF AuxLock, Goto, Places
    <2>1. /\ tip' = tip /\ heard' = heard
          /\ \A q \in Procs : pc'[q] \in {"notify", "tip"} \/ pc[q] \in {"notify", "tip"} =>
                 pc'[q] = pc[q] /\ about'[q] = about[q]
        BY <1>13, <1>0 DEF AuxLock, Goto, Lock, process, chain, OwnTypes, Working
    <2>2. /\ \A q \in Procs : pc[q] = "tip" /\ Pending(q, "peerLogic") /\ m_map'["peerLogic"] # 0 =>
                 Pending(q, "peerLogic")'
          /\ m_map'["peerLogic"] # 0 => m_map["peerLogic"] # 0
        BY <1>13, <1>0, <2>0, RegisterEffect DEF AuxLock, Goto, Lock, process, signals, signalVars
    <2>3. QED
        BY <1>0, <1>00, <2>1, <2>2, HearingFrame
<1>14. ASSUME NEW p \in Procs, AuxUnknown(p) PROVE Hearing'
    <2>1. /\ tip' = tip /\ heard' = heard
          /\ \A q \in Procs : pc'[q] \in {"notify", "tip"} \/ pc[q] \in {"notify", "tip"} =>
                 pc'[q] = pc[q] /\ about'[q] = about[q]
        BY <1>14, <1>0 DEF AuxUnknown, Goto, process, chain, OwnTypes, Working
    <2>2. /\ \A q \in Procs : pc[q] = "tip" /\ Pending(q, "peerLogic") /\ m_map'["peerLogic"] # 0 =>
                 Pending(q, "peerLogic")'
          /\ m_map'["peerLogic"] # 0 => m_map["peerLogic"] # 0
        BY <1>14, <1>0 DEF AuxUnknown, Goto, process, signals, signalVars, Pending
    <2>3. QED
        BY <1>0, <1>00, <2>1, <2>2, HearingFrame
<1>15. ASSUME NEW p \in Procs, SyncWithValidationInterfaceQueue(p) PROVE Hearing'
    <2>1. /\ tip' = tip /\ heard' = heard
          /\ \A q \in Procs : pc'[q] \in {"notify", "tip"} \/ pc[q] \in {"notify", "tip"} =>
                 pc'[q] = pc[q] /\ about'[q] = about[q]
        BY <1>15, <1>0 DEF SyncWithValidationInterfaceQueue, Goto, process, chain, OwnTypes, Working
    <2>2. /\ \A q \in Procs : pc[q] = "tip" /\ Pending(q, "peerLogic") /\ m_map'["peerLogic"] # 0 =>
                 Pending(q, "peerLogic")'
          /\ m_map'["peerLogic"] # 0 => m_map["peerLogic"] # 0
        BY <1>15, <1>0 DEF SyncWithValidationInterfaceQueue, Goto, process, signals, signalVars, Pending
    <2>3. QED
        BY <1>0, <1>00, <2>1, <2>2, HearingFrame
<1>16. ASSUME NEW p \in Procs, Return(p) PROVE Hearing'
    <2>0. p \in Interfaces /\ p # "peerLogic"
        BY <1>16, <1>0, Consts DEF Return, Goto, Places, Back
    <2>1. /\ tip' = tip /\ heard' = heard
          /\ \A q \in Procs : pc'[q] \in {"notify", "tip"} \/ pc[q] \in {"notify", "tip"} =>
                 pc'[q] = pc[q] /\ about'[q] = about[q]
        BY <1>16, <1>0 DEF Return, Goto, process, chain, OwnTypes, Working
    <2>2. /\ \A q \in Procs : pc[q] = "tip" /\ Pending(q, "peerLogic") /\ m_map'["peerLogic"] # 0 =>
                 Pending(q, "peerLogic")'
          /\ m_map'["peerLogic"] # 0 => m_map["peerLogic"] # 0
        BY <1>16, <1>0, <2>0, UnregisterEffect DEF Return, Goto, process, signals, signalVars
    <2>3. QED
        BY <1>0, <1>00, <2>1, <2>2, HearingFrame
<1>17. ASSUME QuietStep PROVE Hearing'
    <2>1. /\ tip' = tip /\ heard' = heard
          /\ \A q \in Procs : pc'[q] \in {"notify", "tip"} \/ pc[q] \in {"notify", "tip"} =>
                 pc'[q] = pc[q] /\ about'[q] = about[q]
        BY <1>17, <1>0 DEF QuietStep, others, process, chain, OwnTypes, Working
    <2>2. /\ \A q \in Procs : pc[q] = "tip" /\ Pending(q, "peerLogic") /\ m_map'["peerLogic"] # 0 =>
                 Pending(q, "peerLogic")'
          /\ m_map'["peerLogic"] # 0 => m_map["peerLogic"] # 0
        BY <1>17, <1>0 DEF QuietStep, others, process, signals, signalVars, Pending
    <2>3. QED
        BY <1>0, <1>00, <2>1, <2>2, HearingFrame
<1>18. CASE SchedulerThread
    <2>1. /\ tip' = tip /\ heard' = heard
          /\ \A q \in Procs : pc'[q] \in {"notify", "tip"} \/ pc[q] \in {"notify", "tip"} =>
                 pc'[q] = pc[q] /\ about'[q] = about[q]
        BY <1>18, <1>0 DEF SchedulerThread, node, process, chain, OwnTypes, Working
    <2>2. /\ \A q \in Procs : pc[q] = "tip" /\ Pending(q, "peerLogic") /\ m_map'["peerLogic"] # 0 =>
                 Pending(q, "peerLogic")'
          /\ m_map'["peerLogic"] # 0 => m_map["peerLogic"] # 0
        BY <1>18, <1>0 DEF SchedulerThread, node, process, signals, signalVars, Pending
    <2>3. QED
        BY <1>0, <1>00, <2>1, <2>2, HearingFrame
<1>19. CASE InterruptNode
    <2>1. /\ tip' = tip /\ heard' = heard
          /\ \A q \in Procs : pc'[q] \in {"notify", "tip"} \/ pc[q] \in {"notify", "tip"} =>
                 pc'[q] = pc[q] /\ about'[q] = about[q]
        BY <1>19, <1>0 DEF InterruptNode, node, process, chain, OwnTypes, Working
    <2>2. /\ \A q \in Procs : pc[q] = "tip" /\ Pending(q, "peerLogic") /\ m_map'["peerLogic"] # 0 =>
                 Pending(q, "peerLogic")'
          /\ m_map'["peerLogic"] # 0 => m_map["peerLogic"] # 0
        BY <1>19, <1>0 DEF InterruptNode, node, process, signals, signalVars, Pending
    <2>3. QED
        BY <1>0, <1>00, <2>1, <2>2, HearingFrame
<1>20. CASE JoinAll
    <2>1. /\ tip' = tip /\ heard' = heard
          /\ \A q \in Procs : pc'[q] \in {"notify", "tip"} \/ pc[q] \in {"notify", "tip"} =>
                 pc'[q] = pc[q] /\ about'[q] = about[q]
        BY <1>20, <1>0 DEF JoinAll, node, process, chain, OwnTypes, Working
    <2>2. /\ \A q \in Procs : pc[q] = "tip" /\ Pending(q, "peerLogic") /\ m_map'["peerLogic"] # 0 =>
                 Pending(q, "peerLogic")'
          /\ m_map'["peerLogic"] # 0 => m_map["peerLogic"] # 0
        BY <1>20, <1>0 DEF JoinAll, node, process, signals, signalVars, Pending
    <2>3. QED
        BY <1>0, <1>00, <2>1, <2>2, HearingFrame
<1>21. CASE StopRPC
    <2>1. /\ tip' = tip /\ heard' = heard
          /\ \A q \in Procs : pc'[q] \in {"notify", "tip"} \/ pc[q] \in {"notify", "tip"} =>
                 pc'[q] = pc[q] /\ about'[q] = about[q]
        BY <1>21, <1>0 DEF StopRPC, Woken, node, process, chain, OwnTypes, Working
    <2>2. /\ \A q \in Procs : pc[q] = "tip" /\ Pending(q, "peerLogic") /\ m_map'["peerLogic"] # 0 =>
                 Pending(q, "peerLogic")'
          /\ m_map'["peerLogic"] # 0 => m_map["peerLogic"] # 0
        BY <1>21, <1>0 DEF StopRPC, Woken, node, process, signals, signalVars, Pending
    <2>3. QED
        BY <1>0, <1>00, <2>1, <2>2, HearingFrame
<1>22. CASE StopHTTPServer
    <2>1. /\ tip' = tip /\ heard' = heard
          /\ \A q \in Procs : pc'[q] \in {"notify", "tip"} \/ pc[q] \in {"notify", "tip"} =>
                 pc'[q] = pc[q] /\ about'[q] = about[q]
        BY <1>22, <1>0 DEF StopHTTPServer, node, process, chain, OwnTypes, Working
    <2>2. /\ \A q \in Procs : pc[q] = "tip" /\ Pending(q, "peerLogic") /\ m_map'["peerLogic"] # 0 =>
                 Pending(q, "peerLogic")'
          /\ m_map'["peerLogic"] # 0 => m_map["peerLogic"] # 0
        BY <1>22, <1>0 DEF StopHTTPServer, node, process, signals, signalVars, Pending
    <2>3. QED
        BY <1>0, <1>00, <2>1, <2>2, HearingFrame
<1>23. CASE DropPeerLogic
    <2>1. /\ tip' = tip /\ heard' = heard
          /\ \A q \in Procs : pc'[q] \in {"notify", "tip"} \/ pc[q] \in {"notify", "tip"} =>
                 pc'[q] = pc[q] /\ about'[q] = about[q]
        BY <1>23, <1>0 DEF DropPeerLogic, node, process, chain, OwnTypes, Working
    <2>2. /\ \A q \in Procs : pc[q] = "tip" /\ Pending(q, "peerLogic") /\ m_map'["peerLogic"] # 0 =>
                 Pending(q, "peerLogic")'
          /\ m_map'["peerLogic"] # 0 => m_map["peerLogic"] # 0
        BY <1>23, <1>0, UnregisterEffect DEF DropPeerLogic, node, process, signals, signalVars
    <2>3. QED
        BY <1>0, <1>00, <2>1, <2>2, HearingFrame
<1>24. CASE StopNet
    <2>1. /\ tip' = tip /\ heard' = heard
          /\ \A q \in Procs : pc'[q] \in {"notify", "tip"} \/ pc[q] \in {"notify", "tip"} =>
                 pc'[q] = pc[q] /\ about'[q] = about[q]
        BY <1>24, <1>0 DEF StopNet, node, process, chain, OwnTypes, Working
    <2>2. /\ \A q \in Procs : pc[q] = "tip" /\ Pending(q, "peerLogic") /\ m_map'["peerLogic"] # 0 =>
                 Pending(q, "peerLogic")'
          /\ m_map'["peerLogic"] # 0 => m_map["peerLogic"] # 0
        BY <1>24, <1>0, Consts DEF StopNet, node, process, signals, signalVars, Clear
    <2>3. QED
        BY <1>0, <1>00, <2>1, <2>2, HearingFrame
<1>25. CASE FlushBackgroundCallbacks
    <2>1. /\ tip' = tip /\ heard' = heard
          /\ \A q \in Procs : pc'[q] \in {"notify", "tip"} \/ pc[q] \in {"notify", "tip"} =>
                 pc'[q] = pc[q] /\ about'[q] = about[q]
        BY <1>25, <1>0 DEF FlushBackgroundCallbacks, node, process, chain, OwnTypes, Working
    <2>2. /\ \A q \in Procs : pc[q] = "tip" /\ Pending(q, "peerLogic") /\ m_map'["peerLogic"] # 0 =>
                 Pending(q, "peerLogic")'
          /\ m_map'["peerLogic"] # 0 => m_map["peerLogic"] # 0
        BY <1>25, <1>0 DEF FlushBackgroundCallbacks, node, process, signals, signalVars, Pending
    <2>3. QED
        BY <1>0, <1>00, <2>1, <2>2, HearingFrame
<1>26. CASE UNCHANGED miningVars
    <2>1. /\ tip' = tip /\ heard' = heard
          /\ \A q \in Procs : pc'[q] \in {"notify", "tip"} \/ pc[q] \in {"notify", "tip"} =>
                 pc'[q] = pc[q] /\ about'[q] = about[q]
        BY <1>26, <1>0 DEF miningVars, process, chain, OwnTypes, Working
    <2>2. /\ \A q \in Procs : pc[q] = "tip" /\ Pending(q, "peerLogic") /\ m_map'["peerLogic"] # 0 =>
                 Pending(q, "peerLogic")'
          /\ m_map'["peerLogic"] # 0 => m_map["peerLogic"] # 0
        BY <1>26, <1>0 DEF miningVars, process, signals, signalVars, Pending
    <2>3. QED
        BY <1>0, <1>00, <2>1, <2>2, HearingFrame
<1>27. ASSUME NEW p \in Procs, RoundStep(p) PROVE Hearing'
    <2>1. /\ tip' = tip /\ heard' = heard /\ m_map' = m_map
          /\ \A q \in Procs : pc'[q] \in {"notify", "tip"} \/ pc[q] \in {"notify", "tip"} =>
                 pc'[q] = pc[q] /\ about'[q] = about[q]
        BY <1>27, <1>0 DEF RoundStep, OwnTypes
    <2>2. \A q \in Procs : pc[q] = "tip" /\ Pending(q, "peerLogic") => Pending(q, "peerLogic")'
        BY <1>27 DEF RoundStep, Apart
    <2>3. QED
        BY <1>0, <1>00, <2>1, <2>2, HearingFrame
<1>28. QED
    BY <1>1, <1>2, <1>3, <1>4, <1>5, <1>6, <1>7, <1>8, <1>9, <1>10, <1>11, <1>12, <1>13, <1>14, <1>15,
       <1>16, <1>17, <1>18, <1>19, <1>20, <1>21, <1>22, <1>23, <1>24, <1>25, <1>26, <1>27, QuietSteps,
       Rounds
    DEF MiningNext, Called, Blockwork, Submission, Stopping, MiningInv

\* What a step leaves of what is known of the verdict on c's block: it goes on
\* as before, and a verdict that is still to be delivered still is.
Undisturbed(c) ==
    /\ owed'[c] => owed[c]
    /\ \/ pc'[c] = pc[c]
       \/ pc[c] \in {"notify", "tip"} /\ pc'[c] \in {"activate", "tip"}
       \/ pc[c] = "lock" /\ pc'[c] = "accept"
       \/ pc[c] \in Back /\ pc'[c] \in Back
       \/ ~owed[c] /\ pc'[c] \notin Working \ {"accept"}
    /\ blk'[c] = blk[c] \/ (~owed[c] /\ pc'[c] \notin Working)
    /\ found[c] => found'[c]
    /\ most'[c] \in {most[c], 0}
    /\ \A q \in Procs : Reports(q) /\ about[q] = blk[c] /\ Pending(q, c) /\ ~found'[c] =>
           pc'[q] = pc[q] /\ about'[q] = about[q] /\ Pending(q, c)'
    /\ \A q \in Procs : pc'[q] = "checked" => pc[q] = "checked" /\ about'[q] = about[q]
    /\ pc[c] \in Back /\ Stranded(c) => Stranded(c)'

\* Then it stays known.
LEMMA VerdictFrame ==
    ASSUME NEW c \in Catchers, VerdictKnown(c), Blocks, Undisturbed(c), tip' = tip, failed' = failed
    PROVE  VerdictKnown(c)'
<1>0. c \in Procs
    BY Consts
<1>1. pc[c] = "refused" => about[c] = blk[c]
    BY <1>0 DEF Blocks
<1>2. CASE ~owed[c] /\ pc'[c] \notin Working \ {"accept"}
    BY <1>2 DEF Undisturbed, VerdictKnown, Working, Activating, Back
<1>3. CASE /\ blk'[c] = blk[c]
           /\ \/ pc'[c] = pc[c]
              \/ pc[c] \in {"notify", "tip"} /\ pc'[c] \in {"activate", "tip"}
              \/ pc[c] = "lock" /\ pc'[c] = "accept"
              \/ pc[c] \in Back /\ pc'[c] \in Back
    <2>1. pc'[c] \in Activating \cup Back /\ blk'[c] \in failed' => found'[c]
        BY <1>3 DEF Undisturbed, VerdictKnown, Activating, Back
    <2>2. pc'[c] = "refused" => found'[c] \/ Pending(c, c)'
        BY <1>0, <1>1, <1>3 DEF Undisturbed, VerdictKnown, Reports, Back
    <2>3. pc'[c] \in Activating /\ most'[c] # 0 => blk'[c] <= most'[c] \/ FailedUpTo(blk[c])'
        BY <1>3 DEF Undisturbed, VerdictKnown, Activating, Back, FailedUpTo
    <2>4. pc'[c] \in Back => found'[c] \/ blk'[c] <= tip' \/ FailedUpTo(blk[c])' \/ Stranded(c)'
        BY <1>3 DEF Undisturbed, VerdictKnown, Back, FailedUpTo
    <2>5. \A p \in Procs : pc'[p] = "checked" /\ about'[p] = blk'[c] /\ pc'[c] \in Activating \cup Back =>
              found'[c] \/ Pending(p, c)'
        BY <1>3 DEF Undisturbed, VerdictKnown, Activating, Back, Reports
    <2>6. owed'[c] => pc'[c] \in Working \cup {"lock", "done"}
        BY <1>3 DEF Undisturbed, VerdictKnown, Back, Working
    <2>7. owed'[c] /\ pc'[c] # "done" =>
              found'[c] \/ \E p \in Procs : Reports(p)' /\ about'[p] = blk'[c] /\ Pending(p, c)'
        <3>1. SUFFICES ASSUME owed'[c], pc'[c] # "done", ~found'[c]
                       PROVE  \E p \in Procs : Reports(p)' /\ about'[p] = blk'[c] /\ Pending(p, c)'
            OBVIOUS
        <3>2. PICK p \in Procs : Reports(p) /\ about[p] = blk[c] /\ Pending(p, c)
            BY <1>3, <3>1 DEF Undisturbed, VerdictKnown, Back
        <3>3. QED
            BY <1>3, <3>1, <3>2 DEF Undisturbed, Reports
    <2>8. QED
        BY <2>1, <2>2, <2>3, <2>4, <2>5, <2>6, <2>7, <1>3 DEF VerdictKnown, FailedUpTo
<1>4. QED
    BY <1>2, <1>3 DEF Undisturbed

\* Calls that have returned keep what they returned.
LEMMA VerdictFoundFrame ==
    ASSUME VerdictFound, OneProcessor' <=> OneProcessor, failed \subseteq failed',
           \A c \in Catchers : pc'[c] = "done" /\ owed'[c] =>
               pc[c] = "done" /\ owed[c] /\ blk'[c] = blk[c] /\ (found[c] => found'[c])
    PROVE  VerdictFound'
BY DEF VerdictFound

\* A step that disturbs no catcher keeps all that is known of verdicts.
LEMMA VerdictsFrame ==
    ASSUME Verdicts, Blocks, OneProcessor' <=> OneProcessor, tip' = tip, failed' = failed,
           \A c \in Catchers : Undisturbed(c)
    PROVE  Verdicts'
<1>1. \A c \in Catchers : VerdictKnown(c)'
    BY VerdictFrame DEF Verdicts
<1>2. \A c \in Catchers : pc'[c] = "done" /\ owed'[c] =>
          pc[c] = "done" /\ owed[c] /\ blk'[c] = blk[c] /\ (found[c] => found'[c])
    BY DEF Undisturbed, Back
<1>3. QED
    BY <1>1, <1>2, VerdictFoundFrame DEF Verdicts

\* A call that has not come to the wait has no callback, run or pending.
LEMMA NotAdded ==
    ASSUME MiningInv, NEW c \in Catchers, pc[c] \notin {"wait", "done"}
    PROVE  /\ \A i \in DOMAIN ran : ran[i] # c
           /\ th["scheduler"].at = "run" => Head(m_callbacks_pending) # c
<1>1. /\ ran \in Seq(Callbacks) /\ m_callbacks_pending \in Seq(Callbacks) /\ added = ran \o m_callbacks_pending
      /\ flush # "no" => th["scheduler"].at = "done"
    BY TypedParts, Consts DEF MiningInv, IInv, CallbacksInOrder, Joined
<1>2. \A i \in DOMAIN added : added[i] # c
    BY DEF MiningInv, Scheduling
<1>3. \A i \in DOMAIN ran : i \in DOMAIN added /\ added[i] = ran[i]
    BY <1>1
<1>4. th["scheduler"].at = "run" => m_callbacks_pending # <<>>
    BY <1>1 DEF MiningInv, Scheduling
<1>5. m_callbacks_pending # <<>> => \E i \in DOMAIN added : added[i] = Head(m_callbacks_pending)
    <2>1. SUFFICES ASSUME m_callbacks_pending # <<>>
                   PROVE  \E i \in DOMAIN added : added[i] = Head(m_callbacks_pending)
        OBVIOUS
    <2>2. Len(m_callbacks_pending) \in Nat \ {0} /\ Len(ran) \in Nat
        BY <1>1, <2>1
    <2>3. Head(m_callbacks_pending) = m_callbacks_pending[1]
        BY <1>1, <2>1
    <2>4. Len(ran) + 1 \in DOMAIN added /\ added[Len(ran) + 1] = m_callbacks_pending[1]
        BY <1>1, <2>2
    <2>5. QED
        BY <2>3, <2>4
<1>6. QED
    BY <1>2, <1>3, <1>4, <1>5

\* A stranded call stays so until Shutdown has run the callbacks, which is when
\* there are no calls any more.
LEMMA StrandedKept ==
    ASSUME MiningInv, NEW c \in Catchers, Stranded(c), shut' # "no",
           \/ UNCHANGED vars
           \/ \E p \in Catchers : AddToProcessQueue(p)
           \/ serviceQueue("scheduler") \/ TimedOut("scheduler")
           \/ ProcessQueue("scheduler") \/ CallbackDone("scheduler")
    PROVE  Stranded(c)'
<1> DEFINE s == "scheduler"
<1>0. /\ th[s].intr /\ th[s].at \notin {"wait", "timed"}
      /\ flush = "no" /\ th[s].at = "run" => m_callbacks_pending # <<>>
    BY DEF Stranded, MiningInv, Scheduling
<1>1. /\ Typed /\ Threads = {s} /\ th \in [Threads -> ThreadType] /\ th[s] \in ThreadType
      /\ ran \in Seq(Catchers) /\ m_callbacks_pending \in Seq(Catchers)
      /\ flush # "no" => th[s].at = "done"
    BY TypedParts, Consts DEF MiningInv, IInv, Joined
<1>2. CASE UNCHANGED vars
    BY <1>2 DEF Stranded, vars, queue, client, ghosts
<1>3. ASSUME NEW p \in Catchers, AddToProcessQueue(p) PROVE Stranded(c)'
    <2>1. th' = th /\ ran' = ran /\ m_callbacks_pending' = Append(m_callbacks_pending, p)
        BY <1>0, <1>3, NobodyToWake DEF AddToProcessQueue, queue
    <2>2. th[s].at = "run" => Head(m_callbacks_pending') = Head(m_callbacks_pending)
        BY <1>0, <1>1, <2>1
    <2>3. QED
        BY <2>1, <2>2 DEF Stranded
<1>4. CASE serviceQueue(s)
    <2>1. th'[s].at \in {"done", "wait", "timed"} /\ ran' = ran
        BY <1>1, <1>4, LoopedEndsOrWaits DEF serviceQueue, ghosts
    <2>2. QED
        BY <2>1 DEF Stranded
<1>5. CASE TimedOut(s)
    BY <1>0, <1>5 DEF TimedOut
<1>6. CASE ProcessQueue(s)
    <2>1. ran' = Append(ran, Head(m_callbacks_pending)) \/ ran' = ran
        BY <1>6 DEF ProcessQueue
    <2>2. th[s].at = "run" /\ th'[s].at # "run"
        BY <1>1, <1>6 DEF ProcessQueue, Thread, ThreadType
    <2>3. Head(m_callbacks_pending) # c /\ Head(m_callbacks_pending) \in Catchers
        BY <1>0, <1>1, <2>2 DEF Stranded
    <2>4. \A i \in DOMAIN ran' : ran'[i] # c
        BY <1>1, <2>1, <2>3 DEF Stranded
    <2>5. QED
        BY <2>2, <2>4 DEF Stranded
<1>7. CASE CallbackDone(s)
    <2> DEFINE ended == [th EXCEPT ![s] = Thread("awake", Nothing, 0, th[s].intr)]
    <2>1. ended[s].at = "awake"
        BY <1>1 DEF Thread
    <2>2. th' = ended /\ ran' = ran
        BY <1>7, <2>1, NobodyToWake DEF CallbackDone, ghosts
    <2>3. QED
        BY <2>1, <2>2 DEF Stranded
<1>8. QED
    BY <1>2, <1>3, <1>4, <1>5, <1>6, <1>7

\* A verdict that is dispatched reaches the catchers of its block.
LEMMA VerdictsKept ==
    ASSUME MiningInv, [MiningNext]_miningVars
    PROVE  Verdicts'
<1>0. /\ OwnTypes /\ Places /\ SignalsInv /\ Registrations /\ Blocks /\ Verdicts
      /\ "peerLogic" \in Interfaces /\ "peerLogic" \notin Catchers
    BY Consts DEF MiningInv
<1>00. OneProcessor' <=> OneProcessor
    BY SceneKept DEF MiningInv
<1>1. ASSUME NEW p \in Procs, p \in scene.procs, SubmitCalled(p) PROVE Verdicts'
    <2>1. tip' = tip /\ failed' = failed
        BY <1>1 DEF SubmitCalled, Goto, process, chain
    <2>2. ASSUME NEW c \in Catchers PROVE Undisturbed(c)
        <3>0. c \in Procs /\ VerdictKnown(c)
            BY <1>0, <2>2, Consts DEF Verdicts
        <3>1. /\ owed'[c] => owed[c]
              /\ \/ pc'[c] = pc[c]
                 \/ pc[c] \in {"notify", "tip"} /\ pc'[c] \in {"activate", "tip"}
                 \/ pc[c] = "lock" /\ pc'[c] = "accept"
                 \/ pc[c] \in Back /\ pc'[c] \in Back
                 \/ ~owed[c] /\ pc'[c] \notin Working \ {"accept"}
              /\ blk'[c] = blk[c] \/ (~owed[c] /\ pc'[c] \notin Working)
              /\ found[c] => found'[c]
              /\ most'[c] \in {most[c], 0}
              /\ \A q \in Procs : pc'[q] = "checked" => pc[q] = "checked" /\ about'[q] = about[q]
            BY <1>1, <1>0, <3>0, Consts DEF SubmitCalled, Goto, process, catcher, OwnTypes, VerdictKnown,
               Working, Back
        <3>2. \A q \in Procs : Reports(q) /\ about[q] = blk[c] /\ Pending(q, c) /\ ~found'[c] =>
                  pc'[q] = pc[q] /\ about'[q] = about[q] /\ Pending(q, c)'
            BY <1>1, <1>0, <2>2, Consts DEF SubmitCalled, Goto, process, OwnTypes, Reports, signals,
               signalVars, Pending
        <3>3. pc[c] \in Back /\ Stranded(c) => Stranded(c)'
            BY <1>1 DEF SubmitCalled, Goto, process, sched, vars, queue, client, ghosts, Stranded
        <3>4. QED
            BY <3>1, <3>2, <3>3 DEF Undisturbed
    <2>3. QED
        BY <1>0, <1>00, <2>1, <2>2, VerdictsFrame
<1>2. ASSUME NEW p \in Procs, p \in scene.procs, NetBlock(p) PROVE Verdicts'
    <2>1. tip' = tip /\ failed' = failed
        BY <1>2 DEF NetBlock, Goto, process, chain
    <2>2. ASSUME NEW c \in Catchers PROVE Undisturbed(c)
        <3>0. c \in Procs /\ VerdictKnown(c)
            BY <1>0, <2>2, Consts DEF Verdicts
        <3>1. /\ owed'[c] => owed[c]
              /\ \/ pc'[c] = pc[c]
                 \/ pc[c] \in {"notify", "tip"} /\ pc'[c] \in {"activate", "tip"}
                 \/ pc[c] = "lock" /\ pc'[c] = "accept"
                 \/ pc[c] \in Back /\ pc'[c] \in Back
                 \/ ~owed[c] /\ pc'[c] \notin Working \ {"accept"}
              /\ blk'[c] = blk[c] \/ (~owed[c] /\ pc'[c] \notin Working)
              /\ found[c] => found'[c]
              /\ most'[c] \in {most[c], 0}
              /\ \A q \in Procs : pc'[q] = "checked" => pc[q] = "checked" /\ about'[q] = about[q]
            BY <1>2, <1>0, <3>0, Consts DEF NetBlock, Goto, process, catcher, OwnTypes, VerdictKnown,
               Working, Back
        <3>2. \A q \in Procs : Reports(q) /\ about[q] = blk[c] /\ Pending(q, c) /\ ~found'[c] =>
                  pc'[q] = pc[q] /\ about'[q] = about[q] /\ Pending(q, c)'
            BY <1>2, <1>0, <2>2, Consts DEF NetBlock, Goto, process, OwnTypes, Reports, signals,
               signalVars, Pending
        <3>3. pc[c] \in Back /\ Stranded(c) => Stranded(c)'
            BY <1>2 DEF NetBlock, Goto, process, sched, vars, queue, client, ghosts, Stranded
        <3>4. QED
            BY <3>1, <3>2, <3>3 DEF Undisturbed
    <2>3. QED
        BY <1>0, <1>00, <2>1, <2>2, VerdictsFrame
<1>3. ASSUME NEW p \in Procs, AcceptBlock(p) PROVE Verdicts'
    <2>1. /\ pc[p] = "accept" /\ cs["cs_main"] = Free /\ \A q \in Procs : ~Reports(q)
        BY <1>3, <1>0, Consts DEF AcceptBlock, Places, Reports
    <2>2. /\ blk' = blk /\ most' = most /\ tip' = tip /\ failed' = failed /\ found' = found
          /\ \A c \in Catchers : Stranded(c)' <=> Stranded(c)
        BY <1>3 DEF AcceptBlock, sched, vars, queue, client, ghosts, Stranded
    <2>3. ASSUME NEW c \in Catchers, owed[c], pc[c] # "done" PROVE found[c]
        BY <1>0, <2>1, <2>3 DEF Verdicts, VerdictKnown
    <2>4. CASE Acceptable(blk[p])
        <3>1. /\ pc' = [pc EXCEPT ![p] = "activate"] /\ about' = about /\ owed' = owed
            BY <1>3, <2>4 DEF AcceptBlock
        <3>2. \A q \in Procs : pc'[q] \notin {"refused", "checked"} /\ (pc'[q] = "done" => pc[q] = "done")
            BY <1>0, <2>1, <3>1 DEF OwnTypes, Reports
        <3>3. ASSUME NEW c \in Catchers PROVE VerdictKnown(c)'
            <4>1. c \in Procs /\ VerdictKnown(c)
                BY <1>0, <3>3, Consts DEF Verdicts
            <4>2. CASE c = p
                <5>1. most[p] = 0 /\ blk[p] \notin failed
                    <6>1. most[p] = 0 /\ blk[p] \in 1 .. MaxBlock
                        BY <1>0, <2>1 DEF Blocks, OwnTypes, Working, Activating
                    <6>2. QED
                        BY <2>4, <6>1 DEF Acceptable
                <5>2. pc'[c] = "activate"
                    BY <1>0, <3>1, <4>2 DEF OwnTypes
                <5>3. QED
                    BY <2>2, <2>3, <3>1, <3>2, <3>3, <4>2, <2>1, <5>1, <5>2 DEF VerdictKnown, Working, Back
            <4>3. CASE c # p
                <5>1. pc'[c] = pc[c]
                    BY <1>0, <3>1, <4>1, <4>3 DEF OwnTypes
                <5>2. QED
                    BY <2>2, <2>3, <3>1, <3>2, <3>3, <4>1, <5>1 DEF VerdictKnown, FailedUpTo
            <4>4. QED
                BY <4>2, <4>3
        <3>4. VerdictFound'
            BY <1>0, <1>00, <2>2, <3>1, <3>2, Consts, VerdictFoundFrame DEF Verdicts
        <3>5. QED
            BY <3>3, <3>4 DEF Verdicts
    <2>5. CASE ~Acceptable(blk[p])
        <3>1. /\ pc' = [pc EXCEPT ![p] = "refused"] /\ about' = [about EXCEPT ![p] = blk[p]]
              /\ owed' = OwedFor(blk[p]) /\ IterateBegin(p)
            BY <1>3, <2>5 DEF AcceptBlock
        <3>2. \A q \in Procs : pc'[q] # "checked" /\ (pc'[q] = "done" => pc[q] = "done")
            BY <1>0, <2>1, <3>1 DEF OwnTypes, Reports
        <3>3. \A c \in Catchers : m_map[c] # 0 => Pending(p, c)'
            BY <1>0, <3>1, BeginEffect, Consts
        <3>4. \A c \in Catchers : owed'[c] <=> owed[c] \/ (blk[c] = blk[p] /\ m_map[c] # 0)
            BY <1>0, <3>1 DEF OwedFor, OwnTypes
        <3>5. Reports(p)' /\ about'[p] = blk[p]
            BY <1>0, <3>1 DEF OwnTypes, Reports
        <3>6. ASSUME NEW c \in Catchers PROVE VerdictKnown(c)'
            <4>1. /\ c \in Procs /\ VerdictKnown(c) /\ (m_map[c] # 0 <=> pc[c] \in Working \cup {"lock"})
                BY <1>0, <3>6, Consts DEF Verdicts, Registrations
            <4>2. owed'[c] /\ pc'[c] # "done" =>
                      found'[c] \/ \E q \in Procs : Reports(q)' /\ about'[q] = blk'[c] /\ Pending(q, c)'
                BY <2>1, <2>2, <2>3, <3>1, <3>3, <3>4, <3>5, <3>6, <4>1, <1>0 DEF OwnTypes
            <4>3. CASE c = p
                <5>1. pc'[c] = "refused"
                    BY <1>0, <3>1, <4>3 DEF OwnTypes
                <5>2. Pending(c, c)'
                    BY <2>1, <3>3, <3>6, <4>1, <4>3 DEF Working
                <5>3. QED
                    BY <4>2, <5>1, <5>2 DEF VerdictKnown, Working, Activating, Back
            <4>4. CASE c # p
                <5>1. pc'[c] = pc[c] /\ pc[c] # "refused"
                    BY <1>0, <2>1, <3>1, <4>1, <4>4 DEF OwnTypes, Reports
                <5>2. owed'[c] => pc'[c] \in Working \cup {"lock", "done"}
                    BY <3>4, <3>6, <4>1, <5>1 DEF VerdictKnown
                <5>3. QED
                    BY <2>2, <3>2, <3>6, <4>1, <4>2, <5>1, <5>2 DEF VerdictKnown, FailedUpTo
            <4>5. QED
                BY <4>3, <4>4
        <3>7. \A c \in Catchers : pc[c] = "done" => m_map[c] = 0
            BY <1>0, Consts DEF Registrations, Working
        <3>8. VerdictFound'
            BY <1>0, <1>00, <2>2, <3>2, <3>4, <3>7, Consts, VerdictFoundFrame DEF Verdicts
        <3>9. QED
            BY <3>6, <3>8 DEF Verdicts
    <2>6. QED
        BY <2>4, <2>5
<1>4. ASSUME NEW p \in Procs, BlockRefused(p) PROVE Verdicts'
    <2>1. /\ pc[p] = "refused" /\ at[p] = 0 /\ pc' = [pc EXCEPT ![p] = After(p)]
          /\ blk' = blk /\ most' = most /\ about' = about /\ tip' = tip /\ failed' = failed
          /\ found' = found /\ owed' = owed
        BY <1>4 DEF BlockRefused, Goto, chain, catcher
    <2>2. /\ \A q \in Procs : \A i : Pending(q, i)' <=> Pending(q, i)
          /\ \A c \in Catchers : Stranded(c)' <=> Stranded(c)
        BY <1>4 DEF BlockRefused, signals, signalVars, Pending, sched, vars, queue, client, ghosts, Stranded
    <2>3. \A i : ~Pending(p, i)
        BY <1>0, <2>1, EndedOwesNothing
    <2>4. /\ \A q \in Procs \ {p} : pc'[q] = pc[q]
          /\ pc'[p] \in {"idle", "sync"} /\ (p \in Catchers => pc'[p] = "sync")
        BY <1>0, <2>1, Consts DEF OwnTypes, After
    <2>5. ASSUME NEW c \in Catchers PROVE VerdictKnown(c)'
        <3>0. c \in Procs /\ VerdictKnown(c)
            BY <1>0, <2>5, Consts DEF Verdicts
        <3>1. CASE c = p
            <4>1. found[c]
                BY <2>1, <2>3, <3>0, <3>1 DEF VerdictKnown
            <4>2. QED
                BY <2>1, <2>4, <2>5, <3>1, <4>1 DEF VerdictKnown, Working, Activating, Back
        <3>2. CASE c # p
            <4>1. Undisturbed(c)
                BY <2>1, <2>2, <2>3, <2>4, <3>0, <3>2 DEF Undisturbed, Reports
            <4>2. QED
                BY <1>0, <2>1, <3>0, <4>1, VerdictFrame
        <3>3. QED
            BY <3>1, <3>2
    <2>6. VerdictFound'
        BY <1>0, <1>00, <2>1, <2>4, Consts, VerdictFoundFrame DEF Verdicts
    <2>7. QED
        BY <2>5, <2>6 DEF Verdicts
<1>5. ASSUME NEW p \in Procs, ActivateBestChain(p) PROVE Verdicts'
    <2> DEFINE m == IF most[p] # 0 THEN most[p] ELSE MostWork
    <2>1. /\ pc[p] = "activate" /\ cs["cs_main"] = Free /\ \A q \in Procs : ~Reports(q)
        BY <1>5, <1>0, Consts DEF ActivateBestChain, Places, Reports
    <2>2. /\ blk' = blk /\ tip' = tip /\ failed' = failed /\ found' = found
          /\ \A c \in Catchers : Stranded(c)' <=> Stranded(c)
        BY <1>5 DEF ActivateBestChain, chain, sched, vars, queue, client, ghosts, Stranded
    <2>3. ASSUME NEW c \in Catchers, owed[c], pc[c] # "done" PROVE found[c]
        BY <1>0, <2>1, <2>3 DEF Verdicts, VerdictKnown
    <2>4. p \in Catchers => blk[p] <= m \/ FailedUpTo(blk[p])
        <3>1. SUFFICES ASSUME p \in Catchers PROVE blk[p] <= m \/ FailedUpTo(blk[p])
            OBVIOUS
        <3>2. CASE most[p] # 0
            BY <1>0, <2>1, <3>1, <3>2 DEF Verdicts, VerdictKnown, Activating
        <3>3. CASE most[p] = 0
            <4>1. blk[p] \in 1 .. MaxBlock /\ \A k \in 1 .. blk[p] : k \in have
                BY <1>0, <2>1, Consts DEF Blocks, OwnTypes, Before, Working, Activating
            <4>2. QED
                BY <3>3, <4>1, MostWorkBest DEF FailedUpTo
        <3>4. QED
            BY <3>2, <3>3
    <2>5. CASE m = tip
        <3>1. /\ pc' = [pc EXCEPT ![p] = After(p)] /\ most' = [most EXCEPT ![p] = 0]
              /\ about' = about /\ owed' = owed
            BY <1>5, <2>5 DEF ActivateBestChain
        <3>2. /\ \A q \in Procs \ {p} : pc'[q] = pc[q] /\ most'[q] = most[q]
              /\ pc'[p] \in {"idle", "sync"} /\ (p \in Catchers => pc'[p] = "sync")
            BY <1>0, <3>1, Consts DEF OwnTypes, After
        <3>3. \A q \in Procs : pc'[q] \notin {"refused", "checked"}
            BY <2>1, <3>2 DEF Reports
        <3>4. ASSUME NEW c \in Catchers PROVE VerdictKnown(c)'
            <4>0. c \in Procs /\ VerdictKnown(c)
                BY <1>0, <3>4, Consts DEF Verdicts
            <4>1. CASE c = p
                <5>1. blk[c] \in failed => found[c]
                    BY <2>1, <4>0, <4>1 DEF VerdictKnown, Activating
                <5>2. owed[c] => found[c]
                    BY <2>1, <2>3, <3>4, <4>1
                <5>3. QED
                    BY <2>2, <2>4, <2>5, <3>1, <3>2, <3>3, <3>4, <4>1, <5>1, <5>2
                    DEF VerdictKnown, FailedUpTo, Working, Activating, Back
            <4>2. CASE c # p
                <5>1. pc'[c] = pc[c] /\ most'[c] = most[c]
                    BY <3>2, <4>0, <4>2
                <5>2. QED
                    BY <2>2, <2>3, <3>1, <3>3, <3>4, <4>0, <5>1 DEF VerdictKnown, FailedUpTo
            <4>3. QED
                BY <4>1, <4>2
        <3>5. VerdictFound'
            BY <1>0, <1>00, <2>2, <3>1, <3>2, Consts, VerdictFoundFrame DEF Verdicts
        <3>6. QED
            BY <3>4, <3>5 DEF Verdicts
    <2>6. CASE m # tip
        <3> HIDE DEF m
        <3>1. /\ pc' = [pc EXCEPT ![p] = "checked"] /\ most' = [most EXCEPT ![p] = m]
              /\ about' = [about EXCEPT ![p] = tip + 1] /\ owed' = OwedFor(tip + 1) /\ IterateBegin(p)
            BY <1>5, <2>6 DEF ActivateBestChain, m
        <3>2. /\ \A q \in Procs \ {p} : pc'[q] = pc[q] /\ most'[q] = most[q]
              /\ pc'[p] = "checked" /\ most'[p] = m /\ about'[p] = tip + 1 /\ Reports(p)'
            BY <1>0, <3>1 DEF OwnTypes, Reports
        <3>3. \A q \in Procs : pc'[q] # "refused" /\ (pc'[q] = "checked" => q = p)
            BY <2>1, <3>2 DEF Reports
        <3>4. \A c \in Catchers : m_map[c] # 0 => Pending(p, c)'
            BY <1>0, <3>1, BeginEffect, Consts
        <3>5. \A c \in Catchers : owed'[c] <=> owed[c] \/ (blk[c] = tip + 1 /\ m_map[c] # 0)
            BY <1>0, <3>1 DEF OwedFor, OwnTypes
        <3>6. ASSUME NEW c \in Catchers PROVE VerdictKnown(c)'
            <4>0. c \in Procs /\ VerdictKnown(c) /\ (m_map[c] # 0 <=> pc[c] \in Working \cup {"lock"})
                BY <1>0, <3>6, Consts DEF Verdicts, Registrations
            <4>1. owed'[c] /\ pc'[c] # "done" =>
                      found'[c] \/ \E q \in Procs : Reports(q)' /\ about'[q] = blk'[c] /\ Pending(q, c)'
                BY <2>1, <2>2, <2>3, <3>2, <3>4, <3>5, <3>6, <4>0
            <4>2. \A q \in Procs : pc'[q] = "checked" /\ about'[q] = blk'[c] /\ pc'[c] \in Activating \cup Back =>
                      found'[c] \/ Pending(q, c)'
                BY <2>1, <3>2, <3>3, <3>4, <3>6, <4>0 DEF Working, Activating, Back
            <4>3. owed'[c] => pc'[c] \in Working \cup {"lock", "done"}
                BY <2>1, <3>2, <3>5, <3>6, <4>0 DEF VerdictKnown, Working
            <4>4. CASE c = p
                <5>1. blk[c] \in failed => found[c]
                    BY <2>1, <4>0, <4>4 DEF VerdictKnown, Activating
                <5>2. QED
                    BY <2>2, <2>4, <3>2, <3>6, <4>1, <4>2, <4>3, <4>4, <5>1
                    DEF VerdictKnown, FailedUpTo, Activating, Back
            <4>5. CASE c # p
                <5>1. pc'[c] = pc[c] /\ most'[c] = most[c] /\ pc[c] # "refused"
                    BY <2>1, <3>2, <4>0, <4>5 DEF Reports
                <5>2. QED
                    BY <2>2, <3>6, <4>0, <4>1, <4>2, <4>3, <5>1 DEF VerdictKnown, FailedUpTo
            <4>6. QED
                BY <4>4, <4>5
        <3>7. \A c \in Catchers : pc[c] = "done" => m_map[c] = 0
            BY <1>0, Consts DEF Registrations, Working
        <3>8. VerdictFound'
            BY <1>0, <1>00, <2>2, <3>2, <3>5, <3>7, Consts, VerdictFoundFrame DEF Verdicts
        <3>9. QED
            BY <3>6, <3>8 DEF Verdicts
    <2>7. QED
        BY <2>5, <2>6
<1>6. ASSUME NEW p \in Procs, ConnectTip(p) PROVE Verdicts'
    <2>1. /\ pc[p] = "checked" /\ at[p] = 0 /\ cs["cs_main"] = p /\ about[p] = tip + 1
          /\ \A q \in Procs : Reports(q) => q = p
        BY <1>6, <1>0, Consts DEF ConnectTip, Places, Reports, Blocks
    <2>2. \A i : ~Pending(p, i)
        BY <1>0, <2>1, EndedOwesNothing
    <2>3. /\ blk' = blk /\ found' = found /\ owed' = owed
          /\ failed \subseteq failed' /\ (\A k \in failed' : k \in failed \/ k = about[p])
          /\ tip' \in {tip, about[p]} /\ \A c \in Catchers : Stranded(c)' <=> Stranded(c)
        BY <1>6 DEF ConnectTip, FailedAfter, catcher, sched, vars, queue, client, ghosts, Stranded
    <2>4. /\ pc'[p] = "notify" /\ most'[p] \in {most[p], 0}
          /\ \A q \in Procs \ {p} : most'[q] = most[q] /\ (pc'[q] = pc[q] \/ (pc[q] = "lpwait" /\ pc'[q] = "lpwoken"))
        BY <1>6, <1>0 DEF ConnectTip, Woken, OwnTypes
    <2>5. \A q \in Procs : pc'[q] \notin {"refused", "checked"} /\ (pc'[q] = "done" => pc[q] = "done")
        BY <2>1, <2>4 DEF Reports
    <2>6. tip \in Nat /\ \A c \in Catchers : blk[c] \in Nat
        BY <1>0, Consts DEF OwnTypes
    <2>7. ASSUME NEW c \in Catchers PROVE VerdictKnown(c)'
        <3>0. c \in Procs /\ VerdictKnown(c)
            BY <1>0, <2>7, Consts DEF Verdicts
        <3>1. owed[c] /\ pc[c] # "done" => found[c]
            BY <2>1, <2>2, <3>0 DEF VerdictKnown
        <3>2. pc'[c] \in Activating \cup Back => pc[c] \in Activating \cup Back
            BY <2>1, <2>4, <3>0 DEF Activating, Back
        <3>3. pc'[c] \in Activating \cup Back /\ blk'[c] \in failed' => found'[c]
            BY <2>1, <2>2, <2>3, <3>0, <3>2 DEF VerdictKnown
        <3>4. pc'[c] \in Activating /\ most'[c] # 0 => blk'[c] <= most'[c] \/ FailedUpTo(blk[c])'
            BY <2>1, <2>3, <2>4, <3>0 DEF VerdictKnown, Activating, FailedUpTo
        <3>5. pc'[c] \in Back => found'[c] \/ blk'[c] <= tip' \/ FailedUpTo(blk[c])' \/ Stranded(c)'
            BY <2>1, <2>3, <2>4, <2>6, <2>7, <3>0 DEF VerdictKnown, Back, FailedUpTo
        <3>6. owed'[c] => pc'[c] \in Working \cup {"lock", "done"}
            BY <2>3, <2>4, <3>0 DEF VerdictKnown, Working
        <3>7. QED
            BY <2>1, <2>3, <2>4, <2>5, <3>0, <3>1, <3>3, <3>4, <3>5, <3>6 DEF VerdictKnown, FailedUpTo
    <2>8. VerdictFound'
        BY <1>0, <1>00, <2>3, <2>5, Consts, VerdictFoundFrame DEF Verdicts
    <2>9. QED
        BY <2>7, <2>8 DEF Verdicts
<1>7. ASSUME NEW p \in Procs, UpdatedBlockTip(p) PROVE Verdicts'
    <2>1. tip' = tip /\ failed' = failed
        BY <1>7 DEF UpdatedBlockTip, Goto, process, chain
    <2>2. ASSUME NEW c \in Catchers PROVE Undisturbed(c)
        <3>0. c \in Procs /\ VerdictKnown(c)
            BY <1>0, <2>2, Consts DEF Verdicts
        <3>1. /\ owed'[c] => owed[c]
              /\ \/ pc'[c] = pc[c]
                 \/ pc[c] \in {"notify", "tip"} /\ pc'[c] \in {"activate", "tip"}
                 \/ pc[c] = "lock" /\ pc'[c] = "accept"
                 \/ pc[c] \in Back /\ pc'[c] \in Back
                 \/ ~owed[c] /\ pc'[c] \notin Working \ {"accept"}
              /\ blk'[c] = blk[c] \/ (~owed[c] /\ pc'[c] \notin Working)
              /\ found[c] => found'[c]
              /\ most'[c] \in {most[c], 0}
              /\ \A q \in Procs : pc'[q] = "checked" => pc[q] = "checked" /\ about'[q] = about[q]
            BY <1>7, <1>0, <3>0, Consts DEF UpdatedBlockTip, Goto, process, catcher, OwnTypes,
               VerdictKnown, Working, Back
        <3>2. \A q \in Procs : Reports(q) /\ about[q] = blk[c] /\ Pending(q, c) /\ ~found'[c] =>
                  pc'[q] = pc[q] /\ about'[q] = about[q] /\ Pending(q, c)'
            BY <1>7, <1>0, <2>2, Consts, BeginEffect DEF UpdatedBlockTip, Goto, process, OwnTypes, Reports,
               Apart
        <3>3. pc[c] \in Back /\ Stranded(c) => Stranded(c)'
            BY <1>7 DEF UpdatedBlockTip, Goto, process, sched, vars, queue, client, ghosts, Stranded
        <3>4. QED
            BY <3>1, <3>2, <3>3 DEF Undisturbed
    <2>3. QED
        BY <1>0, <1>00, <2>1, <2>2, VerdictsFrame
<1>8. ASSUME NEW p \in Procs, TipNotified(p) PROVE Verdicts'
    <2>1. /\ pc[p] = "tip" /\ blk' = blk /\ about' = about /\ tip' = tip /\ failed' = failed
          /\ found' = found /\ owed' = owed
        BY <1>8 DEF TipNotified, Goto, chain, catcher
    <2>2. /\ \A q \in Procs : \A i : Pending(q, i)' <=> Pending(q, i)
          /\ \A c \in Catchers : Stranded(c)' <=> Stranded(c)
        BY <1>8 DEF TipNotified, signals, signalVars, Pending, sched, vars, queue, client, ghosts, Stranded
    <2>3. /\ \A q \in Procs \ {p} : pc'[q] = pc[q] /\ most'[q] = most[q]
          /\ most'[p] \in {most[p], 0} /\ pc'[p] \in {"idle", "sync", "activate"}
          /\ p \in Catchers => pc'[p] # "idle"
          /\ pc'[p] = "sync" => most'[p] = 0 /\ (shut # "no" \/ (most[p] # 0 /\ about[p] = most[p]))
        BY <1>8, <1>0, Consts DEF TipNotified, Goto, After, OwnTypes
    <2>4. ASSUME NEW c \in Catchers PROVE VerdictKnown(c)'
        <3>0. c \in Procs /\ VerdictKnown(c)
            BY <1>0, <2>4, Consts DEF Verdicts
        <3>1. CASE c = p /\ pc'[p] = "sync"
            <4>1. blk[c] <= tip \/ FailedUpTo(blk[c]) \/ Stranded(c)
                <5>1. CASE shut # "no"
                    BY <2>1, <2>4, <3>1, <5>1, NotAdded DEF Stranded
                <5>2. CASE most[p] # 0 /\ about[p] = most[p]
                    <6>1. about[p] <= tip /\ (blk[c] <= most[c] \/ FailedUpTo(blk[c]))
                        BY <1>0, <2>1, <3>0, <3>1, <5>2 DEF Blocks, VerdictKnown, Activating
                    <6>2. tip \in Nat /\ blk[c] \in Nat /\ most[c] \in Nat
                        BY <1>0, <3>0, Consts DEF OwnTypes
                    <6>3. QED
                        BY <3>1, <5>2, <6>1, <6>2
                <5>3. QED
                    BY <2>3, <3>1, <5>1, <5>2
            <4>2. /\ blk[c] \in failed => found[c]
                  /\ \A q \in Procs : pc[q] = "checked" /\ about[q] = blk[c] => found[c] \/ Pending(q, c)
                  /\ owed[c] => found[c] \/ \E q \in Procs : Reports(q) /\ about[q] = blk[c] /\ Pending(q, c)
                BY <2>1, <3>0, <3>1 DEF VerdictKnown, Activating
            <4>3. \A q \in Procs : (pc'[q] = "checked" <=> pc[q] = "checked") /\ (Reports(q)' <=> Reports(q))
                BY <2>1, <2>3 DEF Reports
            <4>4. QED
                BY <2>1, <2>2, <2>3, <2>4, <3>1, <4>1, <4>2, <4>3 DEF VerdictKnown, FailedUpTo, Working,
                   Activating, Back
        <3>2. CASE ~(c = p /\ pc'[p] = "sync")
            <4>1. Undisturbed(c)
                BY <2>1, <2>2, <2>3, <2>4, <3>0, <3>2 DEF Undisturbed, Reports
            <4>2. QED
                BY <1>0, <2>1, <3>0, <4>1, VerdictFrame
        <3>3. QED
            BY <3>1, <3>2
    <2>5. VerdictFound'
        BY <1>0, <1>00, <2>1, <2>3, Consts, VerdictFoundFrame DEF Verdicts
    <2>6. QED
        BY <2>4, <2>5 DEF Verdicts
<1>9. ASSUME NEW p \in Procs, Handled(p) PROVE Verdicts'
    <2>1. tip' = tip /\ failed' = failed
        BY <1>9 DEF Handled, FoundAfter, process, chain
    <2>2. ASSUME NEW c \in Catchers PROVE Undisturbed(c)
        <3>0. c \in Procs /\ VerdictKnown(c)
            BY <1>0, <2>2, Consts DEF Verdicts
        <3>1. /\ owed'[c] => owed[c]
              /\ \/ pc'[c] = pc[c]
                 \/ pc[c] \in {"notify", "tip"} /\ pc'[c] \in {"activate", "tip"}
                 \/ pc[c] = "lock" /\ pc'[c] = "accept"
                 \/ pc[c] \in Back /\ pc'[c] \in Back
                 \/ ~owed[c] /\ pc'[c] \notin Working \ {"accept"}
              /\ blk'[c] = blk[c] \/ (~owed[c] /\ pc'[c] \notin Working)
              /\ found[c] => found'[c]
              /\ most'[c] \in {most[c], 0}
              /\ \A q \in Procs : pc'[q] = "checked" => pc[q] = "checked" /\ about'[q] = about[q]
            BY <1>9, <1>0, <3>0, Consts DEF Handled, FoundAfter, process, catcher, OwnTypes, VerdictKnown,
               Working, Back
        <3>2. \A q \in Procs : Reports(q) /\ about[q] = blk[c] /\ Pending(q, c) /\ ~found'[c] =>
                  pc'[q] = pc[q] /\ about'[q] = about[q] /\ Pending(q, c)'
            <4>1. pc' = pc /\ about' = about /\ found' = FoundAfter(p) /\ IterateNext(p)
                BY <1>9 DEF Handled, process
            <4>2. Apart(p) /\ \A i : Pending(p, i) /\ callbacks[at[p]] # i => Pending(p, i)'
                BY <1>0, <4>1, NextEffect
            <4>3. Reports(p) /\ about[p] = blk[c] /\ ~found'[c] => callbacks[at[p]] # c
                BY <2>2, <4>1 DEF FoundAfter
            <4>4. QED
                BY <4>1, <4>2, <4>3 DEF Apart
        <3>3. pc[c] \in Back /\ Stranded(c) => Stranded(c)'
            BY <1>9 DEF Handled, FoundAfter, process, sched, vars, queue, client, ghosts, Stranded
        <3>4. QED
            BY <3>1, <3>2, <3>3 DEF Undisturbed
    <2>3. QED
        BY <1>0, <1>00, <2>1, <2>2, VerdictsFrame
<1>10. ASSUME NEW p \in Procs, CheckDuplicate(p) PROVE Verdicts'
    <2>1. tip' = tip /\ failed' = failed
        BY <1>10 DEF CheckDuplicate, Goto, process, chain
    <2>2. ASSUME NEW c \in Catchers PROVE Undisturbed(c)
        <3>0. c \in Procs /\ VerdictKnown(c)
            BY <1>0, <2>2, Consts DEF Verdicts
        <3>1. /\ owed'[c] => owed[c]
              /\ \/ pc'[c] = pc[c]
                 \/ pc[c] \in {"notify", "tip"} /\ pc'[c] \in {"activate", "tip"}
                 \/ pc[c] = "lock" /\ pc'[c] = "accept"
                 \/ pc[c] \in Back /\ pc'[c] \in Back
                 \/ ~owed[c] /\ pc'[c] \notin Working \ {"accept"}
              /\ blk'[c] = blk[c] \/ (~owed[c] /\ pc'[c] \notin Working)
              /\ found[c] => found'[c]
              /\ most'[c] \in {most[c], 0}
              /\ \A q \in Procs : pc'[q] = "checked" => pc[q] = "checked" /\ about'[q] = about[q]
            BY <1>10, <1>0, <3>0, Consts DEF CheckDuplicate, Goto, process, catcher, OwnTypes,
               VerdictKnown, Working, Back
        <3>2. \A q \in Procs : Reports(q) /\ about[q] = blk[c] /\ Pending(q, c) /\ ~found'[c] =>
                  pc'[q] = pc[q] /\ about'[q] = about[q] /\ Pending(q, c)'
            BY <1>10, <1>0, <2>2, Consts DEF CheckDuplicate, Goto, process, OwnTypes, Reports, signals,
               signalVars, Pending
        <3>3. pc[c] \in Back /\ Stranded(c) => Stranded(c)'
            BY <1>10 DEF CheckDuplicate, Goto, process, sched, vars, queue, client, ghosts, Stranded
        <3>4. QED
            BY <3>1, <3>2, <3>3 DEF Undisturbed
    <2>3. QED
        BY <1>0, <1>00, <2>1, <2>2, VerdictsFrame
<1>11. ASSUME NEW p \in Procs, RegisterCatcher(p) PROVE Verdicts'
    <2>1. tip' = tip /\ failed' = failed
        BY <1>11 DEF RegisterCatcher, Goto, process, chain
    <2>2. ASSUME NEW c \in Catchers PROVE Undisturbed(c)
        <3>0. c \in Procs /\ VerdictKnown(c)
            BY <1>0, <2>2, Consts DEF Verdicts
        <3>1. /\ owed'[c] => owed[c]
              /\ \/ pc'[c] = pc[c]
                 \/ pc[c] \in {"notify", "tip"} /\ pc'[c] \in {"activate", "tip"}
                 \/ pc[c] = "lock" /\ pc'[c] = "accept"
                 \/ pc[c] \in Back /\ pc'[c] \in Back
                 \/ ~owed[c] /\ pc'[c] \notin Working \ {"accept"}
              /\ blk'[c] = blk[c] \/ (~owed[c] /\ pc'[c] \notin Working)
              /\ found[c] => found'[c]
              /\ most'[c] \in {most[c], 0}
              /\ \A q \in Procs : pc'[q] = "checked" => pc[q] = "checked" /\ about'[q] = about[q]
            BY <1>11, <1>0, <3>0, Consts DEF RegisterCatcher, Goto, process, catcher, OwnTypes,
               VerdictKnown, Working, Back
        <3>2. \A q \in Procs : Reports(q) /\ about[q] = blk[c] /\ Pending(q, c) /\ ~found'[c] =>
                  pc'[q] = pc[q] /\ about'[q] = about[q] /\ Pending(q, c)'
            <4>1. p \in Interfaces /\ Register(p) /\ about' = about /\ \A q \in Procs : Reports(q) => pc'[q] = pc[q]
                BY <1>11, <1>0, Consts DEF RegisterCatcher, Goto, Places, OwnTypes, Reports
            <4>2. QED
                BY <1>0, <4>1, RegisterEffect
        <3>3. pc[c] \in Back /\ Stranded(c) => Stranded(c)'
            BY <1>11 DEF RegisterCatcher, Goto, process, sched, vars, queue, client, ghosts, Stranded
        <3>4. QED
            BY <3>1, <3>2, <3>3 DEF Undisturbed
    <2>3. QED
        BY <1>0, <1>00, <2>1, <2>2, VerdictsFrame
<1>12. ASSUME NEW p \in Procs, LockTemplate(p) PROVE Verdicts'
    <2>1. tip' = tip /\ failed' = failed
        BY <1>12 DEF LockTemplate, Goto, Lock, process, chain
    <2>2. ASSUME NEW c \in Catchers PROVE Undisturbed(c)
        <3>0. c \in Procs /\ VerdictKnown(c)
            BY <1>0, <2>2, Consts DEF Verdicts
        <3>1. /\ owed'[c] => owed[c]
              /\ \/ pc'[c] = pc[c]
                 \/ pc[c] \in {"notify", "tip"} /\ pc'[c] \in {"activate", "tip"}
                 \/ pc[c] = "lock" /\ pc'[c] = "accept"
                 \/ pc[c] \in Back /\ pc'[c] \in Back
                 \/ ~owed[c] /\ pc'[c] \notin Working \ {"accept"}
              /\ blk'[c] = blk[c] \/ (~owed[c] /\ pc'[c] \notin Working)
              /\ found[c] => found'[c]
              /\ most'[c] \in {most[c], 0}
              /\ \A q \in Procs : pc'[q] = "checked" => pc[q] = "checked" /\ about'[q] = about[q]
            BY <1>12, <1>0, <3>0, Consts DEF LockTemplate, Goto, Lock, process, catcher, OwnTypes,
               VerdictKnown, Working, Back
        <3>2. \A q \in Procs : Reports(q) /\ about[q] = blk[c] /\ Pending(q, c) /\ ~found'[c] =>
                  pc'[q] = pc[q] /\ about'[q] = about[q] /\ Pending(q, c)'
            BY <1>12, <1>0, <2>2, Consts DEF LockTemplate, Goto, Lock, process, OwnTypes, Reports, signals,
               signalVars, Pending
        <3>3. pc[c] \in Back /\ Stranded(c) => Stranded(c)'
            BY <1>12 DEF LockTemplate, Goto, Lock, process, sched, vars, queue, client, ghosts, Stranded
        <3>4. QED
            BY <3>1, <3>2, <3>3 DEF Undisturbed
    <2>3. QED
        BY <1>0, <1>00, <2>1, <2>2, VerdictsFrame
<1>13. ASSUME NEW p \in Procs, AuxLock(p) PROVE Verdicts'
    <2>1. tip' = tip /\ failed' = failed
        BY <1>13 DEF AuxLock, Goto, Lock, process, chain
    <2>2. ASSUME NEW c \in Catchers PROVE Undisturbed(c)
        <3>0. c \in Procs /\ VerdictKnown(c)
            BY <1>0, <2>2, Consts DEF Verdicts
        <3>1. /\ owed'[c] => owed[c]
              /\ \/ pc'[c] = pc[c]
                 \/ pc[c] \in {"notify", "tip"} /\ pc'[c] \in {"activate", "tip"}
                 \/ pc[c] = "lock" /\ pc'[c] = "accept"
                 \/ pc[c] \in Back /\ pc'[c] \in Back
                 \/ ~owed[c] /\ pc'[c] \notin Working \ {"accept"}
              /\ blk'[c] = blk[c] \/ (~owed[c] /\ pc'[c] \notin Working)
              /\ found[c] => found'[c]
              /\ most'[c] \in {most[c], 0}
              /\ \A q \in Procs : pc'[q] = "checked" => pc[q] = "checked" /\ about'[q] = about[q]
            BY <1>13, <1>0, <3>0, Consts DEF AuxLock, Goto, Lock, process, catcher, OwnTypes, VerdictKnown,
               Working, Back
        <3>2. \A q \in Procs : Reports(q) /\ about[q] = blk[c] /\ Pending(q, c) /\ ~found'[c] =>
                  pc'[q] = pc[q] /\ about'[q] = about[q] /\ Pending(q, c)'
            <4>1. p \in Interfaces /\ Register(p) /\ about' = about /\ \A q \in Procs : Reports(q) => pc'[q] = pc[q]
                BY <1>13, <1>0, Consts DEF AuxLock, Goto, Places, OwnTypes, Reports
            <4>2. QED
                BY <1>0, <4>1, RegisterEffect
        <3>3. pc[c] \in Back /\ Stranded(c) => Stranded(c)'
            BY <1>13 DEF AuxLock, Goto, Lock, process, sched, vars, queue, client, ghosts, Stranded
        <3>4. QED
            BY <3>1, <3>2, <3>3 DEF Undisturbed
    <2>3. QED
        BY <1>0, <1>00, <2>1, <2>2, VerdictsFrame
<1>14. ASSUME NEW p \in Procs, AuxUnknown(p) PROVE Verdicts'
    <2>1. tip' = tip /\ failed' = failed
        BY <1>14 DEF AuxUnknown, Goto, process, chain
    <2>2. ASSUME NEW c \in Catchers PROVE Undisturbed(c)
        <3>0. c \in Procs /\ VerdictKnown(c)
            BY <1>0, <2>2, Consts DEF Verdicts
        <3>1. /\ owed'[c] => owed[c]
              /\ \/ pc'[c] = pc[c]
                 \/ pc[c] \in {"notify", "tip"} /\ pc'[c] \in {"activate", "tip"}
                 \/ pc[c] = "lock" /\ pc'[c] = "accept"
                 \/ pc[c] \in Back /\ pc'[c] \in Back
                 \/ ~owed[c] /\ pc'[c] \notin Working \ {"accept"}
              /\ blk'[c] = blk[c] \/ (~owed[c] /\ pc'[c] \notin Working)
              /\ found[c] => found'[c]
              /\ most'[c] \in {most[c], 0}
              /\ \A q \in Procs : pc'[q] = "checked" => pc[q] = "checked" /\ about'[q] = about[q]
            BY <1>14, <1>0, <3>0, Consts DEF AuxUnknown, Goto, process, catcher, OwnTypes, VerdictKnown,
               Working, Back
        <3>2. \A q \in Procs : Reports(q) /\ about[q] = blk[c] /\ Pending(q, c) /\ ~found'[c] =>
                  pc'[q] = pc[q] /\ about'[q] = about[q] /\ Pending(q, c)'
            BY <1>14, <1>0, <2>2, Consts DEF AuxUnknown, Goto, process, OwnTypes, Reports, signals,
               signalVars, Pending
        <3>3. pc[c] \in Back /\ Stranded(c) => Stranded(c)'
            BY <1>14 DEF AuxUnknown, Goto, process, sched, vars, queue, client, ghosts, Stranded
        <3>4. QED
            BY <3>1, <3>2, <3>3 DEF Undisturbed
    <2>3. QED
        BY <1>0, <1>00, <2>1, <2>2, VerdictsFrame
<1>15. ASSUME NEW p \in Procs, SyncWithValidationInterfaceQueue(p) PROVE Verdicts'
    <2>1. tip' = tip /\ failed' = failed
        BY <1>15 DEF SyncWithValidationInterfaceQueue, Goto, process, chain
    <2>2. ASSUME NEW c \in Catchers PROVE Undisturbed(c)
        <3>0. c \in Procs /\ VerdictKnown(c)
            BY <1>0, <2>2, Consts DEF Verdicts
        <3>1. /\ owed'[c] => owed[c]
              /\ \/ pc'[c] = pc[c]
                 \/ pc[c] \in {"notify", "tip"} /\ pc'[c] \in {"activate", "tip"}
                 \/ pc[c] = "lock" /\ pc'[c] = "accept"
                 \/ pc[c] \in Back /\ pc'[c] \in Back
                 \/ ~owed[c] /\ pc'[c] \notin Working \ {"accept"}
              /\ blk'[c] = blk[c] \/ (~owed[c] /\ pc'[c] \notin Working)
              /\ found[c] => found'[c]
              /\ most'[c] \in {most[c], 0}
              /\ \A q \in Procs : pc'[q] = "checked" => pc[q] = "checked" /\ about'[q] = about[q]
            BY <1>15, <1>0, <3>0, Consts DEF SyncWithValidationInterfaceQueue, Goto, process, catcher,
               OwnTypes, VerdictKnown, Working, Back
        <3>2. \A q \in Procs : Reports(q) /\ about[q] = blk[c] /\ Pending(q, c) /\ ~found'[c] =>
                  pc'[q] = pc[q] /\ about'[q] = about[q] /\ Pending(q, c)'
            BY <1>15, <1>0, <2>2, Consts DEF SyncWithValidationInterfaceQueue, Goto, process, OwnTypes,
               Reports, signals, signalVars, Pending
        <3>3. pc[c] \in Back /\ Stranded(c) => Stranded(c)'
            <4>1. p \in Catchers /\ AddToProcessQueue(p) /\ shut' = shut
                BY <1>15, <1>0 DEF SyncWithValidationInterfaceQueue, Goto, Places, Back
            <4>2. QED
                BY <2>2, <4>1, StrandedKept DEF Stranded
        <3>4. QED
            BY <3>1, <3>2, <3>3 DEF Undisturbed
    <2>3. QED
        BY <1>0, <1>00, <2>1, <2>2, VerdictsFrame
<1>16. ASSUME NEW p \in Procs, Return(p) PROVE Verdicts'
    <2>1. /\ pc[p] = "wait" /\ pc' = [pc EXCEPT ![p] = "done"] /\ blk' = blk /\ most' = most /\ about' = about
          /\ tip' = tip /\ failed' = failed /\ found' = found /\ owed' = owed
          /\ Unregister(p) /\ \E i \in DOMAIN ran : ran[i] = p
        BY <1>16 DEF Return, Goto, chain, catcher
    <2>2. p \in Catchers /\ p \in Interfaces /\ VerdictKnown(p)
        BY <1>0, <2>1, Consts DEF Places, Back, Verdicts
    <2>3. /\ \A q \in Procs \ {p} : pc'[q] = pc[q]
          /\ pc'[p] = "done"
        BY <1>0, <2>1 DEF OwnTypes
    <2>4. \A q \in Procs : \A i : i # p => (Pending(q, i)' <=> Pending(q, i))
        BY <1>0, <2>1, <2>2, UnregisterEffect
    <2>5. \A c \in Catchers : Stranded(c)' <=> Stranded(c)
        BY <1>16 DEF Return, sched, vars, queue, client, ghosts, Stranded
    <2>6. ASSUME NEW c \in Catchers PROVE VerdictKnown(c)'
        <3>0. c \in Procs /\ VerdictKnown(c)
            BY <1>0, <2>6, Consts DEF Verdicts
        <3>1. CASE c = p
            BY <2>3, <3>1 DEF VerdictKnown, Working, Activating, Back
        <3>2. CASE c # p
            <4>1. Undisturbed(c)
                BY <2>1, <2>3, <2>4, <2>5, <2>6, <3>0, <3>2 DEF Undisturbed, Reports
            <4>2. QED
                BY <1>0, <2>1, <3>0, <4>1, VerdictFrame
        <3>3. QED
            BY <3>1, <3>2
    <2>7. ASSUME owed[p], ~found[p] PROVE ~OneProcessor /\ \E k \in 1 .. blk[p] - 1 : k \in failed
        <3>1. PICK q \in Procs : Reports(q) /\ about[q] = blk[p] /\ Pending(q, p)
            BY <2>1, <2>2, <2>7 DEF VerdictKnown
        <3>2. q # p /\ pc[q] \in Working /\ pc[p] \in Working
            BY <2>1, <3>1 DEF Reports, Working
        <3>3. ~OneProcessor
            BY <1>0, <3>2, OneWorks
        <3>4. /\ tip \in 0 .. MaxBlock /\ blk[p] \in 1 .. MaxBlock /\ MaxBlock \in Nat
            BY <1>0, <2>1, Consts DEF OwnTypes, Blocks, Working
        <3>5. ~(blk[p] <= tip)
            <4>1. SUFFICES ASSUME blk[p] <= tip PROVE FALSE
                OBVIOUS
            <4>2. pc[q] # "checked"
                BY <1>0, <3>1, <3>4, <4>1 DEF Blocks
            <4>3. about[q] = blk[q] /\ ~Acceptable(blk[q])
                BY <1>0, <3>1, <4>2 DEF Blocks, Reports
            <4>4. \A k \in 1 .. blk[p] : k \in have /\ k \notin failed
                BY <1>0, <3>4, <4>1 DEF Blocks
            <4>5. Acceptable(blk[p])
                BY <3>4, <4>4 DEF Acceptable
            <4>6. QED
                BY <3>1, <4>3, <4>5
        <3>6. ~Stranded(p)
            BY <2>1 DEF Stranded
        <3>7. FailedUpTo(blk[p]) /\ blk[p] \notin failed
            BY <2>1, <2>2, <2>7, <3>5, <3>6 DEF VerdictKnown, Back
        <3>8. QED
            BY <3>3, <3>4, <3>7 DEF FailedUpTo
    <2>8. VerdictFound'
        <3>1. ASSUME NEW c \in Catchers, pc'[c] = "done", owed'[c], ~found'[c]
              PROVE  ~OneProcessor /\ \E k \in 1 .. blk[c] - 1 : k \in failed
            BY <1>0, <2>1, <2>3, <2>7, <3>1, Consts DEF Verdicts, VerdictFound
        <3>2. QED
            BY <1>00, <2>1, <3>1 DEF VerdictFound
    <2>9. QED
        BY <2>6, <2>8 DEF Verdicts
<1>17. ASSUME QuietStep PROVE Verdicts'
    <2>1. tip' = tip /\ failed' = failed
        BY <1>17 DEF QuietStep, others, process, chain
    <2>2. ASSUME NEW c \in Catchers PROVE Undisturbed(c)
        <3>0. c \in Procs /\ VerdictKnown(c)
            BY <1>0, <2>2, Consts DEF Verdicts
        <3>1. /\ owed'[c] => owed[c]
              /\ \/ pc'[c] = pc[c]
                 \/ pc[c] \in {"notify", "tip"} /\ pc'[c] \in {"activate", "tip"}
                 \/ pc[c] = "lock" /\ pc'[c] = "accept"
                 \/ pc[c] \in Back /\ pc'[c] \in Back
                 \/ ~owed[c] /\ pc'[c] \notin Working \ {"accept"}
              /\ blk'[c] = blk[c] \/ (~owed[c] /\ pc'[c] \notin Working)
              /\ found[c] => found'[c]
              /\ most'[c] \in {most[c], 0}
              /\ \A q \in Procs : pc'[q] = "checked" => pc[q] = "checked" /\ about'[q] = about[q]
            BY <1>17, <1>0, <3>0, Consts DEF QuietStep, others, process, catcher, OwnTypes, VerdictKnown,
               Before, Working, Back
        <3>2. \A q \in Procs : Reports(q) /\ about[q] = blk[c] /\ Pending(q, c) /\ ~found'[c] =>
                  pc'[q] = pc[q] /\ about'[q] = about[q] /\ Pending(q, c)'
            BY <1>17, <1>0, <2>2, Consts DEF QuietStep, others, process, OwnTypes, Reports, Before,
               Working, signals, signalVars, Pending
        <3>3. pc[c] \in Back /\ Stranded(c) => Stranded(c)'
            BY <1>17 DEF QuietStep, others, process, sched, vars, queue, client, ghosts, Stranded
        <3>4. QED
            BY <3>1, <3>2, <3>3 DEF Undisturbed
    <2>3. QED
        BY <1>0, <1>00, <2>1, <2>2, VerdictsFrame
<1>18. CASE SchedulerThread
    <2>1. tip' = tip /\ failed' = failed
        BY <1>18 DEF SchedulerThread, process, chain, node
    <2>2. ASSUME NEW c \in Catchers PROVE Undisturbed(c)
        <3>0. c \in Procs /\ VerdictKnown(c)
            BY <1>0, <2>2, Consts DEF Verdicts
        <3>1. /\ owed'[c] => owed[c]
              /\ \/ pc'[c] = pc[c]
                 \/ pc[c] \in {"notify", "tip"} /\ pc'[c] \in {"activate", "tip"}
                 \/ pc[c] = "lock" /\ pc'[c] = "accept"
                 \/ pc[c] \in Back /\ pc'[c] \in Back
                 \/ ~owed[c] /\ pc'[c] \notin Working \ {"accept"}
              /\ blk'[c] = blk[c] \/ (~owed[c] /\ pc'[c] \notin Working)
              /\ found[c] => found'[c]
              /\ most'[c] \in {most[c], 0}
              /\ \A q \in Procs : pc'[q] = "checked" => pc[q] = "checked" /\ about'[q] = about[q]
            BY <1>18, <1>0, <3>0, Consts DEF SchedulerThread, process, catcher, node, OwnTypes,
               VerdictKnown, Working, Back
        <3>2. \A q \in Procs : Reports(q) /\ about[q] = blk[c] /\ Pending(q, c) /\ ~found'[c] =>
                  pc'[q] = pc[q] /\ about'[q] = about[q] /\ Pending(q, c)'
            BY <1>18, <1>0, <2>2, Consts DEF SchedulerThread, process, node, OwnTypes, Reports, signals,
               signalVars, Pending
        <3>3. pc[c] \in Back /\ Stranded(c) => Stranded(c)'
            BY <1>18, <2>2, StrandedKept DEF SchedulerThread, Stranded
        <3>4. QED
            BY <3>1, <3>2, <3>3 DEF Undisturbed
    <2>3. QED
        BY <1>0, <1>00, <2>1, <2>2, VerdictsFrame
<1>19. CASE InterruptNode
    <2>1. tip' = tip /\ failed' = failed
        BY <1>19 DEF InterruptNode, process, chain, node
    <2>2. ASSUME NEW c \in Catchers PROVE Undisturbed(c)
        <3>0. c \in Procs /\ VerdictKnown(c)
            BY <1>0, <2>2, Consts DEF Verdicts
        <3>1. /\ owed'[c] => owed[c]
              /\ \/ pc'[c] = pc[c]
                 \/ pc[c] \in {"notify", "tip"} /\ pc'[c] \in {"activate", "tip"}
                 \/ pc[c] = "lock" /\ pc'[c] = "accept"
                 \/ pc[c] \in Back /\ pc'[c] \in Back
                 \/ ~owed[c] /\ pc'[c] \notin Working \ {"accept"}
              /\ blk'[c] = blk[c] \/ (~owed[c] /\ pc'[c] \notin Working)
              /\ found[c] => found'[c]
              /\ most'[c] \in {most[c], 0}
              /\ \A q \in Procs : pc'[q] = "checked" => pc[q] = "checked" /\ about'[q] = about[q]
            BY <1>19, <1>0, <3>0, Consts DEF InterruptNode, process, catcher, node, OwnTypes, VerdictKnown,
               Working, Back
        <3>2. \A q \in Procs : Reports(q) /\ about[q] = blk[c] /\ Pending(q, c) /\ ~found'[c] =>
                  pc'[q] = pc[q] /\ about'[q] = about[q] /\ Pending(q, c)'
            BY <1>19, <1>0, <2>2, Consts DEF InterruptNode, process, node, OwnTypes, Reports, signals,
               signalVars, Pending
        <3>3. pc[c] \in Back /\ Stranded(c) => Stranded(c)'
            BY <1>19 DEF InterruptNode, Stranded
        <3>4. QED
            BY <3>1, <3>2, <3>3 DEF Undisturbed
    <2>3. QED
        BY <1>0, <1>00, <2>1, <2>2, VerdictsFrame
<1>20. CASE JoinAll
    <2>1. tip' = tip /\ failed' = failed
        BY <1>20 DEF JoinAll, process, chain, node
    <2>2. ASSUME NEW c \in Catchers PROVE Undisturbed(c)
        <3>0. c \in Procs /\ VerdictKnown(c)
            BY <1>0, <2>2, Consts DEF Verdicts
        <3>1. /\ owed'[c] => owed[c]
              /\ \/ pc'[c] = pc[c]
                 \/ pc[c] \in {"notify", "tip"} /\ pc'[c] \in {"activate", "tip"}
                 \/ pc[c] = "lock" /\ pc'[c] = "accept"
                 \/ pc[c] \in Back /\ pc'[c] \in Back
                 \/ ~owed[c] /\ pc'[c] \notin Working \ {"accept"}
              /\ blk'[c] = blk[c] \/ (~owed[c] /\ pc'[c] \notin Working)
              /\ found[c] => found'[c]
              /\ most'[c] \in {most[c], 0}
              /\ \A q \in Procs : pc'[q] = "checked" => pc[q] = "checked" /\ about'[q] = about[q]
            BY <1>20, <1>0, <3>0, Consts DEF JoinAll, process, catcher, node, OwnTypes, VerdictKnown,
               Working, Back
        <3>2. \A q \in Procs : Reports(q) /\ about[q] = blk[c] /\ Pending(q, c) /\ ~found'[c] =>
                  pc'[q] = pc[q] /\ about'[q] = about[q] /\ Pending(q, c)'
            BY <1>20, <1>0, <2>2, Consts DEF JoinAll, process, node, OwnTypes, Reports, signals,
               signalVars, Pending
        <3>3. pc[c] \in Back /\ Stranded(c) => Stranded(c)'
            BY <1>20 DEF JoinAll, node, process, sched, vars, queue, client, ghosts, Stranded
        <3>4. QED
            BY <3>1, <3>2, <3>3 DEF Undisturbed
    <2>3. QED
        BY <1>0, <1>00, <2>1, <2>2, VerdictsFrame
<1>21. CASE StopRPC
    <2>1. tip' = tip /\ failed' = failed
        BY <1>21 DEF StopRPC, Woken, process, chain, node
    <2>2. ASSUME NEW c \in Catchers PROVE Undisturbed(c)
        <3>0. c \in Procs /\ VerdictKnown(c)
            BY <1>0, <2>2, Consts DEF Verdicts
        <3>1. /\ owed'[c] => owed[c]
              /\ \/ pc'[c] = pc[c]
                 \/ pc[c] \in {"notify", "tip"} /\ pc'[c] \in {"activate", "tip"}
                 \/ pc[c] = "lock" /\ pc'[c] = "accept"
                 \/ pc[c] \in Back /\ pc'[c] \in Back
                 \/ ~owed[c] /\ pc'[c] \notin Working \ {"accept"}
              /\ blk'[c] = blk[c] \/ (~owed[c] /\ pc'[c] \notin Working)
              /\ found[c] => found'[c]
              /\ most'[c] \in {most[c], 0}
              /\ \A q \in Procs : pc'[q] = "checked" => pc[q] = "checked" /\ about'[q] = about[q]
            BY <1>21, <1>0, <3>0, Consts DEF StopRPC, Woken, process, catcher, node, OwnTypes,
               VerdictKnown, Working, Back
        <3>2. \A q \in Procs : Reports(q) /\ about[q] = blk[c] /\ Pending(q, c) /\ ~found'[c] =>
                  pc'[q] = pc[q] /\ about'[q] = about[q] /\ Pending(q, c)'
            BY <1>21, <1>0, <2>2, Consts DEF StopRPC, Woken, process, node, OwnTypes, Reports, signals,
               signalVars, Pending
        <3>3. pc[c] \in Back /\ Stranded(c) => Stranded(c)'
            BY <1>21 DEF StopRPC, Woken, node, process, sched, vars, queue, client, ghosts, Stranded
        <3>4. QED
            BY <3>1, <3>2, <3>3 DEF Undisturbed
    <2>3. QED
        BY <1>0, <1>00, <2>1, <2>2, VerdictsFrame
<1>22. CASE StopHTTPServer
    <2>1. tip' = tip /\ failed' = failed
        BY <1>22 DEF StopHTTPServer, process, chain, node
    <2>2. ASSUME NEW c \in Catchers PROVE Undisturbed(c)
        <3>0. c \in Procs /\ VerdictKnown(c)
            BY <1>0, <2>2, Consts DEF Verdicts
        <3>1. /\ owed'[c] => owed[c]
              /\ \/ pc'[c] = pc[c]
                 \/ pc[c] \in {"notify", "tip"} /\ pc'[c] \in {"activate", "tip"}
                 \/ pc[c] = "lock" /\ pc'[c] = "accept"
                 \/ pc[c] \in Back /\ pc'[c] \in Back
                 \/ ~owed[c] /\ pc'[c] \notin Working \ {"accept"}
              /\ blk'[c] = blk[c] \/ (~owed[c] /\ pc'[c] \notin Working)
              /\ found[c] => found'[c]
              /\ most'[c] \in {most[c], 0}
              /\ \A q \in Procs : pc'[q] = "checked" => pc[q] = "checked" /\ about'[q] = about[q]
            BY <1>22, <1>0, <3>0, Consts DEF StopHTTPServer, process, catcher, node, OwnTypes,
               VerdictKnown, Working, Back
        <3>2. \A q \in Procs : Reports(q) /\ about[q] = blk[c] /\ Pending(q, c) /\ ~found'[c] =>
                  pc'[q] = pc[q] /\ about'[q] = about[q] /\ Pending(q, c)'
            BY <1>22, <1>0, <2>2, Consts DEF StopHTTPServer, process, node, OwnTypes, Reports, signals,
               signalVars, Pending
        <3>3. pc[c] \in Back /\ Stranded(c) => Stranded(c)'
            BY <1>22 DEF StopHTTPServer, node, process, sched, vars, queue, client, ghosts, Stranded
        <3>4. QED
            BY <3>1, <3>2, <3>3 DEF Undisturbed
    <2>3. QED
        BY <1>0, <1>00, <2>1, <2>2, VerdictsFrame
<1>23. CASE DropPeerLogic
    <2>1. tip' = tip /\ failed' = failed
        BY <1>23 DEF DropPeerLogic, process, chain, node
    <2>2. ASSUME NEW c \in Catchers PROVE Undisturbed(c)
        <3>0. c \in Procs /\ VerdictKnown(c)
            BY <1>0, <2>2, Consts DEF Verdicts
        <3>1. /\ owed'[c] => owed[c]
              /\ \/ pc'[c] = pc[c]
                 \/ pc[c] \in {"notify", "tip"} /\ pc'[c] \in {"activate", "tip"}
                 \/ pc[c] = "lock" /\ pc'[c] = "accept"
                 \/ pc[c] \in Back /\ pc'[c] \in Back
                 \/ ~owed[c] /\ pc'[c] \notin Working \ {"accept"}
              /\ blk'[c] = blk[c] \/ (~owed[c] /\ pc'[c] \notin Working)
              /\ found[c] => found'[c]
              /\ most'[c] \in {most[c], 0}
              /\ \A q \in Procs : pc'[q] = "checked" => pc[q] = "checked" /\ about'[q] = about[q]
            BY <1>23, <1>0, <3>0, Consts DEF DropPeerLogic, process, catcher, node, OwnTypes, VerdictKnown,
               Working, Back
        <3>2. \A q \in Procs : Reports(q) /\ about[q] = blk[c] /\ Pending(q, c) /\ ~found'[c] =>
                  pc'[q] = pc[q] /\ about'[q] = about[q] /\ Pending(q, c)'
            BY <1>23, <1>0, <2>2, Consts, UnregisterEffect DEF DropPeerLogic, process, node, OwnTypes,
               Reports, Apart
        <3>3. pc[c] \in Back /\ Stranded(c) => Stranded(c)'
            BY <1>23 DEF DropPeerLogic, node, process, sched, vars, queue, client, ghosts, Stranded
        <3>4. QED
            BY <3>1, <3>2, <3>3 DEF Undisturbed
    <2>3. QED
        BY <1>0, <1>00, <2>1, <2>2, VerdictsFrame
<1>24. CASE StopNet
    <2>1. tip' = tip /\ failed' = failed
        BY <1>24 DEF StopNet, process, chain, node
    <2>2. ASSUME NEW c \in Catchers PROVE Undisturbed(c)
        <3>0. c \in Procs /\ VerdictKnown(c)
            BY <1>0, <2>2, Consts DEF Verdicts
        <3>1. /\ owed'[c] => owed[c]
              /\ \/ pc'[c] = pc[c]
                 \/ pc[c] \in {"notify", "tip"} /\ pc'[c] \in {"activate", "tip"}
                 \/ pc[c] = "lock" /\ pc'[c] = "accept"
                 \/ pc[c] \in Back /\ pc'[c] \in Back
                 \/ ~owed[c] /\ pc'[c] \notin Working \ {"accept"}
              /\ blk'[c] = blk[c] \/ (~owed[c] /\ pc'[c] \notin Working)
              /\ found[c] => found'[c]
              /\ most'[c] \in {most[c], 0}
              /\ \A q \in Procs : pc'[q] = "checked" => pc[q] = "checked" /\ about'[q] = about[q]
            BY <1>24, <1>0, <3>0, Consts DEF StopNet, process, catcher, node, OwnTypes, VerdictKnown,
               Working, Back
        <3>2. \A q \in Procs : Reports(q) /\ about[q] = blk[c] /\ Pending(q, c) /\ ~found'[c] =>
                  pc'[q] = pc[q] /\ about'[q] = about[q] /\ Pending(q, c)'
            <4>1. \A q \in Procs : ~Reports(q)
                BY <1>24, <1>0, Consts DEF StopNet, Registrations, Gone, Reports
            <4>2. QED
                BY <4>1
        <3>3. pc[c] \in Back /\ Stranded(c) => Stranded(c)'
            BY <1>24 DEF StopNet, node, process, sched, vars, queue, client, ghosts, Stranded
        <3>4. QED
            BY <3>1, <3>2, <3>3 DEF Undisturbed
    <2>3. QED
        BY <1>0, <1>00, <2>1, <2>2, VerdictsFrame
<1>25. CASE FlushBackgroundCallbacks
    <2>1. tip' = tip /\ failed' = failed
        BY <1>25 DEF FlushBackgroundCallbacks, process, chain, node
    <2>2. ASSUME NEW c \in Catchers PROVE Undisturbed(c)
        <3>0. c \in Procs /\ VerdictKnown(c)
            BY <1>0, <2>2, Consts DEF Verdicts
        <3>1. /\ owed'[c] => owed[c]
              /\ \/ pc'[c] = pc[c]
                 \/ pc[c] \in {"notify", "tip"} /\ pc'[c] \in {"activate", "tip"}
                 \/ pc[c] = "lock" /\ pc'[c] = "accept"
                 \/ pc[c] \in Back /\ pc'[c] \in Back
                 \/ ~owed[c] /\ pc'[c] \notin Working \ {"accept"}
              /\ blk'[c] = blk[c] \/ (~owed[c] /\ pc'[c] \notin Working)
              /\ found[c] => found'[c]
              /\ most'[c] \in {most[c], 0}
              /\ \A q \in Procs : pc'[q] = "checked" => pc[q] = "checked" /\ about'[q] = about[q]
            BY <1>25, <1>0, <3>0, Consts DEF FlushBackgroundCallbacks, process, catcher, node, OwnTypes,
               VerdictKnown, Working, Back
        <3>2. \A q \in Procs : Reports(q) /\ about[q] = blk[c] /\ Pending(q, c) /\ ~found'[c] =>
                  pc'[q] = pc[q] /\ about'[q] = about[q] /\ Pending(q, c)'
            BY <1>25, <1>0, <2>2, Consts DEF FlushBackgroundCallbacks, process, node, OwnTypes, Reports,
               signals, signalVars, Pending
        <3>3. pc[c] \in Back /\ Stranded(c) => Stranded(c)'
            BY <1>25, <1>0, <3>0, Consts DEF FlushBackgroundCallbacks, Registrations, Gone, Back
        <3>4. QED
            BY <3>1, <3>2, <3>3 DEF Undisturbed
    <2>3. QED
        BY <1>0, <1>00, <2>1, <2>2, VerdictsFrame
<1>26. CASE UNCHANGED miningVars
    <2>1. tip' = tip /\ failed' = failed
        BY <1>26 DEF miningVars, process, chain
    <2>2. ASSUME NEW c \in Catchers PROVE Undisturbed(c)
        <3>0. c \in Procs /\ VerdictKnown(c)
            BY <1>0, <2>2, Consts DEF Verdicts
        <3>1. /\ owed'[c] => owed[c]
              /\ \/ pc'[c] = pc[c]
                 \/ pc[c] \in {"notify", "tip"} /\ pc'[c] \in {"activate", "tip"}
                 \/ pc[c] = "lock" /\ pc'[c] = "accept"
                 \/ pc[c] \in Back /\ pc'[c] \in Back
                 \/ ~owed[c] /\ pc'[c] \notin Working \ {"accept"}
              /\ blk'[c] = blk[c] \/ (~owed[c] /\ pc'[c] \notin Working)
              /\ found[c] => found'[c]
              /\ most'[c] \in {most[c], 0}
              /\ \A q \in Procs : pc'[q] = "checked" => pc[q] = "checked" /\ about'[q] = about[q]
            BY <1>26, <1>0, <3>0, Consts DEF miningVars, process, catcher, OwnTypes, VerdictKnown, Working,
               Back
        <3>2. \A q \in Procs : Reports(q) /\ about[q] = blk[c] /\ Pending(q, c) /\ ~found'[c] =>
                  pc'[q] = pc[q] /\ about'[q] = about[q] /\ Pending(q, c)'
            BY <1>26, <1>0, <2>2, Consts DEF miningVars, process, OwnTypes, Reports, signals, signalVars,
               Pending
        <3>3. pc[c] \in Back /\ Stranded(c) => Stranded(c)'
            BY <1>26 DEF miningVars, process, sched, vars, queue, client, ghosts, Stranded
        <3>4. QED
            BY <3>1, <3>2, <3>3 DEF Undisturbed
    <2>3. QED
        BY <1>0, <1>00, <2>1, <2>2, VerdictsFrame
<1>27. ASSUME NEW p \in Procs, RoundStep(p) PROVE Verdicts'
    <2>1. tip' = tip /\ failed' = failed
        BY <1>27 DEF RoundStep
    <2>2. ASSUME NEW c \in Catchers PROVE Undisturbed(c)
        <3>1. /\ c \in Procs /\ c # p /\ owed' = owed /\ found' = found /\ blk' = blk
              /\ most' = most /\ about' = about
              /\ \A q \in Procs : pc'[q] = pc[q] \/ (~Reports(q) /\ pc'[q] # "checked")
              /\ \A q \in Procs \ {p} : pc'[q] = pc[q]
            BY <1>27, <1>0, <2>2, Consts DEF RoundStep, OwnTypes, Reports
        <3>2. \A q \in Procs : Reports(q) /\ Pending(q, c) => Pending(q, c)'
            BY <1>27 DEF RoundStep, Apart, Reports
        <3>3. Stranded(c) => Stranded(c)'
            BY <1>27 DEF RoundStep, vars, queue, client, ghosts, Stranded
        <3>4. QED
            BY <3>1, <3>2, <3>3 DEF Undisturbed
    <2>3. QED
        BY <1>0, <1>00, <2>1, <2>2, VerdictsFrame
<1>28. QED
    BY <1>1, <1>2, <1>3, <1>4, <1>5, <1>6, <1>7, <1>8, <1>9, <1>10, <1>11, <1>12, <1>13, <1>14, <1>15,
       <1>16, <1>17, <1>18, <1>19, <1>20, <1>21, <1>22, <1>23, <1>24, <1>25, <1>26, <1>27, QuietSteps,
       Rounds
    DEF MiningNext, Called, Blockwork, Submission, Stopping, MiningInv

-----------------------------------------------------------------------------
(* The invariant, and what it says.                                         *)

\* The invariant holds at first.
LEMMA MiningStarts == MiningInit => MiningInv
<1> SUFFICES ASSUME MiningInit PROVE MiningInv
    OBVIOUS
<1>0. /\ scene \in Scenes /\ pc = [p \in Procs |-> "idle"]
      /\ blk = [p \in Procs |-> 0] /\ most = [p \in Procs |-> 0] /\ about = [p \in Procs |-> 0]
      /\ cs = [l \in Locks |-> Free] /\ tip = 0 /\ have = {} /\ failed = {} /\ heard = 0 /\ shut = "no"
      /\ found = [c \in Catchers |-> FALSE] /\ owed = [c \in Catchers |-> FALSE]
    BY DEF MiningInit
<1>1. OwnTypes
    BY <1>0, Consts DEF OwnTypes, Pcs
<1>2. IInv
    BY SchedulerStarts DEF MiningInit
<1>3. SignalsInv
    <2>1. /\ m_list = {1} /\ made = 1 /\ callbacks = [n \in Entries |-> IF n = 1 THEN "peerLogic" ELSE Nobody]
          /\ count = [n \in Entries |-> IF n = 1 THEN 1 ELSE 0]
          /\ m_map = [i \in Interfaces |-> IF i = "peerLogic" THEN 1 ELSE 0]
          /\ at = [w \in Walks |-> 0] /\ due = [w \in Walks |-> {}]
        BY Consts DEF MiningInit
    <2>2. MaxEntries \in Nat /\ MaxEntries >= 1 /\ 1 \in Entries /\ "peerLogic" \in Interfaces
        <3>1. IsFiniteSet(Catchers)
            BY Consts, MainSignalsConstants, FS_Subset
        <3>2. QED
            BY <3>1, Consts, MiningConstants, FS_CardinalityType DEF Entries
    <2>3. SignalsTypeOK
        BY <2>1, <2>2, Consts DEF SignalsTypeOK, Entries
    <2>4. CountExact
        <3>1. {w \in Walks : at[w] = 1} = {} /\ Registered(1)
            BY <2>1, <2>2 DEF Registered
        <3>2. Cardinality({w \in Walks : at[w] = 1}) = 0 /\ count[1] = 1
            BY <2>1, <2>2, <3>1, FS_EmptySet
        <3>3. SUFFICES ASSUME NEW n \in m_list
                       PROVE  /\ count[n] = Cardinality({w \in Walks : at[w] = n}) + (IF Registered(n) THEN 1 ELSE 0)
                              /\ count[n] > 0
            BY DEF CountExact
        <3>4. n = 1
            BY <2>1, <3>3
        <3>5. QED
            BY <3>1, <3>2, <3>4
    <2>5. EntriesAlive /\ Ahead /\ m_list \subseteq 1 .. made
        BY <2>1, <2>2 DEF EntriesAlive, Ahead
    <2>6. QED
        BY <2>3, <2>4, <2>5 DEF SignalsInv
<1>4. Places /\ Registrations /\ Blocks /\ Hearing
    BY <1>0, Consts DEF MiningInit, Places, Registrations, Blocks, Hearing, Before, Working,
       Activating, Back, Gone
<1>5. Scheduling
    BY <1>0, Consts DEF MiningInit, Init, Scheduling, Thread
<1>6. Verdicts
    BY <1>0, Consts DEF Verdicts, VerdictFound, VerdictKnown, Working, Activating, Back, Reports
<1>7. QED
    BY <1>1, <1>2, <1>3, <1>4, <1>5, <1>6 DEF MiningInv

\* Every step keeps it.
LEMMA MiningKept == MiningInv /\ [MiningNext]_miningVars => MiningInv'
<1> SUFFICES ASSUME MiningInv, [MiningNext]_miningVars PROVE MiningInv'
    OBVIOUS
<1>1. SignalsInv'
    BY SignalsSteps, SignalsKept DEF MiningInv
<1>2. IInv'
    BY SchedulerSteps, SchedulerKept DEF MiningInv
<1>3. QED
    BY <1>1, <1>2, OwnTypesKept, PlacesKept, RegistrationsKept, BlocksKept, SchedulingKept,
       VerdictsKept, HearingKept DEF MiningInv

\* It says what is promised.
LEMMA MiningServes == MiningInv => InterfacesServed
<1> SUFFICES ASSUME MiningInv PROVE InterfacesServed
    OBVIOUS
<1>1. MiningTypeOK
    <2>1. OwnTypes /\ SignalsTypeOK /\ TypeOK
        BY DEF MiningInv, SignalsInv, IInv, Typed
    <2>2. QED
        BY <2>1 DEF MiningTypeOK, OwnTypes, Pcs
<1>2. OnlyBesideAnother
    <2>1. SUFFICES ASSUME NEW n \in m_list, \A p \in Procs : at[p] # n PROVE Alive(callbacks[n])
        BY DEF OnlyBesideAnother
    <2>2. PICK i \in Interfaces : m_map[i] = n
        BY <2>1, ListUsed DEF MiningInv
    <2>3. n # 0
        BY <2>1, EntriesNat DEF MiningInv, SignalsInv, SignalsTypeOK
    <2>4. callbacks[n] = i
        BY <2>2, <2>3 DEF MiningInv, SignalsInv, EntriesAlive
    <2>5. Alive(i)
        BY <2>2, <2>3, Consts DEF MiningInv, Registrations, Alive, Gone, Working
    <2>6. QED
        BY <2>4, <2>5
<1>3. VerdictFound
    BY DEF MiningInv, Verdicts
<1>4. TipHeard
    BY DEF MiningInv, Hearing, TipHeard
<1>5. QED
    BY <1>1, <1>2, <1>3, <1>4 DEF InterfacesServed

\* Whichever calls of the mining RPCs meet which other, with the message thread
\* and with Shutdown, and whichever blocks are invalid: an interface that is gone
\* is in the list only under a dispatch that stands on it, a call returns the
\* verdict on its block, and peerLogic is told the last tip, as far as the threads
\* that process blocks exclude each other.
THEOREM InterfacesAlwaysServed == MiningSpec => []InterfacesServed
BY MiningStarts, MiningKept, MiningServes, PTL DEF MiningSpec

\* The same under the fairness of the run.
THEOREM InterfacesServedFair == MiningFairSpec => []InterfacesServed
BY InterfacesAlwaysServed, PTL DEF MiningFairSpec

\* The mining calls and Shutdown use the scheduler and its client only as
\* Scheduler allows: what is seen of it is a behaviour of that specification,
\* so callbacks keep their order and exclude each other here too.
THEOREM SchedulerWellUsed == MiningSpec => Spec /\ []QueueOrderly
<1>1. MiningInit => Init
    BY DEF MiningInit
<1>2. MiningInv /\ [MiningNext]_miningVars => [Next]_vars
    BY SchedulerSteps DEF MiningInv
<1>3. MiningSpec => Spec
    BY <1>1, <1>2, MiningStarts, MiningKept, PTL DEF MiningSpec, Spec
<1>4. QED
    BY <1>3, SchedulerOrderly, PTL

\* With catchers on the stacks of concurrent calls the list of validation
\* interfaces keeps its reference counts, and no dispatch passes over an
\* interface that stays registered.
THEOREM SignalsWellUsed == MiningSpec => []Referenced /\ []NoneMissed
<1>1. MiningInv => Referenced /\ NoneMissed
    BY SignalsCounted DEF MiningInv
<1>2. QED
    BY <1>1, MiningStarts, MiningKept, PTL DEF MiningSpec
=============================================================================
