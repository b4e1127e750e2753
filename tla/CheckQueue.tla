----------------------------- MODULE CheckQueue -----------------------------
(***************************************************************************)
(* CCheckQueue and CCheckQueueControl (checkqueue.h): ConnectBlock, as the  *)
(* master, adds script checks to a queue that worker threads empty, then    *)
(* joins them in Wait() until all are done and takes the verdict.           *)
(*                                                                          *)
(* The mutex makes every critical section one step; a section ends where    *)
(* the thread returns, sleeps on its condition variable or leaves with a    *)
(* batch.  The queue's order does not matter (a comment there says so), so  *)
(* it is a set.  fQuit is never set and is left out.                        *)
(***************************************************************************)
EXTENDS Integers, FiniteSets

CONSTANTS
    Workers,        \* the script check threads
    Masters,        \* threads that run ConnectBlock
    Importers,      \* the masters that are boost threads of threadGroup
    NoMaster,
    Checks,         \* the checks one session may add
    Valid,          \* those whose operator() returns true
    BatchSize       \* nBatchSize

Threads == Workers \cup Masters

\* Without script check threads ConnectBlock uses no queue.
ASSUME QueueConstants ==
    /\ Workers # {} /\ Workers \cap Masters = {} /\ NoMaster \notin Masters
    /\ Importers \subseteq Masters
    /\ Valid \subseteq Checks /\ IsFiniteSet(Checks)
    /\ BatchSize \in Nat \ {0}

VARIABLES
    control,        \* holder of ControlMutex
    queue, nTodo, fAllOk, nTotal, nIdle,
    pc,             \* [Threads -> ...]
    batch, fOk,     \* locals of Loop: vChecks (nNow is its size), fOk
    interrupted,    \* boost threads whose interruption was delivered
    added, ret      \* checks of the session, verdict Wait() returned

vars == <<control, queue, nTodo, fAllOk, nTotal, nIdle, pc, batch, fOk, interrupted, added, ret>>

Init ==
    /\ control = NoMaster
    /\ queue = {} /\ nTodo = 0 /\ fAllOk = TRUE /\ nTotal = 0 /\ nIdle = 0
    /\ pc = [t \in Threads |-> IF t \in Workers THEN "start" ELSE "out"]
    /\ batch = [t \in Threads |-> {}] /\ fOk = [t \in Threads |-> TRUE]
    /\ interrupted = {} /\ added = {} /\ ret = TRUE

Goto(t, where) == pc' = [pc EXCEPT ![t] = where]
-----------------------------------------------------------------------------
(* The controller.                                                          *)

\* The constructor enters ControlMutex.
Begin(m) ==
    /\ pc[m] = "out" /\ control = NoMaster
    /\ control' = m /\ added' = {}
    /\ Goto(m, "adding")
    /\ UNCHANGED <<queue, nTodo, fAllOk, nTotal, nIdle, batch, fOk, interrupted, ret>>

\* notify_one wakes one sleeping worker if there is any, notify_all all.
Sleeping == {w \in Workers : pc[w] = "wait"}
WakeOK(n, W) ==
    /\ W \subseteq Sleeping
    /\ Cardinality(W) = IF n = 0 \/ Sleeping = {} THEN 0
                        ELSE IF n = 1 THEN 1 ELSE Cardinality(Sleeping)

Enqueue(m, S, W) ==
    /\ pc[m] = "adding"
    /\ queue' = queue \cup S /\ nTodo' = nTodo + Cardinality(S) /\ added' = added \cup S
    /\ pc' = [t \in Threads |-> IF t \in W THEN "woken" ELSE pc[t]]
    /\ UNCHANGED <<control, fAllOk, nTotal, nIdle, batch, fOk, interrupted, ret>>

AddNotifiesMany(m, S, W) ==     \* slip: a single check wakes nobody
    WakeOK(IF Cardinality(S) = 1 THEN 0 ELSE Cardinality(S), W) /\ Enqueue(m, S, W)

Add(m, S, W) == WakeOK(Cardinality(S), W) /\ Enqueue(m, S, W)

\* control.Wait(), or the destructor's when ConnectBlock returned early.
CallWait(m) ==
    /\ pc[m] = "adding"
    /\ Goto(m, "start")
    /\ UNCHANGED <<control, queue, nTodo, fAllOk, nTotal, nIdle, batch, fOk, interrupted, added, ret>>

\* The destructor leaves ControlMutex.
End(m) ==
    /\ pc[m] = "returned"
    /\ control' = NoMaster
    /\ Goto(m, "out")
    /\ UNCHANGED <<queue, nTodo, fAllOk, nTotal, nIdle, batch, fOk, interrupted, added, ret>>
-----------------------------------------------------------------------------
(* Loop.                                                                    *)

AtLock(t) == pc[t] \in {"start", "woken", "merge"}

\* What the head of a critical section makes of the shared variables: a first
\* iteration counts the thread, a later one accounts for its batch, a wake-up
\* ends an idle spell.
OkAfterOverwrites(t) ==     \* slip: = instead of &=
    IF pc[t] = "merge" THEN fOk[t] ELSE fAllOk
OkAfter(t) == IF pc[t] = "merge" THEN fAllOk /\ fOk[t] ELSE fAllOk
TodoAfter(t) == nTodo - Cardinality(batch[t])
TotalAfter(t) == IF pc[t] = "start" THEN nTotal + 1 ELSE nTotal
IdleAfter(t) == IF pc[t] = "woken" THEN nIdle - 1 ELSE nIdle

\* The worker that completes the last check wakes the master.
NotifiedNever(t) == {}          \* slip: the master is not informed
Notified(t) ==
    IF pc[t] = "merge" /\ t \in Workers /\ TodoAfter(t) = 0
    THEN {m \in Masters : pc[m] = "wait"} ELSE {}

Section(t, where) ==
    /\ AtLock(t)
    /\ pc' = [x \in Threads |-> IF x = t THEN where
                                ELSE IF x \in Notified(t) THEN "woken" ELSE pc[x]]
    /\ nTodo' = TodoAfter(t)

\* The master returns when nothing is left to do.
ReturnEarly(t) ==               \* slip: batches in flight are forgotten
    /\ Section(t, "returned")
    /\ queue = {} /\ t \in Masters
    /\ ret' = OkAfter(t) /\ fAllOk' = TRUE
    /\ nTotal' = TotalAfter(t) - 1 /\ nIdle' = IdleAfter(t)
    /\ batch' = [batch EXCEPT ![t] = {}]
    /\ UNCHANGED <<control, queue, fOk, interrupted, added>>

ReturnWithoutReset(t) ==        \* slip: a failed block fails the next one
    /\ Section(t, "returned")
    /\ queue = {} /\ t \in Masters /\ TodoAfter(t) = 0
    /\ ret' = OkAfter(t) /\ fAllOk' = OkAfter(t)
    /\ nTotal' = TotalAfter(t) - 1 /\ nIdle' = IdleAfter(t)
    /\ batch' = [batch EXCEPT ![t] = {}]
    /\ UNCHANGED <<control, queue, fOk, interrupted, added>>

LoopReturn(t) ==
    /\ Section(t, "returned")
    /\ queue = {} /\ t \in Masters /\ TodoAfter(t) = 0
    /\ ret' = OkAfter(t) /\ fAllOk' = TRUE
    /\ nTotal' = TotalAfter(t) - 1 /\ nIdle' = IdleAfter(t)
    /\ batch' = [batch EXCEPT ![t] = {}]
    /\ UNCHANGED <<control, queue, fOk, interrupted, added>>

LoopWait(t) ==
    /\ Section(t, "wait")
    /\ queue = {} /\ ~(t \in Masters /\ TodoAfter(t) = 0)
    /\ fAllOk' = OkAfter(t)
    /\ nTotal' = TotalAfter(t) /\ nIdle' = IdleAfter(t) + 1
    /\ batch' = [batch EXCEPT ![t] = {}]
    /\ UNCHANGED <<control, queue, fOk, interrupted, added, ret>>

\* nNow
Share(t) == Cardinality(queue) \div (TotalAfter(t) + IdleAfter(t) + 1)
BatchLen(t) ==
    IF Share(t) < 1 THEN 1 ELSE IF Share(t) > BatchSize THEN BatchSize ELSE Share(t)

LoopTake(t, S) ==
    /\ Section(t, "work")
    /\ S \subseteq queue /\ queue # {} /\ Cardinality(S) = BatchLen(t)
    /\ queue' = queue \ S
    /\ batch' = [batch EXCEPT ![t] = S]
    /\ fAllOk' = OkAfter(t) /\ fOk' = [fOk EXCEPT ![t] = OkAfter(t)]
    /\ nTotal' = TotalAfter(t) /\ nIdle' = IdleAfter(t)
    /\ UNCHANGED <<control, interrupted, added, ret>>

\* Outside the mutex the batch is evaluated until a check fails.
Run(t) ==
    /\ pc[t] = "work"
    /\ fOk' = [fOk EXCEPT ![t] = @ /\ batch[t] \subseteq Valid]
    /\ Goto(t, "merge")
    /\ UNCHANGED <<control, queue, nTodo, fAllOk, nTotal, nIdle, batch, interrupted, added, ret>>
-----------------------------------------------------------------------------
(* boost: a wait may end without a notification, and interrupt_all at       *)
(* shutdown makes it throw.  nIdle and nTotal stay counted.  A worker ends; *)
(* a master unwinds into the controller's destructor, which calls Wait().   *)
(* If it was the destructor's own Wait() that threw, the process ends: that *)
(* end is left out.                                                         *)

SpuriousWake(t) ==
    /\ pc[t] = "wait"
    /\ Goto(t, "woken")
    /\ UNCHANGED <<control, queue, nTodo, fAllOk, nTotal, nIdle, batch, fOk, interrupted, added, ret>>

Interrupt(t) ==
    /\ t \in (Workers \cup Importers) \ interrupted
    /\ pc[t] \in {"wait", "woken"}
    /\ interrupted' = interrupted \cup {t}
    /\ Goto(t, IF t \in Workers THEN "gone" ELSE "start")
    /\ UNCHANGED <<control, queue, nTodo, fAllOk, nTotal, nIdle, batch, fOk, added, ret>>
-----------------------------------------------------------------------------
Loop(t) == LoopReturn(t) \/ LoopWait(t) \/ (\E S \in SUBSET queue : LoopTake(t, S))

Next ==
    \/ \E m \in Masters : Begin(m) \/ CallWait(m) \/ End(m)
    \/ \E m \in Masters, S \in SUBSET (Checks \ added), W \in SUBSET Workers : Add(m, S, W)
    \/ \E t \in Threads : Loop(t) \/ Run(t) \/ SpuriousWake(t) \/ Interrupt(t)

\* Threads that can run do run, and ConnectBlock reaches Wait() or returns.
Fairness ==
    /\ \A t \in Threads : WF_vars(Loop(t)) /\ WF_vars(Run(t))
    /\ \A m \in Masters : WF_vars(CallWait(m))

Safety == Init /\ [][Next]_vars
Spec == Safety /\ Fairness
-----------------------------------------------------------------------------
(* Properties.                                                              *)

\* Type correctness; the unsigned counters do not wrap.
TypeOK ==
    /\ control \in Masters \cup {NoMaster}
    /\ queue \in SUBSET Checks /\ added \in SUBSET Checks
    /\ nTodo \in Nat /\ nTotal \in Nat /\ nIdle \in Nat
    /\ fAllOk \in BOOLEAN /\ ret \in BOOLEAN
    /\ pc \in [Threads -> {"out", "adding", "start", "wait", "woken", "work", "merge",
                           "returned", "gone"}]
    /\ batch \in [Threads -> SUBSET Checks] /\ fOk \in [Threads -> BOOLEAN]
    /\ interrupted \in SUBSET Threads

\* Wait() returns true exactly if every check of this session, and of no other,
\* succeeds, whichever threads ran them or skipped them after a failure.
VerdictExact == \A m \in Masters : pc[m] = "returned" => (ret <=> added \subseteq Valid)

\* Once Wait() has returned no thread holds a check: the transactions that the
\* checks point to may be destroyed.
NothingLeftRunning ==
    \A m \in Masters : pc[m] = "returned" => queue = {} /\ \A t \in Threads : batch[t] = {}

\* Until shutdown interrupts a thread, queued checks never wait for sleepers only.
NoLostWakeup ==
    interrupted = {} /\ queue # {} =>
        \E t \in Threads : pc[t] \in {"start", "woken", "work", "merge"}

\* The counters that Loop keeps of itself do not wrap, and no work is left to
\* sleeping threads.
PoolOrderly == TypeOK /\ NoLostWakeup

\* A session that was opened gets its verdict, even if workers are interrupted.
AlwaysAnswers == \A m \in Masters : pc[m] = "adding" ~> pc[m] = "returned"

\* The threads together behave like the sequential controller, whose verdict
\* does not depend on how the checks were shared out.
Phase ==
    CASE control = NoMaster -> "closed"
      [] control # NoMaster /\ pc[control] = "adding" -> "open"
      [] control # NoMaster /\ pc[control] = "returned" -> "done"
      [] OTHER -> "waiting"
Verdict == INSTANCE CheckVerdict WITH owner <- control, phase <- Phase
ImplementsVerdict == Verdict!Spec
=============================================================================
