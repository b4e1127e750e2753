------------------------------ MODULE Scheduler ------------------------------
(***************************************************************************)
(* CScheduler and SingleThreadedSchedulerClient (scheduler.cpp).  Service   *)
(* threads take tasks from a queue ordered by time, waiting on one          *)
(* condition variable; the client runs callbacks one after the other by     *)
(* keeping at most one ProcessQueue task in that queue.                     *)
(*                                                                          *)
(* Times are relative to the clock, 0 for one that has passed.  A step is   *)
(* what a thread does under newTaskMutex or m_cs_callbacks_pending; the     *)
(* mutexes are free between steps.                                          *)
(***************************************************************************)
EXTENDS Naturals, Sequences, FiniteSets, SequencesExt

CONSTANTS
    Threads,        \* threads in serviceQueue
    Callbacks,      \* what is given to AddToProcessQueue, each once
    Once, Every,    \* tasks of scheduleFromNow and of scheduleEvery
    Delta,          \* their deltaSeconds
    Settings        \* uses of the class: threads and tasks, and ways to end

ASSUME SchedulerConstants ==
    /\ IsFiniteSet(Threads) /\ Delta \in Nat \ {0}
    /\ Settings \subseteq [threads : SUBSET Threads, tasks : SUBSET (Once \cup Every),
                           ops : SUBSET {"drain", "stop", "interrupt"}]
    /\ "ProcessQueue" \notin Once \cup Every \cup Callbacks
    \* stop(true) is for a pool at work that nobody interrupts (scheduler_tests.cpp);
    \* the node interrupts its thread and never drains.
    /\ \A s \in Settings : "drain" \in s.ops => s.threads # {} /\ "interrupt" \notin s.ops

VARIABLES
    setting,        \* one of Settings
    taskQueue,      \* tasks with their times, earliest first
    th,             \* service threads
    stopRequested, stopWhenEmpty,
    m_callbacks_pending, m_are_callbacks_running,
    flush,          \* EmptyQueue: not called, running a callback, returned
    added,          \* ghost: callbacks in the order of AddToProcessQueue
    ran             \* ghost: callbacks in the order they were begun

queue == <<taskQueue, th>>
stops == <<stopRequested, stopWhenEmpty>>
client == <<m_callbacks_pending, m_are_callbacks_running>>
ghosts == <<added, ran>>
vars == <<setting, queue, stops, client, flush, ghosts>>

Tasks == {"ProcessQueue"} \cup Once \cup Every
Nothing == "nothing"

\* awake: about to look at the queue; wait: wait(lock); timed: wait_until(until);
\* run: calls the task f; job: ProcessQueue calls the callback f.
Thread(where, f, until, intr) == [at |-> where, f |-> f, until |-> until, intr |-> intr]

Init ==
    /\ setting \in Settings
    /\ taskQueue = <<>>
    /\ th = [t \in Threads |-> Thread(IF t \in setting.threads THEN "awake" ELSE "done", Nothing, 0, FALSE)]
    /\ stopRequested = FALSE /\ stopWhenEmpty = FALSE
    /\ m_callbacks_pending = <<>> /\ m_are_callbacks_running = FALSE
    /\ flush = "no"
    /\ added = <<>> /\ ran = <<>>
-----------------------------------------------------------------------------
(* The queue.                                                               *)

shouldStop == stopRequested \/ (stopWhenEmpty /\ taskQueue = <<>>)

\* multimap::insert: behind the tasks that are not later.
Inserted(f, d) ==
    InsertAt(taskQueue, 1 + Cardinality({i \in DOMAIN taskQueue : taskQueue[i].time <= d}),
             [f |-> f, time |-> d])

Waiting(ths) == {t \in Threads : ths[t].at \in {"wait", "timed"}}

\* notify_one: some waiting thread, if there is one.
Notified(ths) ==
    IF Waiting(ths) = {} THEN {ths}
    ELSE {[ths EXCEPT ![t].at = "awake"] : t \in Waiting(ths)}

\* The loops of serviceQueue up to the next wait.  An interrupted thread ends
\* at that wait, and tells nobody.
LoopedAt(t) ==
    LET self == th[t]
        done == [th EXCEPT ![t] = Thread("done", Nothing, 0, self.intr)]
    IN  IF shouldStop THEN Notified(done)
        ELSE IF self.intr THEN {done}
        ELSE IF taskQueue = <<>> THEN {[th EXCEPT ![t] = Thread("wait", Nothing, 0, FALSE)]}
        ELSE {[th EXCEPT ![t] = Thread("timed", Nothing, Head(taskQueue).time, FALSE)]}

serviceQueue(t) ==
    /\ th[t].at = "awake"
    /\ th' \in LoopedAt(t)
    /\ UNCHANGED <<setting, taskQueue, stops, client, flush, ghosts>>

\* The wait timed out: the first task is taken, or the loop begins again.
TimedOut(t) ==
    /\ th[t].at = "timed" /\ th[t].until = 0
    /\ IF shouldStop \/ taskQueue = <<>>
       THEN th' \in LoopedAt(t) /\ UNCHANGED taskQueue
       ELSE /\ th' = [th EXCEPT ![t] = Thread("run", Head(taskQueue).f, Head(taskQueue).time, @.intr)]
            /\ taskQueue' = Tail(taskQueue)
    /\ UNCHANGED <<setting, stops, client, flush, ghosts>>

\* scheduleFromNow and scheduleEvery, called by the threads that start the node.
scheduleFromNow(f) ==
    /\ f \in setting.tasks
    /\ \A i \in DOMAIN taskQueue : taskQueue[i].f # f
    /\ \A t \in Threads : th[t].f # f
    /\ ~stopRequested /\ ~stopWhenEmpty /\ flush = "no"
    /\ taskQueue' = Inserted(f, Delta)
    /\ th' \in Notified(th)
    /\ UNCHANGED <<setting, stops, client, flush, ghosts>>

\* A task of scheduleEvery ends by scheduling itself again (Repeat).
RunTask(t) ==
    LET ended == [th EXCEPT ![t] = Thread("awake", Nothing, 0, @.intr)]
    IN  /\ th[t].at = "run" /\ th[t].f # "ProcessQueue"
        /\ IF th[t].f \in Every
           THEN taskQueue' = Inserted(th[t].f, Delta) /\ th' \in Notified(ended)
           ELSE th' = ended /\ UNCHANGED taskQueue
        /\ UNCHANGED <<setting, stops, client, flush, ghosts>>

stopSilently(drain) ==      \* slip: the waiting threads are not told
    /\ (IF drain THEN "drain" ELSE "stop") \in setting.ops
    /\ ~stopRequested /\ ~stopWhenEmpty
    /\ stopWhenEmpty' = drain /\ stopRequested' = ~drain
    /\ UNCHANGED <<setting, queue, client, flush, ghosts>>

stop(drain) ==
    /\ (IF drain THEN "drain" ELSE "stop") \in setting.ops
    /\ ~stopRequested /\ ~stopWhenEmpty
    /\ stopWhenEmpty' = drain /\ stopRequested' = ~drain
    /\ th' = [t \in Threads |->
                 IF t \in Waiting(th) THEN [th[t] EXCEPT !.at = "awake"] ELSE th[t]]
    /\ UNCHANGED <<setting, taskQueue, client, flush, ghosts>>

\* threadGroup.interrupt_all().
Interrupt ==
    /\ "interrupt" \in setting.ops
    /\ \E t \in Threads : ~th[t].intr
    /\ th' = [t \in Threads |->
                 [th[t] EXCEPT !.intr = TRUE, !.at = IF t \in Waiting(th) THEN "awake" ELSE @]]
    /\ UNCHANGED <<setting, taskQueue, stops, client, flush, ghosts>>

Tick ==
    LET Closer(n) == IF n = 0 THEN 0 ELSE n - 1
    IN  /\ \/ \E i \in DOMAIN taskQueue : taskQueue[i].time > 0
           \/ \E t \in Threads : th[t].at = "timed" /\ th[t].until > 0
        /\ taskQueue' = [i \in DOMAIN taskQueue |-> [taskQueue[i] EXCEPT !.time = Closer(@)]]
        /\ th' = [t \in Threads |->
                     IF th[t].at = "timed" THEN [th[t] EXCEPT !.until = Closer(@)] ELSE th[t]]
        /\ UNCHANGED <<setting, stops, client, flush, ghosts>>
-----------------------------------------------------------------------------
(* SingleThreadedSchedulerClient.                                           *)

AddSilently(c) ==           \* slip: no service thread is told of the new task
    /\ flush # "returned"
    /\ stopWhenEmpty => \E t \in Threads : th[t].at \in {"run", "job"}
    /\ \A i \in DOMAIN added : added[i] # c
    /\ m_callbacks_pending' = Append(m_callbacks_pending, c)
    /\ m_are_callbacks_running' = TRUE
    /\ taskQueue' = IF m_are_callbacks_running THEN taskQueue ELSE Inserted("ProcessQueue", 0)
    /\ added' = Append(added, c)
    /\ UNCHANGED <<setting, th, stops, flush, ran>>
\* By any thread; once the queue is to be drained, only by what still runs.
AddToProcessQueue(c) ==
    /\ flush # "returned"
    /\ stopWhenEmpty => \E t \in Threads : th[t].at \in {"run", "job"}
    /\ \A i \in DOMAIN added : added[i] # c
    /\ m_callbacks_pending' = Append(m_callbacks_pending, c)
    /\ m_are_callbacks_running' = TRUE          \* MaybeScheduleProcessQueue
    /\ IF m_are_callbacks_running THEN UNCHANGED queue
       ELSE taskQueue' = Inserted("ProcessQueue", 0) /\ th' \in Notified(th)
    /\ added' = Append(added, c)
    /\ UNCHANGED <<setting, stops, flush, ran>>

ProcessQueue(t) ==
    /\ th[t].at = "run" /\ th[t].f = "ProcessQueue"
    /\ IF m_callbacks_pending = <<>>
       THEN /\ m_are_callbacks_running' = FALSE
            /\ th' = [th EXCEPT ![t] = Thread("awake", Nothing, 0, @.intr)]
            /\ UNCHANGED <<m_callbacks_pending, ran>>
       ELSE /\ m_callbacks_pending' = Tail(m_callbacks_pending)
            /\ th' = [th EXCEPT ![t].at = "job", ![t].f = Head(m_callbacks_pending)]
            /\ ran' = Append(ran, Head(m_callbacks_pending))
            /\ UNCHANGED m_are_callbacks_running
    /\ UNCHANGED <<setting, taskQueue, stops, flush, added>>

\* The callback returned: the next one is scheduled, if any.
CallbackDoneStops(t) ==     \* slip: what was added meanwhile is left to the next AddToProcessQueue
    /\ th[t].at = "job"
    /\ th' = [th EXCEPT ![t] = Thread("awake", Nothing, 0, @.intr)]
    /\ UNCHANGED <<setting, taskQueue, stops, client, flush, ghosts>>
CallbackDone(t) ==
    LET ended == [th EXCEPT ![t] = Thread("awake", Nothing, 0, @.intr)]
    IN  /\ th[t].at = "job"
        /\ IF m_callbacks_pending = <<>>
           THEN m_are_callbacks_running' = FALSE /\ th' = ended /\ UNCHANGED taskQueue
           ELSE /\ taskQueue' = Inserted("ProcessQueue", 0) /\ th' \in Notified(ended)
                /\ UNCHANGED m_are_callbacks_running
        /\ UNCHANGED <<setting, m_callbacks_pending, stops, flush, ghosts>>

\* EmptyQueue at shutdown, when the service threads have been joined.
EmptyQueue ==
    /\ \A t \in Threads : th[t].at = "done"
    /\ flush # "returned"
    /\ IF m_callbacks_pending = <<>>
       THEN flush' = "returned" /\ m_are_callbacks_running' = FALSE
            /\ UNCHANGED <<m_callbacks_pending, ran>>
       ELSE /\ flush' = "running"
            /\ m_callbacks_pending' = Tail(m_callbacks_pending)
            /\ ran' = Append(ran, Head(m_callbacks_pending))
            /\ UNCHANGED m_are_callbacks_running
    /\ UNCHANGED <<setting, queue, stops, added>>
-----------------------------------------------------------------------------
Next ==
    \/ \E t \in Threads :
           serviceQueue(t) \/ TimedOut(t) \/ RunTask(t) \/ ProcessQueue(t) \/ CallbackDone(t)
    \/ \E f \in Once \cup Every : scheduleFromNow(f)
    \/ \E drain \in BOOLEAN : stop(drain)
    \/ \E c \in Callbacks : AddToProcessQueue(c)
    \/ Interrupt \/ Tick \/ EmptyQueue

Spec == Init /\ [][Next]_vars

\* A service thread goes on when it can, the clock moves, and Shutdown calls
\* EmptyQueue once the threads have ended.
Fairness ==
    /\ \A t \in Threads : WF_vars(serviceQueue(t) \/ TimedOut(t) \/ RunTask(t)
                                  \/ ProcessQueue(t) \/ CallbackDone(t))
    /\ WF_vars(Tick) /\ WF_vars(EmptyQueue)

FairSpec == Spec /\ Fairness
-----------------------------------------------------------------------------
(* Properties.                                                              *)

TypeOK ==
    /\ setting \in Settings
    /\ taskQueue \in Seq([f : Tasks, time : 0..Delta])
    /\ th \in [Threads -> [at : {"awake", "wait", "timed", "run", "job", "done"},
                           f : Tasks \cup Callbacks \cup {Nothing},
                           until : 0..Delta, intr : BOOLEAN]]
    /\ stops \in BOOLEAN \X BOOLEAN
    /\ m_callbacks_pending \in Seq(Callbacks) /\ m_are_callbacks_running \in BOOLEAN
    /\ flush \in {"no", "running", "returned"}

\* scheduler.h: no two callbacks are executed at the same time, whichever
\* threads they run on, and not while EmptyQueue runs one.
OneAtATime ==
    /\ \A t, u \in Threads : th[t].at = "job" /\ th[u].at = "job" => t = u
    /\ flush = "running" => \A t \in Threads : th[t].at # "job"

\* Callbacks are begun in the order they were added, none twice, none lost.
CallbacksInOrder == added = ran \o m_callbacks_pending

\* m_are_callbacks_running says that exactly one ProcessQueue is queued or
\* under way; without one nothing is pending.
OneProcessQueue ==
    LET queued == {i \in DOMAIN taskQueue : taskQueue[i].f = "ProcessQueue"}
        active == {t \in Threads : th[t].at = "job" \/ th[t].f = "ProcessQueue"}
    IN  flush = "no" =>
            /\ Cardinality(queued) + Cardinality(active) = IF m_are_callbacks_running THEN 1 ELSE 0
            /\ m_callbacks_pending # <<>> => m_are_callbacks_running

\* scheduler.h: a function is called at or after its time.  With more than one
\* thread it need not be: a thread whose wait timed out takes what is first by
\* then, also if another thread took the task it waited for.
CalledAtOrAfter ==
    Cardinality(setting.threads) = 1 =>
        \A t \in Threads : th[t].at = "run" => th[t].until = 0

\* Threads asked to drain the queue leave it empty when the last one ends.
Drained ==
    stopWhenEmpty /\ (\A t \in Threads : th[t].at = "done") => taskQueue = <<>>

\* Whatever the threads of the pool do, callbacks keep their order and exclude
\* each other, one task at most processes them, tasks are in time and a drained
\* queue is empty.
QueueOrderly ==
    /\ TypeOK
    /\ OneAtATime
    /\ CallbacksInOrder
    /\ OneProcessQueue
    /\ CalledAtOrAfter
    /\ Drained

\* Every callback that is added is eventually begun, by a service thread or, if
\* they were interrupted, by EmptyQueue.
CallbacksRun ==
    \A c \in Callbacks : (\E i \in DOMAIN added : added[i] = c) ~> (\E i \in DOMAIN ran : ran[i] = c)

\* Once told to stop, every service thread ends.
ThreadsEnd ==
    (stopRequested \/ stopWhenEmpty) ~> (\A t \in Threads : th[t].at = "done")
=============================================================================
