-------------------------- MODULE Callbacks_proofs --------------------------
(***************************************************************************)
(* What is promised of tasks, callbacks and dispatches.  First the          *)
(* invariants of Scheduler, for any number of service threads, of callbacks *)
(* and of tasks and for every use of the class; then the reference counts   *)
(* of MainSignals, for any number of interfaces, of dispatches under way    *)
(* and of list entries.                                                     *)
(***************************************************************************)
EXTENDS Scheduler, MainSignals, FiniteSetTheorems, TLAPS

Entry == [f : Tasks, time : 0 .. Delta]
ThreadType == [at : {"awake", "wait", "timed", "run", "job", "done"},
               f : Tasks \cup Callbacks \cup {Nothing}, until : 0 .. Delta, intr : BOOLEAN]

QueuedIn(q) == {i \in DOMAIN q : q[i].f = "ProcessQueue"}
ActiveIn(ths) == {t \in Threads : ths[t].at = "job" \/ ths[t].f = "ProcessQueue"}
AtMostOne(S) == \A x, y \in S : x = y

\* What a thread holds goes with where it is; the others of Threads never begin.
Kinds ==
    \A t \in Threads :
        /\ th[t].at = "job" => th[t].f \in Callbacks
        /\ th[t].at \notin {"run", "job"} => th[t].f = Nothing
        /\ t \notin setting.threads => th[t].at = "done"

\* EmptyQueue begins when the threads have been joined.
Joined == flush # "no" => \A t \in Threads : th[t].at = "done"

\* OneProcessQueue without counting.
OneProcessing ==
    flush = "no" =>
        /\ AtMostOne(QueuedIn(taskQueue)) /\ AtMostOne(ActiveIn(th))
        /\ QueuedIn(taskQueue) = {} \/ ActiveIn(th) = {}
        /\ m_are_callbacks_running <=> QueuedIn(taskQueue) # {} \/ ActiveIn(th) # {}
        /\ m_callbacks_pending # <<>> => m_are_callbacks_running

\* A single thread that waits for a time waits for the first task.
Punctual ==
    Cardinality(setting.threads) = 1 =>
        \A t \in Threads :
            /\ th[t].at = "timed" => taskQueue # <<>> /\ taskQueue[1].time <= th[t].until
            /\ th[t].at = "run" => th[t].until = 0

\* Nobody leaves a pool that drains while there is work, and nobody before.
Draining ==
    /\ stopWhenEmpty => "drain" \in setting.ops /\ ~stopRequested
    /\ \A t \in Threads : th[t].intr => "interrupt" \in setting.ops
    /\ ~stopRequested /\ ~stopWhenEmpty /\ "interrupt" \notin setting.ops =>
        \A t \in setting.threads : th[t].at # "done"
    /\ stopWhenEmpty /\ taskQueue # <<>> => \E t \in Threads : th[t].at # "done"

Typed == TypeOK /\ added \in Seq(Callbacks) /\ ran \in Seq(Callbacks)

IInv ==
    /\ Typed /\ Kinds /\ Joined /\ OneProcessing
    /\ CallbacksInOrder /\ Punctual /\ Draining
-----------------------------------------------------------------------------
(* The queue and the threads as the actions change them.                    *)

\* Concatenation, place by place.
LEMMA Joining ==
    ASSUME NEW S, NEW u \in Seq(S), NEW v \in Seq(S)
    PROVE  /\ u \o v \in Seq(S) /\ Len(u \o v) = Len(u) + Len(v)
           /\ \A j \in 1 .. Len(u) : (u \o v)[j] = u[j]
           /\ \A j \in 1 .. Len(v) : (u \o v)[Len(u) + j] = v[j]
OBVIOUS

\* A sequence put together around one element.
LEMMA Around ==
    ASSUME NEW S, NEW u \in Seq(S), NEW e \in S, NEW v \in Seq(S)
    PROVE  /\ u \o <<e>> \o v \in Seq(S)
           /\ Len(u \o <<e>> \o v) = Len(u) + 1 + Len(v)
           /\ \A j \in 1 .. Len(u) : (u \o <<e>> \o v)[j] = u[j]
           /\ (u \o <<e>> \o v)[Len(u) + 1] = e
           /\ \A j \in 1 .. Len(v) : (u \o <<e>> \o v)[Len(u) + 1 + j] = v[j]
<1>1. <<e>> \in Seq(S) /\ Len(<<e>>) = 1 /\ <<e>>[1] = e
    OBVIOUS
<1> DEFINE m == <<e>>
<1>2. m \in Seq(S) /\ Len(m) = 1 /\ m[1] = e
    BY <1>1
<1> HIDE DEF m
<1> DEFINE w == u \o m
<1>3. w \in Seq(S) /\ Len(w) = Len(u) + 1 /\ w[Len(u) + 1] = e
      /\ \A j \in 1 .. Len(u) : w[j] = u[j]
    <2>1. /\ w \in Seq(S) /\ Len(w) = Len(u) + Len(m)
          /\ \A j \in 1 .. Len(u) : w[j] = u[j]
          /\ \A j \in 1 .. Len(m) : w[Len(u) + j] = m[j]
        <3>1. m \in Seq(S)
            BY <1>2
        <3>2. QED
            BY ONLY <3>1, u \in Seq(S), Joining
    <2>2. 1 \in 1 .. Len(m)
        BY <1>2
    <2>3. w[Len(u) + 1] = m[1]
        BY <2>1, <2>2
    <2>4. QED
        BY ONLY <1>2, <2>1, <2>3
<1> HIDE DEF w
<1>4. w \o v \in Seq(S) /\ Len(w \o v) = Len(u) + 1 + Len(v)
    BY <1>3
<1>5. \A j \in 1 .. Len(u) : (w \o v)[j] = u[j]
    BY <1>3
<1>6. (w \o v)[Len(u) + 1] = e
    BY <1>3
<1>7. \A j \in 1 .. Len(v) : (w \o v)[Len(u) + 1 + j] = v[j]
    BY <1>3
<1>8. QED
    BY <1>4, <1>5, <1>6, <1>7 DEF m, w

\* Inserting moves what is behind the new task by one place.
LEMMA InsertedShape ==
    ASSUME taskQueue \in Seq(Entry), NEW f \in Tasks, NEW d \in 0 .. Delta
    PROVE  /\ Inserted(f, d) \in Seq(Entry)
           /\ Len(Inserted(f, d)) = Len(taskQueue) + 1
           /\ \E k \in 1 .. Len(taskQueue) + 1 : \A j \in 1 .. Len(taskQueue) + 1 :
                 Inserted(f, d)[j] = IF j < k THEN taskQueue[j]
                                     ELSE IF j = k THEN [f |-> f, time |-> d] ELSE taskQueue[j - 1]
<1> DEFINE earlier == {i \in DOMAIN taskQueue : taskQueue[i].time <= d}
           k == 1 + Cardinality(earlier)
           e == [f |-> f, time |-> d]
<1>1. e \in Entry
    BY DEF Entry
<1>2. k \in 1 .. Len(taskQueue) + 1
    <2>1. IsFiniteSet(1 .. Len(taskQueue)) /\ Cardinality(1 .. Len(taskQueue)) = Len(taskQueue)
        BY FS_Interval
    <2>2. earlier \subseteq 1 .. Len(taskQueue)
        OBVIOUS
    <2>3. Cardinality(earlier) \in Nat /\ Cardinality(earlier) <= Len(taskQueue)
        BY <2>1, <2>2, FS_Subset, FS_CardinalityType
    <2>4. QED
        BY <2>3
<1>3. Inserted(f, d) = SubSeq(taskQueue, 1, k - 1) \o <<e>> \o SubSeq(taskQueue, k, Len(taskQueue))
    BY DEF Inserted, InsertAt
<1> HIDE DEF k, e
<1> DEFINE u == SubSeq(taskQueue, 1, k - 1)
           v == SubSeq(taskQueue, k, Len(taskQueue))
           n == Len(taskQueue)
<1>4. /\ u \in Seq(Entry) /\ Len(u) = k - 1 /\ \A j \in 1 .. k - 1 : u[j] = taskQueue[j]
      /\ v \in Seq(Entry) /\ Len(v) = n + 1 - k
      /\ \A j \in 1 .. n + 1 - k : v[j] = taskQueue[j + k - 1]
      /\ n \in Nat
    BY <1>2
<1> HIDE DEF u, v, n
<1>5. /\ Inserted(f, d) \in Seq(Entry) /\ Len(Inserted(f, d)) = Len(u) + 1 + Len(v)
      /\ \A j \in 1 .. Len(u) : Inserted(f, d)[j] = u[j]
      /\ Inserted(f, d)[Len(u) + 1] = e
      /\ \A j \in 1 .. Len(v) : Inserted(f, d)[Len(u) + 1 + j] = v[j]
    <2>1. Inserted(f, d) = u \o <<e>> \o v
        BY <1>3 DEF u, v
    <2>2. u \in Seq(Entry) /\ v \in Seq(Entry) /\ e \in Entry
        BY <1>1, <1>4
    <2>3. /\ u \o <<e>> \o v \in Seq(Entry)
          /\ Len(u \o <<e>> \o v) = Len(u) + 1 + Len(v)
          /\ \A j \in 1 .. Len(u) : (u \o <<e>> \o v)[j] = u[j]
          /\ (u \o <<e>> \o v)[Len(u) + 1] = e
          /\ \A j \in 1 .. Len(v) : (u \o <<e>> \o v)[Len(u) + 1 + j] = v[j]
        BY ONLY <2>2, Around
    <2>4. QED
        BY <2>1, <2>3 DEF Inserted
<1>6. Inserted(f, d) \in Seq(Entry) /\ Len(Inserted(f, d)) = n + 1
    BY <1>2, <1>4, <1>5 DEF n
<1>7. ASSUME NEW j \in 1 .. n + 1
      PROVE  Inserted(f, d)[j] = IF j < k THEN taskQueue[j] ELSE IF j = k THEN e ELSE taskQueue[j - 1]
    <2>0. k \in Nat /\ k <= n + 1
        BY <1>2 DEF n
    <2>1. CASE j <= k
        BY <1>4, <1>5, <2>0, <2>1
    <2>2. CASE j > k
        <3>1. j - k \in 1 .. Len(v) /\ (j - k) + k - 1 = j - 1 /\ Len(u) + 1 + (j - k) = j
            BY <1>4, <2>0, <2>2
        <3>2. Inserted(f, d)[j] = v[j - k] /\ v[j - k] = taskQueue[(j - k) + k - 1]
            BY <1>4, <1>5, <3>1
        <3>3. Inserted(f, d)[j] = taskQueue[j - 1]
            BY ONLY <3>1, <3>2
        <3>4. ~(j < k) /\ j # k
            BY ONLY <2>0, <2>2, j \in 1 .. n + 1
        <3>5. QED
            BY ONLY <3>3, <3>4
    <2>3. QED
        BY <2>0, <2>1, <2>2
<1>8. QED
    BY <1>2, <1>6, <1>7 DEF e, n

\* A task other than ProcessQueue leaves the queued ProcessQueue alone.
LEMMA InsertOther ==
    ASSUME taskQueue \in Seq(Entry), NEW f \in Tasks, f # "ProcessQueue", NEW d \in 0 .. Delta
    PROVE  /\ QueuedIn(Inserted(f, d)) = {} <=> QueuedIn(taskQueue) = {}
           /\ AtMostOne(QueuedIn(taskQueue)) => AtMostOne(QueuedIn(Inserted(f, d)))
<1>1. PICK k \in 1 .. Len(taskQueue) + 1 : \A j \in 1 .. Len(taskQueue) + 1 :
          Inserted(f, d)[j] = IF j < k THEN taskQueue[j]
                              ELSE IF j = k THEN [f |-> f, time |-> d] ELSE taskQueue[j - 1]
    BY InsertedShape
<1>0. Inserted(f, d) \in Seq(Entry) /\ Len(Inserted(f, d)) = Len(taskQueue) + 1
    BY InsertedShape
<1>2. DOMAIN Inserted(f, d) = 1 .. Len(taskQueue) + 1 /\ DOMAIN taskQueue = 1 .. Len(taskQueue)
    BY <1>0
<1>3. ASSUME NEW i \in QueuedIn(taskQueue)
      PROVE  i + 1 \in QueuedIn(Inserted(f, d)) \/ i \in QueuedIn(Inserted(f, d))
    BY <1>1, <1>2 DEF QueuedIn
<1>4. ASSUME NEW j \in QueuedIn(Inserted(f, d))
      PROVE  (j < k /\ j \in QueuedIn(taskQueue)) \/ (j > k /\ j - 1 \in QueuedIn(taskQueue))
    BY <1>1, <1>2 DEF QueuedIn
<1>5. QueuedIn(taskQueue) \subseteq Int /\ QueuedIn(Inserted(f, d)) \subseteq Int
    BY <1>2 DEF QueuedIn
<1>6. QueuedIn(Inserted(f, d)) = {} <=> QueuedIn(taskQueue) = {}
    BY <1>3, <1>4
<1>7. ASSUME AtMostOne(QueuedIn(taskQueue)), NEW x \in QueuedIn(Inserted(f, d)),
             NEW y \in QueuedIn(Inserted(f, d))
      PROVE  x = y
    BY <1>4, <1>5, <1>7 DEF AtMostOne
<1>8. QED
    BY <1>6, <1>7 DEF AtMostOne

\* ProcessQueue is queued once if it was not queued.
LEMMA InsertProcess ==
    ASSUME taskQueue \in Seq(Entry), QueuedIn(taskQueue) = {}
    PROVE  /\ QueuedIn(Inserted("ProcessQueue", 0)) # {}
           /\ AtMostOne(QueuedIn(Inserted("ProcessQueue", 0)))
<1>0. "ProcessQueue" \in Tasks /\ 0 \in 0 .. Delta
    BY SchedulerConstants DEF Tasks
<1> DEFINE q == Inserted("ProcessQueue", 0)
<1>1. PICK k \in 1 .. Len(taskQueue) + 1 : \A j \in 1 .. Len(taskQueue) + 1 :
          q[j] = IF j < k THEN taskQueue[j]
                 ELSE IF j = k THEN [f |-> "ProcessQueue", time |-> 0] ELSE taskQueue[j - 1]
    BY <1>0, InsertedShape
<1>9. q \in Seq(Entry) /\ Len(q) = Len(taskQueue) + 1
    BY <1>0, InsertedShape
<1>2. DOMAIN q = 1 .. Len(taskQueue) + 1 /\ DOMAIN taskQueue = 1 .. Len(taskQueue)
    BY <1>9
<1> HIDE DEF q
<1>3. k \in QueuedIn(q)
    BY <1>1, <1>2 DEF QueuedIn
<1>4. ASSUME NEW j \in QueuedIn(q), j # k PROVE FALSE
    <2>1. j \in 1 .. Len(taskQueue) + 1 /\ q[j].f = "ProcessQueue"
        BY <1>2 DEF QueuedIn
    <2>2. CASE j < k
        BY <1>1, <1>2, <2>1, <2>2 DEF QueuedIn
    <2>3. CASE j > k
        <3>1. j - 1 \in 1 .. Len(taskQueue) /\ q[j] = taskQueue[j - 1]
            BY <1>1, <2>1, <2>3
        <3>2. QED
            BY <1>2, <2>1, <3>1 DEF QueuedIn
    <2>4. QED
        BY <1>4, <2>1, <2>2, <2>3
<1>5. QED
    BY <1>3, <1>4 DEF AtMostOne, q

\* A queue that grew is well typed and not empty.
LEMMA InsertedTyped ==
    ASSUME taskQueue \in Seq(Entry), NEW f \in Tasks, NEW d \in 0 .. Delta
    PROVE  Inserted(f, d) \in Seq(Entry) /\ Inserted(f, d) # <<>>
<1>1. Inserted(f, d) \in Seq(Entry) /\ Len(Inserted(f, d)) = Len(taskQueue) + 1
    BY InsertedShape
<1>2. Len(taskQueue) \in Nat /\ Len(<<>>) = 0
    OBVIOUS
<1>3. QED
    BY <1>1, <1>2

\* Some waiting threads are awake and nothing else changes.
Wakes(ths, new, t) ==
    /\ new[t].f = ths[t].f /\ new[t].until = ths[t].until /\ new[t].intr = ths[t].intr
    /\ \/ new[t].at = ths[t].at
       \/ ths[t].at \in {"wait", "timed"} /\ new[t].at = "awake"

LEMMA NotifiedWakes ==
    ASSUME NEW ths \in [Threads -> ThreadType], NEW new \in Notified(ths)
    PROVE  /\ new \in [Threads -> ThreadType]
           /\ \A t \in Threads : Wakes(ths, new, t)
           /\ \A t \in Threads : new[t].at = "timed" =>
                 \E u \in Threads : u # t /\ ths[u].at # "done"
<1>1. CASE Waiting(ths) = {}
    BY <1>1 DEF Notified, Waiting, Wakes, ThreadType
<1>2. CASE Waiting(ths) # {}
    <2>1. PICK u \in Waiting(ths) : new = [ths EXCEPT ![u].at = "awake"]
        BY <1>2 DEF Notified
    <2>2. u \in Threads /\ ths[u].at \in {"wait", "timed"}
        BY <2>1 DEF Waiting
    <2>3. QED
        BY <2>1, <2>2 DEF Wakes, ThreadType
<1>3. QED
    BY <1>1, <1>2

\* The first task of a queue that has one.
LEMMA HeadTyped ==
    ASSUME NEW S, NEW q \in Seq(S), q # <<>>
    PROVE  Head(q) = q[1] /\ q[1] \in S /\ Tail(q) \in Seq(S)
<1>1. Len(q) \in Nat /\ Len(q) # 0
    OBVIOUS
<1>2. Head(q) = q[1] /\ q[1] \in S
    BY <1>1
<1>3. Tail(q) \in Seq(S)
    BY <1>1
<1>4. QED
    BY <1>2, <1>3

\* Interruption wakes whoever waits.
LEMMA InterruptedThread ==
    ASSUME th \in [Threads -> ThreadType], Interrupt, NEW u \in Threads
    PROVE  /\ th'[u].f = th[u].f /\ th'[u].until = th[u].until
           /\ th'[u].at = IF th[u].at \in {"wait", "timed"} THEN "awake" ELSE th[u].at
<1>1. th'[u] = [th[u] EXCEPT !.intr = TRUE, !.at = IF u \in Waiting(th) THEN "awake" ELSE @]
    BY DEF Interrupt
<1>2. u \in Waiting(th) <=> th[u].at \in {"wait", "timed"}
    BY DEF Waiting
<1>3. th[u] \in ThreadType
    OBVIOUS
<1>4. QED
    BY <1>1, <1>2, <1>3 DEF ThreadType

\* A thread that loops ends, with a reason, or waits.
LEMMA LoopedEndsOrWaits ==
    ASSUME Typed, NEW t \in Threads, NEW new \in LoopedAt(t)
    PROVE  /\ new \in [Threads -> ThreadType]
           /\ \A u \in Threads \ {t} : Wakes(th, new, u)
           /\ new[t].f = Nothing /\ new[t].intr = th[t].intr
           /\ new[t].at \in {"done", "wait", "timed"}
           /\ new[t].at = "done" => shouldStop \/ th[t].intr
           /\ new[t].at = "timed" => taskQueue # <<>> /\ new[t].until = taskQueue[1].time
<1>1. th \in [Threads -> ThreadType] /\ taskQueue \in Seq(Entry) /\ 0 \in 0 .. Delta
    BY SchedulerConstants DEF Typed, TypeOK, ThreadType, Entry
<1> DEFINE done == [th EXCEPT ![t] = Thread("done", Nothing, 0, th[t].intr)]
<1>2. done \in [Threads -> ThreadType]
    BY <1>1 DEF Thread, ThreadType
<1>3. CASE shouldStop
    <2>1. new \in Notified(done)
        BY <1>3 DEF LoopedAt
    <2>2. new \in [Threads -> ThreadType] /\ \A u \in Threads : Wakes(done, new, u)
        BY <1>2, <2>1, NotifiedWakes
    <2>3. QED
        BY <1>1, <1>3, <2>2 DEF Wakes, Thread
<1>4. CASE ~shouldStop /\ th[t].intr
    <2>1. new = done
        BY <1>4 DEF LoopedAt
    <2>2. QED
        BY <1>1, <1>2, <1>4, <2>1 DEF Wakes, Thread
<1>5. CASE ~shouldStop /\ ~th[t].intr
    <2>0. th[t].intr = FALSE
        BY <1>1, <1>5 DEF ThreadType
    <2>1. CASE taskQueue = <<>>
        <3>1. new = [th EXCEPT ![t] = Thread("wait", Nothing, 0, FALSE)]
            BY <1>5, <2>1 DEF LoopedAt
        <3>2. QED
            BY <1>1, <2>0, <3>1 DEF Wakes, Thread, ThreadType
    <2>2. CASE taskQueue # <<>>
        <3>1. new = [th EXCEPT ![t] = Thread("timed", Nothing, Head(taskQueue).time, FALSE)]
            BY <1>5, <2>2 DEF LoopedAt
        <3>2. Head(taskQueue) = taskQueue[1] /\ taskQueue[1].time \in 0 .. Delta
            <4>1. Head(taskQueue) = taskQueue[1] /\ taskQueue[1] \in Entry
                BY <1>1, <2>2, HeadTyped
            <4>2. QED
                BY <4>1 DEF Entry
        <3>3. QED
            BY <1>1, <2>0, <2>2, <3>1, <3>2 DEF Wakes, Thread, ThreadType
    <2>3. QED
        BY <2>1, <2>2
<1>6. QED
    BY <1>3, <1>4, <1>5
-----------------------------------------------------------------------------
(* Type correctness.                                                        *)

\* The parts of Typed.
LEMMA TypedParts ==
    Typed <=> /\ setting \in Settings /\ taskQueue \in Seq(Entry) /\ th \in [Threads -> ThreadType]
              /\ stopRequested \in BOOLEAN /\ stopWhenEmpty \in BOOLEAN
              /\ m_callbacks_pending \in Seq(Callbacks) /\ m_are_callbacks_running \in BOOLEAN
              /\ flush \in {"no", "running", "returned"}
              /\ added \in Seq(Callbacks) /\ ran \in Seq(Callbacks)
BY DEF Typed, TypeOK, stops, Entry, ThreadType

\* A thread comes back from what it ran.
LEMMA EndedTyped ==
    ASSUME th \in [Threads -> ThreadType], NEW t \in Threads
    PROVE  [th EXCEPT ![t] = Thread("awake", Nothing, 0, th[t].intr)] \in [Threads -> ThreadType]
BY SchedulerConstants DEF Thread, ThreadType

LEMMA TypedStarts == Init => Typed
<1>1. <<>> \in Seq(Entry) /\ <<>> \in Seq(Callbacks) /\ 0 \in 0 .. Delta
    BY SchedulerConstants
<1>2. Init => th \in [Threads -> ThreadType]
    BY <1>1 DEF Init, Thread, ThreadType
<1>3. QED
    BY <1>1, <1>2, TypedParts DEF Init

LEMMA TypedKept == Typed /\ [Next]_vars => Typed'
<1> SUFFICES ASSUME Typed, [Next]_vars PROVE Typed'
    OBVIOUS
<1> DEFINE Parts(tq, ths, sr, sw, mp, mr, fl, ad, rn) ==
        /\ tq \in Seq(Entry) /\ ths \in [Threads -> ThreadType]
        /\ sr \in BOOLEAN /\ sw \in BOOLEAN /\ mp \in Seq(Callbacks) /\ mr \in BOOLEAN
        /\ fl \in {"no", "running", "returned"} /\ ad \in Seq(Callbacks) /\ rn \in Seq(Callbacks)
<1> DEFINE Now == Parts(taskQueue, th, stopRequested, stopWhenEmpty, m_callbacks_pending,
                        m_are_callbacks_running, flush, added, ran)
<1>1. setting \in Settings /\ Now
    BY TypedParts
<1>2. SUFFICES setting' = setting /\ Now'
    BY <1>1 DEF Typed, TypeOK, stops, Entry, ThreadType
<1>a. 0 \in 0 .. Delta /\ Delta \in 0 .. Delta /\ setting.tasks \subseteq Tasks
      /\ Once \subseteq Tasks /\ Every \subseteq Tasks /\ "ProcessQueue" \in Tasks
    BY <1>1, SchedulerConstants DEF Tasks
<1>3. CASE UNCHANGED vars
    BY <1>1, <1>3 DEF vars, queue, stops, client, ghosts
<1> USE DEF queue, stops, client, ghosts
<1>4. ASSUME NEW t \in Threads, serviceQueue(t) PROVE setting' = setting /\ Now'
    BY <1>1, <1>4, LoopedEndsOrWaits DEF serviceQueue
<1>5. ASSUME NEW t \in Threads, TimedOut(t) PROVE setting' = setting /\ Now'
    <2>1. CASE shouldStop \/ taskQueue = <<>>
        BY <1>1, <1>5, <2>1, LoopedEndsOrWaits DEF TimedOut
    <2>2. CASE ~(shouldStop \/ taskQueue = <<>>)
        <3>1. Head(taskQueue) \in Entry /\ Tail(taskQueue) \in Seq(Entry)
            BY <1>1, <2>2, HeadTyped
        <3>2. [th EXCEPT ![t] = Thread("run", Head(taskQueue).f, Head(taskQueue).time, th[t].intr)]
                  \in [Threads -> ThreadType]
            BY <1>1, <3>1 DEF Thread, ThreadType, Entry
        <3>3. QED
            BY <1>1, <1>5, <2>2, <3>1, <3>2 DEF TimedOut
    <2>3. QED
        BY <2>1, <2>2
<1>6. ASSUME NEW t \in Threads, RunTask(t) PROVE setting' = setting /\ Now'
    <2>1. CASE th[t].f \in Every
        BY <1>1, <1>6, <1>a, <2>1, EndedTyped, NotifiedWakes, InsertedTyped DEF RunTask
    <2>2. CASE th[t].f \notin Every
        BY <1>1, <1>6, <2>2, EndedTyped DEF RunTask
    <2>3. QED
        BY <2>1, <2>2
<1>7. ASSUME NEW t \in Threads, ProcessQueue(t) PROVE setting' = setting /\ Now'
    <2>1. CASE m_callbacks_pending = <<>>
        BY <1>1, <1>7, <2>1, EndedTyped DEF ProcessQueue
    <2>2. CASE m_callbacks_pending # <<>>
        <3>1. Head(m_callbacks_pending) \in Callbacks /\ Tail(m_callbacks_pending) \in Seq(Callbacks)
            BY <1>1, <2>2, HeadTyped
        <3>2. [th EXCEPT ![t].at = "job", ![t].f = Head(m_callbacks_pending)]
                  \in [Threads -> ThreadType]
            BY <1>1, <3>1 DEF ThreadType
        <3>3. Append(ran, Head(m_callbacks_pending)) \in Seq(Callbacks)
            BY <1>1, <3>1
        <3>4. QED
            BY <1>1, <1>7, <2>2, <3>1, <3>2, <3>3 DEF ProcessQueue
    <2>3. QED
        BY <2>1, <2>2
<1>8. ASSUME NEW t \in Threads, CallbackDone(t) PROVE setting' = setting /\ Now'
    <2>1. CASE m_callbacks_pending = <<>>
        BY <1>1, <1>8, <2>1, EndedTyped DEF CallbackDone
    <2>2. CASE m_callbacks_pending # <<>>
        BY <1>1, <1>8, <1>a, <2>2, EndedTyped, NotifiedWakes, InsertedTyped DEF CallbackDone
    <2>3. QED
        BY <2>1, <2>2
<1>9. ASSUME NEW f \in Once \cup Every, scheduleFromNow(f) PROVE setting' = setting /\ Now'
    BY <1>1, <1>9, <1>a, NotifiedWakes, InsertedTyped DEF scheduleFromNow
<1>10. ASSUME NEW drain \in BOOLEAN, stop(drain) PROVE setting' = setting /\ Now'
    BY <1>1, <1>10 DEF stop, ThreadType
<1>11. ASSUME NEW c \in Callbacks, AddToProcessQueue(c) PROVE setting' = setting /\ Now'
    <2>1. Append(m_callbacks_pending, c) \in Seq(Callbacks) /\ Append(added, c) \in Seq(Callbacks)
        BY <1>1
    <2>2. taskQueue' \in Seq(Entry) /\ th' \in [Threads -> ThreadType]
        BY <1>1, <1>11, <1>a, NotifiedWakes, InsertedTyped DEF AddToProcessQueue
    <2>3. QED
        BY <1>1, <1>11, <2>1, <2>2 DEF AddToProcessQueue
<1>12. CASE Interrupt
    BY <1>1, <1>12 DEF Interrupt, ThreadType
<1>13. CASE Tick
    <2> DEFINE Closer(n) == IF n = 0 THEN 0 ELSE n - 1
    <2>0. \A n \in 0 .. Delta : Closer(n) \in 0 .. Delta
        BY SchedulerConstants
    <2>a. /\ taskQueue' = [i \in DOMAIN taskQueue |-> [taskQueue[i] EXCEPT !.time = Closer(@)]]
          /\ th' = [t \in Threads |->
                       IF th[t].at = "timed" THEN [th[t] EXCEPT !.until = Closer(@)] ELSE th[t]]
        BY <1>13 DEF Tick
    <2> HIDE DEF Closer
    <2>1. taskQueue' \in Seq(Entry)
        <3>1. DOMAIN taskQueue = 1 .. Len(taskQueue) /\ Len(taskQueue) \in Nat
              /\ \A i \in DOMAIN taskQueue : taskQueue[i] \in Entry
            BY <1>1
        <3>2. \A i \in DOMAIN taskQueue : [taskQueue[i] EXCEPT !.time = Closer(@)] \in Entry
            BY <3>1, <2>0 DEF Entry
        <3>3. taskQueue' \in [1 .. Len(taskQueue) -> Entry]
            BY ONLY <2>a, <3>1, <3>2
        <3>4. \A n \in Nat : \A q \in [1 .. n -> Entry] : q \in Seq(Entry)
            OBVIOUS
        <3>5. QED
            BY ONLY <3>1, <3>3, <3>4
    <2>2. th' \in [Threads -> ThreadType]
        BY <1>1, <2>0, <2>a DEF ThreadType
    <2>3. QED
        BY <1>1, <1>13, <2>1, <2>2 DEF Tick
<1>14. CASE EmptyQueue
    <2>1. CASE m_callbacks_pending = <<>>
        BY <1>1, <1>14, <2>1 DEF EmptyQueue
    <2>2. CASE m_callbacks_pending # <<>>
        <3>1. Head(m_callbacks_pending) \in Callbacks /\ Tail(m_callbacks_pending) \in Seq(Callbacks)
            BY <1>1, <2>2, HeadTyped
        <3>2. Append(ran, Head(m_callbacks_pending)) \in Seq(Callbacks)
            BY <1>1, <3>1
        <3>3. QED
            BY <1>1, <1>14, <2>2, <3>1, <3>2 DEF EmptyQueue
    <2>3. QED
        BY <2>1, <2>2
<1>15. QED
    BY <1>3, <1>4, <1>5, <1>6, <1>7, <1>8, <1>9, <1>10, <1>11, <1>12, <1>13, <1>14 DEF Next
-----------------------------------------------------------------------------
(* One ProcessQueue at most, and callbacks in their order.                  *)

\* Waking threads does not change which of them process callbacks.
LEMMA WakesActive ==
    ASSUME NEW ths \in [Threads -> ThreadType], NEW new \in [Threads -> ThreadType],
           \A t \in Threads : Wakes(ths, new, t)
    PROVE  ActiveIn(new) = ActiveIn(ths)
BY DEF ActiveIn, Wakes, ThreadType

Ended(t) == [th EXCEPT ![t] = Thread("awake", Nothing, 0, th[t].intr)]

\* A thread that comes back no longer processes callbacks.
LEMMA EndedActive ==
    ASSUME th \in [Threads -> ThreadType], NEW t \in Threads
    PROVE  ActiveIn(Ended(t)) = ActiveIn(th) \ {t}
BY DEF ActiveIn, Ended, Thread, Nothing

\* Kinds of any assignment of records to threads.
KindsOf(ths) ==
    \A t \in Threads :
        /\ ths[t].at = "job" => ths[t].f \in Callbacks
        /\ ths[t].at \notin {"run", "job"} => ths[t].f = Nothing
        /\ t \notin setting.threads => ths[t].at = "done"

LEMMA WakesKinds ==
    ASSUME NEW ths \in [Threads -> ThreadType], NEW new, KindsOf(ths),
           \A t \in Threads : Wakes(ths, new, t)
    PROVE  KindsOf(new)
BY DEF KindsOf, Wakes

LEMMA KindsStart == Init => Kinds /\ Joined
BY DEF Init, Kinds, Joined, Thread

LEMMA KindsKept == Typed /\ Typed' /\ Kinds /\ Joined /\ [Next]_vars => Kinds' /\ Joined'
<1> SUFFICES ASSUME Typed, Typed', Kinds, Joined, [Next]_vars PROVE Kinds' /\ Joined'
    OBVIOUS
<1>1. th \in [Threads -> ThreadType] /\ taskQueue \in Seq(Entry) /\ m_callbacks_pending \in Seq(Callbacks)
    BY TypedParts
<1>2. KindsOf(th)
    BY DEF Kinds, KindsOf
<1> DEFINE Goal == /\ setting' = setting /\ KindsOf(th')
                   /\ flush' # "no" => \A u \in Threads : th'[u].at = "done"
<1>3. SUFFICES Goal
    BY DEF Kinds, Joined, KindsOf
<1>4. ASSUME setting' = setting, flush' = flush, KindsOf(th'),
             \A u \in Threads : th[u].at = "done" => th'[u].at = "done"
      PROVE  Goal
    BY <1>4 DEF Joined
<1>5. ASSUME setting' = setting, flush' = flush, \A u \in Threads : Wakes(th, th', u) PROVE Goal
    BY <1>1, <1>2, <1>4, <1>5, WakesKinds DEF Wakes
<1>6. ASSUME NEW t \in Threads, th[t].at # "done", setting' = setting, flush' = flush,
             \A u \in Threads : Wakes(Ended(t), th', u)
      PROVE  Goal
    <2>1. Ended(t) \in [Threads -> ThreadType]
        BY <1>1, EndedTyped DEF Ended
    <2>2. KindsOf(Ended(t))
        BY <1>1, <1>2, <1>6 DEF Ended, Thread, KindsOf
    <2>3. KindsOf(th')
        BY <1>6, <2>1, <2>2, WakesKinds
    <2>4. \A u \in Threads : th[u].at = "done" => th'[u].at = "done"
        BY <1>1, <1>6 DEF Ended, Thread, Wakes
    <2>5. QED
        BY <1>4, <1>6, <2>3, <2>4
<1>7. ASSUME NEW t \in Threads, th[t].at # "done", setting' = setting, flush' = flush, th' \in LoopedAt(t)
      PROVE  Goal
    <2>1. /\ \A u \in Threads \ {t} : Wakes(th, th', u)
          /\ th'[t].f = Nothing /\ th'[t].at \in {"done", "wait", "timed"}
        BY <1>7, LoopedEndsOrWaits
    <2>2. KindsOf(th')
        BY <1>1, <1>2, <1>7, <2>1 DEF KindsOf, Wakes
    <2>3. \A u \in Threads : th[u].at = "done" => th'[u].at = "done"
        BY <1>7, <2>1 DEF Wakes
    <2>4. QED
        BY <1>4, <1>7, <2>2, <2>3
<1> USE DEF queue, stops, client, ghosts
<1>a. \A u \in Threads : Wakes(th, th, u)
    BY DEF Wakes
<1>b. ASSUME NEW t \in Threads PROVE \A u \in Threads : Wakes(Ended(t), Ended(t), u)
    BY DEF Wakes
<1>8. CASE UNCHANGED vars
    BY <1>5, <1>8, <1>a DEF vars
<1>9. ASSUME NEW t \in Threads, serviceQueue(t) PROVE Goal
    BY <1>7, <1>9 DEF serviceQueue
<1>10. ASSUME NEW t \in Threads, TimedOut(t) PROVE Goal
    <2>1. CASE shouldStop \/ taskQueue = <<>>
        BY <1>7, <1>10, <2>1 DEF TimedOut
    <2>2. CASE ~(shouldStop \/ taskQueue = <<>>)
        BY <1>1, <1>2, <1>4, <1>10, <2>2 DEF TimedOut, Thread, KindsOf
    <2>3. QED
        BY <2>1, <2>2
<1>11. ASSUME NEW t \in Threads, RunTask(t) PROVE Goal
    <2>1. th' = Ended(t) \/ th' \in Notified(Ended(t))
        BY <1>11 DEF RunTask, Ended
    <2>2. \A u \in Threads : Wakes(Ended(t), th', u)
        <3>1. Ended(t) \in [Threads -> ThreadType]
            BY <1>1, EndedTyped DEF Ended
        <3>2. QED
            BY <1>b, <2>1, <3>1, NotifiedWakes
    <2>3. QED
        BY <1>6, <1>11, <2>2 DEF RunTask
<1>12. ASSUME NEW t \in Threads, CallbackDone(t) PROVE Goal
    <2>1. th' = Ended(t) \/ th' \in Notified(Ended(t))
        BY <1>12 DEF CallbackDone, Ended
    <2>2. \A u \in Threads : Wakes(Ended(t), th', u)
        <3>1. Ended(t) \in [Threads -> ThreadType]
            BY <1>1, EndedTyped DEF Ended
        <3>2. QED
            BY <1>b, <2>1, <3>1, NotifiedWakes
    <2>3. QED
        BY <1>6, <1>12, <2>2 DEF CallbackDone
<1>13. ASSUME NEW t \in Threads, ProcessQueue(t) PROVE Goal
    <2>1. CASE m_callbacks_pending = <<>>
        BY <1>6, <1>b, <1>13, <2>1 DEF ProcessQueue, Ended
    <2>2. CASE m_callbacks_pending # <<>>
        <3>1. Head(m_callbacks_pending) \in Callbacks
            BY <1>1, <2>2, HeadTyped
        <3>2. QED
            <4>1. th' = [th EXCEPT ![t].at = "job", ![t].f = Head(m_callbacks_pending)]
                  /\ th[t].at = "run" /\ setting' = setting /\ flush' = flush
                BY <1>13, <2>2 DEF ProcessQueue
            <4>2. KindsOf(th')
                BY <1>1, <1>2, <3>1, <4>1 DEF KindsOf, ThreadType
            <4>3. \A u \in Threads : th[u].at = "done" => th'[u].at = "done"
                BY <1>1, <4>1
            <4>4. QED
                BY <1>4, <4>1, <4>2, <4>3
    <2>3. QED
        BY <2>1, <2>2
<1>14. ASSUME NEW f \in Once \cup Every, scheduleFromNow(f) PROVE Goal
    BY <1>1, <1>5, <1>14, NotifiedWakes DEF scheduleFromNow
<1>15. ASSUME NEW drain \in BOOLEAN, stop(drain) PROVE Goal
    <2>1. \A u \in Threads : Wakes(th, th', u)
        BY <1>1, <1>15 DEF stop, Waiting, Wakes, ThreadType
    <2>2. QED
        BY <1>5, <1>15, <2>1 DEF stop
<1>16. ASSUME NEW c \in Callbacks, AddToProcessQueue(c) PROVE Goal
    <2>1. th' = th \/ th' \in Notified(th)
        BY <1>16 DEF AddToProcessQueue
    <2>2. QED
        BY <1>1, <1>5, <1>16, <1>a, <2>1, NotifiedWakes DEF AddToProcessQueue
<1>17. CASE Interrupt
    <2>1. UNCHANGED <<setting, flush>>
        BY <1>17 DEF Interrupt
    <2>2. ASSUME NEW u \in Threads
          PROVE  /\ th'[u].f = th[u].f
                 /\ th'[u].at = IF th[u].at \in {"wait", "timed"} THEN "awake" ELSE th[u].at
        BY <1>1, <1>17, InterruptedThread
    <2>3. KindsOf(th') /\ \A u \in Threads : th[u].at = "done" => th'[u].at = "done"
        BY <1>2, <2>2 DEF KindsOf
    <2>4. QED
        BY <1>4, <2>1, <2>3
<1>18. CASE Tick
    <2>1. UNCHANGED <<setting, flush>>
        BY <1>18 DEF Tick
    <2>2. ASSUME NEW u \in Threads PROVE th'[u].f = th[u].f /\ th'[u].at = th[u].at
        BY <1>1, <1>18 DEF Tick, ThreadType
    <2>3. KindsOf(th') /\ \A u \in Threads : th[u].at = "done" => th'[u].at = "done"
        BY <1>2, <2>2 DEF KindsOf
    <2>4. QED
        BY <1>4, <2>1, <2>3
<1>19. CASE EmptyQueue
    BY <1>1, <1>2, <1>19 DEF EmptyQueue
<1>20. QED
    BY <1>8, <1>9, <1>10, <1>11, <1>12, <1>13, <1>14, <1>15, <1>16, <1>17, <1>18, <1>19 DEF Next

\* Taking the first task of the queue.
LEMMA TailQueued ==
    ASSUME NEW q \in Seq(Entry), q # <<>>, AtMostOne(QueuedIn(q))
    PROVE  /\ AtMostOne(QueuedIn(Tail(q)))
           /\ Head(q).f # "ProcessQueue" => (QueuedIn(Tail(q)) = {} <=> QueuedIn(q) = {})
           /\ Head(q).f = "ProcessQueue" => 1 \in QueuedIn(q) /\ QueuedIn(Tail(q)) = {}
<1>1. Len(q) \in Nat /\ Len(q) # 0 /\ DOMAIN q = 1 .. Len(q) /\ Head(q) = q[1]
    BY HeadTyped
<1>2. DOMAIN Tail(q) = 1 .. Len(q) - 1 /\ \A i \in 1 .. Len(q) - 1 : Tail(q)[i] = q[i + 1]
    <2>1. Len(Tail(q)) = Len(q) - 1 /\ Tail(q) \in Seq(Entry)
        BY <1>1
    <2>2. \A i \in 1 .. Len(q) - 1 : Tail(q)[i] = q[i + 1]
        BY <1>1
    <2>3. QED
        BY <2>1, <2>2
<1>3. \A i \in QueuedIn(Tail(q)) : i \in Nat /\ i > 0 /\ i + 1 \in QueuedIn(q)
    BY <1>1, <1>2 DEF QueuedIn
<1>4. \A i \in QueuedIn(q) : i \in Nat /\ (i = 1 \/ i - 1 \in QueuedIn(Tail(q)))
    <2> SUFFICES ASSUME NEW i \in QueuedIn(q), i # 1 PROVE i \in Nat /\ i - 1 \in QueuedIn(Tail(q))
        BY <1>1 DEF QueuedIn
    <2>1. i \in 1 .. Len(q) /\ q[i].f = "ProcessQueue"
        BY <1>1 DEF QueuedIn
    <2>2. i - 1 \in 1 .. Len(q) - 1 /\ (i - 1) + 1 = i
        BY <1>1, <2>1
    <2>3. QED
        BY <1>2, <2>1, <2>2 DEF QueuedIn
<1>5. 1 \in QueuedIn(q) <=> Head(q).f = "ProcessQueue"
    BY <1>1 DEF QueuedIn
<1>6. QED
    BY <1>3, <1>4, <1>5 DEF AtMostOne

One(q, ths, running, pending) ==
    /\ AtMostOne(QueuedIn(q)) /\ AtMostOne(ActiveIn(ths))
    /\ QueuedIn(q) = {} \/ ActiveIn(ths) = {}
    /\ running <=> QueuedIn(q) # {} \/ ActiveIn(ths) # {}
    /\ pending # <<>> => running

LEMMA OneStarts == Init => OneProcessing
<1> SUFFICES ASSUME Init PROVE OneProcessing
    OBVIOUS
<1>1. QueuedIn(taskQueue) = {}
    BY DEF Init, QueuedIn
<1>2. ActiveIn(th) = {}
    BY DEF Init, ActiveIn, Thread, Nothing
<1>3. QED
    BY <1>1, <1>2 DEF OneProcessing, AtMostOne, Init

LEMMA OneKept ==
    Typed /\ Typed' /\ Kinds /\ OneProcessing /\ [Next]_vars => OneProcessing'
<1> SUFFICES ASSUME Typed, Typed', Kinds, OneProcessing, [Next]_vars PROVE OneProcessing'
    OBVIOUS
<1> DEFINE Goal == flush' = "no" => One(taskQueue', th', m_are_callbacks_running', m_callbacks_pending')
<1>0. SUFFICES Goal
    BY DEF OneProcessing, One
<1>1. /\ th \in [Threads -> ThreadType] /\ taskQueue \in Seq(Entry)
      /\ m_callbacks_pending \in Seq(Callbacks) /\ th' \in [Threads -> ThreadType]
      /\ m_are_callbacks_running \in BOOLEAN
    BY TypedParts DEF Typed, TypeOK, ThreadType
<1>2. flush = "no" => One(taskQueue, th, m_are_callbacks_running, m_callbacks_pending)
    BY DEF OneProcessing, One
<1>3. ASSUME flush' = flush, m_are_callbacks_running' = m_are_callbacks_running,
             m_callbacks_pending' = m_callbacks_pending, ActiveIn(th') = ActiveIn(th),
             AtMostOne(QueuedIn(taskQueue)) => AtMostOne(QueuedIn(taskQueue')),
             QueuedIn(taskQueue') = {} <=> QueuedIn(taskQueue) = {}
      PROVE  Goal
    BY <1>2, <1>3 DEF One
<1>4. ASSUME NEW t \in Threads, th[t].at \in {"awake", "timed"}, th' \in LoopedAt(t)
      PROVE  ActiveIn(th') = ActiveIn(th)
    <2>1. /\ \A u \in Threads \ {t} : Wakes(th, th', u)
          /\ th'[t].f = Nothing /\ th'[t].at \in {"done", "wait", "timed"}
        BY <1>4, LoopedEndsOrWaits
    <2>2. th[t].f = Nothing
        BY <1>4 DEF Kinds
    <2>3. QED
        BY <1>1, <1>4, <2>1, <2>2 DEF ActiveIn, Wakes, Nothing
<1> USE DEF queue, stops, client, ghosts
<1>5. CASE UNCHANGED vars
    BY <1>3, <1>5 DEF vars
<1>6. ASSUME NEW t \in Threads, serviceQueue(t) PROVE Goal
    BY <1>3, <1>4, <1>6 DEF serviceQueue
<1>7. ASSUME NEW t \in Threads, TimedOut(t) PROVE Goal
    <2>1. CASE shouldStop \/ taskQueue = <<>>
        BY <1>3, <1>4, <1>7, <2>1 DEF TimedOut
    <2>2. CASE ~(shouldStop \/ taskQueue = <<>>)
        <3> SUFFICES ASSUME flush = "no"
                     PROVE  One(taskQueue', th', m_are_callbacks_running', m_callbacks_pending')
            BY <1>7 DEF TimedOut
        <3>1. /\ th' = [th EXCEPT ![t] = Thread("run", Head(taskQueue).f, Head(taskQueue).time, th[t].intr)]
              /\ taskQueue' = Tail(taskQueue) /\ UNCHANGED client
            BY <1>7, <2>2 DEF TimedOut
        <3>2. th[t].f = Nothing /\ th[t].at = "timed"
            BY <1>7 DEF TimedOut, Kinds
        <3>3. One(taskQueue, th, m_are_callbacks_running, m_callbacks_pending)
            BY <1>2
        <3>4. AtMostOne(QueuedIn(taskQueue))
            BY <3>3 DEF One
        <3>5. CASE Head(taskQueue).f = "ProcessQueue"
            <4>1. ActiveIn(th) = {}
                BY <1>1, <2>2, <3>3, <3>4, <3>5, TailQueued DEF One
            <4>2. ActiveIn(th') = {t}
                BY <1>1, <3>1, <3>5, <4>1 DEF ActiveIn, Thread
            <4>3. QueuedIn(taskQueue') = {} /\ QueuedIn(taskQueue) # {}
                BY <1>1, <2>2, <3>1, <3>4, <3>5, TailQueued
            <4>4. QED
                BY <3>1, <3>3, <4>2, <4>3 DEF One, AtMostOne
        <3>6. CASE Head(taskQueue).f # "ProcessQueue"
            <4>1. ActiveIn(th') = ActiveIn(th)
                BY <1>1, <3>1, <3>2, <3>6 DEF ActiveIn, Thread, Nothing
            <4>2. /\ AtMostOne(QueuedIn(taskQueue'))
                  /\ QueuedIn(taskQueue') = {} <=> QueuedIn(taskQueue) = {}
                BY <1>1, <2>2, <3>1, <3>4, <3>6, TailQueued
            <4>3. QED
                BY <3>1, <3>3, <4>1, <4>2 DEF One
        <3>7. QED
            BY <3>5, <3>6
    <2>3. QED
        BY <2>1, <2>2
<1>a. ASSUME NEW t \in Threads, th' = Ended(t) \/ th' \in Notified(Ended(t))
      PROVE  ActiveIn(th') = ActiveIn(th) \ {t}
    <2>1. Ended(t) \in [Threads -> ThreadType]
        BY <1>1, EndedTyped DEF Ended
    <2>2. th' = Ended(t) \/ \A u \in Threads : Wakes(Ended(t), th', u)
        BY <1>a, <2>1, NotifiedWakes
    <2>3. QED
        BY <1>1, <2>1, <2>2, WakesActive, EndedActive
<1>8. ASSUME NEW t \in Threads, RunTask(t) PROVE Goal
    <2>1. t \notin ActiveIn(th)
        BY <1>8 DEF RunTask, ActiveIn
    <2>2. ActiveIn(th') = ActiveIn(th)
        <3>1. th' = Ended(t) \/ th' \in Notified(Ended(t))
            BY <1>8 DEF RunTask, Ended
        <3>2. QED
            BY <1>a, <2>1, <3>1
    <2>3. CASE th[t].f \in Every
        <3>1. taskQueue' = Inserted(th[t].f, Delta)
            BY <1>8, <2>3 DEF RunTask
        <3>2. th[t].f \in Tasks /\ th[t].f # "ProcessQueue" /\ Delta \in 0 .. Delta
            BY <2>3, SchedulerConstants DEF Tasks
        <3>3. QED
            BY <1>1, <1>3, <1>8, <2>2, <3>1, <3>2, InsertOther DEF RunTask
    <2>4. CASE th[t].f \notin Every
        BY <1>3, <1>8, <2>2, <2>4 DEF RunTask
    <2>5. QED
        BY <2>3, <2>4
<1>9. ASSUME NEW t \in Threads, ProcessQueue(t) PROVE Goal
    <2> SUFFICES ASSUME flush = "no"
                 PROVE  One(taskQueue', th', m_are_callbacks_running', m_callbacks_pending')
        BY <1>9 DEF ProcessQueue
    <2>1. One(taskQueue, th, m_are_callbacks_running, m_callbacks_pending) /\ t \in ActiveIn(th)
        BY <1>2, <1>9 DEF ProcessQueue, ActiveIn
    <2>2. ActiveIn(th) = {t} /\ QueuedIn(taskQueue) = {}
        BY <2>1 DEF One, AtMostOne
    <2>3. CASE m_callbacks_pending = <<>>
        <3>1. th' = Ended(t)
            BY <1>9, <2>3 DEF ProcessQueue, Ended
        <3>2. ActiveIn(th') = {}
            BY <1>a, <2>2, <3>1
        <3>3. QED
            BY <1>9, <2>2, <2>3, <3>2 DEF ProcessQueue, One, AtMostOne
    <2>4. CASE m_callbacks_pending # <<>>
        <3>1. th' = [th EXCEPT ![t].at = "job", ![t].f = Head(m_callbacks_pending)]
            BY <1>9, <2>4 DEF ProcessQueue
        <3>2. ActiveIn(th') = {t}
            BY <1>1, <2>2, <3>1 DEF ActiveIn, ThreadType
        <3>3. QED
            BY <1>9, <2>1, <2>2, <2>4, <3>2 DEF ProcessQueue, One, AtMostOne
    <2>5. QED
        BY <2>3, <2>4
<1>b. ASSUME QueuedIn(taskQueue) = {}, taskQueue' = Inserted("ProcessQueue", 0)
      PROVE  QueuedIn(taskQueue') # {} /\ AtMostOne(QueuedIn(taskQueue'))
    BY <1>1, <1>b, InsertProcess
<1>10. ASSUME NEW t \in Threads, CallbackDone(t) PROVE Goal
    <2> SUFFICES ASSUME flush = "no"
                 PROVE  One(taskQueue', th', m_are_callbacks_running', m_callbacks_pending')
        BY <1>10 DEF CallbackDone
    <2>1. One(taskQueue, th, m_are_callbacks_running, m_callbacks_pending) /\ t \in ActiveIn(th)
        BY <1>2, <1>10 DEF CallbackDone, ActiveIn
    <2>2. ActiveIn(th) = {t} /\ QueuedIn(taskQueue) = {}
        BY <2>1 DEF One, AtMostOne
    <2>3. ActiveIn(th') = {}
        <3>1. th' = Ended(t) \/ th' \in Notified(Ended(t))
            BY <1>10 DEF CallbackDone, Ended
        <3>2. QED
            BY <1>a, <2>2, <3>1
    <2>4. CASE m_callbacks_pending = <<>>
        BY <1>10, <2>2, <2>3, <2>4 DEF CallbackDone, One, AtMostOne
    <2>5. CASE m_callbacks_pending # <<>>
        BY <1>10, <1>b, <2>1, <2>2, <2>3, <2>5 DEF CallbackDone, One, AtMostOne
    <2>6. QED
        BY <2>4, <2>5
<1>c. ASSUME th' = th \/ th' \in Notified(th) PROVE ActiveIn(th') = ActiveIn(th)
    BY <1>1, <1>c, NotifiedWakes, WakesActive
<1>11. ASSUME NEW f \in Once \cup Every, scheduleFromNow(f) PROVE Goal
    <2>1. f \in Tasks /\ f # "ProcessQueue" /\ Delta \in 0 .. Delta
        BY SchedulerConstants DEF Tasks
    <2>2. QED
        BY <1>1, <1>3, <1>11, <1>c, <2>1, InsertOther DEF scheduleFromNow
<1>12. ASSUME NEW drain \in BOOLEAN, stop(drain) PROVE Goal
    <2>1. ActiveIn(th') = ActiveIn(th)
        <3>1. \A u \in Threads : Wakes(th, th', u)
            BY <1>1, <1>12 DEF stop, Waiting, Wakes, ThreadType
        <3>2. QED
            BY <1>1, <3>1, WakesActive
    <2>2. QED
        BY <1>3, <1>12, <2>1 DEF stop
<1>13. ASSUME NEW c \in Callbacks, AddToProcessQueue(c) PROVE Goal
    <2> SUFFICES ASSUME flush = "no"
                 PROVE  One(taskQueue', th', m_are_callbacks_running', m_callbacks_pending')
        BY <1>13 DEF AddToProcessQueue
    <2>1. One(taskQueue, th, m_are_callbacks_running, m_callbacks_pending)
        BY <1>2
    <2>2. m_are_callbacks_running' /\ ActiveIn(th') = ActiveIn(th)
        BY <1>13, <1>c DEF AddToProcessQueue
    <2>3. CASE m_are_callbacks_running
        BY <1>13, <2>1, <2>2, <2>3 DEF AddToProcessQueue, One
    <2>4. CASE ~m_are_callbacks_running
        BY <1>13, <1>b, <2>1, <2>2, <2>4 DEF AddToProcessQueue, One
    <2>5. QED
        BY <2>3, <2>4
<1>14. CASE Interrupt
    <2>1. ActiveIn(th') = ActiveIn(th)
        <3>1. ASSUME NEW u \in Threads
              PROVE  /\ th'[u].f = th[u].f
                     /\ th'[u].at = IF th[u].at \in {"wait", "timed"} THEN "awake" ELSE th[u].at
            BY <1>1, <1>14, InterruptedThread
        <3>2. ASSUME NEW u \in Threads PROVE th'[u].at = "job" <=> th[u].at = "job"
            BY <3>1
        <3>3. QED
            BY <3>1, <3>2 DEF ActiveIn
    <2>2. QED
        BY <1>3, <1>14, <2>1 DEF Interrupt
<1>15. CASE Tick
    <2>1. ActiveIn(th') = ActiveIn(th)
        <3>1. ASSUME NEW u \in Threads PROVE th'[u].f = th[u].f /\ th'[u].at = th[u].at
            BY <1>1, <1>15 DEF Tick, ThreadType
        <3>2. QED
            BY <3>1 DEF ActiveIn
    <2>2. QueuedIn(taskQueue') = QueuedIn(taskQueue)
        BY <1>1, <1>15 DEF Tick, QueuedIn, Entry
    <2>3. QED
        BY <1>3, <1>15, <2>1, <2>2 DEF Tick
<1>16. CASE EmptyQueue
    BY <1>16 DEF EmptyQueue
<1>17. QED
    BY <1>5, <1>6, <1>7, <1>8, <1>9, <1>10, <1>11, <1>12, <1>13, <1>14, <1>15, <1>16 DEF Next

\* What is begun is the first of what is pending.
LEMMA BegunFirst ==
    ASSUME NEW S, NEW r \in Seq(S), NEW p \in Seq(S), p # <<>>
    PROVE  r \o p = Append(r, Head(p)) \o Tail(p)
<1>1. Len(p) \in Nat /\ Len(p) # 0 /\ Len(r) \in Nat /\ Head(p) = p[1] /\ p[1] \in S
      /\ Tail(p) \in Seq(S) /\ Len(Tail(p)) = Len(p) - 1
    BY HeadTyped
<1> DEFINE a == Append(r, Head(p))
           q == Tail(p)
<1>2. \A i \in 1 .. Len(p) - 1 : q[i] = p[i + 1]
    BY <1>1
<1>3. a \in Seq(S) /\ Len(a) = Len(r) + 1 /\ a[Len(r) + 1] = p[1]
      /\ \A i \in 1 .. Len(r) : a[i] = r[i]
    BY <1>1
<1>4. q \in Seq(S) /\ Len(q) = Len(p) - 1
    BY <1>1
<1> HIDE DEF a, q
<1>5. r \o p \in Seq(S) /\ Len(r \o p) = Len(r) + Len(p)
    OBVIOUS
<1>6. a \o q \in Seq(S) /\ Len(a \o q) = Len(r) + Len(p)
    <2>1. a \o q \in Seq(S) /\ Len(a \o q) = Len(a) + Len(q)
        BY ONLY <1>3, <1>4
    <2>2. QED
        BY ONLY <1>1, <1>3, <1>4, <2>1
<1>7. ASSUME NEW i \in 1 .. Len(r) + Len(p) PROVE (r \o p)[i] = (a \o q)[i]
    <2>1. CASE i <= Len(r)
        BY <1>1, <1>3, <1>4, <2>1
    <2>2. CASE i = Len(r) + 1
        BY <1>1, <1>3, <1>4, <2>2
    <2>3. CASE i > Len(r) + 1
        <3>1. i - (Len(r) + 1) \in 1 .. Len(p) - 1 /\ (i - (Len(r) + 1)) + 1 = i - Len(r)
            BY <1>1, <2>3
        <3>2. (a \o q)[i] = q[i - (Len(r) + 1)]
            BY <1>1, <1>3, <1>4, <2>3
        <3>3. (r \o p)[i] = p[i - Len(r)]
            BY <1>1, <2>3
        <3>4. QED
            BY <1>2, <3>1, <3>2, <3>3
    <2>4. i <= Len(r) \/ i = Len(r) + 1 \/ i > Len(r) + 1
        BY ONLY <1>1, <1>7
    <2>5. QED
        BY ONLY <2>1, <2>2, <2>3, <2>4
<1>8. r \o p = a \o q
    BY <1>5, <1>6, <1>7
<1>9. QED
    BY <1>8 DEF a, q

LEMMA OrderStarts == Init => CallbacksInOrder
BY DEF Init, CallbacksInOrder

LEMMA OrderKept == Typed /\ CallbacksInOrder /\ [Next]_vars => CallbacksInOrder'
<1> SUFFICES ASSUME Typed, CallbacksInOrder, [Next]_vars PROVE CallbacksInOrder'
    OBVIOUS
<1>1. ran \in Seq(Callbacks) /\ m_callbacks_pending \in Seq(Callbacks) /\ added = ran \o m_callbacks_pending
    BY TypedParts DEF CallbacksInOrder
<1>2. ASSUME UNCHANGED <<added, ran, m_callbacks_pending>> PROVE CallbacksInOrder'
    BY <1>1, <1>2 DEF CallbacksInOrder
<1>3. ASSUME m_callbacks_pending # <<>>, m_callbacks_pending' = Tail(m_callbacks_pending),
             ran' = Append(ran, Head(m_callbacks_pending)), added' = added
      PROVE  CallbacksInOrder'
    BY <1>1, <1>3, BegunFirst DEF CallbacksInOrder
<1> USE DEF queue, stops, client, ghosts
<1>4. CASE UNCHANGED vars
    BY <1>2, <1>4 DEF vars
<1>5. ASSUME NEW t \in Threads, serviceQueue(t) \/ TimedOut(t) \/ RunTask(t) \/ CallbackDone(t)
      PROVE  CallbacksInOrder'
    BY <1>2, <1>5 DEF serviceQueue, TimedOut, RunTask, CallbackDone
<1>6. ASSUME NEW t \in Threads, ProcessQueue(t) PROVE CallbacksInOrder'
    BY <1>2, <1>3, <1>6 DEF ProcessQueue
<1>7. ASSUME NEW f \in Once \cup Every, scheduleFromNow(f) PROVE CallbacksInOrder'
    BY <1>2, <1>7 DEF scheduleFromNow
<1>8. ASSUME NEW drain \in BOOLEAN, stop(drain) PROVE CallbacksInOrder'
    BY <1>2, <1>8 DEF stop
<1>9. ASSUME NEW c \in Callbacks, AddToProcessQueue(c) PROVE CallbacksInOrder'
    <2>1. /\ m_callbacks_pending' = Append(m_callbacks_pending, c)
          /\ added' = Append(added, c) /\ ran' = ran
        BY <1>9 DEF AddToProcessQueue
    <2>2. Append(ran \o m_callbacks_pending, c) = ran \o Append(m_callbacks_pending, c)
        <3>1. ran \in Seq(Callbacks) /\ m_callbacks_pending \in Seq(Callbacks) /\ c \in Callbacks
            BY <1>1
        <3>2. QED
            BY ONLY <3>1
    <2>3. QED
        BY ONLY <1>1, <2>1, <2>2 DEF CallbacksInOrder
<1>10. CASE Interrupt \/ Tick
    BY <1>2, <1>10 DEF Interrupt, Tick
<1>11. CASE EmptyQueue
    BY <1>2, <1>3, <1>11 DEF EmptyQueue
<1>12. QED
    BY <1>4, <1>5, <1>6, <1>7, <1>8, <1>9, <1>10, <1>11 DEF Next
-----------------------------------------------------------------------------
(* Tasks in time.                                                           *)

\* Where there is one service thread, two that are at work are the same.
LEMMA OnlyThread ==
    ASSUME Typed, Kinds, Cardinality(setting.threads) = 1,
           NEW t \in Threads, NEW u \in Threads, th[t].at # "done", th[u].at # "done"
    PROVE  t = u
<1>1. t \in setting.threads /\ u \in setting.threads
    BY DEF Kinds
<1>2. IsFiniteSet(setting.threads)
    <2>1. setting.threads \subseteq Threads
        BY SchedulerConstants DEF Typed, TypeOK
    <2>2. QED
        BY <2>1, SchedulerConstants, FS_Subset
<1>3. PICK x : setting.threads = {x}
    BY <1>2, FS_Singleton
<1>4. QED
    BY <1>1, <1>3

LEMMA PunctualStarts == Init => Punctual
BY DEF Init, Punctual, Thread

LEMMA PunctualKept ==
    Typed /\ Typed' /\ Kinds /\ Kinds' /\ Punctual /\ [Next]_vars => Punctual'
<1> SUFFICES ASSUME Typed, Typed', Kinds, Kinds', Punctual, [Next]_vars PROVE Punctual'
    OBVIOUS
<1> DEFINE Goal == \A t \in Threads :
              /\ th'[t].at = "timed" => taskQueue' # <<>> /\ taskQueue'[1].time <= th'[t].until
              /\ th'[t].at = "run" => th'[t].until = 0
<1>0. SUFFICES ASSUME Cardinality(setting.threads) = 1 PROVE Goal
    <2>1. setting' = setting
        BY DEF Next, vars, queue, serviceQueue, TimedOut, RunTask, ProcessQueue, CallbackDone,
               scheduleFromNow, stop, AddToProcessQueue, Interrupt, Tick, EmptyQueue
    <2>2. QED
        BY <2>1 DEF Punctual
<1>1. /\ th \in [Threads -> ThreadType] /\ taskQueue \in Seq(Entry)
      /\ \A t \in Threads : th[t].until \in 0 .. Delta
    BY TypedParts DEF ThreadType
<1>2. \A t \in Threads :
          /\ th[t].at = "timed" => taskQueue # <<>> /\ taskQueue[1].time <= th[t].until
          /\ th[t].at = "run" => th[t].until = 0
    BY <1>0 DEF Punctual
<1>3. \A t, u \in Threads : th[t].at # "done" /\ th[u].at # "done" => t = u
    BY <1>0, OnlyThread
<1>4. ASSUME taskQueue' = taskQueue, \A t \in Threads : Wakes(th, th', t) PROVE Goal
    BY <1>2, <1>4 DEF Wakes
<1>a. ASSUME NEW t \in Threads, th' \in Notified(Ended(t)), th[t].at # "done" PROVE Goal
    <2>1. Ended(t) \in [Threads -> ThreadType]
        BY <1>1, EndedTyped DEF Ended
    <2>2. \A u \in Threads : Wakes(Ended(t), th', u)
        BY <1>a, <2>1, NotifiedWakes
    <2>3. \A u \in Threads : u # t => th[u].at = "done"
        BY <1>3, <1>a
    <2>4. QED
        BY <1>1, <2>2, <2>3 DEF Wakes, Ended, Thread
<1>b. ASSUME NEW t \in Threads, th' = Ended(t), th[t].at # "done" PROVE Goal
    BY <1>1, <1>3, <1>b DEF Ended, Thread
<1>c. ASSUME th' \in Notified(th) PROVE Goal
    <2>1. /\ \A u \in Threads : Wakes(th, th', u)
          /\ \A t \in Threads : th'[t].at = "timed" => \E u \in Threads : u # t /\ th[u].at # "done"
        BY <1>1, <1>c, NotifiedWakes
    <2>2. \A t \in Threads : th'[t].at # "timed"
        BY <1>3, <2>1 DEF Wakes
    <2>3. QED
        BY <1>2, <2>1, <2>2 DEF Wakes
<1>d. ASSUME NEW t \in Threads, th[t].at # "done", th' \in LoopedAt(t), taskQueue' = taskQueue PROVE Goal
    <2>1. /\ \A u \in Threads \ {t} : Wakes(th, th', u)
          /\ th'[t].at \in {"done", "wait", "timed"}
          /\ th'[t].at = "timed" => taskQueue # <<>> /\ th'[t].until = taskQueue[1].time
        BY <1>d, LoopedEndsOrWaits
    <2>2. ASSUME taskQueue # <<>> PROVE taskQueue[1].time \in Nat
        <3>1. taskQueue[1] \in Entry
            BY <1>1, <2>2, HeadTyped
        <3>2. QED
            BY <3>1 DEF Entry
    <2>3. \A u \in Threads : u # t => th[u].at = "done"
        BY <1>3, <1>d
    <2>4. QED
        BY <1>d, <2>1, <2>2, <2>3 DEF Wakes
<1> USE DEF queue, stops, client, ghosts
<1>5. CASE UNCHANGED vars
    BY <1>2, <1>5 DEF vars
<1>6. ASSUME NEW t \in Threads, serviceQueue(t) PROVE Goal
    BY <1>6, <1>d DEF serviceQueue
<1>7. ASSUME NEW t \in Threads, TimedOut(t) PROVE Goal
    <2>1. CASE shouldStop \/ taskQueue = <<>>
        BY <1>7, <1>d, <2>1 DEF TimedOut
    <2>2. CASE ~(shouldStop \/ taskQueue = <<>>)
        <3>1. taskQueue[1] \in Entry /\ Head(taskQueue) = taskQueue[1]
            BY <1>1, <2>2, HeadTyped
        <3>2. taskQueue[1].time = 0
            BY <1>2, <1>7, <3>1 DEF TimedOut, Entry
        <3>3. th' = [th EXCEPT ![t] = Thread("run", Head(taskQueue).f, Head(taskQueue).time, th[t].intr)]
            BY <1>7, <2>2 DEF TimedOut
        <3>4. \A u \in Threads : u # t => th[u].at = "done"
            BY <1>3, <1>7 DEF TimedOut
        <3>5. QED
            BY <1>1, <3>1, <3>2, <3>3, <3>4 DEF Thread
    <2>3. QED
        BY <2>1, <2>2
<1>8. ASSUME NEW t \in Threads, RunTask(t) PROVE Goal
    BY <1>8, <1>a, <1>b DEF RunTask, Ended
<1>9. ASSUME NEW t \in Threads, ProcessQueue(t) PROVE Goal
    <2>1. CASE m_callbacks_pending = <<>>
        BY <1>9, <1>b, <2>1 DEF ProcessQueue, Ended
    <2>2. CASE m_callbacks_pending # <<>>
        <3>1. th' = [th EXCEPT ![t].at = "job", ![t].f = Head(m_callbacks_pending)] /\ th[t].at = "run"
            BY <1>9, <2>2 DEF ProcessQueue
        <3>2. \A u \in Threads : u # t => th[u].at = "done"
            BY <1>3, <3>1
        <3>3. QED
            BY <1>1, <3>1, <3>2 DEF ThreadType
    <2>3. QED
        BY <2>1, <2>2
<1>10. ASSUME NEW t \in Threads, CallbackDone(t) PROVE Goal
    BY <1>10, <1>a, <1>b DEF CallbackDone, Ended
<1>11. ASSUME NEW f \in Once \cup Every, scheduleFromNow(f) PROVE Goal
    BY <1>11, <1>c DEF scheduleFromNow
<1>12. ASSUME NEW drain \in BOOLEAN, stop(drain) PROVE Goal
    <2>1. \A u \in Threads : Wakes(th, th', u)
        BY <1>1, <1>12 DEF stop, Waiting, Wakes, ThreadType
    <2>2. QED
        BY <1>4, <1>12, <2>1 DEF stop
<1>13. ASSUME NEW c \in Callbacks, AddToProcessQueue(c) PROVE Goal
    BY <1>2, <1>13, <1>c DEF AddToProcessQueue
<1>14. CASE Interrupt
    <2>1. ASSUME NEW u \in Threads
          PROVE  /\ th'[u].until = th[u].until
                 /\ th'[u].at = IF th[u].at \in {"wait", "timed"} THEN "awake" ELSE th[u].at
        BY <1>1, <1>14, InterruptedThread
    <2>2. QED
        BY <1>2, <2>1
<1>15. CASE Tick
    <2> DEFINE Closer(n) == IF n = 0 THEN 0 ELSE n - 1
    <2>1. \A m, n \in 0 .. Delta : m <= n => Closer(m) <= Closer(n)
        BY SchedulerConstants
    <2>2. /\ taskQueue' = [i \in DOMAIN taskQueue |-> [taskQueue[i] EXCEPT !.time = Closer(@)]]
          /\ th' = [t \in Threads |->
                       IF th[t].at = "timed" THEN [th[t] EXCEPT !.until = Closer(@)] ELSE th[t]]
        BY <1>15 DEF Tick
    <2> HIDE DEF Closer
    <2> SUFFICES ASSUME NEW t \in Threads
                 PROVE  /\ th'[t].at = "timed" => taskQueue' # <<>> /\ taskQueue'[1].time <= th'[t].until
                        /\ th'[t].at = "run" => th'[t].until = 0
        OBVIOUS
    <2>3. th'[t].at = th[t].at
        BY <1>1, <2>2 DEF ThreadType
    <2>4. CASE th[t].at = "timed"
        <3>1. taskQueue # <<>> /\ taskQueue[1] \in Entry /\ taskQueue[1].time <= th[t].until
            BY <1>1, <1>2, <2>4, HeadTyped
        <3>2. Len(taskQueue) \in Nat /\ Len(taskQueue) # 0 /\ DOMAIN taskQueue = 1 .. Len(taskQueue)
            BY <1>1, <3>1
        <3>3. 1 \in DOMAIN taskQueue
            BY <3>2
        <3>4. taskQueue'[1].time = Closer(taskQueue[1].time) /\ DOMAIN taskQueue' = DOMAIN taskQueue
            BY <2>2, <3>1, <3>3 DEF Entry
        <3>5. taskQueue' # <<>>
            BY <3>3, <3>4
        <3>6. th'[t].until = Closer(th[t].until)
            BY <1>1, <2>2, <2>4 DEF ThreadType
        <3>7. taskQueue[1].time \in 0 .. Delta
            BY <3>1 DEF Entry
        <3>8. QED
            BY <1>1, <2>1, <2>3, <2>4, <3>1, <3>4, <3>5, <3>6, <3>7
    <2>5. CASE th[t].at # "timed"
        BY <1>2, <2>2, <2>3, <2>5
    <2>6. QED
        BY <2>4, <2>5
<1>16. CASE EmptyQueue
    BY <1>2, <1>16 DEF EmptyQueue
<1>17. QED
    BY <1>5, <1>6, <1>7, <1>8, <1>9, <1>10, <1>11, <1>12, <1>13, <1>14, <1>15, <1>16 DEF Next
-----------------------------------------------------------------------------
(* A drained pool.                                                          *)

LEMMA DrainingStarts == Init => Draining
<1> SUFFICES ASSUME Init PROVE Draining
    OBVIOUS
<1>1. setting.threads \subseteq Threads
    BY SchedulerConstants DEF Init
<1>2. \A t \in Threads : th[t].intr = FALSE /\ (t \in setting.threads => th[t].at = "awake")
    BY DEF Init, Thread
<1>3. QED
    BY <1>1, <1>2 DEF Init, Draining

LEMMA DrainingKept ==
    Typed /\ Typed' /\ Kinds /\ Draining /\ [Next]_vars => Draining'
<1> SUFFICES ASSUME Typed, Typed', Kinds, Draining, [Next]_vars PROVE Draining'
    OBVIOUS
<1>1. /\ th \in [Threads -> ThreadType] /\ taskQueue \in Seq(Entry) /\ setting \in Settings
      /\ setting.threads \subseteq Threads
      /\ "drain" \in setting.ops => setting.threads # {} /\ "interrupt" \notin setting.ops
    BY TypedParts, SchedulerConstants
\* Nobody ends and nobody is interrupted.
<1>2. ASSUME UNCHANGED <<setting, stopRequested, stopWhenEmpty>>,
             \A t \in Threads : th'[t].intr = th[t].intr /\ (th'[t].at = "done" <=> th[t].at = "done"),
             taskQueue' = taskQueue \/ ~stopWhenEmpty \/ \E t \in Threads : th[t].at # "done"
      PROVE  Draining'
    BY <1>1, <1>2 DEF Draining
<1>3. ASSUME NEW t \in Threads, th[t].at # "done", th' \in LoopedAt(t),
             UNCHANGED <<setting, taskQueue, stopRequested, stopWhenEmpty>>
      PROVE  Draining'
    <2>1. /\ \A u \in Threads \ {t} : Wakes(th, th', u)
          /\ th'[t].intr = th[t].intr
          /\ th'[t].at = "done" => shouldStop \/ th[t].intr
        BY <1>3, LoopedEndsOrWaits
    <2>2. \A u \in Threads \ {t} : th'[u].at = "done" <=> th[u].at = "done"
        BY <2>1 DEF Wakes
    <2>3. \A u \in Threads : th'[u].intr = th[u].intr
        BY <2>1 DEF Wakes
    <2>4. CASE th'[t].at = "done"
        <3>1. ~stopRequested /\ ~stopWhenEmpty => "interrupt" \in setting.ops
            BY <2>1, <2>4 DEF shouldStop, Draining
        <3>2. stopWhenEmpty => taskQueue = <<>>
            BY <1>1, <2>1, <2>4 DEF shouldStop, Draining
        <3>3. QED
            BY <1>3, <2>3, <3>1, <3>2 DEF Draining
    <2>5. CASE th'[t].at # "done"
        BY <1>2, <1>3, <2>2, <2>3, <2>5
    <2>6. QED
        BY <2>4, <2>5
<1>4. ASSUME NEW t \in Threads, th[t].at # "done", th' = Ended(t) \/ th' \in Notified(Ended(t)),
             UNCHANGED <<setting, stopRequested, stopWhenEmpty>>
      PROVE  Draining'
    <2>1. Ended(t) \in [Threads -> ThreadType]
        BY <1>1, EndedTyped DEF Ended
    <2>2. \A u \in Threads : th' = Ended(t) \/ Wakes(Ended(t), th', u)
        BY <1>4, <2>1, NotifiedWakes
    <2>3. \A u \in Threads : th'[u].intr = th[u].intr /\ (th'[u].at = "done" <=> th[u].at = "done")
        BY <1>1, <1>4, <2>2 DEF Wakes, Ended, Thread
    <2>4. QED
        BY <1>2, <1>4, <2>3
<1>5. ASSUME th' = th \/ th' \in Notified(th), UNCHANGED <<setting, stopRequested, stopWhenEmpty>>,
             taskQueue' = taskQueue \/ ~stopWhenEmpty \/ \E t \in Threads : th[t].at # "done"
      PROVE  Draining'
    <2>1. \A u \in Threads : th' = th \/ Wakes(th, th', u)
        BY <1>1, <1>5, NotifiedWakes
    <2>2. \A u \in Threads : th'[u].intr = th[u].intr /\ (th'[u].at = "done" <=> th[u].at = "done")
        BY <2>1 DEF Wakes
    <2>3. QED
        BY <1>2, <1>5, <2>2
<1> USE DEF queue, stops, client, ghosts
<1>6. CASE UNCHANGED vars
    BY <1>2, <1>6 DEF vars
<1>7. ASSUME NEW t \in Threads, serviceQueue(t) PROVE Draining'
    BY <1>3, <1>7 DEF serviceQueue
<1>8. ASSUME NEW t \in Threads, TimedOut(t) PROVE Draining'
    <2>1. CASE shouldStop \/ taskQueue = <<>>
        BY <1>3, <1>8, <2>1 DEF TimedOut
    <2>2. CASE ~(shouldStop \/ taskQueue = <<>>)
        BY <1>1, <1>2, <1>8, <2>2 DEF TimedOut, Thread
    <2>3. QED
        BY <2>1, <2>2
<1>9. ASSUME NEW t \in Threads, RunTask(t) \/ CallbackDone(t) PROVE Draining'
    BY <1>4, <1>9 DEF RunTask, CallbackDone, Ended
<1>10. ASSUME NEW t \in Threads, ProcessQueue(t) PROVE Draining'
    <2>1. CASE m_callbacks_pending = <<>>
        BY <1>4, <1>10, <2>1 DEF ProcessQueue, Ended
    <2>2. CASE m_callbacks_pending # <<>>
        BY <1>1, <1>2, <1>10, <2>2 DEF ProcessQueue, ThreadType
    <2>3. QED
        BY <2>1, <2>2
<1>11. ASSUME NEW f \in Once \cup Every, scheduleFromNow(f) PROVE Draining'
    BY <1>5, <1>11 DEF scheduleFromNow
<1>12. ASSUME NEW drain \in BOOLEAN, stop(drain) PROVE Draining'
    <2>1. \A u \in Threads : Wakes(th, th', u)
        BY <1>1, <1>12 DEF stop, Waiting, Wakes, ThreadType
    <2>2. /\ stopWhenEmpty' = drain /\ stopRequested' = ~drain
          /\ drain => "drain" \in setting.ops
          /\ ~stopRequested /\ ~stopWhenEmpty /\ UNCHANGED <<setting, taskQueue>>
        BY <1>12 DEF stop
    <2>3. \A t \in Threads : th'[t].intr = th[t].intr /\ (th'[t].at = "done" <=> th[t].at = "done")
        BY <2>1 DEF Wakes
    <2>4. drain => \E t \in Threads : th[t].at # "done"
        BY <1>1, <2>2 DEF Draining
    <2>5. QED
        BY <2>2, <2>3, <2>4 DEF Draining
<1>13. ASSUME NEW c \in Callbacks, AddToProcessQueue(c) PROVE Draining'
    BY <1>5, <1>13 DEF AddToProcessQueue
<1>14. CASE Interrupt
    <2>1. UNCHANGED <<setting, taskQueue, stops>> /\ "interrupt" \in setting.ops
        BY <1>14 DEF Interrupt
    <2>2. ~stopWhenEmpty
        BY <1>1, <2>1 DEF Draining
    <2>3. QED
        BY <2>1, <2>2 DEF Draining
<1>15. CASE Tick
    <2>1. \A t \in Threads : th'[t].intr = th[t].intr /\ th'[t].at = th[t].at
        BY <1>1, <1>15 DEF Tick, ThreadType
    <2>2. taskQueue = <<>> => taskQueue' = <<>>
        BY <1>1, <1>15 DEF Tick
    <2>3. QED
        BY <1>1, <1>15, <2>1, <2>2 DEF Tick, Draining
<1>16. CASE EmptyQueue
    BY <1>2, <1>16 DEF EmptyQueue
<1>17. QED
    BY <1>6, <1>7, <1>8, <1>9, <1>10, <1>11, <1>12, <1>13, <1>14, <1>15, <1>16 DEF Next
-----------------------------------------------------------------------------
(* The theorem.                                                             *)

\* What the inductive invariant says of the callbacks and of OneProcessQueue's count.
LEMMA IInvOrderly == IInv => QueueOrderly
<1> SUFFICES ASSUME IInv PROVE QueueOrderly
    OBVIOUS
<1> USE DEF IInv
<1>1. TypeOK /\ CallbacksInOrder
    BY DEF Typed
<1>2. OneAtATime
    <2>1. CASE flush = "no"
        <3>1. AtMostOne(ActiveIn(th))
            BY <2>1 DEF OneProcessing
        <3>2. QED
            BY <2>1, <3>1 DEF OneAtATime, AtMostOne, ActiveIn
    <2>2. CASE flush # "no"
        BY <2>2 DEF OneAtATime, Joined
    <2>3. QED
        BY <2>1, <2>2
<1>3. OneProcessQueue
    <2>1. SUFFICES ASSUME flush = "no"
                   PROVE  /\ Cardinality(QueuedIn(taskQueue)) + Cardinality(ActiveIn(th)) =
                                IF m_are_callbacks_running THEN 1 ELSE 0
                          /\ m_callbacks_pending # <<>> => m_are_callbacks_running
        BY DEF OneProcessQueue, QueuedIn, ActiveIn
    <2>2. /\ AtMostOne(QueuedIn(taskQueue)) /\ AtMostOne(ActiveIn(th))
          /\ QueuedIn(taskQueue) = {} \/ ActiveIn(th) = {}
          /\ m_are_callbacks_running <=> QueuedIn(taskQueue) # {} \/ ActiveIn(th) # {}
          /\ m_callbacks_pending # <<>> => m_are_callbacks_running
        BY <2>1 DEF OneProcessing
    <2>3. ASSUME NEW S, AtMostOne(S), S # {} PROVE Cardinality(S) = 1
        <3>1. PICK x : S = {x}
            BY <2>3 DEF AtMostOne
        <3>2. QED
            BY <3>1, FS_Singleton
    <2>4. Cardinality({}) = 0
        BY FS_EmptySet
    <2>5. CASE QueuedIn(taskQueue) # {}
        <3>1. Cardinality(QueuedIn(taskQueue)) = 1 /\ ActiveIn(th) = {} /\ m_are_callbacks_running
            BY <2>2, <2>3, <2>5
        <3>2. QED
            BY <2>2, <2>4, <3>1
    <2>6. CASE ActiveIn(th) # {}
        <3>1. Cardinality(ActiveIn(th)) = 1 /\ QueuedIn(taskQueue) = {} /\ m_are_callbacks_running
            BY <2>2, <2>3, <2>6
        <3>2. QED
            BY <2>2, <2>4, <3>1
    <2>7. CASE QueuedIn(taskQueue) = {} /\ ActiveIn(th) = {}
        BY <2>2, <2>4, <2>7
    <2>8. QED
        BY <2>5, <2>6, <2>7
<1>4. CalledAtOrAfter
    BY DEF CalledAtOrAfter, Punctual
<1>5. Drained
    BY DEF Drained, Draining
<1>6. QED
    BY <1>1, <1>2, <1>3, <1>4, <1>5 DEF QueueOrderly

LEMMA SchedulerStarts == Init => IInv
BY TypedStarts, KindsStart, OneStarts, OrderStarts, PunctualStarts, DrainingStarts DEF IInv

LEMMA SchedulerKept == IInv /\ [Next]_vars => IInv'
<1> SUFFICES ASSUME IInv, [Next]_vars PROVE IInv'
    OBVIOUS
<1>1. Typed'
    BY TypedKept DEF IInv
<1>2. Kinds' /\ Joined'
    BY <1>1, KindsKept DEF IInv
<1>3. OneProcessing' /\ CallbacksInOrder' /\ Punctual' /\ Draining'
    BY <1>1, <1>2, OneKept, OrderKept, PunctualKept, DrainingKept DEF IInv
<1>4. QED
    BY <1>1, <1>2, <1>3 DEF IInv

\* Whatever the service threads, the callers and the end of the node do in
\* between, callbacks are begun in the order they were added, exclude each other
\* and are processed by one task at most; a single thread calls no task before
\* its time, and a drained queue is empty.
THEOREM SchedulerOrderly == Spec => []QueueOrderly
BY SchedulerStarts, SchedulerKept, IInvOrderly, PTL DEF Spec
-----------------------------------------------------------------------------
(* The list of validation interfaces.                                       *)

On(n) == {w \in Walks : at[w] = n}

\* Entries are numbered by made; what a walk still owes lies ahead of it.
Ahead ==
    \A w \in Walks : \A i \in due[w] : at[w] # 0 /\ m_map[i] > at[w]

SignalsInv ==
    /\ SignalsTypeOK /\ CountExact /\ EntriesAlive /\ Ahead
    /\ m_list \subseteq 1 .. made

\* Entries are positive.
LEMMA EntriesNat == \A n \in Entries : n \in Nat /\ n > 0
  BY MainSignalsConstants DEF Entries

\* Finite sets of walks have a cardinality in Nat.
LEMMA OnFinite == \A n : IsFiniteSet(On(n)) /\ Cardinality(On(n)) \in Nat
  <1> TAKE n
  <1>1. On(n) \subseteq Walks
    BY DEF On
  <1> QED
    BY <1>1, FS_Subset, FS_CardinalityType, MainSignalsConstants

\* Following is the least entry above n, or 0 if there is none.
LEMMA FollowingLeast ==
  ASSUME NEW n \in Nat, NEW L, L \subseteq Entries
  PROVE  LET f == Following(n, L)
         IN  /\ f \in L \cup {0}
             /\ f # 0 => f > n
             /\ \A j \in L : j > n => f # 0 /\ f <= j
  <1>1. CASE \E k \in L : k > n
    <2> DEFINE T == {x \in L : x > n}
    <2>1. T \subseteq Nat /\ T # {}
      <3>1. PICK k \in L : k > n
        BY <1>1
      <3>2. k \in T
        BY <3>1
      <3>3. \A x \in T : x \in 1 .. MaxEntries
        BY DEF Entries
      <3> QED
        BY <3>2, <3>3, MainSignalsConstants
    <2>2. \E m \in T : \A y \in T : ~ (<<y, m>> \in OpToRel(<, Nat))
      <3> HIDE DEF T
      <3> QED BY <2>1, NatLessThanWellFounded, WFMin
    <2>3. PICK m \in T : \A y \in T : ~ (<<y, m>> \in OpToRel(<, Nat))
      BY <2>2
    <2>4. \A y \in T : m <= y
      <3>1. \A y \in T : ~ (y < m)
        BY <2>1, <2>3 DEF OpToRel
      <3> QED BY <2>1, <3>1
    <2>5. \E k \in L : k > n /\ \A j \in L : j > n => k <= j
      BY <2>3, <2>4
    <2>6. Following(n, L) = CHOOSE k \in L : k > n /\ \A j \in L : j > n => k <= j
      BY <1>1 DEF Following
    <2>7. /\ Following(n, L) \in L /\ Following(n, L) > n
          /\ \A j \in L : j > n => Following(n, L) <= j
      BY <2>5, <2>6
    <2> QED
      BY <2>7 DEF Entries
  <1>2. CASE ~ \E k \in L : k > n
    BY <1>2 DEF Following
  <1> QED
    BY <1>1, <1>2

\* What a step does to the counts and the list, entry by entry.
LEMMA StandOnEffect ==
  ASSUME SignalsTypeOK, NEW w \in Walks, NEW n \in m_list \cup {0}, NEW left \in Entries \cup {0},
         at[w] = left, n # left, CountExact, left # 0 => left \in m_list,
         StandOn(w, n, left), m_map' = m_map
  PROVE  /\ count' \in [Entries -> Nat]
         /\ m_list' \subseteq m_list
         /\ CountExact'
         /\ \A k \in m_list : k \notin m_list' => k = left /\ On(k)' = {} /\ ~Registered(k)
  <1> USE DEF StandOn
  <1>1. at \in [Walks -> Entries \cup {0}] /\ count \in [Entries -> Nat] /\ m_list \subseteq Entries
    BY DEF SignalsTypeOK
  <1>2. at' = [at EXCEPT ![w] = n]
    OBVIOUS
  <1>3. /\ Cardinality(On(left)') = Cardinality(On(left)) - 1
        /\ Cardinality(On(n)') = Cardinality(On(n)) + 1
        /\ \A k : k # left /\ k # n => On(k)' = On(k)
    <2>1. On(left)' = On(left) \ {w} /\ w \in On(left)
      BY <1>1, <1>2 DEF On
    <2>2. On(n)' = On(n) \cup {w} /\ w \notin On(n)
      BY <1>1, <1>2 DEF On
    <2>3. \A k : k # left /\ k # n => On(k)' = On(k)
      BY <1>1, <1>2 DEF On
    <2>4. Cardinality(On(left) \ {w}) = Cardinality(On(left)) - 1
      BY <2>1, OnFinite, FS_RemoveElement
    <2>5. Cardinality(On(n) \cup {w}) = Cardinality(On(n)) + 1
      BY <2>2, OnFinite, FS_AddElement
    <2> QED
      BY <2>1, <2>2, <2>3, <2>4, <2>5
  <1>4. \A k : Cardinality(On(k)) \in Nat /\ IsFiniteSet(On(k))
    BY OnFinite
  <1>5. \A k : Registered(k)' <=> Registered(k)
    <2>1. m_map' = m_map
      OBVIOUS
    <2> QED BY <2>1 DEF Registered
  <1>6. \A k \in m_list : /\ count[k] = Cardinality(On(k)) + (IF Registered(k) THEN 1 ELSE 0)
                           /\ count[k] > 0
    BY DEF CountExact, On
  <1>7. count' \in [Entries -> Nat]
    <2> SUFFICES ASSUME NEW m \in Entries
                 PROVE  (IF m = left THEN count[m] - 1
                         ELSE IF m = n THEN count[m] + 1 ELSE count[m]) \in Nat
      OBVIOUS
    <2>1. count[m] \in Nat /\ m # 0
      BY <1>1 DEF Entries
    <2>2. m = left => count[m] > 0
      BY <1>6, <2>1
    <2> QED
      BY <2>1, <2>2
  <1>8. m_list' \subseteq m_list
    OBVIOUS
  <1>9. ASSUME NEW k \in m_list'
        PROVE  /\ count'[k] = Cardinality(On(k)') + (IF Registered(k)' THEN 1 ELSE 0)
               /\ count'[k] > 0
    <2>1. k \in m_list /\ k \in Entries /\ k # 0
      BY <1>1, <1>8, <1>9 DEF Entries
    <2>2. CASE k = left
      <3>1. count'[k] = count[k] - 1 /\ count[k] # 1
        BY <2>1, <2>2
      <3>2. count[k] \in Nat
        BY <1>1, <2>1
      <3> QED
        BY <1>3, <1>4, <1>5, <1>6, <2>1, <2>2, <3>1, <3>2
    <2>3. CASE k # left /\ k = n
      <3>1. count'[k] = count[k] + 1
        BY <2>1, <2>3
      <3>2. count[k] \in Nat
        BY <1>1, <2>1
      <3> QED
        BY <1>3, <1>4, <1>5, <1>6, <2>1, <2>3, <3>1, <3>2
    <2>4. CASE k # left /\ k # n
      <3>1. count'[k] = count[k]
        BY <2>1, <2>4
      <3> QED
        BY <1>3, <1>4, <1>5, <1>6, <2>1, <2>4, <3>1
    <2> QED
      BY <2>2, <2>3, <2>4
  <1>10. CountExact'
    BY <1>9 DEF CountExact, On
  <1>11. ASSUME NEW k \in m_list, k \notin m_list'
         PROVE  k = left /\ On(k)' = {} /\ ~Registered(k)
    <2>1. k = left /\ count[k] = 1
      BY <1>11
    <2>2. On(k)' \subseteq Walks
      BY DEF On
    <2>3. IsFiniteSet(On(k)') /\ Cardinality(On(k)') \in Nat
      BY <2>2, FS_Subset, FS_CardinalityType, MainSignalsConstants
    <2>4. Cardinality(On(k)) = 1 /\ ~Registered(k)
      BY <1>3, <1>4, <1>6, <2>1, <2>3
    <2>5. Cardinality(On(k)') = 0
      BY <1>3, <2>1, <2>4
    <2> QED
      BY <2>1, <2>3, <2>4, <2>5, FS_EmptySet
  <1> QED
    BY <1>7, <1>8, <1>10, <1>11

\* Giving up the references that m_map holds to the interfaces of D.
LEMMA ReleasedEffect ==
  ASSUME SignalsInv, NEW D \in SUBSET {i \in Interfaces : m_map[i] # 0},
         Released({m_map[i] : i \in D}), at' = at, callbacks' = callbacks, made' = made,
         m_map' = [i \in Interfaces |-> IF i \in D THEN 0 ELSE m_map[i]],
         due' \in [Walks -> SUBSET Interfaces],
         \A w \in Walks : due'[w] \subseteq due[w] \ D
  PROVE  SignalsInv'
  <1> DEFINE N == {m_map[i] : i \in D}
  <1> USE DEF SignalsInv, SignalsTypeOK, Released
  <1>1. \A i, j \in Interfaces : m_map[i] # 0 /\ m_map[i] = m_map[j] => i = j
    BY DEF EntriesAlive
  <1>2. \A n \in N : n \in m_list /\ n \in Entries /\ n # 0 /\ Registered(n) /\ ~Registered(n)'
    BY <1>1 DEF EntriesAlive, Registered, Entries
  <1>3. \A n \in Entries : n \notin N => (Registered(n)' <=> Registered(n))
    BY DEF Registered, Entries
  <1>4. \A n : On(n)' = On(n) /\ Cardinality(On(n)) \in Nat
    BY OnFinite DEF On
  <1>5. \A k \in m_list : /\ count[k] = Cardinality(On(k)) + (IF Registered(k) THEN 1 ELSE 0)
                           /\ count[k] > 0
    BY DEF CountExact, On
  <1>6. count' \in [Entries -> Nat]
    BY <1>2, <1>5
  <1>7. m_list' \subseteq m_list
    OBVIOUS
  <1>8. SignalsTypeOK'
    BY <1>6, <1>7
  <1>9. CountExact'
    <2> SUFFICES ASSUME NEW k \in m_list'
                 PROVE  /\ count'[k] = Cardinality(On(k)') + (IF Registered(k)' THEN 1 ELSE 0)
                        /\ count'[k] > 0
      BY DEF CountExact, On
    <2>1. k \in m_list /\ k \in Entries /\ count[k] \in Nat
      BY <1>7
    <2>2. CASE k \in N
      <3>1. count'[k] = count[k] - 1 /\ count[k] # 1
        BY <2>1, <2>2
      <3> QED
        BY <1>2, <1>4, <1>5, <2>1, <2>2, <3>1
    <2>3. CASE k \notin N
      <3>1. count'[k] = count[k]
        BY <2>1, <2>3
      <3> QED
        BY <1>3, <1>4, <1>5, <2>1, <2>3, <3>1
    <2> QED
      BY <2>2, <2>3
  <1>10. EntriesAlive'
    <2>1. ASSUME NEW w \in Walks, at[w] # 0
          PROVE  at[w] \in m_list'
      <3>1. at[w] \in m_list /\ w \in On(at[w]) /\ at[w] \in Entries
        BY <2>1 DEF EntriesAlive, On
      <3>2. Cardinality(On(at[w])) # 0
        <4>1. IsFiniteSet(On(at[w])) /\ On(at[w]) # {}
          BY <3>1, OnFinite
        <4> QED BY <4>1, FS_EmptySet
      <3>3. ASSUME at[w] \in N PROVE count[at[w]] # 1
        <4>1. Registered(at[w])
          BY <1>2, <3>3
        <4>2. count[at[w]] = Cardinality(On(at[w])) + 1
          BY <1>5, <3>1, <4>1
        <4> QED
          BY <1>4, <3>2, <4>2
      <3> QED
        BY <3>1, <3>3
    <2>2. ASSUME NEW i \in Interfaces, m_map'[i] # 0
          PROVE  m_map'[i] \in m_list' /\ callbacks'[m_map'[i]] = i
      <3>1. i \notin D /\ m_map'[i] = m_map[i]
        BY <2>2
      <3>2. m_map[i] \notin N
        BY <1>1, <2>2, <3>1
      <3> QED
        BY <2>2, <3>1, <3>2 DEF EntriesAlive
    <2> QED
      BY <2>1, <2>2 DEF EntriesAlive
  <1>11. Ahead'
    BY DEF Ahead
  <1> QED
    BY <1>7, <1>8, <1>9, <1>10, <1>11

\* A walk that comes to the entry after `left`.
LEMMA WalkInv ==
  ASSUME SignalsInv, NEW w \in Walks, StandOn(w, Following(at[w], m_list), at[w]),
         callbacks' = callbacks, m_map' = m_map, made' = made,
         due' \in [Walks -> SUBSET Interfaces], \A v \in Walks : v # w => due'[v] = due[v],
         \A i \in due'[w] : /\ m_map[i] # 0 /\ m_map[i] > at[w]
                            /\ (Following(at[w], m_list) # 0 => callbacks[Following(at[w], m_list)] # i)
  PROVE  SignalsInv'
  <1> PICK left : left = at[w]
    OBVIOUS
  <1> PICK n : n = Following(left, m_list)
    OBVIOUS
  <1> DEFINE D == due'[w]
  <1>0. /\ left \in Entries \cup {0} /\ StandOn(w, n, left) /\ D \in SUBSET Interfaces
        /\ \A i \in D : m_map[i] # 0 /\ m_map[i] > left /\ (n # 0 => callbacks[n] # i)
    BY DEF SignalsInv, SignalsTypeOK
  <1>1. left \in Nat /\ m_list \subseteq Entries /\ (left # 0 => left \in m_list)
    BY <1>0, MainSignalsConstants DEF SignalsInv, SignalsTypeOK, EntriesAlive, Entries
  <1>2. /\ n \in m_list \cup {0} /\ (n # 0 => n > left)
        /\ \A j \in m_list : j > left => n # 0 /\ n <= j
    BY <1>1, FollowingLeast
  <1>3. CASE n = left
    <2>1. n = 0 /\ left = 0
      BY <1>1, <1>2, <1>3
    <2>2. D = {}
      <3> SUFFICES ASSUME NEW i \in D PROVE FALSE
        OBVIOUS
      <3>1. m_map[i] \in m_list /\ m_map[i] > left
        BY <1>0 DEF SignalsInv, EntriesAlive
      <3> QED
        BY <1>2, <2>1, <3>1
    <2>3. due[w] = {}
      BY <2>1 DEF SignalsInv, Ahead, SignalsTypeOK
    <2>4. at' = at /\ m_list' = m_list
      <3>1. at' = [at EXCEPT ![w] = n] /\ m_list' = m_list
        BY <1>0, <2>1 DEF StandOn
      <3>2. at \in [Walks -> Entries \cup {0}] /\ at[w] = n
        BY <2>1 DEF SignalsInv, SignalsTypeOK
      <3> QED
        BY <3>1, <3>2
    <2>6. \A v \in Walks : due'[v] = due[v]
      BY <2>2, <2>3
    <2>7. due' = due
      BY <2>6 DEF SignalsInv, SignalsTypeOK
    <2>5. count' = count
      BY <1>0, <2>1 DEF StandOn, SignalsInv, SignalsTypeOK, Entries
    <2> QED
      BY <2>4, <2>5, <2>7 DEF SignalsInv, SignalsTypeOK, CountExact, EntriesAlive, Ahead, Registered
  <1>4. CASE n # left
    <2>1. /\ count' \in [Entries -> Nat]
          /\ m_list' \subseteq m_list
          /\ CountExact'
          /\ \A k \in m_list : k \notin m_list' => k = left /\ On(k)' = {} /\ ~Registered(k)
      BY <1>0, <1>1, <1>2, <1>4, StandOnEffect DEF SignalsInv
    <2>2. at' = [at EXCEPT ![w] = n] /\ at \in [Walks -> Entries \cup {0}]
      BY <1>0 DEF StandOn, SignalsInv, SignalsTypeOK
    <2>3. SignalsTypeOK'
      <3>1. at' \in [Walks -> Entries \cup {0}]
        BY <1>1, <1>2, <2>2
      <3>2. due' \in [Walks -> SUBSET Interfaces]
        BY DEF SignalsInv, SignalsTypeOK
      <3> QED
        BY <1>1, <2>1, <3>1, <3>2 DEF SignalsInv, SignalsTypeOK
    <2>4. EntriesAlive'
      <3>1. ASSUME NEW v \in Walks, at'[v] # 0
            PROVE  at'[v] \in m_list'
        <4>1. at'[v] \in m_list
          BY <1>2, <2>2, <3>1 DEF SignalsInv, EntriesAlive
        <4>3. at'[v] \notin m_list' => at'[v] = left /\ On(left)' = {}
          BY <2>1, <4>1
        <4>4. at'[v] = left => v \in On(left)'
          BY DEF On
        <4> QED
          BY <4>3, <4>4
      <3>2. ASSUME NEW i \in Interfaces, m_map[i] # 0
            PROVE  m_map[i] \in m_list' /\ callbacks[m_map[i]] = i
        <4>1. m_map[i] \in m_list /\ callbacks[m_map[i]] = i
          BY <3>2 DEF SignalsInv, EntriesAlive
        <4>2. Registered(m_map[i])
          BY DEF Registered
        <4> QED
          BY <2>1, <4>1, <4>2
      <3> QED
        BY <3>1, <3>2 DEF EntriesAlive
    <2>5. Ahead'
      <3> SUFFICES ASSUME NEW v \in Walks, NEW i \in due'[v]
                   PROVE  at'[v] # 0 /\ m_map[i] > at'[v]
        BY DEF Ahead
      <3>1. CASE v = w
        <4>1. i \in D /\ at'[v] = n
          BY <2>2, <3>1 DEF SignalsInv, SignalsTypeOK
        <4>2. m_map[i] \in m_list /\ callbacks[m_map[i]] = i /\ m_map[i] > left
          BY <1>0, <4>1 DEF SignalsInv, EntriesAlive
        <4>3. n # 0 /\ n <= m_map[i] /\ m_map[i] # n
          BY <1>0, <1>2, <4>1, <4>2
        <4>4. m_map[i] \in Nat /\ n \in Nat
          BY <1>1, <1>2, <4>2, EntriesNat
        <4> QED
          BY <4>1, <4>3, <4>4
      <3>2. CASE v # w
        <4>1. i \in due[v] /\ at'[v] = at[v]
          BY <2>2, <3>2 DEF SignalsInv, SignalsTypeOK
        <4> QED
          BY <4>1 DEF SignalsInv, Ahead
      <3> QED
        BY <3>1, <3>2
    <2> QED
      BY <2>1, <2>3, <2>4, <2>5 DEF SignalsInv
  <1> QED
    BY <1>3, <1>4

\* A registration appends an entry nobody stands on.
LEMMA RegisterInv ==
  ASSUME SignalsInv, NEW i \in Interfaces, Register(i)
  PROVE  SignalsInv'
  <1> DEFINE n == made + 1
  <1> USE DEF SignalsInv, SignalsTypeOK, Register
  <1>1. n \in Entries /\ n # 0 /\ n \notin m_list /\ made \in Nat
    BY MainSignalsConstants DEF Entries
  <1>2. SignalsTypeOK' /\ m_list' \subseteq 1 .. made'
    <2>1. made' \in 0 .. MaxEntries /\ m_list' \subseteq 1 .. made'
      BY <1>1, MainSignalsConstants
    <2>2. m_list' \subseteq Entries /\ m_map' \in [Interfaces -> Entries \cup {0}]
      BY <1>1
    <2>3. callbacks' \in [Entries -> Interfaces \cup {Nobody}]
      BY <1>1
    <2>4. count' \in [Entries -> Nat]
      BY <1>1
    <2> QED
      BY <2>1, <2>2, <2>3, <2>4
  <1>3. EntriesAlive'
    BY <1>1 DEF EntriesAlive
  <1>4. Ahead'
    <2> SUFFICES ASSUME NEW v \in Walks, NEW j \in due[v]
                 PROVE  at[v] # 0 /\ m_map'[j] > at[v]
      BY DEF Ahead
    <2>1. at[v] # 0 /\ at[v] \in 1 .. made /\ m_map[j] > at[v] /\ j \in Interfaces
      BY DEF Ahead, EntriesAlive
    <2>2. m_map'[j] = m_map[j] \/ m_map'[j] = made + 1
      BY <2>1
    <2> QED
      BY <1>1, <2>1, <2>2
  <1>5. CountExact'
    <2> SUFFICES ASSUME NEW k \in m_list'
                 PROVE  /\ count'[k] = Cardinality(On(k)') + (IF Registered(k)' THEN 1 ELSE 0)
                        /\ count'[k] > 0
      BY DEF CountExact, On
    <2>1. On(k)' = On(k)
      BY DEF On
    <2>2. CASE k = n
      <3>1. On(k) = {}
        BY <1>1, <2>2 DEF On, EntriesAlive
      <3>2. Registered(k)' /\ count'[k] = 1
        BY <1>1, <2>2 DEF Registered
      <3>3. Cardinality(On(k)) = 0
        BY <3>1, FS_EmptySet
      <3> QED
        BY <2>1, <3>2, <3>3
    <2>3. CASE k # n
      <3>1. k \in m_list /\ count'[k] = count[k]
        BY <2>3
      <3>2. Registered(k)' <=> Registered(k)
        BY <1>1, <2>3, <3>1 DEF Registered, Entries
      <3> QED
        BY <2>1, <3>1, <3>2 DEF CountExact, On
    <2> QED
      BY <2>2, <2>3
  <1> QED
    BY <1>2, <1>3, <1>4, <1>5

\* SignalsInit and every action keep the invariant.
LEMMA SignalsStart == SignalsInit => SignalsInv
  <1> SUFFICES ASSUME SignalsInit PROVE SignalsInv
    OBVIOUS
  <1>1. SignalsTypeOK
    BY MainSignalsConstants DEF SignalsInit, SignalsTypeOK, Entries
  <1>2. CountExact /\ EntriesAlive /\ Ahead /\ m_list \subseteq 1 .. made
    BY DEF SignalsInit, CountExact, EntriesAlive, Ahead
  <1> QED
    BY <1>1, <1>2 DEF SignalsInv

LEMMA SignalsKept == SignalsInv /\ [SignalsNext]_signalVars => SignalsInv'
  <1> SUFFICES ASSUME SignalsInv, [SignalsNext]_signalVars PROVE SignalsInv'
    OBVIOUS
  <1>1. ASSUME NEW i \in Interfaces, Register(i) PROVE SignalsInv'
    BY <1>1, RegisterInv
  <1>2. ASSUME NEW i \in Interfaces, Unregister(i) PROVE SignalsInv'
    <2> DEFINE D == IF m_map[i] = 0 THEN {} ELSE {i}
    <2>1. D \in SUBSET {j \in Interfaces : m_map[j] # 0}
      OBVIOUS
    <2>2. {m_map[j] : j \in D} = IF m_map[i] = 0 THEN {} ELSE {m_map[i]}
      OBVIOUS
    <2>3. Released({m_map[j] : j \in D})
      <3>1. CASE m_map[i] = 0
        <4>1. count' = count /\ m_list' = m_list /\ {m_map[j] : j \in D} = {}
          BY <1>2, <2>2, <3>1 DEF Unregister
        <4> QED
          BY <4>1 DEF Released, SignalsInv, SignalsTypeOK
      <3>2. CASE m_map[i] # 0
        BY <1>2, <2>2, <3>2 DEF Unregister
      <3> QED
        BY <3>1, <3>2
    <2>4. m_map' = [j \in Interfaces |-> IF j \in D THEN 0 ELSE m_map[j]]
      BY <1>2 DEF Unregister, SignalsInv, SignalsTypeOK
    <2>5. due' \in [Walks -> SUBSET Interfaces] /\ \A w \in Walks : due'[w] \subseteq due[w] \ D
      BY <1>2 DEF Unregister, SignalsInv, SignalsTypeOK
    <2>6. at' = at /\ callbacks' = callbacks /\ made' = made
      BY <1>2 DEF Unregister
    <2> HIDE DEF D
    <2> QED
      BY <2>1, <2>3, <2>4, <2>5, <2>6, ReleasedEffect
  <1>3. ASSUME Clear PROVE SignalsInv'
    <2> DEFINE D == {i \in Interfaces : m_map[i] # 0}
    <2>1. {m_map[i] : i \in Interfaces} \ {0} = {m_map[i] : i \in D}
      OBVIOUS
    <2>2. Released({m_map[i] : i \in D})
      BY <1>3, <2>1 DEF Clear
    <2>3. m_map' = [i \in Interfaces |-> IF i \in D THEN 0 ELSE m_map[i]]
      BY <1>3 DEF Clear
    <2>4. due' \in [Walks -> SUBSET Interfaces] /\ \A w \in Walks : due'[w] \subseteq due[w] \ D
      BY <1>3 DEF Clear
    <2>5. at' = at /\ callbacks' = callbacks /\ made' = made
      BY <1>3 DEF Clear
    <2> QED
      BY <2>2, <2>3, <2>4, <2>5, ReleasedEffect
  <1>4. ASSUME NEW w \in Walks, IterateBegin(w) PROVE SignalsInv'
    <2>1. at[w] = 0
      BY <1>4 DEF IterateBegin
    <2>2. /\ StandOn(w, Following(at[w], m_list), at[w])
          /\ callbacks' = callbacks /\ m_map' = m_map /\ made' = made
      BY <1>4, <2>1 DEF IterateBegin
    <2>3. due' \in [Walks -> SUBSET Interfaces] /\ \A v \in Walks : v # w => due'[v] = due[v]
      BY <1>4 DEF IterateBegin, SignalsInv, SignalsTypeOK
    <2>4. \A i \in due'[w] : /\ m_map[i] # 0 /\ i \in Interfaces
                              /\ (Following(at[w], m_list) # 0 => callbacks[Following(at[w], m_list)] # i)
      BY <1>4, <2>1 DEF IterateBegin, SignalsInv, SignalsTypeOK
    <2>5. ASSUME NEW i \in due'[w]
          PROVE  /\ m_map[i] # 0 /\ m_map[i] > at[w]
                 /\ (Following(at[w], m_list) # 0 => callbacks[Following(at[w], m_list)] # i)
      <3>1. m_map[i] \in Entries
        BY <2>4, <2>5 DEF SignalsInv, SignalsTypeOK
      <3> QED
        BY <2>1, <2>4, <2>5, <3>1, EntriesNat
    <2> QED
      BY <2>2, <2>3, <2>5, WalkInv
  <1>5. ASSUME NEW w \in Walks, IterateNext(w) PROVE SignalsInv'
    <2>1. /\ StandOn(w, Following(at[w], m_list), at[w])
          /\ callbacks' = callbacks /\ m_map' = m_map /\ made' = made
      BY <1>5 DEF IterateNext
    <2>2. due' \in [Walks -> SUBSET Interfaces] /\ \A v \in Walks : v # w => due'[v] = due[v]
      BY <1>5 DEF IterateNext, SignalsInv, SignalsTypeOK
    <2>3. \A i \in due'[w] : /\ i \in due[w] /\ i \in Interfaces
                              /\ (Following(at[w], m_list) # 0 => callbacks[Following(at[w], m_list)] # i)
      BY <1>5 DEF IterateNext, SignalsInv, SignalsTypeOK
    <2>4. ASSUME NEW i \in due'[w]
          PROVE  /\ m_map[i] # 0 /\ m_map[i] > at[w]
                 /\ (Following(at[w], m_list) # 0 => callbacks[Following(at[w], m_list)] # i)
      <3>1. i \in due[w] /\ i \in Interfaces
        BY <2>3, <2>4
      <3>2. m_map[i] > at[w] /\ at[w] # 0
        BY <3>1 DEF SignalsInv, Ahead
      <3>3. m_map[i] # 0
        <4>1. m_map[i] \in Entries \cup {0} /\ at[w] \in Entries
          BY <3>1, <3>2 DEF SignalsInv, SignalsTypeOK
        <4> QED
          BY <3>2, <4>1, EntriesNat
      <3> QED
        BY <2>3, <2>4, <3>2, <3>3
    <2> QED
      BY <2>1, <2>2, <2>4, WalkInv
  <1>6. ASSUME UNCHANGED signalVars PROVE SignalsInv'
    BY <1>6 DEF signalVars, SignalsInv, SignalsTypeOK, CountExact, EntriesAlive, Ahead, Registered
  <1> QED
    BY <1>1, <1>2, <1>3, <1>4, <1>5, <1>6 DEF SignalsNext

LEMMA SignalsCounted == SignalsInv => Referenced /\ NoneMissed
  <1> SUFFICES ASSUME SignalsInv PROVE Referenced /\ NoneMissed
    OBVIOUS
  <1>1. ASSUME NEW w \in Walks, at[w] = 0 PROVE due[w] = {}
    BY <1>1 DEF SignalsInv, Ahead
  <1> QED
    BY <1>1 DEF SignalsInv, Referenced, NoneMissed

\* However interfaces come and go during dispatches: the count of an entry is
\* the number of its executions, plus one if it is registered, and no iterator
\* dangles.
THEOREM ReferencesCounted == SignalsSpec => []Referenced
  BY SignalsStart, SignalsKept, SignalsCounted, PTL DEF SignalsSpec

\* An interface that stays registered from the beginning of a dispatch to its
\* end is called, whatever is registered and unregistered meanwhile.
THEOREM NobodyMissed == SignalsSpec => []NoneMissed
  BY SignalsStart, SignalsKept, SignalsCounted, PTL DEF SignalsSpec
=============================================================================
