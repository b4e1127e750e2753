------------------------- MODULE Transactions_proofs -------------------------
(***************************************************************************)
(* What is promised of the parts a transaction passes through.  The verdict *)
(* of the check queue is exact for every number of threads and checks, and  *)
(* the queue implements the sequential controller.  FRESH and DIRTY are     *)
(* used soundly and the stack of coins views implements plain maps, for any *)
(* transactions, outputs and blocks.  The tracker of announcements passes   *)
(* its own sanity checks, and asks whom txrequest.h says, for any peers,    *)
(* transactions, hashes, delays and limits.                                 *)
(***************************************************************************)
EXTENDS CheckQueue, CoinsCache, TxRequest, FiniteSetTheorems, WellFoundedInduction, TLAPS

\* Checks that are queued or in some thread's batch, and whether a session
\* still waits for its verdict.
Pending == queue \cup UNION {batch[t] : t \in Threads}
Active == \E m \in Masters : pc[m] \notin {"out", "returned"}
PCs == {"out", "adding", "start", "wait", "woken", "work", "merge", "returned", "gone"}

QTypes ==
    /\ control \in Masters \cup {NoMaster}
    /\ queue \in SUBSET Checks /\ added \in SUBSET Checks
    /\ fAllOk \in BOOLEAN
    /\ pc \in [Threads -> PCs]
    /\ batch \in [Threads -> SUBSET Checks] /\ fOk \in [Threads -> BOOLEAN]

\* ControlMutex: only its holder is in a session.
Owner ==
    /\ \A m \in Masters : pc[m] # "gone" /\ (pc[m] = "out" <=> control # m)
    /\ \A w \in Workers : pc[w] \notin {"out", "adding", "returned"}

\* A check is in one place only, and nTodo counts the checks in all places.
Batches ==
    /\ \A t \in Threads : pc[t] \in {"work", "merge"} <=> batch[t] # {}
    /\ \A t \in Threads : batch[t] \cap queue = {}
    /\ \A t, u \in Threads : t # u => batch[t] \cap batch[u] = {}
Counted == Pending \subseteq added /\ nTodo = Cardinality(Pending)

\* Outside a session nothing is pending and the verdict is reset; inside, the
\* verdict so far and the pending checks determine the final one.
Quiet == ~Active => Pending = {} /\ fAllOk
Blame ==
    Active =>
        /\ ~fAllOk => ~(added \subseteq Valid)
        /\ \A t \in Threads : pc[t] \in {"work", "merge"} /\ ~fOk[t] => ~(added \subseteq Valid)
        /\ fAllOk /\ Pending \subseteq Valid => added \subseteq Valid
Judged == \A t \in Threads : pc[t] = "merge" /\ fOk[t] => batch[t] \subseteq Valid

QInv ==
    /\ QTypes /\ Owner /\ Batches /\ Counted /\ Quiet /\ Blame /\ Judged /\ VerdictExact
-----------------------------------------------------------------------------
\* Every pending set is finite.
LEMMA PendingFinite == QTypes => Pending \subseteq Checks /\ IsFiniteSet(Pending)
<1> SUFFICES ASSUME QTypes PROVE Pending \subseteq Checks /\ IsFiniteSet(Pending)
    OBVIOUS
<1>1. Pending \subseteq Checks
    BY DEF QTypes, Pending
<1>2. QED
    BY <1>1, QueueConstants, FS_Subset

LEMMA QInit == Init => QInv
<1> SUFFICES ASSUME Init PROVE QInv
    OBVIOUS
<1>1. Pending = {}
    BY DEF Init, Pending
<1>2. ~Active
    BY QueueConstants DEF Init, Active, Threads
<1>3. QTypes
    BY DEF Init, QTypes, PCs
<1>4. Owner /\ VerdictExact
    BY QueueConstants DEF Init, Owner, VerdictExact, Threads
<1>5. Batches /\ Judged
    BY DEF Init, Batches, Judged
<1>6. Counted
    BY <1>1, FS_EmptySet DEF Init, Counted
<1>7. Quiet /\ Blame
    BY <1>1, <1>2 DEF Quiet, Blame, Init
<1>8. QED
    BY <1>3, <1>4, <1>5, <1>6, <1>7 DEF QInv

\* The holder of a session that is over leaves no session active.
LEMMA ReturnedQuiet ==
    ASSUME QTypes, Owner, NEW m \in Masters, pc[m] = "returned"
    PROVE  ~Active /\ control = m
BY DEF Owner, Active

\* Steps that move one thread between places without a batch and touch nothing
\* the invariant counts.
LEMMA QuietMove ==
    ASSUME QInv, NEW t \in Threads, NEW where \in PCs, Goto(t, where),
           UNCHANGED <<control, queue, nTodo, fAllOk, batch, fOk, added, ret>>,
           pc[t] \notin {"work", "merge", "out", "returned"},
           where \notin {"work", "merge", "out", "returned"},
           t \in Masters => where # "gone",
           t \in Workers => where # "adding"
    PROVE  QInv'
<1>1. /\ pc' = [pc EXCEPT ![t] = where] /\ pc \in [Threads -> PCs]
      /\ Masters \subseteq Threads /\ Workers \subseteq Threads
    BY DEF Goto, QInv, QTypes, Threads
<1>2. pc' \in [Threads -> PCs] /\ pc'[t] = where /\ \A x \in Threads \ {t} : pc'[x] = pc[x]
    BY <1>1
<1>3. Pending' = Pending
    BY DEF Pending
<1>4. Active' <=> Active
    BY <1>1, <1>2 DEF Active
<1>5. QTypes'
    BY <1>2 DEF QInv, QTypes
<1>6. Owner'
    BY <1>1, <1>2 DEF QInv, Owner
<1>7. Batches' /\ Judged'
    BY <1>2 DEF QInv, Batches, Judged
<1>8. Counted' /\ Quiet'
    BY <1>3, <1>4 DEF QInv, Counted, Quiet
<1>9. Blame'
    BY <1>2, <1>3, <1>4 DEF QInv, Blame
<1>10. VerdictExact'
    BY <1>1, <1>2 DEF QInv, VerdictExact
<1>11. QED
    BY <1>5, <1>6, <1>7, <1>8, <1>9, <1>10 DEF QInv
-----------------------------------------------------------------------------
(* The controller.                                                          *)

LEMMA QBegin ==
    ASSUME QInv, NEW m \in Masters, Begin(m)
    PROVE  QInv'
<1>1. /\ pc[m] = "out" /\ control = NoMaster /\ control' = m /\ added' = {}
      /\ pc' = [pc EXCEPT ![m] = "adding"]
      /\ UNCHANGED <<queue, nTodo, fAllOk, batch, fOk, ret>>
    BY DEF Begin, Goto
<1>2. pc \in [Threads -> PCs] /\ Masters \subseteq Threads /\ Workers \subseteq Threads
    BY DEF QInv, QTypes, Threads
<1>3. pc' \in [Threads -> PCs] /\ pc'[m] = "adding" /\ \A x \in Threads \ {m} : pc'[x] = pc[x]
    BY <1>1, <1>2 DEF PCs
<1>4. \A x \in Masters : pc[x] = "out"
    BY <1>1, QueueConstants DEF QInv, Owner
<1>5. ~Active /\ Pending = {} /\ fAllOk
    <2>1. ~Active
        BY <1>4 DEF Active
    <2>2. QED
        BY <2>1 DEF QInv, Quiet
<1>6. Pending' = {} /\ Active'
    <2>1. Pending' = {}
        BY <1>1, <1>5 DEF Pending
    <2>2. QED
        BY <2>1, <1>3 DEF Active
<1>7. \A t \in Threads : batch[t] = {}
    BY <1>5 DEF Pending
<1>8. QTypes'
    BY <1>1, <1>3 DEF QInv, QTypes
<1>9. Owner'
    BY <1>1, <1>2, <1>3, <1>4, QueueConstants DEF QInv, Owner
<1>10. Batches' /\ Judged'
    BY <1>1, <1>3, <1>7 DEF QInv, Batches, Judged
<1>11. Counted' /\ Quiet'
    BY <1>1, <1>5, <1>6 DEF QInv, Counted, Quiet
<1>12. Blame'
    BY <1>1, <1>5, <1>7, <1>10 DEF Blame, Batches
<1>13. VerdictExact'
    BY <1>2, <1>3, <1>4 DEF VerdictExact
<1>14. QED
    BY <1>8, <1>9, <1>10, <1>11, <1>12, <1>13 DEF QInv

\* New checks are in no other place; the woken workers held none.
LEMMA QAdd ==
    ASSUME QInv, NEW m \in Masters, NEW S \in SUBSET (Checks \ added), NEW W \in SUBSET Workers,
           Add(m, S, W)
    PROVE  QInv'
<1>1. /\ pc[m] = "adding" /\ queue' = queue \cup S /\ nTodo' = nTodo + Cardinality(S)
      /\ added' = added \cup S
      /\ pc' = [t \in Threads |-> IF t \in W THEN "woken" ELSE pc[t]]
      /\ UNCHANGED <<control, fAllOk, batch, fOk, ret>>
    BY DEF Add, Enqueue
<1>2. \A w \in W : pc[w] = "wait"
    BY DEF Add, WakeOK, Sleeping
<1>3. pc \in [Threads -> PCs] /\ Masters \subseteq Threads /\ Workers \subseteq Threads
    BY DEF QInv, QTypes, Threads
<1>4. \A x \in Masters : x \notin W
    BY QueueConstants
<1>5. pc' \in [Threads -> PCs] /\ (\A x \in Masters : pc'[x] = pc[x])
    BY <1>1, <1>3, <1>4 DEF PCs
<1>6. \A t \in Threads : \/ pc'[t] = pc[t]
                         \/ t \in Workers /\ pc[t] = "wait" /\ pc'[t] = "woken"
    BY <1>1, <1>2
<1>7. Active /\ Active'
    BY <1>1, <1>5 DEF Active
<1>8. Pending' = Pending \cup S
    BY <1>1 DEF Pending
<1>9. Pending \cap S = {}
    BY DEF QInv, Counted
<1>10. IsFiniteSet(Pending) /\ IsFiniteSet(S)
    <2>1. IsFiniteSet(Pending)
        BY PendingFinite DEF QInv
    <2>2. S \in SUBSET Checks
        OBVIOUS
    <2>3. QED
        BY <2>1, <2>2, QueueConstants, FS_Subset
<1>11. Cardinality(Pending \cup S) = Cardinality(Pending) + Cardinality(S)
    <2>1. Cardinality(Pending \cup S) =
              Cardinality(Pending) + Cardinality(S) - Cardinality(Pending \cap S)
        BY <1>10, FS_Union
    <2>2. Cardinality(Pending) \in Nat /\ Cardinality(S) \in Nat
        BY <1>10, FS_CardinalityType
    <2>3. Cardinality(Pending \cap S) = 0
        BY <1>9, FS_EmptySet
    <2>4. QED
        BY <2>1, <2>2, <2>3
<1>12. Counted'
    BY <1>1, <1>8, <1>11 DEF QInv, Counted
<1>13. QTypes'
    BY <1>1, <1>5 DEF QInv, QTypes
<1>14. Owner'
    BY <1>1, <1>3, <1>5, <1>6 DEF QInv, Owner
<1>15. Batches'
    <2>1. \A t \in Threads : batch[t] \subseteq Pending
        BY DEF Pending
    <2>2. ASSUME NEW t \in Threads PROVE batch'[t] \cap queue' = {}
        <3>1. batch[t] \cap queue = {} /\ batch[t] \cap S = {}
            BY <1>9, <2>1 DEF QInv, Batches
        <3>2. QED
            BY <1>1, <3>1
    <2>3. \A t \in Threads : pc'[t] \in {"work", "merge"} <=> pc[t] \in {"work", "merge"}
        BY <1>6
    <2>4. QED
        BY <1>1, <2>2, <2>3 DEF QInv, Batches
<1>16. Judged'
    BY <1>1, <1>6 DEF QInv, Judged
<1>17. Quiet'
    BY <1>7 DEF Quiet
<1>18. Blame'
    <2>1. /\ ~fAllOk => ~(added \subseteq Valid)
          /\ \A t \in Threads : pc[t] \in {"work", "merge"} /\ ~fOk[t] => ~(added \subseteq Valid)
          /\ fAllOk /\ Pending \subseteq Valid => added \subseteq Valid
        BY <1>7 DEF QInv, Blame
    <2>2. ~(added \subseteq Valid) => ~(added' \subseteq Valid)
        BY <1>1
    <2>3. Pending' \subseteq Valid /\ added \subseteq Valid => added' \subseteq Valid
        BY <1>1, <1>8
    <2>4. Pending' \subseteq Valid => Pending \subseteq Valid
        BY <1>8
    <2>5. \A t \in Threads : pc'[t] \in {"work", "merge"} => pc[t] \in {"work", "merge"}
        BY <1>6
    <2>6. QED
        BY <1>1, <2>1, <2>2, <2>3, <2>4, <2>5 DEF Blame
<1>19. VerdictExact'
    <2>1. \A x \in Masters : pc[x] # "returned"
        BY <1>7, ReturnedQuiet DEF QInv
    <2>2. QED
        BY <2>1, <1>5 DEF VerdictExact
<1>20. QED
    BY <1>12, <1>13, <1>14, <1>15, <1>16, <1>17, <1>18, <1>19 DEF QInv

LEMMA QCallWait ==
    ASSUME QInv, NEW m \in Masters, CallWait(m)
    PROVE  QInv'
<1>1. m \in Threads /\ m \notin Workers /\ pc[m] = "adding" /\ Goto(m, "start")
    BY QueueConstants DEF CallWait, Threads
<1>2. UNCHANGED <<control, queue, nTodo, fAllOk, batch, fOk, added, ret>>
    BY DEF CallWait
<1>3. QED
    BY <1>1, <1>2, QuietMove DEF PCs

LEMMA QEnd ==
    ASSUME QInv, NEW m \in Masters, End(m)
    PROVE  QInv'
<1>1. /\ pc[m] = "returned" /\ control' = NoMaster
      /\ pc' = [pc EXCEPT ![m] = "out"]
      /\ UNCHANGED <<queue, nTodo, fAllOk, batch, fOk, added, ret>>
    BY DEF End, Goto
<1>2. pc \in [Threads -> PCs] /\ Masters \subseteq Threads /\ Workers \subseteq Threads
    BY DEF QInv, QTypes, Threads
<1>3. pc' \in [Threads -> PCs] /\ pc'[m] = "out" /\ \A x \in Threads \ {m} : pc'[x] = pc[x]
    BY <1>1, <1>2 DEF PCs
<1>4. ~Active /\ control = m
    BY <1>1, ReturnedQuiet DEF QInv
<1>5. \A x \in Masters : pc'[x] = "out"
    BY <1>2, <1>3, <1>4 DEF QInv, Owner
<1>6. ~Active'
    BY <1>5 DEF Active
<1>7. Pending' = Pending
    BY <1>1 DEF Pending
<1>8. QTypes'
    BY <1>1, <1>3 DEF QInv, QTypes
<1>9. Owner'
    BY <1>1, <1>2, <1>3, <1>5, QueueConstants DEF QInv, Owner
<1>10. Batches' /\ Judged'
    <2>1. pc[m] \notin {"work", "merge"} /\ pc'[m] \notin {"work", "merge"}
        BY <1>1, <1>3
    <2>2. QED
        BY <1>1, <1>3, <2>1 DEF QInv, Batches, Judged
<1>11. Counted' /\ Quiet' /\ Blame'
    BY <1>1, <1>4, <1>6, <1>7 DEF QInv, Counted, Quiet, Blame
<1>12. VerdictExact'
    BY <1>5 DEF VerdictExact
<1>13. QED
    BY <1>8, <1>9, <1>10, <1>11, <1>12 DEF QInv

LEMMA QWakeOrInterrupt ==
    ASSUME QInv, NEW t \in Threads, SpuriousWake(t) \/ Interrupt(t)
    PROVE  QInv'
<1>1. /\ pc[t] \in {"wait", "woken"}
      /\ UNCHANGED <<control, queue, nTodo, fAllOk, batch, fOk, added, ret>>
    BY DEF SpuriousWake, Interrupt
<1>2. \E where \in {"woken", "gone", "start"} :
          /\ Goto(t, where)
          /\ t \in Masters => where # "gone"
    BY QueueConstants DEF SpuriousWake, Interrupt, Goto
<1>3. QED
    BY <1>1, <1>2, QuietMove DEF PCs
-----------------------------------------------------------------------------
(* Loop.                                                                    *)

\* What every critical section has in common: the batch of the thread is
\* accounted for, S is taken from the queue as its next one.
LEMMA SectionFacts ==
    ASSUME QInv, NEW t \in Threads, NEW where \in {"wait", "work", "returned"},
           Section(t, where), NEW S \in SUBSET queue,
           queue' = queue \ S, batch' = [batch EXCEPT ![t] = S], where = "work" <=> S # {},
           UNCHANGED <<control, added>>
    PROVE  /\ Batches' /\ Counted' /\ Pending' = Pending \ batch[t]
           /\ pc' \in [Threads -> PCs] /\ pc'[t] = where
           /\ \A x \in Threads \ {t} : \/ pc'[x] = pc[x]
                                       \/ x \in Masters /\ pc[x] = "wait" /\ pc'[x] = "woken"
           /\ pc[t] # "merge" => batch[t] = {}
           /\ pc[t] \in {"start", "woken", "merge"}
<1>1. /\ pc[t] \in {"start", "woken", "merge"} /\ nTodo' = nTodo - Cardinality(batch[t])
      /\ pc' = [x \in Threads |-> IF x = t THEN where
                                  ELSE IF x \in Notified(t) THEN "woken" ELSE pc[x]]
      /\ \A x \in Notified(t) : x \in Masters /\ pc[x] = "wait"
    BY DEF Section, AtLock, TodoAfter, Notified
<1>2. QTypes /\ Batches /\ Counted
    BY DEF QInv
<1>3. pc \in [Threads -> PCs] /\ batch \in [Threads -> SUBSET Checks]
    BY <1>2 DEF QTypes
<1>4. pc' \in [Threads -> PCs] /\ pc'[t] = where
    BY <1>1, <1>3 DEF PCs
<1>5. \A x \in Threads \ {t} : \/ pc'[x] = pc[x]
                               \/ x \in Masters /\ pc[x] = "wait" /\ pc'[x] = "woken"
    BY <1>1
<1>6. pc[t] # "merge" => batch[t] = {}
    BY <1>1, <1>2 DEF Batches
<1>7. batch'[t] = S /\ \A x \in Threads \ {t} : batch'[x] = batch[x]
    BY <1>3
<1>8. Pending' = Pending \ batch[t]
    <2>1. ASSUME NEW c \in Pending' PROVE c \in Pending /\ c \notin batch[t]
        <3>1. CASE c \in queue'
            BY <3>1, <1>2 DEF Batches, Pending
        <3>2. CASE \E x \in Threads : c \in batch'[x]
            <4>1. PICK x \in Threads : c \in batch'[x]
                BY <3>2
            <4>2. CASE x = t
                BY <4>1, <4>2, <1>7, <1>2 DEF Batches, Pending
            <4>3. CASE x # t
                <5>1. c \in batch[x] /\ batch[x] \cap batch[t] = {}
                    BY <4>1, <4>3, <1>7, <1>2 DEF Batches
                <5>2. QED
                    BY <5>1 DEF Pending
            <4>4. QED
                BY <4>2, <4>3
        <3>3. QED
            BY <2>1, <3>1, <3>2 DEF Pending
    <2>2. ASSUME NEW c \in Pending, c \notin batch[t] PROVE c \in Pending'
        <3>1. CASE c \in queue
            BY <3>1, <1>7 DEF Pending
        <3>2. CASE \E x \in Threads : c \in batch[x]
            BY <2>2, <3>2, <1>7 DEF Pending
        <3>3. QED
            BY <2>2, <3>1, <3>2 DEF Pending
    <2>3. QED
        BY <2>1, <2>2
<1>9. Counted'
    <2>1. IsFiniteSet(Pending) /\ batch[t] \subseteq Pending
        BY <1>2, PendingFinite DEF Pending
    <2>2. Pending \cap batch[t] = batch[t]
        BY <2>1
    <2>3. Cardinality(Pending \ batch[t]) = Cardinality(Pending) - Cardinality(batch[t])
        BY <2>1, <2>2, FS_Difference
    <2>4. QED
        BY <1>1, <1>2, <1>8, <2>3 DEF Counted
<1>10. Batches'
    <2>1. \A x \in Threads : pc'[x] \in {"work", "merge"} <=> batch'[x] # {}
        <3>1. ASSUME NEW x \in Threads \ {t}
              PROVE  pc'[x] \in {"work", "merge"} <=> batch'[x] # {}
            BY <1>2, <1>5, <1>7 DEF Batches
        <3>2. pc'[t] \in {"work", "merge"} <=> batch'[t] # {}
            BY <1>4, <1>7
        <3>3. QED
            BY <3>1, <3>2
    <2>2. \A x \in Threads : batch'[x] \cap queue' = {}
        BY <1>2, <1>7 DEF Batches
    <2>3. \A x, y \in Threads : x # y => batch'[x] \cap batch'[y] = {}
        <3>1. \A x \in Threads \ {t} : batch'[x] \cap batch'[t] = {}
            BY <1>2, <1>7 DEF Batches
        <3>2. \A x, y \in Threads \ {t} : x # y => batch'[x] \cap batch'[y] = {}
            BY <1>2, <1>7 DEF Batches
        <3>3. QED
            BY <3>1, <3>2
    <2>4. QED
        BY <2>1, <2>2, <2>3 DEF Batches
<1>11. QED
    BY <1>1, <1>4, <1>5, <1>6, <1>8, <1>9, <1>10

\* The verdict so far, with the batch of t merged in, is as good as before.
LEMMA MergedVerdict ==
    ASSUME QInv, NEW t \in Threads, AtLock(t)
    PROVE  /\ OkAfter(t) \in BOOLEAN
           /\ Active => /\ ~OkAfter(t) => ~(added \subseteq Valid)
                        /\ OkAfter(t) /\ Pending \ batch[t] \subseteq Valid => added \subseteq Valid
           /\ ~Active => OkAfter(t) /\ pc[t] # "merge"
<1>1. fAllOk \in BOOLEAN /\ fOk[t] \in BOOLEAN
    BY DEF QInv, QTypes
<1>2. OkAfter(t) \in BOOLEAN
    BY <1>1 DEF OkAfter
<1>3. ASSUME Active, ~OkAfter(t) PROVE ~(added \subseteq Valid)
    BY <1>3 DEF QInv, Blame, OkAfter
<1>4. ASSUME Active, OkAfter(t), Pending \ batch[t] \subseteq Valid PROVE added \subseteq Valid
    <2>1. fAllOk /\ (pc[t] = "merge" => fOk[t])
        BY <1>4 DEF OkAfter
    <2>2. batch[t] \subseteq Valid
        BY <2>1 DEF QInv, Batches, Judged, AtLock
    <2>3. Pending \subseteq Valid
        BY <1>4, <2>2
    <2>4. QED
        BY <1>4, <2>1, <2>3 DEF QInv, Blame
<1>5. ASSUME ~Active PROVE OkAfter(t) /\ pc[t] # "merge"
    <2>1. Pending = {} /\ fAllOk
        BY <1>5 DEF QInv, Quiet
    <2>2. batch[t] = {}
        BY <2>1 DEF Pending
    <2>3. pc[t] # "merge"
        BY <2>2 DEF QInv, Batches
    <2>4. QED
        BY <2>1, <2>3 DEF OkAfter
<1>6. QED
    BY <1>2, <1>3, <1>4, <1>5

\* A section that ends in sleep or with a new batch.
LEMMA SectionKeeps ==
    ASSUME QInv, NEW t \in Threads, NEW where \in {"wait", "work"},
           Section(t, where), NEW S \in SUBSET queue,
           queue' = queue \ S, batch' = [batch EXCEPT ![t] = S], where = "work" <=> S # {},
           UNCHANGED <<control, added, ret>>, fAllOk' = OkAfter(t),
           fOk' = fOk \/ fOk' = [fOk EXCEPT ![t] = OkAfter(t)],
           where = "work" => fOk' = [fOk EXCEPT ![t] = OkAfter(t)]
    PROVE  QInv'
<1>1. /\ Batches' /\ Counted' /\ Pending' = Pending \ batch[t]
      /\ pc' \in [Threads -> PCs] /\ pc'[t] = where
      /\ \A x \in Threads \ {t} : \/ pc'[x] = pc[x]
                                  \/ x \in Masters /\ pc[x] = "wait" /\ pc'[x] = "woken"
      /\ pc[t] # "merge" => batch[t] = {}
      /\ pc[t] \in {"start", "woken", "merge"}
    BY SectionFacts
<1>2. /\ OkAfter(t) \in BOOLEAN
      /\ Active => /\ ~OkAfter(t) => ~(added \subseteq Valid)
                   /\ OkAfter(t) /\ Pending \ batch[t] \subseteq Valid => added \subseteq Valid
      /\ ~Active => OkAfter(t) /\ pc[t] # "merge"
    BY MergedVerdict DEF Section
<1>3. /\ Masters \subseteq Threads /\ Workers \subseteq Threads
      /\ batch \in [Threads -> SUBSET Checks] /\ fOk \in [Threads -> BOOLEAN]
    BY DEF QInv, QTypes, Threads
<1>4. \A x \in Threads :
          /\ pc'[x] \in {"out", "adding", "returned", "gone", "merge"} => pc'[x] = pc[x]
          /\ pc[x] \in {"out", "adding", "returned", "gone"} => pc'[x] = pc[x]
    BY <1>1
<1>5. Active' <=> Active
    BY <1>3, <1>4 DEF Active
<1>6. fOk' \in [Threads -> BOOLEAN] /\ (\A x \in Threads \ {t} : fOk'[x] = fOk[x])
      /\ (where = "work" => fOk'[t] = OkAfter(t))
    BY <1>2, <1>3
<1>7. QTypes'
    <2>1. batch' \in [Threads -> SUBSET Checks] /\ queue' \in SUBSET Checks
        BY <1>3 DEF QInv, QTypes
    <2>2. QED
        BY <1>1, <1>2, <1>6, <2>1 DEF QInv, QTypes
<1>8. Owner'
    BY <1>3, <1>4 DEF QInv, Owner
<1>9. Quiet'
    BY <1>1, <1>2, <1>5 DEF QInv, Quiet
<1>10. Blame'
    <2> SUFFICES ASSUME Active
                 PROVE  /\ ~fAllOk' => ~(added \subseteq Valid)
                        /\ \A x \in Threads : pc'[x] \in {"work", "merge"} /\ ~fOk'[x] => ~(added \subseteq Valid)
                        /\ fAllOk' /\ Pending' \subseteq Valid => added \subseteq Valid
        BY <1>5 DEF Blame
    <2>1. (~fAllOk' => ~(added \subseteq Valid)) /\ (fAllOk' /\ Pending' \subseteq Valid => added \subseteq Valid)
        BY <1>1, <1>2
    <2>2. ASSUME NEW x \in Threads, pc'[x] \in {"work", "merge"}, ~fOk'[x]
          PROVE  ~(added \subseteq Valid)
        <3>1. CASE x = t
            BY <2>2, <3>1, <1>1, <1>2, <1>6
        <3>2. CASE x # t
            <4>1. pc[x] \in {"work", "merge"} /\ ~fOk[x]
                BY <2>2, <3>2, <1>1, <1>6
            <4>2. QED
                BY <4>1 DEF QInv, Blame
        <3>3. QED
            BY <3>1, <3>2
    <2>3. QED
        BY <2>1, <2>2
<1>11. Judged'
    <2> SUFFICES ASSUME NEW x \in Threads, pc'[x] = "merge", fOk'[x] PROVE batch'[x] \subseteq Valid
        BY DEF Judged
    <2>1. x # t /\ pc[x] = "merge"
        BY <1>1, <1>4
    <2>2. fOk[x] /\ batch'[x] = batch[x]
        BY <2>1, <1>3, <1>6
    <2>3. QED
        BY <2>1, <2>2 DEF QInv, Judged
<1>12. VerdictExact'
    BY <1>3, <1>4 DEF QInv, VerdictExact
<1>13. QED
    BY <1>1, <1>7, <1>8, <1>9, <1>10, <1>11, <1>12 DEF QInv

LEMMA QLoopWait ==
    ASSUME QInv, NEW t \in Threads, LoopWait(t)
    PROVE  QInv'
<1>1. /\ Section(t, "wait") /\ queue' = queue \ {} /\ batch' = [batch EXCEPT ![t] = {}]
      /\ UNCHANGED <<control, added, ret>> /\ fAllOk' = OkAfter(t) /\ fOk' = fOk
    BY DEF LoopWait
<1>2. {} \in SUBSET queue
    OBVIOUS
<1>3. QED
    BY <1>1, <1>2, SectionKeeps

\* A batch is never empty.
LEMMA QLoopTake ==
    ASSUME QInv, NEW t \in Threads, NEW S \in SUBSET queue, LoopTake(t, S)
    PROVE  QInv'
<1>1. /\ Section(t, "work") /\ queue' = queue \ S /\ batch' = [batch EXCEPT ![t] = S]
      /\ UNCHANGED <<control, added, ret>> /\ fAllOk' = OkAfter(t)
      /\ fOk' = [fOk EXCEPT ![t] = OkAfter(t)] /\ Cardinality(S) = BatchLen(t)
    BY DEF LoopTake
<1>2. S # {}
    <2>1. BatchLen(t) = 1 \/ BatchLen(t) = BatchSize \/ ~(BatchLen(t) < 1)
        BY DEF BatchLen
    <2>2. BatchLen(t) # 0
        BY <2>1, QueueConstants
    <2>3. QED
        BY <1>1, <2>2, FS_EmptySet
<1>3. QED
    BY <1>1, <1>2, SectionKeeps

\* The master's return: nothing is pending, so the verdict so far is final.
LEMMA QLoopReturn ==
    ASSUME QInv, NEW t \in Threads, LoopReturn(t)
    PROVE  QInv'
<1>1. /\ Section(t, "returned") /\ queue' = queue \ {} /\ batch' = [batch EXCEPT ![t] = {}]
      /\ UNCHANGED <<control, added, fOk>> /\ fAllOk' = TRUE /\ ret' = OkAfter(t)
      /\ t \in Masters /\ nTodo' = 0
    BY DEF LoopReturn, Section
<1>2. /\ Batches' /\ Counted' /\ Pending' = Pending \ batch[t]
      /\ pc' \in [Threads -> PCs] /\ pc'[t] = "returned"
      /\ \A x \in Threads \ {t} : \/ pc'[x] = pc[x]
                                  \/ x \in Masters /\ pc[x] = "wait" /\ pc'[x] = "woken"
      /\ pc[t] \in {"start", "woken", "merge"}
    <2>1. {} \in SUBSET queue
        OBVIOUS
    <2>2. QED
        BY <1>1, <2>1, SectionFacts
<1>3. /\ Masters \subseteq Threads /\ Workers \subseteq Threads
      /\ batch \in [Threads -> SUBSET Checks] /\ Workers \cap Masters = {}
    BY QueueConstants DEF QInv, QTypes, Threads
<1>4. Active
    BY <1>1, <1>2 DEF Active
<1>5. control = t /\ \A x \in Masters \ {t} : pc[x] = "out" /\ pc'[x] = "out"
    <2>1. control = t
        BY <1>1, <1>2 DEF QInv, Owner
    <2>2. \A x \in Masters \ {t} : pc[x] = "out"
        BY <2>1 DEF QInv, Owner
    <2>3. QED
        BY <2>1, <2>2, <1>2, <1>3
<1>6. ~Active'
    BY <1>2, <1>5 DEF Active
<1>7. QTypes'
    BY <1>1, <1>2, <1>3 DEF QInv, QTypes
<1>8. Pending' = {}
    <2>0. IsFiniteSet(Pending)
        BY PendingFinite DEF QInv
    <2>1. IsFiniteSet(Pending')
        BY <2>0, <1>2, FS_Difference
    <2>2. Cardinality(Pending') = 0
        BY <1>1, <1>2 DEF Counted
    <2>3. QED
        BY <2>1, <2>2, FS_EmptySet
<1>9. OkAfter(t) <=> added \subseteq Valid
    BY <1>1, <1>2, <1>4, <1>8, MergedVerdict DEF Section
<1>10. Owner'
    BY <1>1, <1>2, <1>3, <1>5 DEF QInv, Owner
<1>11. Quiet' /\ Blame'
    BY <1>1, <1>6, <1>8 DEF Quiet, Blame
<1>12. Judged'
    <2> SUFFICES ASSUME NEW x \in Threads PROVE batch'[x] = {}
        BY DEF Judged
    <2>1. QED
        BY <1>8 DEF Pending
<1>13. VerdictExact'
    BY <1>1, <1>5, <1>9 DEF VerdictExact
<1>14. QED
    BY <1>2, <1>7, <1>10, <1>11, <1>12, <1>13 DEF QInv

LEMMA QRun ==
    ASSUME QInv, NEW t \in Threads, Run(t)
    PROVE  QInv'
<1> DEFINE good == fOk[t] /\ batch[t] \subseteq Valid
<1>1. /\ pc[t] = "work" /\ pc' = [pc EXCEPT ![t] = "merge"]
      /\ fOk' = [fOk EXCEPT ![t] = good]
      /\ UNCHANGED <<control, queue, nTodo, fAllOk, batch, added, ret>>
    BY DEF Run, Goto
<1>2. /\ pc \in [Threads -> PCs] /\ fOk \in [Threads -> BOOLEAN]
      /\ Masters \subseteq Threads /\ Workers \subseteq Threads /\ good \in BOOLEAN
    BY DEF QInv, QTypes, Threads
<1> HIDE DEF good
<1>3. /\ pc' \in [Threads -> PCs] /\ pc'[t] = "merge" /\ \A x \in Threads \ {t} : pc'[x] = pc[x]
      /\ fOk' \in [Threads -> BOOLEAN] /\ fOk'[t] = good
      /\ \A x \in Threads \ {t} : fOk'[x] = fOk[x]
    BY <1>1, <1>2 DEF PCs
<1>4. Pending' = Pending
    BY <1>1 DEF Pending
<1>5. Active' <=> Active
    BY <1>1, <1>2, <1>3 DEF Active
<1>6. Active /\ batch[t] \subseteq added
    <2>1. batch[t] # {}
        BY <1>1 DEF QInv, Batches
    <2>2. Pending # {}
        BY <2>1 DEF Pending
    <2>3. batch[t] \subseteq Pending
        BY DEF Pending
    <2>4. QED
        BY <2>2, <2>3 DEF QInv, Quiet, Counted
<1>7. ~good => ~(added \subseteq Valid)
    <2>1. ~fOk[t] => ~(added \subseteq Valid)
        BY <1>1, <1>6 DEF QInv, Blame
    <2>2. QED
        BY <2>1, <1>6 DEF good
<1>8. QTypes' /\ Owner'
    BY <1>1, <1>2, <1>3 DEF QInv, QTypes, Owner
<1>9. Batches' /\ Counted' /\ Quiet'
    BY <1>1, <1>3, <1>4, <1>5 DEF QInv, Batches, Counted, Quiet
<1>10. Blame'
    <2> SUFFICES ASSUME NEW x \in Threads, pc'[x] \in {"work", "merge"}, ~fOk'[x]
                 PROVE  ~(added \subseteq Valid)
        BY <1>1, <1>4, <1>6 DEF QInv, Blame
    <2>1. CASE x = t
        BY <2>1, <1>3, <1>7
    <2>2. CASE x # t
        BY <2>2, <1>3, <1>6 DEF QInv, Blame
    <2>3. QED
        BY <2>1, <2>2
<1>11. Judged'
    <2> SUFFICES ASSUME NEW x \in Threads, pc'[x] = "merge", fOk'[x] PROVE batch[x] \subseteq Valid
        BY <1>1 DEF Judged
    <2>1. CASE x = t
        BY <2>1, <1>3 DEF good
    <2>2. CASE x # t
        BY <2>2, <1>3 DEF QInv, Judged
    <2>3. QED
        BY <2>1, <2>2
<1>12. VerdictExact'
    BY <1>1, <1>2, <1>3 DEF QInv, VerdictExact
<1>13. QED
    BY <1>8, <1>9, <1>10, <1>11, <1>12 DEF QInv
-----------------------------------------------------------------------------
LEMMA QStep == QInv /\ [Next]_vars => QInv'
<1> SUFFICES ASSUME QInv, [Next]_vars PROVE QInv'
    OBVIOUS
<1>1. CASE \E m \in Masters : Begin(m) \/ CallWait(m) \/ End(m)
    BY <1>1, QBegin, QCallWait, QEnd
<1>2. CASE \E m \in Masters, S \in SUBSET (Checks \ added), W \in SUBSET Workers : Add(m, S, W)
    BY <1>2, QAdd
<1>3. CASE \E t \in Threads : Loop(t) \/ Run(t) \/ SpuriousWake(t) \/ Interrupt(t)
    BY <1>3, QLoopReturn, QLoopWait, QLoopTake, QRun, QWakeOrInterrupt DEF Loop
<1>4. CASE UNCHANGED vars
    BY <1>4 DEF vars, QInv, QTypes, Owner, Batches, Counted, Quiet, Blame, Judged, VerdictExact,
                Pending, Active
<1>5. QED
    BY <1>1, <1>2, <1>3, <1>4 DEF Next

LEMMA QMeaning == QInv => VerdictExact /\ NothingLeftRunning
<1> SUFFICES ASSUME QInv, NEW m \in Masters, pc[m] = "returned"
             PROVE  queue = {} /\ \A t \in Threads : batch[t] = {}
    BY DEF QInv, NothingLeftRunning
<1>1. ~Active
    BY ReturnedQuiet DEF QInv
<1>2. Pending = {}
    BY <1>1 DEF QInv, Quiet
<1>3. QED
    BY <1>2 DEF Pending

\* Whenever Wait() has returned, its verdict is that of the session's checks,
\* however they were shared out among the threads.
THEOREM VerdictSafe == Safety => []VerdictExact
BY QInit, QStep, QMeaning, PTL DEF Safety

\* Whenever Wait() has returned, no check is queued and no thread still holds
\* one: the block and the view the checks point to may go.
THEOREM NothingRuns == Safety => []NothingLeftRunning
BY QInit, QStep, QMeaning, PTL DEF Safety
-----------------------------------------------------------------------------
(* The counters Loop keeps of itself.  An interruption leaves them too high, *)
(* so they bound the threads they count.                                    *)

Idlers == {t \in Threads : pc[t] \in {"wait", "woken"}}
Members == {t \in Threads : pc[t] \in {"wait", "woken", "work", "merge"}}
AtLeast(n, S) == n \in Nat /\ IsFiniteSet(S) /\ Cardinality(S) <= n

PoolInv ==
    /\ AtLeast(nIdle, Idlers) /\ AtLeast(nTotal, Members)
    /\ interrupted \in SUBSET Threads /\ ret \in BOOLEAN
    /\ interrupted = {} => \A w \in Workers : pc[w] # "gone"
    /\ NoLostWakeup

\* A counter that bounds a set bounds what the set becomes.
LEMMA AtLeastMoves ==
    ASSUME NEW n, NEW S, AtLeast(n, S)
    PROVE  /\ \A T \in SUBSET S : AtLeast(n, T)
           /\ \A t : \A T \in SUBSET (S \cup {t}) : AtLeast(n + 1, T)
           /\ \A t \in S : \A T \in SUBSET (S \ {t}) : AtLeast(n - 1, T)
<1>1. n \in Nat /\ IsFiniteSet(S) /\ Cardinality(S) \in Nat /\ Cardinality(S) <= n
    BY FS_CardinalityType DEF AtLeast
<1>2. ASSUME NEW T \in SUBSET S PROVE AtLeast(n, T)
    <2>1. IsFiniteSet(T) /\ Cardinality(T) <= Cardinality(S)
        BY <1>1, FS_Subset
    <2>2. Cardinality(T) \in Nat
        BY <2>1, FS_CardinalityType
    <2>3. QED
        BY <1>1, <2>1, <2>2 DEF AtLeast
<1>3. ASSUME NEW t, NEW T \in SUBSET (S \cup {t}) PROVE AtLeast(n + 1, T)
    <2>1. IsFiniteSet(S \cup {t}) /\ Cardinality(S \cup {t}) <= Cardinality(S) + 1
        BY <1>1, FS_AddElement
    <2>2. IsFiniteSet(T) /\ Cardinality(T) <= Cardinality(S \cup {t})
        BY <2>1, FS_Subset
    <2>3. Cardinality(T) \in Nat /\ Cardinality(S \cup {t}) \in Nat
        BY <2>1, <2>2, FS_CardinalityType
    <2>4. QED
        BY <1>1, <2>1, <2>2, <2>3 DEF AtLeast
<1>4. ASSUME NEW t \in S, NEW T \in SUBSET (S \ {t}) PROVE AtLeast(n - 1, T)
    <2>1. IsFiniteSet(S \ {t}) /\ Cardinality(S \ {t}) = Cardinality(S) - 1
        BY <1>1, FS_RemoveElement
    <2>2. IsFiniteSet(T) /\ Cardinality(T) <= Cardinality(S \ {t})
        BY <2>1, FS_Subset
    <2>3. Cardinality(T) \in Nat /\ Cardinality(S \ {t}) \in Nat
        BY <2>1, <2>2, FS_CardinalityType
    <2>4. QED
        BY <1>1, <2>1, <2>2, <2>3 DEF AtLeast
<1>5. QED
    BY <1>2, <1>3, <1>4

LEMMA PoolInit == Init => PoolInv
<1> SUFFICES ASSUME Init PROVE PoolInv
    OBVIOUS
<1>1. Idlers = {} /\ Members = {} /\ nIdle = 0 /\ nTotal = 0
    BY QueueConstants DEF Init, Idlers, Members, Threads
<1>2. AtLeast(0, {})
    BY FS_EmptySet DEF AtLeast
<1>3. QED
    BY <1>1, <1>2, QueueConstants DEF Init, PoolInv, NoLostWakeup, Threads

\* A critical section of Loop: the thread enters the count, becomes idle or
\* stops being so, and leaves no check to sleepers.
LEMMA PoolSection ==
    ASSUME QInv, PoolInv, NEW t \in Threads, NEW where \in {"wait", "work", "returned"},
           Section(t, where),
           nTotal' = IF where = "returned" THEN TotalAfter(t) - 1 ELSE TotalAfter(t),
           nIdle' = IF where = "wait" THEN IdleAfter(t) + 1 ELSE IdleAfter(t),
           where = "work" \/ queue' = {}, interrupted' = interrupted, ret' \in BOOLEAN
    PROVE  PoolInv'
<1>1. /\ pc[t] \in {"start", "woken", "merge"} /\ pc'[t] = where
      /\ \A x \in Threads \ {t} : \/ pc'[x] = pc[x]
                                  \/ pc[x] = "wait" /\ pc'[x] = "woken"
    BY DEF Section, AtLock, Notified
<1>2. AtLeast(nIdle, Idlers) /\ AtLeast(nTotal, Members)
    BY DEF PoolInv
<1>3. nIdle \in Nat /\ nTotal \in Nat
    BY <1>2 DEF AtLeast
<1>4. AtLeast(nIdle', Idlers')
    <2>1. CASE pc[t] = "woken"
        <3>1. t \in Idlers
            BY <2>1 DEF Idlers
        <3>2. CASE where = "wait"
            <4>1. Idlers' \in SUBSET Idlers
                BY <1>1, <2>1 DEF Idlers
            <4>2. nIdle' = nIdle
                BY <1>3, <2>1, <3>2 DEF IdleAfter
            <4>3. QED
                BY <1>2, <4>1, <4>2, AtLeastMoves
        <3>3. CASE where # "wait"
            <4>1. Idlers' \in SUBSET (Idlers \ {t})
                BY <1>1, <3>3 DEF Idlers
            <4>2. nIdle' = nIdle - 1
                BY <2>1, <3>3 DEF IdleAfter
            <4>3. QED
                BY <1>2, <3>1, <4>1, <4>2, AtLeastMoves
        <3>4. QED
            BY <3>2, <3>3
    <2>2. CASE pc[t] # "woken"
        <3>1. CASE where = "wait"
            <4>1. Idlers' \in SUBSET (Idlers \cup {t})
                BY <1>1 DEF Idlers
            <4>2. nIdle' = nIdle + 1
                BY <2>2, <3>1 DEF IdleAfter
            <4>3. QED
                BY <1>2, <4>1, <4>2, AtLeastMoves
        <3>2. CASE where # "wait"
            <4>1. Idlers' \in SUBSET Idlers
                BY <1>1, <2>2, <3>2 DEF Idlers
            <4>2. nIdle' = nIdle
                BY <2>2, <3>2 DEF IdleAfter
            <4>3. QED
                BY <1>2, <4>1, <4>2, AtLeastMoves
        <3>3. QED
            BY <3>1, <3>2
    <2>3. QED
        BY <2>1, <2>2
<1>5. AtLeast(nTotal', Members')
    <2>1. CASE pc[t] = "start" /\ where # "returned"
        <3>1. Members' \in SUBSET (Members \cup {t})
            BY <1>1 DEF Members
        <3>2. nTotal' = nTotal + 1
            BY <2>1 DEF TotalAfter
        <3>3. QED
            BY <1>2, <3>1, <3>2, AtLeastMoves
    <2>2. CASE (pc[t] = "start") = (where = "returned")
        <3>1. Members' \in SUBSET Members
            BY <1>1, <2>2 DEF Members
        <3>2. nTotal' = nTotal
            BY <1>3, <2>2 DEF TotalAfter
        <3>3. QED
            BY <1>2, <3>1, <3>2, AtLeastMoves
    <2>3. CASE pc[t] # "start" /\ where = "returned"
        <3>1. Members' \in SUBSET (Members \ {t}) /\ t \in Members
            BY <1>1, <2>3 DEF Members
        <3>2. nTotal' = nTotal - 1
            BY <2>3 DEF TotalAfter
        <3>3. QED
            BY <1>2, <3>1, <3>2, AtLeastMoves
    <2>4. QED
        BY <2>1, <2>2, <2>3
<1>6. NoLostWakeup'
    BY <1>1 DEF NoLostWakeup
<1>7. interrupted' = {} => \A w \in Workers : pc'[w] # "gone"
    BY <1>1 DEF PoolInv, Threads
<1>8. QED
    BY <1>4, <1>5, <1>6, <1>7 DEF PoolInv

\* Add wakes a sleeping worker, if all of them sleep.
LEMMA PoolAdd ==
    ASSUME QInv, PoolInv, NEW m \in Masters, NEW S \in SUBSET (Checks \ added),
           NEW W \in SUBSET Workers, Add(m, S, W)
    PROVE  PoolInv'
<1>1. /\ W \subseteq Sleeping /\ queue' = queue \cup S
      /\ pc' = [t \in Threads |-> IF t \in W THEN "woken" ELSE pc[t]]
      /\ UNCHANGED <<nTotal, nIdle, interrupted, ret>>
    BY DEF Add, WakeOK, Enqueue
<1>2. Idlers' = Idlers /\ Members' = Members
    BY <1>1 DEF Idlers, Members, Sleeping
<1>3. ASSUME interrupted = {}, queue' # {}
      PROVE  \E t \in Threads : pc'[t] \in {"start", "woken", "work", "merge"}
    <2>1. CASE \E w \in Workers : pc[w] # "wait"
        <3>1. PICK w \in Workers : pc[w] # "wait"
            BY <2>1
        <3>2. pc[w] \in {"start", "woken", "work", "merge"}
            BY <1>3, <3>1 DEF PoolInv, QInv, Owner, QTypes, PCs, Threads
        <3>3. pc'[w] = pc[w]
            BY <1>1, <3>1 DEF Sleeping, Threads
        <3>4. QED
            BY <3>2, <3>3 DEF Threads
    <2>2. CASE (\A w \in Workers : pc[w] = "wait") /\ W # {}
        <3>1. PICK w \in W : TRUE
            BY <2>2
        <3>2. pc'[w] = "woken" /\ w \in Threads
            BY <1>1 DEF Threads
        <3>3. QED
            BY <3>2
    <2>3. CASE (\A w \in Workers : pc[w] = "wait") /\ W = {}
        <3>1. Sleeping = Workers /\ Sleeping # {}
            BY <2>3, QueueConstants DEF Sleeping
        <3>2. IsFiniteSet(Sleeping)
            <4>1. Sleeping \in SUBSET Idlers
                BY DEF Sleeping, Idlers, Threads
            <4>2. QED
                BY <4>1, AtLeastMoves DEF PoolInv, AtLeast
        <3>3. Cardinality(Sleeping) # 0 /\ Cardinality(W) = 0
            BY <2>3, <3>1, <3>2, FS_EmptySet
        <3>4. Cardinality(S) = 0
            BY <3>1, <3>3 DEF Add, WakeOK
        <3>5. IsFiniteSet(S)
            BY QueueConstants, FS_Subset
        <3>6. S = {} /\ queue # {}
            BY <1>1, <1>3, <3>4, <3>5, FS_EmptySet
        <3>7. PICK t \in Threads : pc[t] \in {"start", "woken", "work", "merge"}
            BY <1>3, <3>6 DEF PoolInv, NoLostWakeup
        <3>8. pc'[t] = pc[t]
            BY <1>1, <2>3, <3>7
        <3>9. QED
            BY <3>7, <3>8
    <2>4. QED
        BY <2>1, <2>2, <2>3
<1>4. interrupted' = {} => \A w \in Workers : pc'[w] # "gone"
    BY <1>1 DEF PoolInv, Threads
<1>5. QED
    BY <1>1, <1>2, <1>3, <1>4 DEF PoolInv, NoLostWakeup

LEMMA PoolStep == QInv /\ PoolInv /\ [Next]_vars => PoolInv'
<1> SUFFICES ASSUME QInv, PoolInv, [Next]_vars PROVE PoolInv'
    OBVIOUS
<1>0. pc \in [Threads -> PCs] /\ \A m \in Masters : m \in Threads
    BY DEF QInv, QTypes, Threads
<1>1. ASSUME NEW t \in Threads, NEW where, pc' = [pc EXCEPT ![t] = where],
             pc[t] \in {"wait", "woken"} \/ where \notin {"wait", "woken"},
             pc[t] \in {"wait", "woken", "work", "merge"}
                 \/ where \notin {"wait", "woken", "work", "merge"},
             UNCHANGED <<nIdle, nTotal, ret>>
      PROVE  AtLeast(nIdle', Idlers') /\ AtLeast(nTotal', Members')
    <2>1. \A x \in Threads : pc'[x] = IF x = t THEN where ELSE pc[x]
        BY <1>0, <1>1
    <2>2. Idlers' \in SUBSET Idlers /\ Members' \in SUBSET Members
        BY <1>1, <2>1 DEF Idlers, Members
    <2>3. QED
        BY <1>1, <2>2, AtLeastMoves DEF PoolInv
<1>2. ASSUME NEW m \in Masters, Begin(m) PROVE PoolInv'
    <2>1. queue = {}
        BY <1>2, QueueConstants DEF Begin, QInv, Owner, Quiet, Active, Pending
    <2>2. /\ pc' = [pc EXCEPT ![m] = "adding"] /\ queue' = queue
          /\ UNCHANGED <<nIdle, nTotal, ret, interrupted>>
        BY <1>2 DEF Begin, Goto
    <2>3. QED
        BY <1>0, <1>1, <2>1, <2>2, QueueConstants DEF PoolInv, NoLostWakeup, Threads
<1>3. ASSUME NEW m \in Masters, CallWait(m) PROVE PoolInv'
    <2>1. /\ pc[m] = "adding" /\ pc' = [pc EXCEPT ![m] = "start"] /\ queue' = queue
          /\ UNCHANGED <<nIdle, nTotal, ret, interrupted>>
        BY <1>3 DEF CallWait, Goto
    <2>2. AtLeast(nIdle', Idlers') /\ AtLeast(nTotal', Members')
        BY <1>0, <1>1, <2>1
    <2>3. NoLostWakeup'
        BY <1>0, <2>1 DEF NoLostWakeup
    <2>4. QED
        BY <1>0, <2>1, <2>2, <2>3, QueueConstants DEF PoolInv, Threads
<1>4. ASSUME NEW m \in Masters, End(m) PROVE PoolInv'
    <2>1. /\ pc[m] = "returned" /\ pc' = [pc EXCEPT ![m] = "out"] /\ queue' = queue
          /\ UNCHANGED <<nIdle, nTotal, ret, interrupted>>
        BY <1>4 DEF End, Goto
    <2>2. AtLeast(nIdle', Idlers') /\ AtLeast(nTotal', Members')
        BY <1>0, <1>1, <2>1
    <2>3. NoLostWakeup'
        BY <1>0, <2>1 DEF PoolInv, NoLostWakeup
    <2>4. QED
        BY <1>0, <2>1, <2>2, <2>3, QueueConstants DEF PoolInv, Threads
<1>5. ASSUME NEW t \in Threads, LoopReturn(t) PROVE PoolInv'
    <2>1. ret' \in BOOLEAN
        BY <1>5, MergedVerdict DEF LoopReturn, Section
    <2>2. QED
        BY <1>5, <2>1, PoolSection DEF LoopReturn
<1>6. ASSUME NEW t \in Threads, LoopWait(t) PROVE PoolInv'
    BY <1>6, PoolSection DEF LoopWait, PoolInv
<1>7. ASSUME NEW t \in Threads, NEW S \in SUBSET queue, LoopTake(t, S) PROVE PoolInv'
    BY <1>7, PoolSection DEF LoopTake, PoolInv
<1>8. ASSUME NEW t \in Threads, Run(t) \/ SpuriousWake(t) PROVE PoolInv'
    <2>1. PICK where \in {"merge", "woken"} :
              /\ pc' = [pc EXCEPT ![t] = where] /\ queue' = queue
              /\ where = "merge" => pc[t] = "work"
              /\ where = "woken" => pc[t] = "wait"
              /\ UNCHANGED <<nIdle, nTotal, ret, interrupted>>
        BY <1>8 DEF Run, SpuriousWake, Goto
    <2>2. AtLeast(nIdle', Idlers') /\ AtLeast(nTotal', Members')
        BY <1>1, <2>1
    <2>3. NoLostWakeup'
        BY <1>0, <2>1 DEF NoLostWakeup
    <2>4. QED
        BY <1>0, <2>1, <2>2, <2>3 DEF PoolInv, Threads
<1>9. ASSUME NEW t \in Threads, Interrupt(t) PROVE PoolInv'
    <2>1. PICK where \in {"gone", "start"} :
              /\ pc' = [pc EXCEPT ![t] = where] /\ pc[t] \in {"wait", "woken"}
              /\ interrupted' = interrupted \cup {t} /\ UNCHANGED <<nIdle, nTotal, ret>>
        BY <1>9 DEF Interrupt, Goto
    <2>2. AtLeast(nIdle', Idlers') /\ AtLeast(nTotal', Members')
        BY <1>1, <2>1
    <2>3. interrupted' \in SUBSET Threads /\ interrupted' # {}
        BY <2>1 DEF PoolInv
    <2>4. QED
        BY <2>1, <2>2, <2>3 DEF PoolInv, NoLostWakeup
<1>10. CASE UNCHANGED vars
    BY <1>10 DEF vars, PoolInv, Idlers, Members, NoLostWakeup
<1>11. QED
    BY <1>2, <1>3, <1>4, <1>5, <1>6, <1>7, <1>8, <1>9, <1>10, PoolAdd DEF Next, Loop

\* With any number of workers, interrupted at any time: the counters Loop keeps
\* of itself never wrap below zero, and until the first interruption no queued
\* check is left to sleeping threads.
THEOREM PoolKept == Safety => []PoolOrderly
<1>1. QInv /\ PoolInv => PoolOrderly
    <2> SUFFICES ASSUME QInv, PoolInv PROVE TypeOK
        BY DEF PoolOrderly, PoolInv
    <2>1. nTodo \in Nat
        BY PendingFinite, FS_CardinalityType DEF QInv, Counted
    <2>2. QED
        BY <2>1 DEF TypeOK, QInv, QTypes, PCs, PoolInv, AtLeast
<1>2. QED
    BY <1>1, QInit, QStep, PoolInit, PoolStep, PTL DEF Safety

-----------------------------------------------------------------------------
(* The queue implements the sequential controller.                          *)

\* Where the session stands, in terms of its owner.
LEMMA PhaseMeaning ==
    /\ control = NoMaster => Phase = "closed"
    /\ control # NoMaster /\ pc[control] = "adding" => Phase = "open"
    /\ control # NoMaster /\ pc[control] = "returned" => Phase = "done"
    /\ control # NoMaster /\ pc[control] \notin {"adding", "returned"} => Phase = "waiting"
BY DEF Phase

\* A step of a thread that is not in a session, or that stays waiting in it, is
\* a stuttering step of the controller.
LEMMA Stutters ==
    ASSUME QInv, UNCHANGED <<control, added, ret>>,
           \A m \in Masters : \/ pc'[m] = pc[m]
                              \/ /\ pc[m] \notin {"adding", "returned"}
                                 /\ pc'[m] \notin {"adding", "returned"}
    PROVE  UNCHANGED Verdict!vars
<1>1. control \in Masters \cup {NoMaster}
    BY DEF QInv, QTypes
<1>2. Phase' = Phase
    <2>1. CASE control = NoMaster
        BY <2>1 DEF Phase
    <2>2. CASE control # NoMaster
        BY <1>1, <2>2 DEF Phase
    <2>3. QED
        BY <2>1, <2>2
<1>3. QED
    BY <1>2 DEF Verdict!vars

LEMMA VerdictStep == QInv /\ [Next]_vars => [Verdict!Next]_(Verdict!vars)
<1> SUFFICES ASSUME QInv, [Next]_vars PROVE Verdict!Next \/ UNCHANGED Verdict!vars
    OBVIOUS
<1>0. /\ pc \in [Threads -> PCs] /\ Masters \subseteq Threads /\ NoMaster \notin Masters
      /\ Workers \cap Masters = {}
      /\ \A m \in Masters : pc[m] = "out" <=> control # m
    BY QueueConstants DEF QInv, QTypes, Owner, Threads
<1>1. ASSUME NEW m \in Masters, Begin(m) PROVE Verdict!Next
    <2>1. control = NoMaster /\ control' = m /\ added' = {} /\ ret' = ret /\ pc'[m] = "adding"
        BY <1>0, <1>1 DEF Begin, Goto
    <2>2. Phase = "closed" /\ Phase' = "open"
        BY <1>0, <2>1 DEF Phase
    <2>3. Verdict!Open(m)
        BY <2>1, <2>2 DEF Verdict!Open
    <2>4. QED
        BY <2>3 DEF Verdict!Next
<1>2. ASSUME NEW m \in Masters, CallWait(m) PROVE Verdict!Next
    <2>1. control = m /\ pc[m] = "adding" /\ pc'[m] = "start" /\ UNCHANGED <<control, added, ret>>
        BY <1>0, <1>2 DEF CallWait, Goto
    <2>2. Phase = "open" /\ Phase' = "waiting"
        BY <1>0, <2>1 DEF Phase
    <2>3. QED
        BY <2>1, <2>2 DEF Verdict!Next, Verdict!Ask
<1>3. ASSUME NEW m \in Masters, End(m) PROVE Verdict!Next
    <2>1. control = m /\ pc[m] = "returned" /\ control' = NoMaster /\ UNCHANGED <<added, ret>>
        BY <1>0, <1>3 DEF End
    <2>2. Phase = "done" /\ Phase' = "closed"
        BY <1>0, <2>1 DEF Phase
    <2>3. QED
        BY <2>1, <2>2 DEF Verdict!Next, Verdict!Close
<1>4. ASSUME NEW m \in Masters, NEW S \in SUBSET (Checks \ added), NEW W \in SUBSET Workers,
             Add(m, S, W)
      PROVE  Verdict!Next
    <2>1. /\ control = m /\ pc[m] = "adding" /\ m \notin W
          /\ added' = added \cup S /\ UNCHANGED <<control, ret>>
        BY <1>0, <1>4 DEF Add, Enqueue
    <2>2. pc'[m] = "adding"
        BY <1>0, <1>4, <2>1 DEF Add, Enqueue
    <2>3. Phase = "open" /\ Phase' = "open"
        BY <1>0, <2>1, <2>2 DEF Phase
    <2>4. S \in SUBSET Checks /\ Verdict!Collect(S)
        BY <2>1, <2>3 DEF Verdict!Collect
    <2>5. QED
        BY <2>4 DEF Verdict!Next
<1>5. ASSUME NEW t \in Threads, LoopReturn(t) PROVE Verdict!Next
    <2>1. /\ t \in Masters /\ pc[t] \in {"start", "woken", "merge"} /\ pc'[t] = "returned"
          /\ UNCHANGED <<control, added>>
        BY <1>5 DEF LoopReturn, Section, AtLock
    <2>2. control = t
        BY <1>0, <2>1
    <2>3. Phase = "waiting" /\ Phase' = "done"
        BY <1>0, <2>1, <2>2 DEF Phase
    <2>4. ret' = (added \subseteq Valid)
        <3>1. QInv'
            BY <1>5, QLoopReturn
        <3>2. ret' <=> added' \subseteq Valid
            BY <2>1, <3>1 DEF QInv, VerdictExact
        <3>3. ret' \in BOOLEAN
            BY <1>5, MergedVerdict DEF LoopReturn, Section
        <3>4. QED
            BY <2>1, <3>2, <3>3
    <2>5. QED
        BY <2>1, <2>3, <2>4 DEF Verdict!Next, Verdict!Answer
<1>6. ASSUME NEW t \in Threads, LoopWait(t) \/ \E S \in SUBSET queue : LoopTake(t, S)
      PROVE  UNCHANGED Verdict!vars
    <2>1. UNCHANGED <<control, added, ret>> /\ AtLock(t)
        BY <1>6 DEF LoopWait, LoopTake, Section
    <2>2. \E where \in {"wait", "work"} :
              pc' = [x \in Threads |-> IF x = t THEN where
                                       ELSE IF x \in Notified(t) THEN "woken" ELSE pc[x]]
        BY <1>6 DEF LoopWait, LoopTake, Section
    <2>3. \A x \in Notified(t) : pc[x] = "wait"
        BY DEF Notified
    <2>4. \A m \in Masters : \/ pc'[m] = pc[m]
                             \/ /\ pc[m] \notin {"adding", "returned"}
                                /\ pc'[m] \notin {"adding", "returned"}
        BY <1>0, <2>1, <2>2, <2>3 DEF AtLock
    <2>5. QED
        BY <2>1, <2>4, Stutters
<1>7. ASSUME NEW t \in Threads, Run(t) \/ SpuriousWake(t) \/ Interrupt(t)
      PROVE  UNCHANGED Verdict!vars
    <2>1. UNCHANGED <<control, added, ret>> /\ pc[t] \in {"work", "wait", "woken"}
        BY <1>7 DEF Run, SpuriousWake, Interrupt
    <2>2. \E where \in {"merge", "woken", "gone", "start"} : pc' = [pc EXCEPT ![t] = where]
        BY <1>7 DEF Run, SpuriousWake, Interrupt, Goto
    <2>3. \A m \in Masters : \/ pc'[m] = pc[m]
                             \/ /\ pc[m] \notin {"adding", "returned"}
                                /\ pc'[m] \notin {"adding", "returned"}
        BY <1>0, <2>1, <2>2
    <2>4. QED
        BY <2>1, <2>3, Stutters
<1>8. CASE UNCHANGED vars
    <2>1. UNCHANGED <<control, added, ret, pc>>
        BY <1>8 DEF vars
    <2>2. QED
        BY <2>1, Stutters
<1>9. QED
    BY <1>1, <1>2, <1>3, <1>4, <1>5, <1>6, <1>7, <1>8 DEF Next, Loop

\* Whatever the threads do, the caller sees a sequential controller: sessions
\* one at a time, each answered with the conjunction of its own checks.
THEOREM QueueImplementsVerdict == Safety => Verdict!Safety
<1>1. Init => Verdict!Init
    BY DEF Init, Verdict!Init, Phase
<1>2. QED
    BY <1>1, QInit, QStep, VerdictStep, PTL DEF Safety, Verdict!Safety
-----------------------------------------------------------------------------

USE CoinsConstants

\* An absent entry carries no flags, and a view that does not exist is empty.
Canonical ==
    /\ \A t \in Txids : ~tip.cache[t].here => tip.cache[t] = NoEntry
    /\ \A t \in Txids : ~child.cache[t].here => child.cache[t] = NoEntry
    /\ ~open => child = [cache |-> NoCache, best |-> NoHash]

CoinsInv == CoinsTypeOK /\ Canonical /\ FreshSound /\ CleanIsCopy

\* The initial state satisfies the invariant.
LEMMA InitInv == CoinsInit => CoinsInv
<1> SUFFICES ASSUME CoinsInit PROVE CoinsInv OBVIOUS
<1> USE DEF CoinsInit, View, Entry, Outputs, NoEntry, NoCache
<1>1. CoinsTypeOK BY DEF CoinsTypeOK
<1>2. Canonical BY DEF Canonical
<1>3. FreshSound BY DEF FreshSound
<1>4. CleanIsCopy BY DEF CleanIsCopy
<1> QED BY <1>1, <1>2, <1>3, <1>4 DEF CoinsInv

\* Reading through pcoinsTip keeps the invariant.
LEMMA AccessTipInv ==
  ASSUME CoinsInv, NEW t \in Txids, AccessTip(t)
  PROVE  CoinsInv'
<1> USE DEF CoinsInv, CoinsTypeOK, View, Entry, Outputs, Canonical, NoEntry, NoCache, AccessTip, TipFetched, Copied
<1>1. CoinsTypeOK' OBVIOUS
<1>2. Canonical' OBVIOUS
<1>3. FreshSound' BY DEF FreshSound, CleanIsCopy, InDb, InTip
<1>4. CleanIsCopy' BY DEF FreshSound, CleanIsCopy, InDb, InTip
<1> QED BY <1>1, <1>2, <1>3, <1>4 DEF CoinsInv

\* Reading through the view on top keeps the invariant.
LEMMA AccessChildInv ==
  ASSUME CoinsInv, NEW t \in Txids, AccessChild(t)
  PROVE  CoinsInv'
<1> USE DEF CoinsInv, CoinsTypeOK, View, Entry, Outputs, Canonical, NoEntry, NoCache, AccessChild, TipAsked, ChildFetched, TipFetched, Copied
<1>1. CoinsTypeOK' OBVIOUS
<1>2. Canonical' OBVIOUS
<1>3. FreshSound' BY DEF FreshSound, CleanIsCopy, InDb, InTip
<1>4. CleanIsCopy' BY DEF FreshSound, CleanIsCopy, InDb, InTip
<1> QED BY <1>1, <1>2, <1>3, <1>4 DEF CoinsInv

\* Dropping an unmodified entry keeps the invariant.
LEMMA UncacheInv ==
  ASSUME CoinsInv, NEW t \in Txids, Uncache(t)
  PROVE  CoinsInv'
<1> USE DEF CoinsInv, CoinsTypeOK, View, Entry, Outputs, Canonical, NoEntry, NoCache, Uncache, Clean
<1>1. CoinsTypeOK' OBVIOUS
<1>2. Canonical' OBVIOUS
<1>3. FreshSound' BY DEF FreshSound, CleanIsCopy, InDb, InTip
<1>4. CleanIsCopy' BY DEF FreshSound, CleanIsCopy, InDb, InTip
<1> QED BY <1>1, <1>2, <1>3, <1>4 DEF CoinsInv

\* A new view keeps the invariant.
LEMMA BeginViewInv ==
  ASSUME CoinsInv, BeginView
  PROVE  CoinsInv'
<1> USE DEF CoinsInv, CoinsTypeOK, View, Entry, Outputs, Canonical, NoEntry, NoCache, BeginView, TipBest
<1>1. CoinsTypeOK' OBVIOUS
<1>2. Canonical' OBVIOUS
<1>3. FreshSound' BY DEF FreshSound, CleanIsCopy, InDb, InTip
<1>4. CleanIsCopy' BY DEF FreshSound, CleanIsCopy, InDb, InTip
<1> QED BY <1>1, <1>2, <1>3, <1>4 DEF CoinsInv

\* A modifier keeps the invariant.
LEMMA ModifyCoinsInv ==
  ASSUME CoinsInv, NEW t \in Txids, NEW v \in Outputs, ModifyCoins(t, v)
  PROVE  CoinsInv'
<1> USE DEF CoinsInv, CoinsTypeOK, View, Entry, Outputs, Canonical, NoEntry, NoCache, ModifyCoins, ModifiedEntry, Cleaned, TipAsked, ChildFetched, TipFetched, Copied
<1>1. CoinsTypeOK' OBVIOUS
<1>2. Canonical' OBVIOUS
<1>3. FreshSound' BY DEF FreshSound, CleanIsCopy, InDb, InTip
<1>4. CleanIsCopy' BY DEF FreshSound, CleanIsCopy, InDb, InTip
<1> QED BY <1>1, <1>2, <1>3, <1>4 DEF CoinsInv

\* A modifier of new coins keeps the invariant.
LEMMA ModifyNewCoinsInv ==
  ASSUME CoinsInv, NEW t \in Txids, NEW v \in Outputs, NEW coinbase \in BOOLEAN, ModifyNewCoins(t, v, coinbase)
  PROVE  CoinsInv'
<1> USE DEF CoinsInv, CoinsTypeOK, View, Entry, Outputs, Canonical, NoEntry, NoCache, ModifyNewCoins, NewEntry, Cleaned, InChild
<1>1. CoinsTypeOK' OBVIOUS
<1>2. Canonical' OBVIOUS
<1>3. FreshSound' BY DEF FreshSound, CleanIsCopy, InDb, InTip
<1>4. CleanIsCopy' BY DEF FreshSound, CleanIsCopy, InDb, InTip
<1> QED BY <1>1, <1>2, <1>3, <1>4 DEF CoinsInv

\* What BatchWrite makes of an entry of the view and one of pcoinsTip.
LEMMA MergedEntry ==
  ASSUME NEW c \in Entry, NEW p \in Entry,
         ~c.here => c = NoEntry, ~p.here => p = NoEntry
  PROVE  /\ Merged(c, p) \in Entry
         /\ ~Merged(c, p).here => Merged(c, p) = NoEntry
         /\ ~c.dirty => Merged(c, p) = p
         /\ c.dirty /\ Merged(c, p).here => Merged(c, p).dirty /\ Merged(c, p).coins = c.coins
         /\ c.dirty /\ ~Merged(c, p).here =>
                c.coins = Pruned /\ (p.fresh \/ (~p.here /\ c.fresh))
         /\ Merged(c, p).fresh => p.fresh \/ (~p.here /\ c.fresh)
<1>1. CASE ~c.dirty BY <1>1 DEF Merged, Entry, NoEntry
<1>2. CASE c.dirty /\ ~p.here BY <1>2 DEF Merged, Cleaned, Entry, NoEntry, Outputs
<1>3. CASE c.dirty /\ p.here
  <2> DEFINE q == [p EXCEPT !.coins = c.coins, !.dirty = TRUE]
  <2>1. q \in Entry /\ q.here = p.here /\ q.coins = c.coins /\ q.dirty = TRUE /\ q.fresh = p.fresh
    BY DEF Entry, Outputs
  <2>2. Merged(c, p) = Cleaned(q) BY <1>3 DEF Merged
  <2> HIDE DEF q
  <2>3. CASE q.fresh /\ q.coins = Pruned
    <3>1. Merged(c, p) = NoEntry BY <2>2, <2>3 DEF Cleaned
    <3> QED BY <1>3, <2>1, <2>3, <3>1 DEF NoEntry, Entry, Outputs
  <2>4. CASE ~(q.fresh /\ q.coins = Pruned)
    <3>1. Merged(c, p) = q BY <2>2, <2>4 DEF Cleaned
    <3> QED BY <1>3, <2>1, <3>1
  <2> QED BY <2>3, <2>4
<1> QED BY <1>1, <1>2, <1>3 DEF Entry

\* Writing the view into pcoinsTip keeps the invariant, and pcoinsTip then says
\* what the view said.
LEMMA FlushViewInv ==
  ASSUME CoinsInv, NEW b \in Blocks, FlushView(b)
  PROVE  CoinsInv' /\ \A t \in Txids : InTip(t)' = InChild(t)
<1> DEFINE m(t) == Merged(child.cache[t], tip.cache[t])
<1>1. /\ db' = db /\ open' = FALSE
      /\ tip' = [cache |-> [t \in Txids |-> m(t)], best |-> b]
      /\ child' = [cache |-> NoCache, best |-> NoHash]
  BY DEF FlushView
<1>2. \A t \in Txids : tip'.cache[t] = m(t) /\ child'.cache[t] = NoEntry
  BY <1>1 DEF NoCache
<1>3. ASSUME NEW t \in Txids
      PROVE  /\ m(t) \in Entry
             /\ ~m(t).here => m(t) = NoEntry
             /\ m(t).fresh => InDb(t) = Pruned
             /\ m(t).here /\ ~m(t).dirty => m(t).coins = InDb(t)
             /\ InChild(t) = IF m(t).here THEN m(t).coins ELSE InDb(t)
  <2>1. child.cache[t] \in Entry /\ tip.cache[t] \in Entry BY DEF CoinsInv, CoinsTypeOK, View
  <2>2. /\ ~child.cache[t].here => child.cache[t] = NoEntry
        /\ ~tip.cache[t].here => tip.cache[t] = NoEntry
    BY DEF CoinsInv, Canonical
  <2>3. /\ tip.cache[t].fresh => InDb(t) = Pruned
        /\ child.cache[t].fresh => InTip(t) = Pruned
        /\ tip.cache[t].here /\ ~tip.cache[t].dirty => tip.cache[t].coins = InDb(t)
        /\ child.cache[t].here /\ ~child.cache[t].dirty => child.cache[t].coins = InTip(t)
    BY DEF CoinsInv, FreshSound, CleanIsCopy
  <2>4. /\ m(t) \in Entry
        /\ ~m(t).here => m(t) = NoEntry
        /\ ~child.cache[t].dirty => m(t) = tip.cache[t]
        /\ child.cache[t].dirty /\ m(t).here => m(t).dirty /\ m(t).coins = child.cache[t].coins
        /\ child.cache[t].dirty /\ ~m(t).here =>
                child.cache[t].coins = Pruned
                /\ (tip.cache[t].fresh \/ (~tip.cache[t].here /\ child.cache[t].fresh))
        /\ m(t).fresh => tip.cache[t].fresh \/ (~tip.cache[t].here /\ child.cache[t].fresh)
    BY <2>1, <2>2, MergedEntry
  <2> HIDE DEF m
  <2>5. /\ ~tip.cache[t].here => InTip(t) = InDb(t)
        /\ tip.cache[t].here => InTip(t) = tip.cache[t].coins
        /\ ~child.cache[t].here => InChild(t) = InTip(t)
        /\ child.cache[t].here => InChild(t) = child.cache[t].coins
    BY DEF InTip, InChild
  <2>6. child.cache[t].dirty => child.cache[t].here BY <2>2 DEF NoEntry
  <2>7. InChild(t) = IF m(t).here THEN m(t).coins ELSE InDb(t)
    <3>1. CASE ~child.cache[t].dirty BY <3>1, <2>3, <2>4, <2>5
    <3>2. CASE child.cache[t].dirty BY <3>2, <2>3, <2>4, <2>5, <2>6
    <3> QED BY <3>1, <3>2
  <2>8. m(t).fresh => InDb(t) = Pruned BY <2>3, <2>4, <2>5
  <2>9. m(t).here /\ ~m(t).dirty => m(t).coins = InDb(t) BY <2>3, <2>4
  <2> QED BY <2>4, <2>7, <2>8, <2>9
<1> HIDE DEF m
<1>4. CoinsTypeOK' BY <1>1, <1>3 DEF CoinsInv, CoinsTypeOK, View, NoCache, NoEntry, Entry, Outputs
<1>5. Canonical' BY <1>1, <1>2, <1>3 DEF Canonical, NoCache
<1>6. FreshSound' BY <1>1, <1>2, <1>3 DEF FreshSound, InDb, NoEntry
<1>7. CleanIsCopy' BY <1>1, <1>2, <1>3 DEF CleanIsCopy, InDb, NoEntry
<1>8. \A t \in Txids : InTip(t)' = InChild(t) BY <1>1, <1>2, <1>3 DEF InTip, InDb
<1> QED BY <1>4, <1>5, <1>6, <1>7, <1>8 DEF CoinsInv

\* Dropping the view keeps the invariant.
LEMMA DropViewInv ==
  ASSUME CoinsInv, DropView
  PROVE  CoinsInv'
<1> USE DEF CoinsInv, CoinsTypeOK, View, Entry, Outputs, Canonical, NoEntry, NoCache, DropView
<1>1. CoinsTypeOK' OBVIOUS
<1>2. Canonical' OBVIOUS
<1>3. FreshSound' BY DEF FreshSound, CleanIsCopy, InDb, InTip
<1>4. CleanIsCopy' BY DEF FreshSound, CleanIsCopy, InDb, InTip
<1> QED BY <1>1, <1>2, <1>3, <1>4 DEF CoinsInv

\* Writing pcoinsTip into the database keeps the invariant.
LEMMA FlushTipInv ==
  ASSUME CoinsInv, FlushTip
  PROVE  CoinsInv'
<1> USE DEF CoinsInv, CoinsTypeOK, View, Entry, Outputs, Canonical, NoEntry, NoCache, FlushTip, Written
<1>1. CoinsTypeOK' OBVIOUS
<1>2. Canonical' OBVIOUS
<1>3. FreshSound' BY DEF FreshSound, CleanIsCopy, InDb, InTip
<1>4. CleanIsCopy' BY DEF FreshSound, CleanIsCopy, InDb, InTip
<1> QED BY <1>1, <1>2, <1>3, <1>4 DEF CoinsInv

\* A restart keeps the invariant.
LEMMA RestartInv ==
  ASSUME CoinsInv, Restart
  PROVE  CoinsInv'
<1> USE DEF CoinsInv, CoinsTypeOK, View, Entry, Outputs, Canonical, NoEntry, NoCache, Restart
<1>1. CoinsTypeOK' OBVIOUS
<1>2. Canonical' OBVIOUS
<1>3. FreshSound' BY DEF FreshSound, CleanIsCopy, InDb, InTip
<1>4. CleanIsCopy' BY DEF FreshSound, CleanIsCopy, InDb, InTip
<1> QED BY <1>1, <1>2, <1>3, <1>4 DEF CoinsInv

\* Every step keeps the invariant.
LEMMA NextInv == CoinsInv /\ [CoinsNext]_coinVars => CoinsInv'
<1> SUFFICES ASSUME CoinsInv, [CoinsNext]_coinVars PROVE CoinsInv' OBVIOUS
<1>1. CASE UNCHANGED coinVars
  BY <1>1 DEF coinVars, CoinsInv, CoinsTypeOK, Canonical, FreshSound, CleanIsCopy, InDb, InTip
<1>2. CASE CoinsNext
  BY <1>2, AccessTipInv, AccessChildInv, UncacheInv, BeginViewInv, ModifyCoinsInv,
     ModifyNewCoinsInv, FlushViewInv, DropViewInv, FlushTipInv, RestartInv DEF CoinsNext
<1> QED BY <1>1, <1>2

\* In every behaviour of the views, FRESH and DIRTY say what they mean and no
\* spent transaction is a row of the database.
THEOREM CoinsSafe == CoinsSpec => []FlagsSound
<1>1. CoinsInv => FlagsSound BY DEF CoinsInv, FlagsSound
<1> QED BY InitInv, NextInv, <1>1, PTL DEF CoinsSpec
-----------------------------------------------------------------------------
(* The refinement.                                                          *)

\* The three maps the views stand for.
SavedMap == [coins |-> [t \in Txids |-> InDb(t)], best |-> db.best]
CurrentMap == [coins |-> [t \in Txids |-> InTip(t)], best |-> TipBest]
ScratchMap ==
    IF open THEN [coins |-> [t \in Txids |-> InChild(t)], best |-> ChildBest]
    ELSE [coins |-> [t \in Txids |-> Pruned], best |-> NoHash]
SameMaps == SavedMap' = SavedMap /\ CurrentMap' = CurrentMap /\ ScratchMap' = ScratchMap

\* Maps that agree everywhere, with the same best blocks, are the same.
LEMMA SameViews ==
  ASSUME \A t \in Txids : InDb(t)' = InDb(t) /\ InTip(t)' = InTip(t) /\ InChild(t)' = InChild(t),
         db'.best = db.best, TipBest' = TipBest, ChildBest' = ChildBest, open' = open
  PROVE  SameMaps
BY DEF SameMaps, SavedMap, CurrentMap, ScratchMap

\* Reading and dropping unmodified entries is invisible.
LEMMA ReadsInvisible ==
  ASSUME CoinsInv, NEW t \in Txids, AccessTip(t) \/ AccessChild(t) \/ Uncache(t)
  PROVE  SameMaps /\ open' = open
<1> USE DEF CoinsInv, CoinsTypeOK, View, Entry, Outputs, Canonical, NoEntry, NoCache, CleanIsCopy,
            InDb, InTip, InChild, TipBest, ChildBest
<1>1. CASE AccessTip(t)
  <2> USE <1>1 DEF AccessTip, TipFetched, Copied
  <2>1. db' = db /\ open' = open /\ tip'.best = tip.best /\ child' = child OBVIOUS
  <2>2. \A s \in Txids : InDb(s)' = InDb(s) /\ InTip(s)' = InTip(s) OBVIOUS
  <2>3. \A s \in Txids : InChild(s)' = InChild(s) BY <2>1, <2>2
  <2> QED BY <2>1, <2>2, <2>3, SameViews
<1>2. CASE AccessChild(t)
  <2> USE <1>2 DEF AccessChild, TipAsked, ChildFetched, TipFetched, Copied
  <2>1. db' = db /\ open' = open /\ tip'.best = tip.best /\ child'.best = child.best OBVIOUS
  <2>2. \A s \in Txids : InDb(s)' = InDb(s) /\ InTip(s)' = InTip(s) OBVIOUS
  <2>3. \A s \in Txids : InChild(s)' = InChild(s) OBVIOUS
  <2> QED BY <2>1, <2>2, <2>3, SameViews
<1>3. CASE Uncache(t)
  <2> USE <1>3 DEF Uncache, Clean
  <2>1. db' = db /\ open' = open /\ tip'.best = tip.best /\ child' = child OBVIOUS
  <2>2. \A s \in Txids : InDb(s)' = InDb(s) /\ InTip(s)' = InTip(s) OBVIOUS
  <2>3. \A s \in Txids : InChild(s)' = InChild(s) BY <2>1, <2>2
  <2> QED BY <2>1, <2>2, <2>3, SameViews
<1> QED BY <1>1, <1>2, <1>3

\* A modifier writes one transaction of the scratch map.
LEMMA ModifierWrites ==
  ASSUME CoinsInv, NEW t \in Txids, NEW v \in Outputs,
         ModifyCoins(t, v) \/ \E coinbase \in BOOLEAN : ModifyNewCoins(t, v, coinbase)
  PROVE  Store!Write(t, v)
<1>1. /\ db' = db /\ open /\ open' /\ tip'.best = tip.best /\ child'.best = child.best
      /\ \A s \in Txids : InDb(s)' = InDb(s)
  BY DEF ModifyCoins, ModifyNewCoins, InDb, CoinsInv, CoinsTypeOK, View
<1>2. \A s \in Txids : InTip(s)' = InTip(s)
  <2>1. CASE ModifyCoins(t, v)
    BY <2>1 DEF ModifyCoins, TipAsked, TipFetched, Copied, InTip, InDb, CoinsInv, CoinsTypeOK, View, Entry
  <2>2. CASE \E coinbase \in BOOLEAN : ModifyNewCoins(t, v, coinbase)
    BY <2>2 DEF ModifyNewCoins, InTip, InDb
  <2> QED BY <2>1, <2>2
<1>3. \A s \in Txids : InChild(s)' = IF s = t THEN v ELSE InChild(s)
  <2> USE DEF CoinsInv, CoinsTypeOK, View, Entry, Outputs, Canonical, NoEntry, CleanIsCopy, FreshSound,
              InDb, InTip, InChild
  <2>1. CASE ModifyCoins(t, v)
    BY <2>1, <1>2 DEF ModifyCoins, ModifiedEntry, Cleaned, TipAsked, ChildFetched, TipFetched, Copied
  <2>2. CASE \E coinbase \in BOOLEAN : ModifyNewCoins(t, v, coinbase)
    BY <2>2, <1>2 DEF ModifyNewCoins, NewEntry, Cleaned
  <2> QED BY <2>1, <2>2
<1>4. TipBest' = TipBest /\ ChildBest' = ChildBest BY <1>1 DEF TipBest, ChildBest
<1> DEFINE before == [coins |-> [s \in Txids |-> InChild(s)], best |-> ChildBest]
           after == [coins |-> [s \in Txids |-> IF s = t THEN v ELSE InChild(s)], best |-> ChildBest]
<1>5. ScratchMap = before /\ ScratchMap' = after BY <1>1, <1>3, <1>4 DEF ScratchMap
<1>6. [before EXCEPT !.coins[t] = v] = after
  <2> DEFINE F == [s \in Txids |-> InChild(s)]
             G == [s \in Txids |-> IF s = t THEN v ELSE InChild(s)]
  <2>1. [F EXCEPT ![t] = v] = G OBVIOUS
  <2>2. before = [coins |-> F, best |-> ChildBest] /\ after = [coins |-> G, best |-> ChildBest]
    OBVIOUS
  <2> HIDE DEF F, G, before, after
  <2> QED BY <2>1, <2>2
<1>7. SavedMap' = SavedMap /\ CurrentMap' = CurrentMap
  BY <1>1, <1>2, <1>4 DEF SavedMap, CurrentMap
<1> HIDE DEF before, after
<1>8. ScratchMap' = [ScratchMap EXCEPT !.coins[t] = v] BY <1>5, <1>6
<1>9. open' = open BY DEF ModifyCoins, ModifyNewCoins
<1> QED BY <1>1, <1>7, <1>8, <1>9 DEF Store!Write, SavedMap, CurrentMap, ScratchMap

\* A new view starts from what pcoinsTip says, best block included.
LEMMA BeginBegins == ASSUME CoinsInv, BeginView PROVE Store!Begin
<1>1. db' = db /\ ~open /\ open' BY DEF BeginView
<1>2. TipBest' = TipBest /\ ChildBest' = TipBest
  BY DEF BeginView, TipBest, ChildBest, CoinsInv, CoinsTypeOK, View
<1>3. \A t \in Txids : InDb(t)' = InDb(t) /\ InTip(t)' = InTip(t) /\ InChild(t)' = InTip(t)
  BY DEF BeginView, InDb, InTip, InChild, NoCache, NoEntry, CoinsInv, CoinsTypeOK, View
<1> QED BY <1>1, <1>2, <1>3 DEF Store!Begin

\* Flushing the view keeps all of it.
LEMMA FlushCommits == ASSUME CoinsInv, NEW b \in Blocks, FlushView(b) PROVE Store!Commit(b)
<1>1. db' = db /\ open /\ ~open' /\ tip'.best = b BY DEF FlushView
<1>2. TipBest' = b BY <1>1 DEF TipBest
<1>3. \A t \in Txids : InDb(t)' = InDb(t) /\ InTip(t)' = InChild(t)
  BY <1>1, FlushViewInv DEF InDb
<1>4. open' = FALSE BY DEF FlushView
<1> QED BY <1>1, <1>2, <1>3, <1>4 DEF Store!Commit, Store!Empty

\* Destroying the view keeps none of it.
LEMMA DropDrops == ASSUME CoinsInv, DropView PROVE Store!Drop
<1>1. db' = db /\ tip' = tip /\ open /\ open' = FALSE BY DEF DropView
<1>2. TipBest' = TipBest BY <1>1 DEF TipBest
<1>3. \A t \in Txids : InDb(t)' = InDb(t) /\ InTip(t)' = InTip(t) BY <1>1 DEF InDb, InTip
<1> QED BY <1>1, <1>2, <1>3 DEF Store!Drop, Store!Empty

\* Flushing pcoinsTip saves all it says.
LEMMA FlushSaves == ASSUME CoinsInv, FlushTip PROVE Store!Save
<1>1. child' = child /\ ~open /\ open' = open BY DEF FlushTip
<1>2. TipBest' = TipBest /\ db'.best = TipBest BY DEF FlushTip, TipBest, CoinsInv, CoinsTypeOK, View
<1>3. \A t \in Txids : InDb(t)' = InTip(t) /\ InTip(t)' = InTip(t)
  BY DEF FlushTip, Written, InDb, InTip, NoCache, NoEntry, CoinsInv, CoinsTypeOK, View, Entry, Outputs,
         Canonical, CleanIsCopy
<1> QED BY <1>1, <1>2, <1>3 DEF Store!Save

\* A restart goes back to what was saved.
LEMMA RestartRestarts == ASSUME CoinsInv, Restart PROVE Store!Restart
<1>1. db' = db /\ open' = FALSE BY DEF Restart
<1>2. TipBest' = db.best BY DEF Restart, TipBest
<1>3. \A t \in Txids : InDb(t)' = InDb(t) /\ InTip(t)' = InDb(t)
  BY DEF Restart, InDb, InTip, NoCache, NoEntry
<1> QED BY <1>1, <1>2, <1>3 DEF Store!Restart, Store!Empty

\* Every step of the views is a step of the store or is invisible.
LEMMA StepRefines == CoinsInv /\ [CoinsNext]_coinVars => [Store!Next]_Store!vars
<1> SUFFICES ASSUME CoinsInv, [CoinsNext]_coinVars PROVE [Store!Next]_Store!vars OBVIOUS
<1>1. CASE UNCHANGED coinVars
  <2>1. \A t \in Txids : InDb(t)' = InDb(t) /\ InTip(t)' = InTip(t) /\ InChild(t)' = InChild(t)
    BY <1>1 DEF coinVars, InDb, InTip, InChild
  <2>2. db' = db /\ TipBest' = TipBest /\ ChildBest' = ChildBest /\ open' = open
    BY <1>1 DEF coinVars, TipBest, ChildBest
  <2> QED BY <2>1, <2>2, SameViews DEF Store!vars, SameMaps, SavedMap, CurrentMap, ScratchMap
<1>2. ASSUME NEW t \in Txids, AccessTip(t) \/ AccessChild(t) \/ Uncache(t)
      PROVE  [Store!Next]_Store!vars
  <2>1. SameMaps /\ open' = open BY <1>2, ReadsInvisible
  <2> QED BY <2>1 DEF Store!vars, SameMaps, SavedMap, CurrentMap, ScratchMap
<1>3. ASSUME NEW t \in Txids, NEW v \in Outputs,
             ModifyCoins(t, v) \/ \E coinbase \in BOOLEAN : ModifyNewCoins(t, v, coinbase)
      PROVE  [Store!Next]_Store!vars
  <2>1. Store!Write(t, v) BY <1>3, ModifierWrites
  <2> QED BY <2>1 DEF Store!Next, Outputs
<1>4. ASSUME NEW b \in Blocks, FlushView(b) PROVE [Store!Next]_Store!vars
  BY <1>4, FlushCommits DEF Store!Next
<1>5. CASE BeginView BY <1>5, BeginBegins DEF Store!Next
<1>6. CASE DropView BY <1>6, DropDrops DEF Store!Next
<1>7. CASE FlushTip BY <1>7, FlushSaves DEF Store!Next
<1>8. CASE Restart BY <1>8, RestartRestarts DEF Store!Next
<1> QED BY <1>1, <1>2, <1>3, <1>4, <1>5, <1>6, <1>7, <1>8 DEF CoinsNext

\* The stack of views implements plain maps that are copied, written, kept,
\* dropped, saved and restored as a whole, for any transactions and blocks.
THEOREM CoinsImplementStore == CoinsSpec => ImplementsStore
<1>1. CoinsInit => Store!Init
  BY DEF CoinsInit, Store!Init, Store!Empty, InDb, InTip, TipBest, NoCache, NoEntry
<1> QED BY InitInv, NextInv, <1>1, StepRefines, PTL DEF CoinsSpec, ImplementsStore, Store!Spec
-----------------------------------------------------------------------------
(* The tracker of transaction announcements.                                *)

USE TxRequestConstants

Ann == [state : State, time : Int]
RowType == [Peers -> Ann]

\* An absent or completed announcement waits for nothing.
RowCanon(row) == \A p \in Peers : ~Live(row[p]) => row[p].time = 0
RowOK(t, row) == row \in RowType /\ RowCanon(row) /\ RowSane(t, row)

\* A priority is a number below twice the range of the hash.
LEMMA PriorityType ==
  ASSUME NEW t \in Txs, NEW p \in Peers
  PROVE  Priority(t, p) \in Nat /\ Priority(t, p) < 2 * HashRange
<1>1. Hash[t][p] \in 0..(HashRange - 1) OBVIOUS
<1> QED BY <1>1 DEF Priority

\* Some ready announcement has the highest priority.
LEMMA TopReadyIsTop ==
  ASSUME NEW t \in Txs, NEW row, \E q \in Peers : row[q].state = "READY"
  PROVE  /\ TopReady(t, row) \in Peers
         /\ row[TopReady(t, row)].state = "READY"
         /\ \A r \in Peers : row[r].state = "READY" => Priority(t, TopReady(t, row)) >= Priority(t, r)
<1> DEFINE R == OpToRel(<, Nat)
           D(q) == 2 * HashRange - Priority(t, q)
           T == {D(q) : q \in {r \in Peers : row[r].state = "READY"}}
<1>1. T \subseteq Nat
  <2> SUFFICES ASSUME NEW q \in Peers PROVE D(q) \in Nat OBVIOUS
  <2> QED BY PriorityType
<1>2. T # {} OBVIOUS
<1>3. \E x \in T : \A y \in T : ~(<<y, x>> \in R)
  <2> HIDE DEF T
  <2> QED BY <1>1, <1>2, NatLessThanWellFounded, WFMin
<1>4. PICK x \in T : \A y \in T : ~(<<y, x>> \in R) BY <1>3
<1>5. \A y \in T : ~(y < x) BY <1>4, <1>1 DEF OpToRel
<1>6. PICK q \in Peers : row[q].state = "READY" /\ x = D(q) OBVIOUS
<1>7. \A r \in Peers : row[r].state = "READY" => Priority(t, q) >= Priority(t, r)
  <2> SUFFICES ASSUME NEW r \in Peers, row[r].state = "READY" PROVE Priority(t, q) >= Priority(t, r)
      OBVIOUS
  <2>1. ~(D(r) < D(q)) BY <1>5, <1>6
  <2> QED BY <2>1, PriorityType
<1> QED BY <1>6, <1>7 DEF TopReady

\* A row without announcements is in order.
LEMMA NoRowOK == ASSUME NEW t \in Txs PROVE RowOK(t, NoRow)
BY DEF RowOK, RowType, RowCanon, RowSane, NoRow, NoAnn, Ann, State, IsSelected, Live

\* Making a delayed announcement ready keeps the row in order.
LEMMA PromoteOK ==
  ASSUME NEW t \in Txs, NEW row, RowOK(t, row), NEW p \in Peers, row[p].state = "DELAYED"
  PROVE  RowOK(t, PromoteCandidateReady(t, row, p))
<1> DEFINE new == PromoteCandidateReady(t, row, p)
<1>0. \A q \in Peers : Priority(t, q) \in Nat BY PriorityType
<1> USE DEF RowOK, RowType, Ann, State, PromoteCandidateReady, To, IsSelected, Live
<1>1. new \in RowType OBVIOUS
<1>2. RowCanon(new) BY DEF RowCanon
<1>3. RowSane(t, new) BY <1>0 DEF RowSane
<1> QED BY <1>1, <1>2, <1>3

\* Taking an announcement back, or failing it, selects another one if need be.
LEMMA ChangeOK ==
  ASSUME NEW t \in Txs, NEW row, RowOK(t, row), NEW p \in Peers, NEW new \in Ann,
         Live(row[p]),
         \/ new.state = "DELAYED"
         \/ new = Completed /\ \E q \in Peers \ {p} : Live(row[q])
  PROVE  RowOK(t, ChangeAndReselect(t, row, p, new))
<1> DEFINE top == TopReady(t, row)
           sel == IsSelected(row[p]) /\ \E q \in Peers : row[q].state = "READY"
           res == ChangeAndReselect(t, row, p, new)
<1>0. \A q \in Peers : Priority(t, q) \in Nat BY PriorityType
<1>1. CASE sel
  <2>1. /\ top \in Peers /\ row[top].state = "READY"
        /\ \A r \in Peers : row[r].state = "READY" => Priority(t, top) >= Priority(t, r)
    BY <1>1, TopReadyIsTop
  <2>2. res = [[row EXCEPT ![top].state = "BEST"] EXCEPT ![p] = new]
    BY <1>1 DEF ChangeAndReselect, To
  <2> HIDE DEF top, res
  <2> USE DEF RowOK, RowType, Ann, State, IsSelected, Live, Completed
  <2>3. res \in RowType BY <2>1, <2>2
  <2>4. RowCanon(res) BY <2>1, <2>2 DEF RowCanon
  <2>5. top # p BY <2>1, <1>1
  <2>6. res[top].state = "BEST" /\ \A q \in Peers \ {top, p} : res[q] = row[q] BY <2>1, <2>2, <2>5
  <2>7. res[p] = new BY <2>2
  <2>8. RowSane(t, res)
    <3>1. \A q, r \in Peers : IsSelected(res[q]) /\ IsSelected(res[r]) => q = r BY <1>1, <2>1, <2>5, <2>6, <2>7 DEF RowSane
    <3>2. \A q \in Peers : res[q].state = "READY" => \E r \in Peers : IsSelected(res[r]) BY <1>1, <2>1, <2>5, <2>6, <2>7 DEF RowSane
    <3>3. \A q, r \in Peers : res[q].state = "READY" /\ res[r].state = "BEST" => Priority(t, r) >= Priority(t, q)
      BY <1>0, <1>1, <2>1, <2>5, <2>6, <2>7 DEF RowSane
    <3>4. \A q \in Peers : res[q].state = "COMPLETED" => \E r \in Peers : Live(res[r]) BY <1>1, <2>1, <2>5, <2>6, <2>7 DEF RowSane
    <3> QED BY <3>1, <3>2, <3>3, <3>4 DEF RowSane
  <2> QED BY <2>3, <2>4, <2>8 DEF res
<1>2. CASE ~sel
  <2>1. res = [row EXCEPT ![p] = new] BY <1>2 DEF ChangeAndReselect
  <2> HIDE DEF res
  <2> USE DEF RowOK, RowType, Ann, State, IsSelected, Live, Completed
  <2>2. res \in RowType BY <2>1
  <2>3. RowCanon(res) BY <2>1 DEF RowCanon
  <2>4. res[p] = new /\ \A q \in Peers \ {p} : res[q] = row[q] BY <2>1
  <2>5. RowSane(t, res)
    <3>1. \A q, r \in Peers : IsSelected(res[q]) /\ IsSelected(res[r]) => q = r BY <1>2, <2>4 DEF RowSane
    <3>2. \A q \in Peers : res[q].state = "READY" => \E r \in Peers : IsSelected(res[r])
      <4> SUFFICES ASSUME NEW q \in Peers, res[q].state = "READY"
                   PROVE  \E r \in Peers : IsSelected(res[r]) OBVIOUS
      <4>1. q # p /\ row[q].state = "READY" BY <2>4
      <4>2. PICK r \in Peers : IsSelected(row[r]) BY <4>1 DEF RowSane
      <4>3. r # p BY <4>1, <4>2, <1>2
      <4> QED BY <4>2, <4>3, <2>4
    <3>3. \A q, r \in Peers : res[q].state = "READY" /\ res[r].state = "BEST" => Priority(t, r) >= Priority(t, q)
      BY <1>0, <1>2, <2>4 DEF RowSane
    <3>4. \A q \in Peers : res[q].state = "COMPLETED" => \E r \in Peers : Live(res[r]) BY <1>2, <2>4 DEF RowSane
    <3> QED BY <3>1, <3>2, <3>3, <3>4 DEF RowSane
  <2> QED BY <2>2, <2>3, <2>5 DEF res
<1> QED BY <1>1, <1>2

\* Completing an announcement keeps the row in order.
LEMMA MakeCompletedOK ==
  ASSUME NEW t \in Txs, NEW row, RowOK(t, row), NEW p \in Peers
  PROVE  RowOK(t, MakeCompleted(t, row, p))
<1>1. Completed \in Ann BY DEF Completed, Ann, State
<1> QED BY <1>1, NoRowOK, ChangeOK DEF MakeCompleted, IsOnlyNonCompleted

\* Dropping a peer's announcement keeps the row in order.
LEMMA DroppedOK ==
  ASSUME NEW t \in Txs, NEW row, RowOK(t, row), NEW p \in Peers
  PROVE  RowOK(t, Dropped(t, row, p))
<1> DEFINE m == MakeCompleted(t, row, p)
           res == Dropped(t, row, p)
<1>1. RowOK(t, m) BY MakeCompletedOK
<1>2. ~Live(m[p])
  BY DEF MakeCompleted, NoRow, NoAnn, ChangeAndReselect, Completed, Live, To, RowOK, RowType
<1>3. res = [m EXCEPT ![p] = NoAnn] BY DEF Dropped
<1> HIDE DEF m, res
<1> USE DEF RowOK, RowType, Ann, State, IsSelected, Live, NoAnn
<1>4. res \in RowType BY <1>1, <1>3
<1>5. RowCanon(res) BY <1>1, <1>3 DEF RowCanon
<1>6. res[p] = NoAnn /\ \A q \in Peers \ {p} : res[q] = m[q] BY <1>1, <1>3
<1>7. RowSane(t, m) BY <1>1
<1>8. RowSane(t, res)
  <2> HIDE DEF RowOK, RowType, Ann, State
  <2>1. \A q \in Peers : /\ IsSelected(res[q]) => q # p /\ IsSelected(m[q])
                         /\ res[q].state = "READY" => q # p /\ m[q].state = "READY"
                         /\ res[q].state = "COMPLETED" => q # p /\ m[q].state = "COMPLETED"
    BY <1>6
  <2>2. \A q \in Peers : Live(m[q]) => res[q] = m[q] BY <1>2, <1>6
  <2>3. \A q, r \in Peers : IsSelected(res[q]) /\ IsSelected(res[r]) => q = r BY <2>1, <1>7 DEF RowSane
  <2>4. ASSUME NEW q \in Peers, res[q].state = "READY" PROVE \E r \in Peers : IsSelected(res[r])
    <3>1. PICK r \in Peers : IsSelected(m[r]) BY <2>1, <2>4, <1>7 DEF RowSane
    <3> QED BY <3>1, <2>2
  <2>5. \A q, r \in Peers : res[q].state = "READY" /\ res[r].state = "BEST" => Priority(t, r) >= Priority(t, q)
    BY <1>6, <1>7 DEF RowSane
  <2>6. ASSUME NEW q \in Peers, res[q].state = "COMPLETED" PROVE \E r \in Peers : Live(res[r])
    <3>1. PICK r \in Peers : Live(m[r]) BY <2>1, <2>6, <1>7 DEF RowSane
    <3> QED BY <3>1, <2>2
  <2> QED BY <2>3, <2>4, <2>5, <2>6 DEF RowSane
<1> QED BY <1>4, <1>5, <1>8 DEF res

\* Asking the best peer keeps the row in order.
LEMMA RequestedOK ==
  ASSUME NEW t \in Txs, NEW row, RowOK(t, row), NEW p \in Peers, row[p].state = "BEST"
  PROVE  RowOK(t, RequestedTx(row, p))
<1> DEFINE asked == [state |-> "REQUESTED", time |-> GETDATA_TX_INTERVAL]
           res == RequestedTx(row, p)
<1>1. res = [row EXCEPT ![p] = asked] BY DEF RequestedTx
<1> HIDE DEF res
<1> USE DEF RowOK, RowType, Ann, State, IsSelected, Live
<1>2. res \in RowType BY <1>1
<1>3. RowCanon(res) BY <1>1 DEF RowCanon
<1>4. res[p] = asked /\ \A q \in Peers \ {p} : res[q] = row[q] BY <1>1
<1>5. RowSane(t, res)
  <2>1. \A q, r \in Peers : IsSelected(res[q]) /\ IsSelected(res[r]) => q = r BY <1>4 DEF RowSane
  <2>2. \A q \in Peers : res[q].state = "READY" => \E r \in Peers : IsSelected(res[r]) BY <1>4 DEF RowSane
  <2>3. \A q, r \in Peers : res[q].state = "READY" /\ res[r].state = "BEST" => Priority(t, r) >= Priority(t, q)
    BY <1>4 DEF RowSane
  <2>4. \A q \in Peers : res[q].state = "COMPLETED" => \E r \in Peers : Live(res[r]) BY <1>4 DEF RowSane
  <2> QED BY <2>1, <2>2, <2>3, <2>4 DEF RowSane
<1> QED BY <1>2, <1>3, <1>5 DEF res

\* A new announcement keeps the row in order.
LEMMA ReceivedInvOK ==
  ASSUME NEW t \in Txs, NEW row, RowOK(t, row), NEW p \in Peers, NEW wait \in Int
  PROVE  RowOK(t, ReceivedInv(row, p, wait))
<1> DEFINE new == [state |-> "DELAYED", time |-> wait]
           res == ReceivedInv(row, p, wait)
<1>1. CASE row[p].state = "NONE"
  <2>1. res = [row EXCEPT ![p] = new] BY <1>1 DEF ReceivedInv
  <2> HIDE DEF res
  <2> USE DEF RowOK, RowType, Ann, State, IsSelected, Live
  <2>2. res \in RowType BY <2>1
  <2>3. RowCanon(res) BY <2>1 DEF RowCanon
  <2>4. res[p] = new /\ \A q \in Peers \ {p} : res[q] = row[q] BY <2>1
  <2>5. RowSane(t, res)
    <3>1. \A q, r \in Peers : IsSelected(res[q]) /\ IsSelected(res[r]) => q = r BY <1>1, <2>4 DEF RowSane
    <3>2. \A q \in Peers : res[q].state = "READY" => \E r \in Peers : IsSelected(res[r])
      <4> SUFFICES ASSUME NEW q \in Peers, res[q].state = "READY"
                   PROVE  \E r \in Peers : IsSelected(res[r]) OBVIOUS
      <4>1. q # p /\ row[q].state = "READY" BY <2>4
      <4>2. PICK r \in Peers : IsSelected(row[r]) BY <4>1 DEF RowSane
      <4>3. r # p BY <4>2, <1>1
      <4> QED BY <4>2, <4>3, <2>4
    <3>3. \A q, r \in Peers : res[q].state = "READY" /\ res[r].state = "BEST" => Priority(t, r) >= Priority(t, q)
      BY <1>1, <2>4 DEF RowSane
    <3>4. \A q \in Peers : res[q].state = "COMPLETED" => \E r \in Peers : Live(res[r]) BY <1>1, <2>4 DEF RowSane
    <3> QED BY <3>1, <3>2, <3>3, <3>4 DEF RowSane
  <2> QED BY <2>2, <2>3, <2>5 DEF res
<1>2. CASE row[p].state # "NONE" BY <1>2 DEF ReceivedInv
<1> QED BY <1>1, <1>2

\* The clock changes no state.
LEMMA ShiftedOK ==
  ASSUME NEW t \in Txs, NEW row, RowOK(t, row), NEW d \in Int
  PROVE  RowOK(t, [p \in Peers |-> Later(row[p], d)])
<1> DEFINE res == [p \in Peers |-> Later(row[p], d)]
<1>1. \A p \in Peers : /\ Later(row[p], d) \in Ann
                       /\ Later(row[p], d).state = row[p].state
                       /\ ~Live(row[p]) => Later(row[p], d) = row[p]
  BY DEF Later, RowOK, RowType, Ann, Live
<1>2. \A p \in Peers : res[p] = Later(row[p], d) OBVIOUS
<1>3. res \in RowType BY <1>1 DEF RowType
<1> HIDE DEF res
<1>4. RowCanon(res) BY <1>1, <1>2 DEF RowOK, RowCanon, Live
<1>5. RowSane(t, res)
  <2>1. \A q, r \in Peers : IsSelected(res[q]) /\ IsSelected(res[r]) => q = r BY <1>1, <1>2 DEF RowOK, RowSane, Live, IsSelected
  <2>2. \A q \in Peers : res[q].state = "READY" => \E r \in Peers : IsSelected(res[r]) BY <1>1, <1>2 DEF RowOK, RowSane, Live, IsSelected
  <2>3. \A q, r \in Peers : res[q].state = "READY" /\ res[r].state = "BEST" => Priority(t, r) >= Priority(t, q)
    BY <1>1, <1>2 DEF RowOK, RowSane, Live, IsSelected
  <2>4. \A q \in Peers : res[q].state = "COMPLETED" => \E r \in Peers : Live(res[r]) BY <1>1, <1>2 DEF RowOK, RowSane, Live, IsSelected
  <2> QED BY <2>1, <2>2, <2>3, <2>4 DEF RowSane
<1> QED BY <1>3, <1>4, <1>5 DEF RowOK, res
-----------------------------------------------------------------------------
(* What the steps on a row leave as it was.                                 *)

\* No announcement appears.
Kept(row, new) == \A q \in Peers : new[q].state # "NONE" => row[q].state # "NONE"

\* Making an announcement ready adds none, and keeps all times.
LEMMA PromoteKeeps ==
  ASSUME NEW t \in Txs, NEW row \in RowType, NEW p \in Peers, row[p].state = "DELAYED"
  PROVE  Kept(row, PromoteCandidateReady(t, row, p))
BY DEF Kept, RowType, Ann, State, PromoteCandidateReady, To, IsSelected

\* Changing an announcement adds none and makes no other one wait.
LEMMA ChangeKeeps ==
  ASSUME NEW t \in Txs, NEW row \in RowType, NEW p \in Peers, NEW new \in Ann, Live(row[p])
  PROVE  /\ Kept(row, ChangeAndReselect(t, row, p, new))
         /\ ChangeAndReselect(t, row, p, new)[p] = new
         /\ \A q \in Peers \ {p} :
               \/ ChangeAndReselect(t, row, p, new)[q] = row[q]
               \/ ChangeAndReselect(t, row, p, new)[q] = [state |-> "BEST", time |-> row[q].time]
         /\ \A q \in Peers \ {p} :
               ChangeAndReselect(t, row, p, new)[q] = row[q] \/ row[q].state = "READY"
<1> DEFINE top == TopReady(t, row)
           sel == IsSelected(row[p]) /\ \E q \in Peers : row[q].state = "READY"
           res == ChangeAndReselect(t, row, p, new)
<1>1. CASE sel
  <2>1. top \in Peers /\ row[top].state = "READY" BY <1>1, TopReadyIsTop
  <2>2. res = [[row EXCEPT ![top].state = "BEST"] EXCEPT ![p] = new]
    BY <1>1 DEF ChangeAndReselect, To
  <2> HIDE DEF top, res
  <2>3. res[p] = new BY <2>2 DEF RowType
  <2>4. \A q \in Peers \ {p} : q # top => res[q] = row[q] BY <2>2 DEF RowType
  <2>5. top # p => res[top] = [state |-> "BEST", time |-> row[top].time]
    BY <2>1, <2>2 DEF RowType, Ann
  <2>6. Kept(row, res) BY <2>1, <2>3, <2>4, <2>5 DEF Kept, Live
  <2> QED BY <2>1, <2>3, <2>4, <2>5, <2>6 DEF res
<1>2. CASE ~sel
  <2>1. res = [row EXCEPT ![p] = new] BY <1>2 DEF ChangeAndReselect
  <2> QED BY <2>1 DEF RowType, Kept, Live
<1> QED BY <1>1, <1>2

\* Completing adds no announcement.
LEMMA MakeCompletedKeeps ==
  ASSUME NEW t \in Txs, NEW row \in RowType, NEW p \in Peers
  PROVE  Kept(row, MakeCompleted(t, row, p))
<1>1. Completed \in Ann BY DEF Completed, Ann, State
<1>2. Kept(row, row) /\ Kept(row, NoRow) BY DEF Kept, NoRow, NoAnn
<1> QED BY <1>1, <1>2, ChangeKeeps DEF MakeCompleted
-----------------------------------------------------------------------------
(* The invariant.                                                           *)

IndexOK == m_index \in [Txs -> RowType] /\ \A t \in Txs : RowOK(t, m_index[t])

SendOK ==
    \/ send = Idle
    \/ send \in [op : {"forward", "back", "ask"}, peer : Peers, todo : SUBSET Txs]

\* Nothing due waits any more once the first loop is over, and everything still
\* to be asked is the best.
Offered ==
    /\ send.op = "back" =>
           \A t \in Txs, p \in Peers : IsWaiting(m_index[t][p]) => m_index[t][p].time > 0
    /\ send.op = "ask" => \A t \in send.todo : m_index[t][send.peer].state = "BEST"

IInv ==
    /\ IndexOK /\ SendOK /\ Offered
    /\ conn \in [Peers -> {"new", "up", "gone"}]
    /\ PostGetRequestableSanityCheck /\ OnlyConnected

\* The initial state satisfies the invariant.
LEMMA InitIInv == RequestsInit => IInv
<1> SUFFICES ASSUME RequestsInit PROVE IInv OBVIOUS
<1> USE DEF RequestsInit
<1>1. IndexOK
  <2>1. \A t \in Txs : m_index[t] = NoRow OBVIOUS
  <2>2. NoRow \in RowType BY DEF NoRow, NoAnn, RowType, Ann, State
  <2> QED BY <2>1, <2>2, NoRowOK DEF IndexOK
<1>2. SendOK /\ Offered /\ PostGetRequestableSanityCheck
  BY DEF SendOK, Offered, PostGetRequestableSanityCheck, Idle
<1>3. OnlyConnected BY DEF OnlyConnected, NoRow, NoAnn
<1> QED BY <1>1, <1>2, <1>3 DEF IInv

GoodIndex(index) == index \in [Txs -> RowType] /\ \A t \in Txs : RowOK(t, index[t])
Within(index, c) == \A t \in Txs, p \in Peers : index[t][p].state # "NONE" => c[p] = "up"

\* A response keeps the index in order.
LEMMA ResponseGood ==
  ASSUME IndexOK, OnlyConnected, NEW t \in Txs, NEW p \in Peers
  PROVE  GoodIndex(ReceivedResponse(t, p)) /\ Within(ReceivedResponse(t, p), conn)
<1> DEFINE r == MakeCompleted(t, m_index[t], p)
<1>1. RowOK(t, r) BY MakeCompletedOK DEF IndexOK
<1>2. Kept(m_index[t], r) BY MakeCompletedKeeps DEF IndexOK
<1>3. ReceivedResponse(t, p) = [m_index EXCEPT ![t] = r] BY DEF ReceivedResponse
<1> HIDE DEF r
<1> QED BY <1>1, <1>2, <1>3 DEF GoodIndex, Within, IndexOK, OnlyConnected, Kept, RowOK

\* Forgetting transactions keeps the index in order.
LEMMA ForgetGood ==
  ASSUME NEW index, NEW c, GoodIndex(index), Within(index, c), NEW S
  PROVE  GoodIndex(ForgetTxHash(index, S)) /\ Within(ForgetTxHash(index, S), c)
<1>1. \A t \in Txs : ForgetTxHash(index, S)[t] = IF t \in S THEN NoRow ELSE index[t]
  BY DEF ForgetTxHash
<1>2. \A t \in Txs : RowOK(t, NoRow) BY NoRowOK
<1>3. NoRow \in RowType BY DEF NoRow, NoAnn, RowType, Ann, State
<1>4. \A p \in Peers : NoRow[p].state = "NONE" BY DEF NoRow, NoAnn
<1>5. GoodIndex(ForgetTxHash(index, S))
  <2>1. ForgetTxHash(index, S) \in [Txs -> RowType] BY <1>3 DEF ForgetTxHash, GoodIndex
  <2> QED BY <1>1, <1>2, <2>1 DEF GoodIndex
<1>6. Within(ForgetTxHash(index, S), c) BY <1>1, <1>4 DEF Within
<1> QED BY <1>5, <1>6

\* An announcement of a connected peer keeps the index in order.
LEMMA AddGood ==
  ASSUME NEW index, NEW c, GoodIndex(index), Within(index, c),
         NEW t \in Txs, NEW p \in Peers, c[p] = "up"
  PROVE  GoodIndex(AddTxAnnouncement(index, t, p)) /\ Within(AddTxAnnouncement(index, t, p), c)
<1> DEFINE w == Wait(index, p)
           r == ReceivedInv(index[t], p, w)
<1>1. w \in Int BY DEF Wait
<1> HIDE DEF w
<1>2. RowOK(t, r) BY <1>1, ReceivedInvOK DEF GoodIndex
<1>3. \A q \in Peers \ {p} : r[q] = index[t][q] BY DEF ReceivedInv, GoodIndex, RowType
<1>4. \/ AddTxAnnouncement(index, t, p) = index
      \/ AddTxAnnouncement(index, t, p) = [index EXCEPT ![t] = r]
  BY DEF AddTxAnnouncement, w
<1> HIDE DEF r
<1>5. CASE AddTxAnnouncement(index, t, p) = index BY <1>5
<1>6. CASE AddTxAnnouncement(index, t, p) = [index EXCEPT ![t] = r]
  <2>1. \A u \in Txs : AddTxAnnouncement(index, t, p)[u] = IF u = t THEN r ELSE index[u]
    BY <1>6 DEF GoodIndex
  <2>2. GoodIndex(AddTxAnnouncement(index, t, p)) BY <1>2, <1>6, <2>1 DEF GoodIndex, RowOK
  <2>3. Within(AddTxAnnouncement(index, t, p), c) BY <1>3, <2>1 DEF Within
  <2> QED BY <2>2, <2>3
<1> QED BY <1>4, <1>5, <1>6

\* Outside SendMessages only the index and the connections matter.
LEMMA IdleStep ==
  ASSUME send' = Idle, GoodIndex(m_index'), Within(m_index', conn'),
         conn' \in [Peers -> {"new", "up", "gone"}]
  PROVE  IInv'
BY DEF IInv, IndexOK, SendOK, Offered, PostGetRequestableSanityCheck, OnlyConnected,
       GoodIndex, Within, Idle

\* A peer comes.
LEMMA InitializeNodeOK == ASSUME IInv, NEW p \in Peers, InitializeNode(p) PROVE IInv'
<1> USE DEF IInv, InitializeNode
<1>1. GoodIndex(m_index') BY DEF IndexOK, GoodIndex
<1>2. Within(m_index', conn') BY DEF OnlyConnected, Within
<1> QED BY <1>1, <1>2, IdleStep

\* A peer leaves, and its announcements with it.
LEMMA FinalizeNodeOK == ASSUME IInv, NEW p \in Peers, FinalizeNode(p) PROVE IInv'
<1>1. \A t \in Txs : m_index'[t] = Dropped(t, m_index[t], p) BY DEF FinalizeNode
<1>2. \A t \in Txs : RowOK(t, Dropped(t, m_index[t], p)) BY DroppedOK DEF IInv, IndexOK
<1>3. GoodIndex(m_index')
  <2>1. m_index' \in [Txs -> RowType] BY <1>2 DEF RowOK, FinalizeNode
  <2> QED BY <1>1, <1>2, <2>1 DEF GoodIndex
<1>4. \A t \in Txs, q \in Peers : m_index'[t][q].state # "NONE" => q # p /\ m_index[t][q].state # "NONE"
  <2> SUFFICES ASSUME NEW t \in Txs, NEW q \in Peers
               PROVE  m_index'[t][q].state # "NONE" => q # p /\ m_index[t][q].state # "NONE" OBVIOUS
  <2> DEFINE m == MakeCompleted(t, m_index[t], p)
  <2>1. Kept(m_index[t], m) /\ m \in RowType
    BY MakeCompletedKeeps, MakeCompletedOK DEF IInv, IndexOK, RowOK
  <2>2. m_index'[t] = [m EXCEPT ![p] = NoAnn] BY <1>1 DEF Dropped
  <2> HIDE DEF m
  <2> QED BY <2>1, <2>2 DEF Kept, NoAnn, RowType
<1>5. Within(m_index', conn')
  BY <1>4 DEF IInv, OnlyConnected, Within, FinalizeNode
<1> QED BY <1>3, <1>5, IdleStep DEF FinalizeNode, IInv

\* The messages of a peer.
LEMMA MessageOK ==
  ASSUME IInv, NEW p \in Peers, NEW t \in Txs,
         \/ InvMessage(p, t) \/ NotFound(p, t) \/ TxAccepted(p, t) \/ TxOrphan(p, t)
         \/ \E remembered \in BOOLEAN : TxRefused(p, t, remembered)
  PROVE  IInv'
<1> DEFINE r == ReceivedResponse(t, p)
<1>1. GoodIndex(m_index) /\ Within(m_index, conn)
  BY DEF IInv, IndexOK, OnlyConnected, GoodIndex, Within
<1>2. GoodIndex(r) /\ Within(r, conn) BY ResponseGood DEF IInv
<1>3. conn[p] = "up" /\ conn' = conn /\ send' = Idle
  BY DEF InvMessage, NotFound, TxAccepted, TxOrphan, TxRefused
<1> HIDE DEF r
<1>4. GoodIndex(ForgetTxHash(r, {t})) /\ Within(ForgetTxHash(r, {t}), conn) BY <1>2, ForgetGood
<1>5. GoodIndex(m_index') /\ Within(m_index', conn)
  <2>1. CASE InvMessage(p, t) BY <2>1, <1>1, <1>3, AddGood DEF InvMessage
  <2>2. CASE NotFound(p, t) BY <2>2, <1>2 DEF NotFound, r
  <2>3. CASE TxAccepted(p, t) BY <2>3, <1>4 DEF TxAccepted, r
  <2>4. CASE TxOrphan(p, t)
    <3>1. Parent[t] \in Txs BY <2>4 DEF TxOrphan
    <3>2. GoodIndex(AddTxAnnouncement(r, Parent[t], p)) /\ Within(AddTxAnnouncement(r, Parent[t], p), conn)
      BY <3>1, <1>2, <1>3, AddGood
    <3>3. /\ GoodIndex(ForgetTxHash(AddTxAnnouncement(r, Parent[t], p), {t}))
          /\ Within(ForgetTxHash(AddTxAnnouncement(r, Parent[t], p), {t}), conn)
      BY <3>2, ForgetGood
    <3> QED BY <2>4, <1>4, <3>3 DEF TxOrphan, r
  <2>5. CASE \E remembered \in BOOLEAN : TxRefused(p, t, remembered)
    BY <2>5, <1>2, <1>4 DEF TxRefused, r
  <2> QED BY <2>1, <2>2, <2>3, <2>4, <2>5
<1> QED BY <1>3, <1>5, IdleStep DEF IInv

\* The chain, the mempool and the clock.
LEMMA AroundOK ==
  ASSUME IInv, \/ \E S \in SUBSET Txs : NewTip(S)
               \/ \E t \in Txs : ProcessMessages(t) \/ Submitted(t) \/ Evicted(t)
               \/ Tick \/ ClockBack
  PROVE  IInv'
<1>1. GoodIndex(m_index) /\ Within(m_index, conn)
  BY DEF IInv, IndexOK, OnlyConnected, GoodIndex, Within
<1>2. conn' = conn /\ send' = Idle BY DEF NewTip, ProcessMessages, Submitted, Evicted, Tick, ClockBack
<1>3. ASSUME NEW d \in Int, m_index' = Shifted(d) PROVE GoodIndex(m_index') /\ Within(m_index', conn)
  <2>1. \A t \in Txs : m_index'[t] = [p \in Peers |-> Later(m_index[t][p], d)] BY <1>3 DEF Shifted
  <2>2. ASSUME NEW t \in Txs PROVE RowOK(t, m_index'[t])
    <3>1. RowOK(t, m_index[t]) BY <1>1 DEF GoodIndex
    <3> DEFINE new == [p \in Peers |-> Later(m_index[t][p], d)]
    <3>2. RowOK(t, new) BY <3>1, <1>3, ShiftedOK
    <3>3. m_index'[t] = new BY <2>1
    <3> HIDE DEF new
    <3> QED BY <3>2, <3>3
  <2>3. m_index' \in [Txs -> RowType]
    <3>1. m_index' = [t \in Txs |-> m_index'[t]] BY <1>3 DEF Shifted
    <3>2. \A t \in Txs : m_index'[t] \in RowType BY <2>2 DEF RowOK
    <3> QED BY <3>1, <3>2
  <2>4. ASSUME NEW t \in Txs, NEW p \in Peers PROVE m_index'[t][p].state = m_index[t][p].state
    <3> DEFINE new == [q \in Peers |-> Later(m_index[t][q], d)]
    <3>0. new[p] = Later(m_index[t][p], d) /\ m_index'[t] = new BY <2>1
    <3>1. m_index'[t][p] = Later(m_index[t][p], d)
      <4> HIDE DEF new
      <4> QED BY <3>0
    <3>2. m_index[t][p] \in Ann BY <1>1 DEF GoodIndex, RowType
    <3>3. \A a \in Ann : Later(a, d).state = a.state BY DEF Later, Ann
    <3> QED BY <3>1, <3>2, <3>3
  <2> QED BY <2>2, <2>3, <2>4, <1>1 DEF GoodIndex, Within
<1>4. GoodIndex(m_index') /\ Within(m_index', conn)
  <2>1. CASE \E S \in SUBSET Txs : NewTip(S) BY <2>1, <1>1, ForgetGood DEF NewTip
  <2>2. CASE \E t \in Txs : ProcessMessages(t) \/ Submitted(t) \/ Evicted(t)
    BY <2>2, <1>1 DEF ProcessMessages, Submitted, Evicted
  <2>3. CASE Tick BY <2>3, <1>3 DEF Tick
  <2>4. CASE ClockBack BY <2>4, <1>3 DEF ClockBack
  <2> QED BY <2>1, <2>2, <2>3, <2>4
<1> QED BY <1>2, <1>4, IdleStep DEF IInv

\* SendMessages begins, and the loops of SetTimePoint.
LEMMA SetTimePointOK ==
  ASSUME IInv, \/ \E p \in Peers : SendMessages(p)
               \/ \E t \in Txs, p \in Peers : TimePassed(t, p) \/ Demoted(t, p)
               \/ NoMorePassed
  PROVE  IInv'
<1>1. conn' = conn BY DEF SendMessages, TimePassed, Demoted, NoMorePassed
<1>2. ASSUME NEW p \in Peers, SendMessages(p) PROVE IInv'
  BY <1>2 DEF SendMessages, IInv, IndexOK, SendOK, Offered, PostGetRequestableSanityCheck, OnlyConnected
<1>3. ASSUME NoMorePassed PROVE IInv'
  <2>1. send.op = "forward" /\ m_index' = m_index /\ send' = [send EXCEPT !.op = "back"] BY <1>3 DEF NoMorePassed
  <2>2. send # Idle BY <2>1 DEF Idle
  <2>3. send' \in [op : {"forward", "back", "ask"}, peer : Peers, todo : SUBSET Txs] /\ send'.op = "back"
    BY <2>1, <2>2 DEF IInv, SendOK
  <2>4. Offered' BY <2>1, <2>3, <1>3 DEF NoMorePassed, Offered
  <2> QED BY <1>1, <2>1, <2>3, <2>4 DEF IInv, IndexOK, SendOK, PostGetRequestableSanityCheck, OnlyConnected
<1>4. ASSUME NEW t \in Txs, NEW r, RowOK(t, r), Kept(m_index[t], r),
             m_index' = [m_index EXCEPT ![t] = r]
      PROVE  IndexOK' /\ OnlyConnected'
  <2>1. \A u \in Txs : m_index'[u] = IF u = t THEN r ELSE m_index[u] BY <1>4 DEF IInv, IndexOK
  <2>2. IndexOK' BY <1>4, <2>1 DEF IInv, IndexOK, RowOK
  <2>3. OnlyConnected' BY <1>1, <1>4, <2>1 DEF IInv, OnlyConnected, Kept
  <2> QED BY <2>2, <2>3
<1>5. ASSUME NEW t \in Txs, NEW p \in Peers, TimePassed(t, p) PROVE IInv'
  <2> DEFINE row == m_index[t]
             r == IF row[p].state = "DELAYED" THEN PromoteCandidateReady(t, row, p) ELSE MakeCompleted(t, row, p)
  <2>1. send' = send /\ send.op = "forward" /\ m_index' = [m_index EXCEPT ![t] = r]
    BY <1>5 DEF TimePassed
  <2>2. RowOK(t, row) /\ row \in RowType BY DEF IInv, IndexOK
  <2>3. RowOK(t, r) BY <2>2, PromoteOK, MakeCompletedOK
  <2>4. Kept(row, r) BY <2>2, PromoteKeeps, MakeCompletedKeeps
  <2>5. IndexOK' /\ OnlyConnected'
    <3>1. Kept(m_index[t], r) /\ RowOK(t, r) BY <2>3, <2>4
    <3> HIDE DEF r, row
    <3> QED BY <1>4, <2>1, <3>1
  <2> QED BY <1>1, <2>1, <2>5 DEF IInv, SendOK, Offered, PostGetRequestableSanityCheck
<1>6. ASSUME NEW t \in Txs, NEW p \in Peers, Demoted(t, p) PROVE IInv'
  <2> DEFINE row == m_index[t]
             new == [state |-> "DELAYED", time |-> row[p].time]
             r == ChangeAndReselect(t, row, p, new)
  <2>1. send' = send /\ send.op = "back" /\ m_index' = [m_index EXCEPT ![t] = r] /\ row[p].time > 0
    BY <1>6 DEF Demoted
  <2>2. RowOK(t, row) /\ row \in RowType BY DEF IInv, IndexOK
  <2>3. Live(row[p]) BY <1>6 DEF Demoted, Last, IsSelectable, Live
  <2>4. new \in Ann BY <2>2 DEF RowType, Ann, State
  <2>5. RowOK(t, r) BY <2>2, <2>3, <2>4, ChangeOK
  <2>6. Kept(row, r) /\ r[p] = new BY <2>2, <2>3, <2>4, ChangeKeeps
  <2>6a. ASSUME NEW q \in Peers, q # p PROVE r[q] = row[q] \/ r[q].state = "BEST"
    <3>1. r[q] = row[q] \/ r[q] = [state |-> "BEST", time |-> row[q].time]
      BY <2>2, <2>3, <2>4, <2>6a, ChangeKeeps
    <3> HIDE DEF r, row
    <3> QED BY <3>1
  <2> HIDE DEF r
  <2>7. IndexOK' /\ OnlyConnected' BY <1>4, <2>1, <2>5, <2>6
  <2>8. \A u \in Txs : m_index'[u] = IF u = t THEN r ELSE m_index[u] BY <2>1 DEF IInv, IndexOK
  <2>9. Offered'
    <3>1. \A u \in Txs, q \in Peers : IsWaiting(m_index[u][q]) => m_index[u][q].time > 0
      BY <2>1 DEF IInv, Offered
    <3>2. ASSUME NEW u \in Txs, NEW q \in Peers, IsWaiting(m_index'[u][q]) PROVE m_index'[u][q].time > 0
      <4>1. CASE u # t BY <4>1, <3>1, <3>2, <2>8
      <4>2. CASE u = t /\ q = p BY <4>2, <2>1, <2>6, <2>8
      <4>3. CASE u = t /\ q # p
        <5>1. m_index'[u][q] = r[q] BY <4>3, <2>8
        <5>2. r[q] = row[q] \/ r[q].state = "BEST" BY <4>3, <2>6a
        <5>3. r[q] = row[q] BY <5>1, <5>2, <3>2 DEF IsWaiting
        <5>4. IsWaiting(m_index[t][q]) /\ m_index'[u][q].time = m_index[t][q].time BY <5>1, <5>3, <3>2
        <5> QED BY <5>4, <3>1
      <4> QED BY <4>1, <4>2, <4>3
    <3> QED BY <3>2, <2>1 DEF Offered, IsWaiting
  <2> QED BY <1>1, <2>1, <2>7, <2>9 DEF IInv, SendOK, PostGetRequestableSanityCheck
<1> QED BY <1>2, <1>3, <1>5, <1>6

\* What GetRequestable answers is asked for.
LEMMA AskOK ==
  ASSUME IInv, GetRequestable \/ (\E t \in Txs : GetData(t)) \/ Sent
  PROVE  IInv'
<1>1. conn' = conn BY DEF GetRequestable, GetData, Sent
<1>2. send.op # "idle" => send \in [op : {"forward", "back", "ask"}, peer : Peers, todo : SUBSET Txs]
  BY DEF IInv, SendOK, Idle
<1>3. ASSUME GetRequestable PROVE IInv'
  <2>1. m_index' = m_index /\ send.op = "back" BY <1>3 DEF GetRequestable
  <2>2. /\ send' = [op |-> "ask", peer |-> send.peer, todo |-> {t \in Txs : m_index[t][send.peer].state = "BEST"}]
        /\ send.peer \in Peers
    BY <1>2, <1>3, <2>1 DEF GetRequestable
  <2>3. SendOK' BY <2>2 DEF SendOK
  <2>4. Offered' BY <2>1, <2>2 DEF Offered
  <2>5. PostGetRequestableSanityCheck'
    BY <1>3, <2>1, <2>2 DEF GetRequestable, IInv, Offered, PostGetRequestableSanityCheck
  <2> QED BY <1>1, <2>1, <2>3, <2>4, <2>5 DEF IInv, IndexOK, OnlyConnected
<1>4. ASSUME Sent PROVE IInv'
  BY <1>4 DEF Sent, IInv, IndexOK, SendOK, Offered, PostGetRequestableSanityCheck, OnlyConnected, Idle
<1>5. ASSUME NEW t \in Txs, GetData(t) PROVE IInv'
  <2> DEFINE row == m_index[t]
             p == send.peer
             r == IF AlreadyHave(t) THEN NoRow ELSE RequestedTx(row, p)
  <2>1. /\ send.op = "ask" /\ t \in send.todo /\ p \in Peers
        /\ send' = [op |-> "ask", peer |-> p, todo |-> send.todo \ {t}] /\ send.todo \subseteq Txs
    BY <1>2, <1>5 DEF GetData
  <2>2. row[p].state = "BEST" BY <2>1 DEF IInv, Offered
  <2>3. RowOK(t, row) /\ row \in RowType BY DEF IInv, IndexOK
  <2>4. RowOK(t, r) BY <2>1, <2>2, <2>3, NoRowOK, RequestedOK
  <2>5. \A u \in Txs : m_index'[u] = IF u = t THEN r ELSE m_index[u]
    BY <1>5 DEF GetData, ForgetTxHash, IInv, IndexOK
  <2>6. m_index' \in [Txs -> RowType]
    <3>1. m_index' = [u \in Txs |-> m_index'[u]] BY <1>5 DEF GetData, ForgetTxHash, IInv, IndexOK
    <3>2. \A u \in Txs : m_index'[u] \in RowType BY <2>4, <2>5 DEF IInv, IndexOK, RowOK
    <3> QED BY <3>1, <3>2
  <2>7. \/ r = NoRow
        \/ r = [row EXCEPT ![p] = [state |-> "REQUESTED", time |-> GETDATA_TX_INTERVAL]]
    BY <2>2 DEF RequestedTx
  <2>8. \A q \in Peers : \/ r[q] = NoAnn \/ r[q] = row[q]
                         \/ q = p /\ r[q] = [state |-> "REQUESTED", time |-> GETDATA_TX_INTERVAL]
    BY <2>3, <2>7 DEF NoRow, RowType
  <2> HIDE DEF r
  <2>9. IndexOK' BY <2>4, <2>5, <2>6 DEF IInv, IndexOK
  <2>10. OnlyConnected' BY <1>1, <2>2, <2>5, <2>8 DEF IInv, OnlyConnected, NoAnn
  <2>11. SendOK' BY <2>1 DEF SendOK
  <2>12. Offered' BY <2>1, <2>5 DEF IInv, Offered
  <2>13. PostGetRequestableSanityCheck'
    <3> SUFFICES ASSUME NEW u \in Txs, NEW q \in Peers
                 PROVE  /\ IsWaiting(m_index'[u][q]) => m_index'[u][q].time > 0
                        /\ IsSelectable(m_index'[u][q]) => m_index'[u][q].time <= 0
      BY DEF PostGetRequestableSanityCheck
    <3>1. \A v \in Txs : /\ IsWaiting(m_index[v][q]) => m_index[v][q].time > 0
                         /\ IsSelectable(m_index[v][q]) => m_index[v][q].time <= 0
      BY <2>1 DEF IInv, PostGetRequestableSanityCheck
    <3>2. \/ m_index'[u][q] = m_index[u][q] \/ m_index'[u][q] = NoAnn
          \/ m_index'[u][q] = [state |-> "REQUESTED", time |-> GETDATA_TX_INTERVAL]
      BY <2>5, <2>8
    <3> QED BY <3>1, <3>2 DEF IsWaiting, IsSelectable, NoAnn
  <2> QED BY <1>1, <2>9, <2>10, <2>11, <2>12, <2>13 DEF IInv
<1> QED BY <1>3, <1>4, <1>5

\* Every step keeps the invariant.
LEMMA NextIInv == IInv /\ [RequestsNext]_requestVars => IInv'
<1> SUFFICES ASSUME IInv, [RequestsNext]_requestVars PROVE IInv' OBVIOUS
<1>1. CASE RequestsNext
  BY <1>1, InitializeNodeOK, FinalizeNodeOK, MessageOK, AroundOK, SetTimePointOK, AskOK DEF RequestsNext
<1>2. CASE UNCHANGED requestVars
  BY <1>2 DEF requestVars, IInv, IndexOK, SendOK, Offered, PostGetRequestableSanityCheck, OnlyConnected
<1> QED BY <1>1, <1>2

\* TxRequestTracker::SanityCheck and PostGetRequestableSanityCheck never fail,
\* nor do the assertions InitializeNode and FinalizeNode make about the tracker.
THEOREM TrackerSane ==
  RequestsSpec => [](SanityCheck /\ PostGetRequestableSanityCheck /\ OnlyConnected)
<1>1. RequestsSpec => []IInv BY InitIInv, NextIInv, PTL DEF RequestsSpec
<1>2. IInv => SanityCheck /\ PostGetRequestableSanityCheck /\ OnlyConnected
  BY DEF IInv, IndexOK, RowOK, SanityCheck
<1> QED BY <1>1, <1>2, PTL
-----------------------------------------------------------------------------
(* Times.                                                                   *)

\* No step but the clock's moves a time out of the delays the code knows.
Timed(row, new) == \A q \in Peers : new[q].time = row[q].time \/ new[q].time \in 0..Longest
AllTimed(index, new) == \A t \in Txs : Timed(index[t], new[t])

\* The longest wait is a number, and the waits of SendMessages are no longer.
LEMMA LongestType ==
  /\ Longest \in Nat /\ GETDATA_TX_INTERVAL \in 0..Longest
  /\ \A index, p : Wait(index, p) \in 0..Longest
<1>1. Longest \in Nat /\ GETDATA_TX_INTERVAL \in 0..Longest BY DEF Longest
<1>2. NONPREF_PEER_TX_DELAY + OVERLOADED_PEER_TX_DELAY \in 0..Longest BY DEF Longest
<1>3. \A index, p : /\ Wait(index, p) \in Nat
                    /\ Wait(index, p) <= NONPREF_PEER_TX_DELAY + OVERLOADED_PEER_TX_DELAY
  BY DEF Wait
<1> QED BY <1>1, <1>2, <1>3

\* The steps on a row.
LEMMA RowTimed ==
  ASSUME NEW t \in Txs, NEW row \in RowType, NEW p \in Peers
  PROVE  /\ row[p].state = "DELAYED" => Timed(row, PromoteCandidateReady(t, row, p))
         /\ Timed(row, MakeCompleted(t, row, p)) /\ Timed(row, Dropped(t, row, p))
         /\ row[p].state = "BEST" => Timed(row, RequestedTx(row, p))
         /\ Timed(row, NoRow)
<1>1. Timed(row, row) /\ Timed(row, NoRow) BY LongestType DEF Timed, NoRow, NoAnn
<1>2. row[p].state = "DELAYED" => Timed(row, PromoteCandidateReady(t, row, p))
  BY DEF Timed, RowType, Ann, State, PromoteCandidateReady, To, IsSelected
<1>3. ASSUME NEW new \in Ann, Live(row[p]), new.time \in 0..Longest
      PROVE  Timed(row, ChangeAndReselect(t, row, p, new))
  <2> DEFINE res == ChangeAndReselect(t, row, p, new)
  <2>1. res[p] = new BY <1>3, ChangeKeeps
  <2>2. \A q \in Peers \ {p} : res[q] = row[q] \/ res[q] = [state |-> "BEST", time |-> row[q].time]
    BY <1>3, ChangeKeeps
  <2> HIDE DEF res
  <2>3. ASSUME NEW q \in Peers \ {p} PROVE res[q].time = row[q].time
    <3>1. CASE res[q] = row[q] BY <3>1
    <3>2. CASE res[q] = [state |-> "BEST", time |-> row[q].time] BY <3>2
    <3> QED BY <2>2, <3>1, <3>2
  <2>4. Timed(row, res) BY <1>3, <2>1, <2>3 DEF Timed
  <2> QED BY <2>4 DEF res
<1>4. Completed \in Ann /\ Completed.time \in 0..Longest BY LongestType DEF Completed, Ann, State
<1>5. Timed(row, MakeCompleted(t, row, p))
  <2>1. \/ MakeCompleted(t, row, p) \in {row, NoRow}
        \/ Live(row[p]) /\ MakeCompleted(t, row, p) = ChangeAndReselect(t, row, p, Completed)
    BY DEF MakeCompleted
  <2>2. Live(row[p]) => Timed(row, ChangeAndReselect(t, row, p, Completed)) BY <1>3, <1>4
  <2> QED BY <1>1, <2>1, <2>2
<1>6. Timed(row, Dropped(t, row, p))
  <2> DEFINE m == MakeCompleted(t, row, p)
  <2>1. Dropped(t, row, p) = [m EXCEPT ![p] = NoAnn] BY DEF Dropped
  <2>2. Timed(row, m) BY <1>5
  <2> HIDE DEF m
  <2>3. \A q \in Peers : [m EXCEPT ![p] = NoAnn][q] \in {m[q], NoAnn} \/ q \notin DOMAIN m OBVIOUS
  <2>4. DOMAIN m = Peers
    <3>1. Completed \in Ann BY <1>4
    <3>2. DOMAIN NoRow = Peers /\ DOMAIN row = Peers BY DEF NoRow, RowType
    <3> QED BY <3>2 DEF m, MakeCompleted, ChangeAndReselect, To
  <2>5. \A q \in Peers : [m EXCEPT ![p] = NoAnn][q] \in {m[q], NoAnn} BY <2>3, <2>4
  <2>6. NoAnn.time \in 0..Longest BY LongestType DEF NoAnn
  <2> QED BY <2>1, <2>2, <2>5, <2>6 DEF Timed
<1>7. row[p].state = "BEST" => Timed(row, RequestedTx(row, p))
  <2> DEFINE asked == [state |-> "REQUESTED", time |-> GETDATA_TX_INTERVAL]
  <2>1. asked.time \in 0..Longest BY LongestType
  <2>2. row[p].state = "BEST" => RequestedTx(row, p) = [row EXCEPT ![p] = asked] BY DEF RequestedTx
  <2> HIDE DEF asked
  <2> QED BY <2>1, <2>2 DEF Timed, RowType
<1> QED BY <1>1, <1>2, <1>5, <1>6, <1>7

\* The steps on the index.
LEMMA IndexTimed ==
  ASSUME NEW index \in [Txs -> RowType], NEW new \in [Txs -> RowType], AllTimed(index, new)
  PROVE  /\ \A S : AllTimed(index, ForgetTxHash(new, S))
         /\ \A t \in Txs, p \in Peers : AllTimed(index, AddTxAnnouncement(new, t, p))
<1>1. ASSUME NEW S PROVE AllTimed(index, ForgetTxHash(new, S))
  <2>1. \A t \in Txs : ForgetTxHash(new, S)[t] \in {new[t], NoRow} BY DEF ForgetTxHash
  <2>2. \A t \in Txs : Timed(index[t], NoRow) BY LongestType DEF Timed, NoRow, NoAnn
  <2>3. ASSUME NEW t \in Txs PROVE Timed(index[t], ForgetTxHash(new, S)[t])
    <3>1. ForgetTxHash(new, S)[t] = new[t] \/ ForgetTxHash(new, S)[t] = NoRow BY <2>1
    <3>2. Timed(index[t], new[t]) /\ Timed(index[t], NoRow) BY <2>2 DEF AllTimed
    <3> QED BY <3>1, <3>2
  <2> QED BY <2>3 DEF AllTimed
<1>2. ASSUME NEW t \in Txs, NEW p \in Peers PROVE AllTimed(index, AddTxAnnouncement(new, t, p))
  <2> DEFINE w == Wait(new, p)
             ann == [state |-> "DELAYED", time |-> w]
             r == [new[t] EXCEPT ![p] = ann]
  <2>1. w \in 0..Longest BY LongestType
  <2> HIDE DEF w
  <2>2. \/ AddTxAnnouncement(new, t, p) \in {new, [new EXCEPT ![t] = new[t]]}
        \/ AddTxAnnouncement(new, t, p) = [new EXCEPT ![t] = r]
    BY DEF AddTxAnnouncement, ReceivedInv, w
  <2>3. \A q \in Peers : r[q] = IF q = p THEN ann ELSE new[t][q] BY DEF RowType
  <2>4. ann.time \in 0..Longest BY <2>1
  <2> HIDE DEF ann, r
  <2>5. Timed(index[t], r) BY <2>3, <2>4 DEF Timed, AllTimed
  <2>6. AllTimed(index, [new EXCEPT ![t] = r]) BY <2>5 DEF AllTimed
  <2>7. [new EXCEPT ![t] = new[t]] = new OBVIOUS
  <2> QED BY <2>2, <2>6, <2>7
<1> QED BY <1>1, <1>2

\* A step changes times by waiting anew, or all of them by the clock.
LEMMA StepTimed ==
  ASSUME IInv, RequestsNext
  PROVE  \/ AllTimed(m_index, m_index') /\ back' = back
         \/ Tick \/ ClockBack
<1>0. m_index \in [Txs -> RowType] BY DEF IInv, IndexOK
<1>1. AllTimed(m_index, m_index) BY DEF AllTimed, Timed
<1>2. ASSUME NEW t \in Txs, NEW r, Timed(m_index[t], r) PROVE AllTimed(m_index, [m_index EXCEPT ![t] = r])
  BY <1>0, <1>1, <1>2 DEF AllTimed
<1>3. ASSUME NEW t \in Txs, NEW p \in Peers
      PROVE  ReceivedResponse(t, p) \in [Txs -> RowType] /\ AllTimed(m_index, ReceivedResponse(t, p))
  <2>1. GoodIndex(ReceivedResponse(t, p)) BY ResponseGood DEF IInv
  <2>2. Timed(m_index[t], MakeCompleted(t, m_index[t], p)) BY <1>0, RowTimed
  <2> QED BY <1>2, <2>1, <2>2 DEF GoodIndex, ReceivedResponse
<1>4. CASE \E p \in Peers : InitializeNode(p) \/ SendMessages(p)
  BY <1>1, <1>4 DEF InitializeNode, SendMessages
<1>5. ASSUME NEW p \in Peers, FinalizeNode(p) PROVE AllTimed(m_index, m_index') /\ back' = back
  <2>1. \A t \in Txs : m_index'[t] = Dropped(t, m_index[t], p) BY <1>5 DEF FinalizeNode
  <2>2. \A t \in Txs : Timed(m_index[t], Dropped(t, m_index[t], p)) BY <1>0, RowTimed
  <2> QED BY <1>5, <2>1, <2>2 DEF AllTimed, FinalizeNode
<1>6. ASSUME NEW p \in Peers, NEW t \in Txs,
             \/ InvMessage(p, t) \/ NotFound(p, t) \/ TxAccepted(p, t) \/ TxOrphan(p, t)
             \/ \E remembered \in BOOLEAN : TxRefused(p, t, remembered)
      PROVE  AllTimed(m_index, m_index') /\ back' = back
  <2> DEFINE r == ReceivedResponse(t, p)
  <2>1. r \in [Txs -> RowType] /\ AllTimed(m_index, r) BY <1>3
  <2>2. CASE InvMessage(p, t) BY <1>0, <1>1, <2>2, IndexTimed DEF InvMessage
  <2>3. CASE NotFound(p, t) BY <2>1, <2>3 DEF NotFound
  <2> HIDE DEF r
  <2>4. CASE TxAccepted(p, t) BY <1>0, <2>1, <2>4, IndexTimed DEF TxAccepted, r
  <2>5. CASE TxOrphan(p, t)
    <3>1. Parent[t] \in Txs BY <2>5 DEF TxOrphan
    <3> DEFINE a == AddTxAnnouncement(r, Parent[t], p)
    <3>2. AllTimed(m_index, a) BY <1>0, <2>1, <3>1, IndexTimed
    <3>3. a \in [Txs -> RowType]
      <4>1. GoodIndex(r) /\ Within(r, conn) /\ conn[p] = "up"
        BY <2>5, ResponseGood DEF IInv, r, TxOrphan
      <4> QED BY <3>1, <4>1, AddGood DEF GoodIndex
    <3> HIDE DEF a
    <3>4. AllTimed(m_index, ForgetTxHash(a, {t})) /\ AllTimed(m_index, ForgetTxHash(r, {t}))
      BY <1>0, <2>1, <3>2, <3>3, IndexTimed
    <3>5. /\ back' = back
          /\ m_index' = ForgetTxHash(a, {t}) \/ m_index' = ForgetTxHash(r, {t})
      BY <2>5 DEF TxOrphan, a, r
    <3> QED BY <3>4, <3>5
  <2>6. CASE \E remembered \in BOOLEAN : TxRefused(p, t, remembered)
    <3>1. back' = back /\ (m_index' = ForgetTxHash(r, {t}) \/ m_index' = r) BY <2>6 DEF TxRefused, r
    <3>2. AllTimed(m_index, ForgetTxHash(r, {t})) BY <1>0, <2>1, IndexTimed
    <3> QED BY <2>1, <3>1, <3>2
  <2> QED BY <1>6, <2>2, <2>3, <2>4, <2>5, <2>6
<1>7. ASSUME NEW S \in SUBSET Txs, NewTip(S) PROVE AllTimed(m_index, m_index') /\ back' = back
  BY <1>0, <1>1, <1>7, IndexTimed DEF NewTip
<1>8. ASSUME NEW t \in Txs, NEW p \in Peers, TimePassed(t, p)
      PROVE  AllTimed(m_index, m_index') /\ back' = back
  <2> DEFINE r == IF m_index[t][p].state = "DELAYED" THEN PromoteCandidateReady(t, m_index[t], p)
                  ELSE MakeCompleted(t, m_index[t], p)
  <2>1. Timed(m_index[t], r) BY <1>0, RowTimed
  <2>2. m_index' = [m_index EXCEPT ![t] = r] /\ back' = back BY <1>8 DEF TimePassed
  <2> HIDE DEF r
  <2> QED BY <1>2, <2>1, <2>2
<1>9. ASSUME NEW t \in Txs, NEW p \in Peers, Demoted(t, p)
      PROVE  AllTimed(m_index, m_index') /\ back' = back
  <2> DEFINE row == m_index[t]
             new == [state |-> "DELAYED", time |-> row[p].time]
             r == ChangeAndReselect(t, row, p, new)
  <2>0. row \in RowType /\ Live(row[p]) BY <1>0, <1>9 DEF Demoted, Last, IsSelectable, Live
  <2>h. m_index[t] = row OBVIOUS
  <2> HIDE DEF row
  <2>1. new \in Ann BY <2>0 DEF RowType, Ann, State
  <2> HIDE DEF new
  <2>2. r[p] = new BY <2>0, <2>1, ChangeKeeps
  <2>3. \A q \in Peers \ {p} : r[q] = row[q] \/ r[q] = [state |-> "BEST", time |-> row[q].time]
    BY <2>0, <2>1, ChangeKeeps
  <2>4. m_index' = [m_index EXCEPT ![t] = r] /\ back' = back BY <1>9 DEF Demoted, row, new
  <2> HIDE DEF r
  <2>5. ASSUME NEW q \in Peers PROVE r[q].time = row[q].time
    <3>1. CASE q = p BY <2>2, <3>1 DEF new
    <3>2. CASE r[q] = row[q] BY <3>2
    <3>3. CASE r[q] = [state |-> "BEST", time |-> row[q].time] BY <3>3
    <3> QED BY <2>3, <3>1, <3>2, <3>3
  <2>6. Timed(m_index[t], r) BY <2>5, <2>h DEF Timed
  <2> QED BY <1>2, <2>4, <2>6
<1>10. ASSUME NEW t \in Txs, GetData(t) PROVE AllTimed(m_index, m_index') /\ back' = back
  <2> DEFINE p == send.peer
             r == RequestedTx(m_index[t], p)
  <2>1. send.op = "ask" /\ t \in send.todo BY <1>10 DEF GetData
  <2>2. p \in Peers BY <2>1 DEF IInv, SendOK, Idle
  <2>3. m_index[t][p].state = "BEST" BY <2>1 DEF IInv, Offered
  <2>4. Timed(m_index[t], r) BY <1>0, <2>2, <2>3, RowTimed
  <2>5. /\ back' = back
        /\ m_index' = ForgetTxHash(m_index, {t}) \/ m_index' = [m_index EXCEPT ![t] = r]
    BY <1>10 DEF GetData
  <2> HIDE DEF r
  <2> QED BY <1>0, <1>1, <1>2, <2>4, <2>5, IndexTimed
<1>11. CASE \/ \E t \in Txs : ProcessMessages(t) \/ Submitted(t) \/ Evicted(t)
            \/ NoMorePassed \/ GetRequestable \/ Sent
  BY <1>1, <1>11 DEF ProcessMessages, Submitted, Evicted, NoMorePassed, GetRequestable, Sent
<1> QED BY <1>4, <1>5, <1>6, <1>7, <1>8, <1>9, <1>10, <1>11 DEF RequestsNext

\* What the invariant leaves out of the types: an announcement waits no longer
\* than the code's delays and the clock's fall back allow.
RangesOK ==
    /\ have \subseteq Txs /\ rejects \subseteq Txs /\ back \in 0..MaxBack
    /\ \A t \in Txs, p \in Peers : m_index[t][p].time \in (-MaxBack)..(Longest + back)

LEMMA StepRanges == ASSUME IInv, RangesOK, [RequestsNext]_requestVars PROVE RangesOK'
<1>1. CASE UNCHANGED requestVars BY <1>1 DEF requestVars, RangesOK
<1>2. CASE RequestsNext
  <2>1. have' \subseteq Txs /\ rejects' \subseteq Txs
    <3>0. have \subseteq Txs /\ rejects \subseteq Txs BY DEF RangesOK
    <3>1. CASE \E p \in Peers : InitializeNode(p) \/ FinalizeNode(p) \/ SendMessages(p)
      BY <3>0, <3>1 DEF InitializeNode, FinalizeNode, SendMessages
    <3>2. CASE \E p \in Peers, t \in Txs : InvMessage(p, t) \/ NotFound(p, t)
      BY <3>0, <3>2 DEF InvMessage, NotFound
    <3>3. CASE \E p \in Peers, t \in Txs : TxAccepted(p, t)
      BY <3>0, <3>3 DEF TxAccepted, ProcessOrphanTx
    <3>4. CASE \E p \in Peers, t \in Txs : TxOrphan(p, t)
      BY <3>0, <3>4 DEF TxOrphan
    <3>5. CASE \E p \in Peers, t \in Txs, remembered \in BOOLEAN : TxRefused(p, t, remembered)
      BY <3>0, <3>5 DEF TxRefused
    <3>6. CASE \E p \in Peers, t \in Txs : TimePassed(t, p) \/ Demoted(t, p)
      BY <3>0, <3>6 DEF TimePassed, Demoted
    <3>7. CASE \E S \in SUBSET Txs : NewTip(S)
      BY <3>0, <3>7 DEF NewTip
    <3>8. CASE \E t \in Txs : ProcessMessages(t) \/ Submitted(t) \/ Evicted(t) \/ GetData(t)
      BY <3>0, <3>8 DEF ProcessMessages, ProcessOrphanTx, Submitted, Evicted, GetData
    <3>9. CASE NoMorePassed \/ GetRequestable \/ Sent \/ Tick \/ ClockBack
      BY <3>0, <3>9 DEF NoMorePassed, GetRequestable, Sent, Tick, ClockBack
    <3> QED
      BY <1>2, <3>1, <3>2, <3>3, <3>4, <3>5, <3>6, <3>7, <3>8, <3>9 DEF RequestsNext
  <2>2. Longest \in Nat /\ MaxBack \in Nat /\ back \in 0..MaxBack BY LongestType DEF RangesOK
  <2>3. \A t \in Txs, p \in Peers : /\ m_index[t][p] \in Ann
                                    /\ ~Live(m_index[t][p]) => m_index[t][p].time = 0
                                    /\ m_index[t][p].time \in (-MaxBack)..(Longest + back)
    BY DEF RangesOK, IInv, IndexOK, RowOK, RowType, RowCanon
  <2>4. CASE AllTimed(m_index, m_index') /\ back' = back
    <3>1. \A t \in Txs, p \in Peers : m_index'[t][p].time \in (-MaxBack)..(Longest + back')
      BY <2>2, <2>3, <2>4 DEF AllTimed, Timed
    <3> QED BY <2>1, <2>2, <2>4, <3>1 DEF RangesOK
  <2>5. ASSUME NEW d \in {-1, 1}, m_index' = Shifted(d), NEW t \in Txs, NEW p \in Peers
        PROVE  \/ m_index'[t][p].time = 0
               \/ m_index'[t][p].time = -MaxBack
               \/ /\ m_index'[t][p].time = m_index[t][p].time + d
                  /\ m_index'[t][p].time >= -MaxBack
    <3>1. m_index'[t][p] = Later(m_index[t][p], d) BY <2>5 DEF Shifted
    <3>2. m_index[t][p] \in Ann /\ (~Live(m_index[t][p]) => m_index[t][p].time = 0) BY <2>3
    <3>3. \A a \in Ann : (~Live(a) => a.time = 0) =>
              \/ Later(a, d).time = 0 \/ Later(a, d).time = -MaxBack
              \/ Later(a, d).time = a.time + d /\ Later(a, d).time >= -MaxBack
      BY <2>2 DEF Later, Ann
    <3> QED BY <3>1, <3>2, <3>3
  <2>6. CASE Tick
    <3>1. m_index' = Shifted(-1) /\ back' = IF back = 0 THEN 0 ELSE back - 1 BY <2>6 DEF Tick
    <3>2. \A t \in Txs, p \in Peers : \/ m_index'[t][p].time = 0
                                      \/ m_index'[t][p].time = -MaxBack
                                      \/ /\ m_index'[t][p].time = m_index[t][p].time + (-1)
                                         /\ m_index'[t][p].time >= -MaxBack
      BY <2>5, <3>1
    <3>3. back' \in 0..MaxBack /\ back' >= back - 1 BY <2>2, <3>1
    <3>4. \A t \in Txs, p \in Peers : m_index'[t][p].time \in (-MaxBack)..(Longest + back')
      BY <2>2, <2>3, <3>2, <3>3
    <3> QED BY <2>1, <3>3, <3>4 DEF RangesOK
  <2>7. CASE ClockBack
    <3>1. m_index' = Shifted(1) /\ back' = back + 1 /\ back < MaxBack BY <2>7 DEF ClockBack
    <3>2. \A t \in Txs, p \in Peers : \/ m_index'[t][p].time = 0
                                      \/ m_index'[t][p].time = -MaxBack
                                      \/ /\ m_index'[t][p].time = m_index[t][p].time + 1
                                         /\ m_index'[t][p].time >= -MaxBack
      BY <2>5, <3>1
    <3>3. back' \in 0..MaxBack BY <2>2, <3>1
    <3>4. \A t \in Txs, p \in Peers : m_index'[t][p].time \in (-MaxBack)..(Longest + back')
      BY <2>2, <2>3, <3>1, <3>2, <3>3
    <3> QED BY <2>1, <3>3, <3>4 DEF RangesOK
  <2> QED BY <1>2, <2>4, <2>6, <2>7, StepTimed
<1> QED BY <1>1, <1>2

\* However often the clock is set back, no announcement waits longer than the
\* code's delays allow, nothing is offered early and nothing is left of a peer
\* that disconnected.
THEOREM TrackerTidy == RequestsSpec => []Bookkeeping
<1>1. RequestsInit => RangesOK
  <2> SUFFICES ASSUME RequestsInit PROVE RangesOK OBVIOUS
  <2>1. \A t \in Txs, p \in Peers : m_index[t][p].time = 0 BY DEF RequestsInit, NoRow, NoAnn
  <2> QED BY <2>1, LongestType DEF RequestsInit, RangesOK
<1>2. IInv /\ RangesOK => Bookkeeping
  <2> SUFFICES ASSUME IInv, RangesOK PROVE RequestsTypeOK
    BY DEF IInv, Bookkeeping
  <2>1. m_index \in [Txs -> [Peers -> [state : State, time : Times]]]
    <3>1. ASSUME NEW t \in Txs, NEW p \in Peers PROVE m_index[t][p] \in [state : State, time : Times]
      <4>1. m_index[t][p] \in Ann BY DEF IInv, IndexOK, RowType
      <4>2. m_index[t][p].time \in (-MaxBack)..(Longest + back) /\ back \in 0..MaxBack BY DEF RangesOK
      <4>3. m_index[t][p].time \in Times BY <4>2, LongestType DEF Times
      <4> QED BY <4>1, <4>3 DEF Ann
    <3>2. m_index \in [Txs -> [Peers -> Ann]] BY DEF IInv, IndexOK, RowType
    <3>3. \A t \in Txs : m_index[t] \in [Peers -> [state : State, time : Times]] BY <3>1, <3>2
    <3> QED BY <3>2, <3>3
  <2> QED BY <2>1 DEF RequestsTypeOK, IInv, SendOK, RangesOK
<1> QED BY <1>1, <1>2, InitIInv, NextIInv, StepRanges, PTL DEF RequestsSpec
-----------------------------------------------------------------------------
(* Seen from outside.                                                       *)

PlainRow(row) == [p \in Peers |-> Plain(row[p])]

\* The rows seen from outside are rows of plain announcements.
LEMMA PlainFacts ==
  /\ Plain(NoAnn) = Rules!None /\ Plain(Completed) = Rules!Done
  /\ PlainRow(NoRow) = Rules!NoRow
  /\ \A a \in Ann : /\ Rules!Live(Plain(a)) <=> Live(a)
                    /\ Plain(a).time = a.time
                    /\ Plain(a).state = "requested" <=> a.state = "REQUESTED"
                    /\ Plain(a).state = "candidate" <=> a.state \in {"DELAYED", "READY", "BEST"}
<1>1. Plain(NoAnn) = Rules!None BY DEF Plain, NoAnn, Rules!None
<1>2. Plain(Completed) = Rules!Done BY DEF Plain, Completed, Rules!Done
<1>3. PlainRow(NoRow) = Rules!NoRow BY <1>1 DEF PlainRow, NoRow, Rules!NoRow
<1>4. ASSUME NEW a \in Ann
      PROVE  /\ Rules!Live(Plain(a)) <=> Live(a)
             /\ Plain(a).time = a.time
             /\ Plain(a).state = "requested" <=> a.state = "REQUESTED"
             /\ Plain(a).state = "candidate" <=> a.state \in {"DELAYED", "READY", "BEST"}
  BY <1>4 DEF Plain, Ann, State, Live, Rules!Live
<1> QED BY <1>1, <1>2, <1>3, <1>4

\* Two rows look alike if their announcements do.
LEMMA PlainEqual ==
  ASSUME NEW row, NEW new, \A q \in Peers : Plain(new[q]) = Plain(row[q])
  PROVE  PlainRow(new) = PlainRow(row)
BY DEF PlainRow

\* A candidate stays one.
LEMMA PlainCandidate ==
  ASSUME NEW a \in Ann, NEW b \in Ann, a.time = b.time,
         a.state \in {"DELAYED", "READY", "BEST"}, b.state \in {"DELAYED", "READY", "BEST"}
  PROVE  Plain(a) = Plain(b)
BY DEF Plain

\* Making a candidate ready does not show.
LEMMA PlainPromote ==
  ASSUME NEW t \in Txs, NEW row, RowOK(t, row), NEW p \in Peers, row[p].state = "DELAYED"
  PROVE  PlainRow(PromoteCandidateReady(t, row, p)) = PlainRow(row)
<1> DEFINE new == PromoteCandidateReady(t, row, p)
<1>1. new \in RowType /\ row \in RowType BY PromoteOK DEF RowOK
<1>2. \A q \in Peers : \/ new[q] = row[q]
                       \/ /\ new[q].time = row[q].time
                          /\ row[q].state \in {"DELAYED", "READY", "BEST"}
                          /\ new[q].state \in {"DELAYED", "READY", "BEST"}
  BY <1>1 DEF PromoteCandidateReady, To, RowType, Ann
<1> HIDE DEF new
<1>3. ASSUME NEW q \in Peers PROVE Plain(new[q]) = Plain(row[q])
  <2>1. new[q] \in Ann /\ row[q] \in Ann BY <1>1 DEF RowType
  <2> QED BY <1>2, <2>1, PlainCandidate
<1> QED BY <1>3, PlainEqual DEF new

\* Nor does taking a candidate back.
LEMMA PlainDemote ==
  ASSUME NEW t \in Txs, NEW row, RowOK(t, row), NEW p \in Peers, IsSelectable(row[p])
  PROVE  PlainRow(ChangeAndReselect(t, row, p, [state |-> "DELAYED", time |-> row[p].time])) = PlainRow(row)
<1> DEFINE d == [state |-> "DELAYED", time |-> row[p].time]
           new == ChangeAndReselect(t, row, p, d)
<1>1. row \in RowType /\ Live(row[p]) BY DEF RowOK, IsSelectable, Live
<1>2. d \in Ann BY <1>1 DEF RowType, Ann, State
<1> HIDE DEF d
<1>3. new[p] = d /\ \A q \in Peers \ {p} :
         new[q] = row[q] \/ (row[q].state = "READY" /\ new[q] = [state |-> "BEST", time |-> row[q].time])
  <2>1. new[p] = d BY <1>1, <1>2, ChangeKeeps
  <2>2. ASSUME NEW q \in Peers, q # p
        PROVE  new[q] = row[q] \/ (row[q].state = "READY" /\ new[q] = [state |-> "BEST", time |-> row[q].time])
    <3>1. new[q] = row[q] \/ new[q] = [state |-> "BEST", time |-> row[q].time] BY <1>1, <1>2, <2>2, ChangeKeeps
    <3>2. new[q] = row[q] \/ row[q].state = "READY" BY <1>1, <1>2, <2>2, ChangeKeeps
    <3> HIDE DEF new
    <3> QED BY <3>1, <3>2
  <2> HIDE DEF new
  <2> QED BY <2>1, <2>2
<1> HIDE DEF new
<1>4. ASSUME NEW q \in Peers PROVE Plain(new[q]) = Plain(row[q])
  <2>1. row[q] \in Ann BY <1>1 DEF RowType
  <2>2. CASE q = p BY <2>1, <2>2, <1>2, <1>3, PlainCandidate DEF IsSelectable, d
  <2>3. CASE q # p /\ new[q] = row[q] BY <2>3
  <2>4. CASE row[q].state = "READY" /\ new[q] = [state |-> "BEST", time |-> row[q].time]
    BY <2>1, <2>4, PlainCandidate DEF Ann, State
  <2> QED BY <1>3, <2>2, <2>3, <2>4
<1> QED BY <1>4, PlainEqual DEF new, d

\* Failing an announcement shows as that, and settles the row.
LEMMA PlainCompleted ==
  ASSUME NEW t \in Txs, NEW row, RowOK(t, row), NEW p \in Peers, Live(row[p])
  PROVE  PlainRow(MakeCompleted(t, row, p)) = Rules!Settled([PlainRow(row) EXCEPT ![p] = Rules!Done])
<1> DEFINE new == ChangeAndReselect(t, row, p, Completed)
           fail == [PlainRow(row) EXCEPT ![p] = Rules!Done]
<1>1. row \in RowType BY DEF RowOK
<1>2. \A q \in Peers : fail[q] = IF q = p THEN Rules!Done ELSE Plain(row[q]) BY DEF PlainRow
<1>3. \A q \in Peers : Rules!Live(fail[q]) <=> q # p /\ Live(row[q])
  BY <1>1, <1>2, PlainFacts DEF RowType, Rules!Live, Rules!Done
<1>4. CASE IsOnlyNonCompleted(row, p)
  <2>1. Rules!Settled(fail) = Rules!NoRow BY <1>3, <1>4 DEF Rules!Settled, IsOnlyNonCompleted
  <2> QED BY <1>4, <2>1, PlainFacts DEF MakeCompleted
<1>5. CASE ~IsOnlyNonCompleted(row, p)
  <2>1. Rules!Settled(fail) = fail BY <1>3, <1>5 DEF Rules!Settled, IsOnlyNonCompleted
  <2>2. Completed \in Ann BY DEF Completed, Ann, State
  <2>3. new[p] = Completed /\ \A q \in Peers \ {p} :
           new[q] = row[q] \/ (row[q].state = "READY" /\ new[q] = [state |-> "BEST", time |-> row[q].time])
    <3>1. new[p] = Completed BY <1>1, <2>2, ChangeKeeps
    <3>2. ASSUME NEW q \in Peers, q # p
          PROVE  new[q] = row[q] \/ (row[q].state = "READY" /\ new[q] = [state |-> "BEST", time |-> row[q].time])
      <4>1. new[q] = row[q] \/ new[q] = [state |-> "BEST", time |-> row[q].time] BY <1>1, <2>2, <3>2, ChangeKeeps
      <4>2. new[q] = row[q] \/ row[q].state = "READY" BY <1>1, <2>2, <3>2, ChangeKeeps
      <4> HIDE DEF new
      <4> QED BY <4>1, <4>2
    <3> HIDE DEF new
    <3> QED BY <3>1, <3>2
  <2> HIDE DEF new
  <2>4. ASSUME NEW q \in Peers PROVE Plain(new[q]) = fail[q]
    <3>1. row[q] \in Ann BY <1>1 DEF RowType
    <3>2. CASE q = p BY <3>2, <2>3, <1>2, PlainFacts
    <3>3. CASE q # p /\ new[q] = row[q] BY <3>3, <1>2
    <3>4. CASE q # p /\ row[q].state = "READY" /\ new[q] = [state |-> "BEST", time |-> row[q].time]
      <4>1. new[q] \in Ann /\ new[q].time = row[q].time /\ new[q].state = "BEST" BY <3>1, <3>4 DEF Ann, State
      <4>2. Plain(new[q]) = Plain(row[q]) BY <3>1, <3>4, <4>1, PlainCandidate
      <4> QED BY <3>4, <4>2, <1>2
    <3> QED BY <2>3, <3>2, <3>3, <3>4
  <2>5. PlainRow(new) = fail
    <3>1. fail = [q \in Peers |-> fail[q]] BY DEF PlainRow
    <3> HIDE DEF fail
    <3> QED BY <2>4, <3>1 DEF PlainRow
  <2> QED BY <1>5, <2>1, <2>5 DEF MakeCompleted, new
<1> QED BY <1>4, <1>5

\* A row with no live announcement is empty.
LEMMA DeadRow ==
  ASSUME NEW t \in Txs, NEW row, RowOK(t, row), \A q \in Peers : ~Live(row[q])
  PROVE  row = NoRow
<1>1. \A q \in Peers : row[q] = NoAnn
  BY DEF RowOK, RowSane, RowCanon, RowType, Ann, Live, NoAnn
<1> QED BY <1>1 DEF RowOK, RowType, NoRow

\* A peer's leaving shows as that, and settles the row.
LEMMA PlainDropped ==
  ASSUME NEW t \in Txs, NEW row, RowOK(t, row), NEW p \in Peers
  PROVE  PlainRow(Dropped(t, row, p)) = Rules!Settled([PlainRow(row) EXCEPT ![p] = Rules!None])
<1> DEFINE m == MakeCompleted(t, row, p)
           fail == [PlainRow(row) EXCEPT ![p] = Rules!Done]
           gone == [PlainRow(row) EXCEPT ![p] = Rules!None]
<1>1. row \in RowType /\ RowOK(t, m) /\ m \in RowType BY MakeCompletedOK DEF RowOK
<1>2. \A q \in Peers : gone[q] = IF q = p THEN Rules!None ELSE Plain(row[q]) BY DEF PlainRow
<1>3. \A q \in Peers : fail[q] = IF q = p THEN Rules!Done ELSE Plain(row[q]) BY DEF PlainRow
<1>4. gone = [q \in Peers |-> gone[q]] BY DEF PlainRow
<1>5. \A q \in Peers : Dropped(t, row, p)[q] = IF q = p THEN NoAnn ELSE m[q] BY <1>1 DEF Dropped, RowType
<1>6. \A q \in Peers : Rules!Live(gone[q]) <=> q # p /\ Live(row[q])
  BY <1>1, <1>2, PlainFacts DEF RowType, Rules!Live, Rules!None
<1>7. \A q \in Peers : Rules!Live(fail[q]) <=> q # p /\ Live(row[q])
  BY <1>1, <1>3, PlainFacts DEF RowType, Rules!Live, Rules!Done
<1>8. Rules!NoRow = [q \in Peers |-> Rules!None] BY DEF Rules!NoRow
<1> HIDE DEF gone
<1>9. CASE \E q \in Peers \ {p} : Live(row[q])
  <2>1. Rules!Settled(gone) = gone BY <1>6, <1>9 DEF Rules!Settled
  <2>2. ASSUME NEW q \in Peers, q # p PROVE Plain(m[q]) = Plain(row[q])
    <3>1. CASE Live(row[p])
      <4>1. PlainRow(m) = fail BY <1>7, <1>9, <3>1, PlainCompleted DEF Rules!Settled
      <4> HIDE DEF m, fail
      <4>2. PlainRow(m)[q] = Plain(m[q]) BY DEF PlainRow
      <4> QED BY <2>2, <4>1, <4>2, <1>3
    <3>2. CASE ~Live(row[p]) BY <3>2 DEF MakeCompleted
    <3> QED BY <3>1, <3>2
  <2>3. \A q \in Peers : Plain(Dropped(t, row, p)[q]) = gone[q] BY <1>2, <1>5, <2>2, PlainFacts
  <2> QED BY <2>1, <2>3, <1>4 DEF PlainRow, gone
<1>10. CASE \A q \in Peers \ {p} : ~Live(row[q])
  <2>1. Rules!Settled(gone) = Rules!NoRow BY <1>6, <1>10 DEF Rules!Settled
  <2>2. m = NoRow
    <3>1. CASE Live(row[p]) BY <1>10, <3>1 DEF MakeCompleted, IsOnlyNonCompleted
    <3>2. CASE ~Live(row[p])
      <4>1. row = NoRow BY <1>10, <3>2, DeadRow
      <4> QED BY <3>2, <4>1 DEF MakeCompleted
    <3> QED BY <3>1, <3>2
  <2>3. \A q \in Peers : Dropped(t, row, p)[q] = NoAnn BY <1>5, <2>2 DEF NoRow
  <2> QED BY <2>1, <2>3, <1>8, PlainFacts DEF PlainRow, gone
<1> QED BY <1>9, <1>10

\* The steps below are steps of TxRequestRules.
LEMMA OneRow ==
  ASSUME IndexOK, NEW t \in Txs, NEW r, m_index' = [m_index EXCEPT ![t] = r]
  PROVE  Announcements' = [Announcements EXCEPT ![t] = PlainRow(r)]
<1>1. \A u \in Txs : m_index'[u] = IF u = t THEN r ELSE m_index[u] BY DEF IndexOK
<1>2. Announcements = [u \in Txs |-> PlainRow(m_index[u])] BY DEF Announcements, PlainRow
<1>3. Announcements' = [u \in Txs |-> PlainRow(m_index'[u])] BY DEF Announcements, PlainRow
<1> QED BY <1>1, <1>2, <1>3

\* A row that looks the same leaves everything looking the same.
LEMMA SameLook ==
  ASSUME IndexOK, NEW t \in Txs, NEW r, m_index' = [m_index EXCEPT ![t] = r],
         PlainRow(r) = PlainRow(m_index[t])
  PROVE  Announcements' = Announcements
<1>1. Announcements = [u \in Txs |-> PlainRow(m_index[u])] BY DEF Announcements, PlainRow
<1>2. Announcements[t] = PlainRow(m_index[t]) BY <1>1
<1>3. Announcements' = [Announcements EXCEPT ![t] = Announcements[t]] BY OneRow, <1>2
<1> QED BY <1>1, <1>3

Looks == Announcements = [u \in Txs |-> PlainRow(m_index[u])]

\* The two ways of writing it.
LEMMA LooksHolds == Looks /\ Looks'
BY DEF Looks, Announcements, PlainRow

\* Forgetting transactions.
LEMMA ForgetLook ==
  ASSUME NEW S \in SUBSET Txs, NEW index, m_index' = ForgetTxHash(index, S), send'.op = send.op,
         \A u \in Txs : u \notin S => index[u] = m_index[u]
  PROVE  Rules!Forget(S)
<1>1. \A u \in Txs : PlainRow(m_index'[u]) = IF u \in S THEN Rules!NoRow ELSE PlainRow(m_index[u])
  BY PlainFacts DEF ForgetTxHash
<1>2. \A u \in Txs : Announcements[u] = PlainRow(m_index[u]) BY LooksHolds DEF Looks
<1>3. Announcements' = [u \in Txs |-> IF u \in S THEN Rules!NoRow ELSE Announcements[u]]
  BY <1>1, <1>2, LooksHolds DEF Looks
<1> QED BY <1>3 DEF Rules!Forget

\* A response of a peer.
LEMMA ResponseLook ==
  ASSUME IInv, NEW t \in Txs, NEW p \in Peers, send = Idle, send' = Idle,
         m_index' = ReceivedResponse(t, p)
  PROVE  Rules!Respond(t, p) \/ UNCHANGED Rules!vars
<1> DEFINE r == MakeCompleted(t, m_index[t], p)
<1>1. IndexOK /\ RowOK(t, m_index[t]) BY DEF IInv, IndexOK
<1>2. m_index' = [m_index EXCEPT ![t] = r] BY DEF ReceivedResponse
<1>3. send.op = "idle" /\ send'.op = "idle" BY DEF Idle
<1>4. CASE Live(m_index[t][p])
  <2>1. PlainRow(r) = Rules!Settled([PlainRow(m_index[t]) EXCEPT ![p] = Rules!Done])
    BY <1>1, <1>4, PlainCompleted
  <2> HIDE DEF r
  <2>2. Announcements' = [Announcements EXCEPT ![t] = PlainRow(r)] BY <1>1, <1>2, OneRow
  <2>3. Announcements[t] = PlainRow(m_index[t]) BY LooksHolds DEF Looks
  <2>4. PlainRow(m_index[t])[p] = Plain(m_index[t][p]) BY DEF PlainRow
  <2>5. Rules!Live(Announcements[t][p])
    BY <2>3, <2>4, <1>1, <1>4, PlainFacts DEF RowOK, RowType
  <2> QED BY <1>3, <2>1, <2>2, <2>3, <2>5 DEF Rules!Respond
<1>5. CASE ~Live(m_index[t][p])
  <2>1. r = m_index[t] BY <1>5 DEF MakeCompleted
  <2>2. Announcements' = Announcements BY <1>1, <1>2, <2>1, SameLook
  <2> QED BY <1>3, <2>2 DEF Rules!vars
<1> QED BY <1>4, <1>5

\* A new announcement.
LEMMA ReceivedLook ==
  ASSUME NEW row \in RowType, NEW p \in Peers, NEW w \in Int, row[p].state = "NONE", row[p].time = 0
  PROVE  /\ PlainRow(row)[p] = Rules!None
         /\ PlainRow(ReceivedInv(row, p, w)) = [PlainRow(row) EXCEPT ![p] = Rules!Candidate(w)]
<1> DEFINE new == [state |-> "DELAYED", time |-> w]
<1>1. ReceivedInv(row, p, w) = [row EXCEPT ![p] = new] BY DEF ReceivedInv
<1>2. Plain(new) = Rules!Candidate(w) BY DEF Plain, Rules!Candidate
<1>3. Plain(row[p]) = Rules!None BY DEF Plain, Rules!None
<1> HIDE DEF new
<1>4. \A q \in Peers : ReceivedInv(row, p, w)[q] = IF q = p THEN new ELSE row[q] BY <1>1 DEF RowType
<1> QED BY <1>2, <1>3, <1>4 DEF PlainRow

\* The wait is one of four.
LEMMA WaitIsOne == ASSUME NEW index, NEW p \in Peers PROVE Wait(index, p) \in WaitTimes /\ Wait(index, p) \in Int
BY DEF Wait, WaitTimes

\* The messages of a peer are announcements, responses and forgetting.
LEMMA MessageLook ==
  ASSUME IInv, NEW p \in Peers, NEW t \in Txs,
         \/ InvMessage(p, t) \/ NotFound(p, t) \/ TxAccepted(p, t) \/ TxOrphan(p, t)
         \/ \E remembered \in BOOLEAN : TxRefused(p, t, remembered)
  PROVE  [Rules!Next]_Rules!vars
<1> DEFINE resp == ReceivedResponse(t, p)
<1>1. send = Idle /\ send' = Idle BY DEF InvMessage, NotFound, TxAccepted, TxOrphan, TxRefused
<1>2. send.op = "idle" /\ send'.op = "idle" BY <1>1 DEF Idle
<1>3. IndexOK BY DEF IInv
<1>4. \A u \in Txs : u # t => resp[u] = m_index[u] BY <1>3 DEF IndexOK, ReceivedResponse
<1>5. \A u \in Txs : /\ RowOK(u, m_index[u]) /\ m_index[u] \in RowType
                     /\ m_index[u][p].state = "NONE" => m_index[u][p].time = 0
  BY <1>3 DEF IndexOK, RowOK, RowCanon, Live
<1>6. ASSUME m_index' = ForgetTxHash(resp, {t}) PROVE Rules!Next
  <2> HIDE DEF resp
  <2>1. Rules!Forget({t}) BY <1>2, <1>4, <1>6, ForgetLook
  <2> QED BY <2>1 DEF Rules!Next
<1>7. ASSUME m_index' = resp PROVE [Rules!Next]_Rules!vars
  <2>1. Rules!Respond(t, p) \/ UNCHANGED Rules!vars BY <1>1, <1>7, ResponseLook
  <2> QED BY <2>1 DEF Rules!Next
<1>8. CASE InvMessage(p, t)
  <2> DEFINE w == Wait(m_index, p)
             r == ReceivedInv(m_index[t], p, w)
  <2>1. w \in WaitTimes /\ w \in Int BY WaitIsOne
  <2>2. m_index' = m_index \/ m_index' = [m_index EXCEPT ![t] = r]
    BY <1>8 DEF InvMessage, AddTxAnnouncement
  <2> HIDE DEF w
  <2>3. CASE m_index' = m_index
    BY <2>3, <1>2, LooksHolds DEF Looks, Rules!vars
  <2>4. CASE m_index' = [m_index EXCEPT ![t] = r] /\ m_index[t][p].state = "NONE"
    <3>1. /\ PlainRow(m_index[t])[p] = Rules!None
          /\ PlainRow(r) = [PlainRow(m_index[t]) EXCEPT ![p] = Rules!Candidate(w)]
      BY <1>5, <2>1, <2>4, ReceivedLook
    <3> HIDE DEF r
    <3>2. Announcements' = [Announcements EXCEPT ![t] = PlainRow(r)] BY <1>3, <2>4, OneRow
    <3>3. Announcements[t] = PlainRow(m_index[t]) BY LooksHolds DEF Looks
    <3>4. Rules!Announce(t, p, w) BY <1>2, <3>1, <3>2, <3>3 DEF Rules!Announce
    <3> QED BY <2>1, <3>4 DEF Rules!Next
  <2>5. CASE m_index' = [m_index EXCEPT ![t] = r] /\ m_index[t][p].state # "NONE"
    <3>1. r = m_index[t] BY <2>5 DEF ReceivedInv
    <3>2. Announcements' = Announcements BY <1>3, <2>5, <3>1, SameLook
    <3> QED BY <1>2, <3>2 DEF Rules!vars
  <2> QED BY <2>2, <2>3, <2>4, <2>5
<1>9. CASE NotFound(p, t) BY <1>7, <1>9 DEF NotFound
<1>10. CASE TxAccepted(p, t) BY <1>6, <1>10 DEF TxAccepted
<1>11. CASE \E remembered \in BOOLEAN : TxRefused(p, t, remembered) BY <1>6, <1>7, <1>11 DEF TxRefused
<1>12. CASE TxOrphan(p, t)
  <2> DEFINE u == Parent[t]
             w == Wait(resp, p)
             r == ReceivedInv(resp[u], p, w)
             add == [resp EXCEPT ![u] = r]
  <2>1. u \in Txs /\ u # t BY <1>12 DEF TxOrphan
  <2>2. w \in WaitTimes /\ w \in Int BY WaitIsOne
  <2>3. m_index' = ForgetTxHash(resp, {t}) \/ m_index' = ForgetTxHash(add, {t})
    BY <1>12 DEF TxOrphan, AddTxAnnouncement
  <2>4. resp \in [Txs -> RowType]
    <3>1. GoodIndex(resp) BY ResponseGood DEF IInv
    <3> QED BY <3>1 DEF GoodIndex
  <2>5. resp[u] = m_index[u] BY <1>4, <2>1
  <2> HIDE DEF u, w, resp
  <2>6. CASE m_index' = ForgetTxHash(add, {t}) /\ m_index[u][p].state = "NONE"
    <3>1. /\ PlainRow(m_index[u])[p] = Rules!None
          /\ PlainRow(r) = [PlainRow(m_index[u]) EXCEPT ![p] = Rules!Candidate(w)]
      <4>1. r = ReceivedInv(m_index[u], p, w) BY <2>5
      <4>2. m_index[u] \in RowType /\ m_index[u][p].state = "NONE" /\ m_index[u][p].time = 0
        BY <1>5, <2>1, <2>6
      <4> HIDE DEF r
      <4> QED BY <2>2, <4>1, <4>2, ReceivedLook
    <3> HIDE DEF r
    <3>2. \A x \in Txs : m_index'[x] = IF x = t THEN NoRow ELSE IF x = u THEN r ELSE m_index[x]
      BY <1>4, <2>1, <2>4, <2>6 DEF ForgetTxHash
    <3>3. \A x \in Txs : PlainRow(m_index'[x]) = IF x = t THEN Rules!NoRow
                                                 ELSE IF x = u THEN PlainRow(r) ELSE PlainRow(m_index[x])
      BY <3>2, PlainFacts
    <3>4. \A x \in Txs : Announcements[x] = PlainRow(m_index[x]) BY LooksHolds DEF Looks
    <3>5. Announcements' = [Announcements EXCEPT ![t] = Rules!NoRow,
                                                 ![u] = [Announcements[u] EXCEPT ![p] = Rules!Candidate(w)]]
      BY <2>1, <3>1, <3>3, <3>4, LooksHolds DEF Looks
    <3>6. Rules!Replace(t, u, p, w) BY <1>2, <2>1, <3>1, <3>4, <3>5 DEF Rules!Replace
    <3> QED BY <2>1, <2>2, <3>6 DEF Rules!Next
  <2>7. CASE m_index' = ForgetTxHash(add, {t}) /\ m_index[u][p].state # "NONE"
    <3>1. r = m_index[u] BY <2>5, <2>7 DEF ReceivedInv
    <3>2. add = resp BY <3>1, <2>4, <2>5
    <3> QED BY <1>6, <2>7, <3>2
  <2> QED BY <1>6, <2>3, <2>6, <2>7
<1> QED BY <1>8, <1>9, <1>10, <1>11, <1>12

\* A peer's leaving, seen from outside.
LEMMA FinalizeLook == ASSUME IInv, NEW p \in Peers, FinalizeNode(p) PROVE Rules!Next
<1>1. send.op = "idle" /\ send'.op = "idle" BY DEF FinalizeNode, Idle
<1>2. \A t \in Txs : PlainRow(m_index'[t]) = Rules!Settled([PlainRow(m_index[t]) EXCEPT ![p] = Rules!None])
  <2> SUFFICES ASSUME NEW t \in Txs
               PROVE  PlainRow(m_index'[t]) = Rules!Settled([PlainRow(m_index[t]) EXCEPT ![p] = Rules!None])
    OBVIOUS
  <2>1. m_index'[t] = Dropped(t, m_index[t], p) BY DEF FinalizeNode
  <2>2. RowOK(t, m_index[t]) BY DEF IInv, IndexOK
  <2> QED BY <2>1, <2>2, PlainDropped
<1>3. \A t \in Txs : Announcements[t] = PlainRow(m_index[t]) BY LooksHolds DEF Looks
<1>4. Announcements' = [t \in Txs |-> Rules!Settled([Announcements[t] EXCEPT ![p] = Rules!None])]
  BY <1>2, <1>3, LooksHolds DEF Looks
<1>5. Rules!Disconnect(p) BY <1>1, <1>4 DEF Rules!Disconnect
<1> QED BY <1>5 DEF Rules!Next

\* The clock moves for both.
LEMMA ClockLook ==
  ASSUME IInv, NEW d \in {-1, 1}, m_index' = Shifted(d), send = Idle, send' = Idle
  PROVE  Rules!Next
<1>1. send.op = "idle" /\ send'.op = "idle" BY DEF Idle
<1>2. ASSUME NEW a \in Ann
      PROVE  Plain(Later(a, d)) =
                 IF ~Rules!Live(Plain(a)) THEN Plain(a)
                 ELSE [Plain(a) EXCEPT !.time = IF @ + d < -MaxBack THEN -MaxBack ELSE @ + d]
  <2>1. Rules!Live(Plain(a)) <=> Live(a) BY PlainFacts
  <2>2. CASE ~Live(a) BY <2>1, <2>2 DEF Later
  <2>3. CASE Live(a)
    <3> DEFINE n == IF a.time + d < -MaxBack THEN -MaxBack ELSE a.time + d
    <3>1. Later(a, d) = [a EXCEPT !.time = n] BY <2>3 DEF Later
    <3>2. Plain(a).time = a.time BY PlainFacts
    <3>3. [Plain(a) EXCEPT !.time = IF @ + d < -MaxBack THEN -MaxBack ELSE @ + d] = [Plain(a) EXCEPT !.time = n]
      BY <3>2
    <3> HIDE DEF n
    <3>4. Plain([a EXCEPT !.time = n]) = [Plain(a) EXCEPT !.time = n] BY DEF Plain, Ann
    <3> QED BY <2>1, <2>3, <3>1, <3>3, <3>4
  <2> QED BY <2>2, <2>3
<1>3. \A t \in Txs, p \in Peers : m_index[t][p] \in Ann BY DEF IInv, IndexOK, RowType
<1>4. Announcements' = [t \in Txs |-> [p \in Peers |-> Plain(Later(m_index[t][p], d))]]
  BY DEF Announcements, Shifted
<1>5. \A t \in Txs, p \in Peers : Announcements[t][p] = Plain(m_index[t][p]) BY DEF Announcements
<1>6. Announcements' = [t \in Txs |-> [p \in Peers |->
          IF ~Rules!Live(Announcements[t][p]) THEN Announcements[t][p]
          ELSE [Announcements[t][p] EXCEPT !.time = IF @ + d < -MaxBack THEN -MaxBack ELSE @ + d]]]
  BY <1>2, <1>3, <1>4, <1>5
<1>7. Rules!Pass(d) BY <1>1, <1>6 DEF Rules!Pass
<1> QED BY <1>7 DEF Rules!Next

\* The loops of SetTimePoint: a request that expires shows, the rest does not.
LEMMA SetTimePointLook ==
  ASSUME IInv, NEW t \in Txs, NEW p \in Peers, TimePassed(t, p) \/ Demoted(t, p)
  PROVE  [Rules!Next]_Rules!vars
<1>1. IndexOK /\ RowOK(t, m_index[t]) BY DEF IInv, IndexOK
<1>2. send' = send /\ send.op # "idle" BY DEF TimePassed, Demoted
<1>3. CASE Demoted(t, p)
  <2>1. IsSelectable(m_index[t][p]) BY <1>3 DEF Demoted, Last
  <2>2. m_index' = [m_index EXCEPT ![t] =
            ChangeAndReselect(t, m_index[t], p, [state |-> "DELAYED", time |-> m_index[t][p].time])]
    BY <1>3 DEF Demoted
  <2>3. Announcements' = Announcements BY <1>1, <2>1, <2>2, PlainDemote, SameLook
  <2> QED BY <1>2, <2>3 DEF Rules!vars
<1>4. CASE TimePassed(t, p) /\ m_index[t][p].state = "DELAYED"
  <2>1. m_index' = [m_index EXCEPT ![t] = PromoteCandidateReady(t, m_index[t], p)]
    BY <1>4 DEF TimePassed
  <2>2. Announcements' = Announcements BY <1>1, <1>4, <2>1, PlainPromote, SameLook
  <2> QED BY <1>2, <2>2 DEF Rules!vars
<1>5. CASE TimePassed(t, p) /\ m_index[t][p].state # "DELAYED"
  <2> DEFINE r == MakeCompleted(t, m_index[t], p)
  <2>1. m_index[t][p].state = "REQUESTED" /\ m_index[t][p].time <= 0
    BY <1>5 DEF TimePassed, First, IsWaiting
  <2>2. m_index' = [m_index EXCEPT ![t] = r] BY <1>5 DEF TimePassed
  <2>3. PlainRow(r) = Rules!Settled([PlainRow(m_index[t]) EXCEPT ![p] = Rules!Done])
    BY <1>1, <2>1, PlainCompleted DEF Live
  <2>4. Announcements[t] = PlainRow(m_index[t]) BY LooksHolds DEF Looks
  <2>5. m_index[t][p] \in Ann BY <1>1 DEF RowOK, RowType
  <2>6. Announcements[t][p].state = "requested" /\ Announcements[t][p].time <= 0
    BY <2>1, <2>4, <2>5, PlainFacts DEF PlainRow
  <2> HIDE DEF r
  <2>7. Announcements' = [Announcements EXCEPT ![t] = PlainRow(r)] BY <1>1, <2>2, OneRow
  <2>8. Rules!Expire(t, p) BY <1>2, <2>3, <2>4, <2>6, <2>7 DEF Rules!Expire
  <2> QED BY <2>8 DEF Rules!Next
<1> QED BY <1>3, <1>4, <1>5

\* What is asked for is due, asked of nobody else, and asked of the best.
LEMMA GetDataLook == ASSUME IInv, NEW t \in Txs, GetData(t) PROVE Rules!Next
<1> DEFINE p == send.peer
           row == m_index[t]
<1>1. IndexOK /\ RowOK(t, row) BY DEF IInv, IndexOK
<1>2. send.op = "ask" /\ t \in send.todo BY DEF GetData
<1>3. send \in [op : {"forward", "back", "ask"}, peer : Peers, todo : SUBSET Txs]
  BY <1>2 DEF IInv, SendOK, Idle
<1>4. p \in Peers /\ row[p].state = "BEST" BY <1>2, <1>3 DEF IInv, Offered
<1>5. send'.op = "ask" BY <1>2, <1>3 DEF GetData
<1>6. CASE AlreadyHave(t)
  <2>1. m_index' = ForgetTxHash(m_index, {t}) BY <1>6 DEF GetData
  <2>2. Rules!Forget({t}) BY <1>2, <1>5, <2>1, ForgetLook
  <2> QED BY <2>2 DEF Rules!Next
<1>7. CASE ~AlreadyHave(t)
  <2> DEFINE asked == [state |-> "REQUESTED", time |-> GETDATA_TX_INTERVAL]
             r == [row EXCEPT ![p] = asked]
  <2>1. m_index' = [m_index EXCEPT ![t] = r] BY <1>4, <1>7 DEF GetData, RequestedTx
  <2>2. \A q \in Peers : row[q] \in Ann BY <1>1 DEF RowOK, RowType
  <2>3. \A q \in Peers : Announcements[t][q] = Plain(row[q]) BY DEF Announcements
  <2>4. \A q \in Peers : row[q].state # "REQUESTED"
    BY <1>1, <1>4 DEF RowOK, RowSane, IsSelected
  <2>5. \A q \in Peers : IsWaiting(row[q]) => row[q].time > 0
    BY <1>2 DEF IInv, PostGetRequestableSanityCheck
  <2>6. row[p].time <= 0 BY <1>2, <1>4 DEF IInv, PostGetRequestableSanityCheck, IsSelectable
  <2>7. Rules!Due(t, p) BY <1>4, <2>2, <2>3, <2>6, PlainFacts DEF Rules!Due
  <2>8. \A q \in Peers : Announcements[t][q].state # "requested" BY <2>2, <2>3, <2>4, PlainFacts
  <2>9. ASSUME NEW q \in Peers, Rules!Due(t, q) PROVE Priority(t, p) >= Priority(t, q)
    <3>1. row[q].state \in {"DELAYED", "READY", "BEST"} /\ row[q].time <= 0
      BY <2>2, <2>3, <2>9, PlainFacts DEF Rules!Due
    <3>2. row[q].state # "DELAYED" BY <2>2, <2>5, <3>1 DEF IsWaiting, Ann
    <3>3. CASE row[q].state = "READY" BY <1>1, <1>4, <3>3 DEF RowOK, RowSane
    <3>4. CASE row[q].state = "BEST"
      <4>1. q = p BY <1>1, <1>4, <3>4 DEF RowOK, RowSane, IsSelected
      <4>2. Priority(t, p) \in Nat BY <1>4, PriorityType
      <4> QED BY <4>1, <4>2
    <3> QED BY <3>1, <3>2, <3>3, <3>4
  <2>10. Announcements' = [Announcements EXCEPT ![t][p] = Rules!Requested]
    <3>1. Plain(asked) = Rules!Requested BY DEF Plain, Rules!Requested
    <3> HIDE DEF asked
    <3>2. PlainRow(r) = [PlainRow(row) EXCEPT ![p] = Rules!Requested]
      <4>1. \A q \in Peers : r[q] = IF q = p THEN asked ELSE row[q] BY <1>1 DEF RowOK, RowType
      <4> HIDE DEF r, row, p
      <4> QED BY <3>1, <4>1 DEF PlainRow
    <3>3. Announcements[t] = PlainRow(row) BY LooksHolds DEF Looks
    <3> HIDE DEF r
    <3>4. Announcements' = [Announcements EXCEPT ![t] = PlainRow(r)] BY <1>1, <2>1, OneRow
    <3> QED BY <3>2, <3>3, <3>4
  <2>11. Rules!Request(t, p) BY <1>2, <1>5, <2>7, <2>8, <2>9, <2>10 DEF Rules!Request
  <2> QED BY <1>4, <2>11 DEF Rules!Next
<1> QED BY <1>6, <1>7

\* Every step of the tracker is a step the rules allow, or does not show.
LEMMA StepLook == ASSUME IInv, [RequestsNext]_requestVars PROVE [Rules!Next]_Rules!vars
<1>1. ASSUME m_index' = m_index, send'.op = "idle" <=> send.op = "idle" PROVE UNCHANGED Rules!vars
  BY <1>1 DEF Rules!vars, Announcements
<1>2. CASE \E p \in Peers : InitializeNode(p)
  BY <1>1, <1>2 DEF InitializeNode
<1>3. CASE \E p \in Peers : FinalizeNode(p) BY <1>3, FinalizeLook
<1>4. CASE \E p \in Peers : SendMessages(p)
  <2>1. send.op = "idle" /\ send'.op # "idle" /\ m_index' = m_index BY <1>4 DEF SendMessages, Idle
  <2>2. Rules!Ask BY <2>1 DEF Rules!Ask, Announcements
  <2> QED BY <2>2 DEF Rules!Next
<1>5. CASE \E p \in Peers, t \in Txs :
             \/ InvMessage(p, t) \/ NotFound(p, t) \/ TxAccepted(p, t) \/ TxOrphan(p, t)
             \/ \E remembered \in BOOLEAN : TxRefused(p, t, remembered)
  BY <1>5, MessageLook
<1>6. CASE \E p \in Peers, t \in Txs : TimePassed(t, p) \/ Demoted(t, p)
  BY <1>6, SetTimePointLook
<1>7. CASE \E S \in SUBSET Txs : NewTip(S)
  <2>1. PICK S \in SUBSET Txs : NewTip(S) BY <1>7
  <2>2. m_index' = ForgetTxHash(m_index, S) /\ send'.op = send.op BY <2>1 DEF NewTip
  <2>3. Rules!Forget(S) BY <2>2, ForgetLook
  <2> QED BY <2>3 DEF Rules!Next
<1>8. CASE \E t \in Txs : ProcessMessages(t) \/ Submitted(t) \/ Evicted(t)
  BY <1>1, <1>8 DEF ProcessMessages, Submitted, Evicted
<1>9. CASE \E t \in Txs : GetData(t) BY <1>9, GetDataLook
<1>10. CASE NoMorePassed \/ GetRequestable
  <2>1. m_index' = m_index /\ send.op \in {"forward", "back"} BY <1>10 DEF NoMorePassed, GetRequestable
  <2>2. send \in [op : {"forward", "back", "ask"}, peer : Peers, todo : SUBSET Txs]
    BY <2>1 DEF IInv, SendOK, Idle
  <2>3. send'.op \in {"back", "ask"} BY <1>10, <2>2 DEF NoMorePassed, GetRequestable
  <2> QED BY <1>1, <2>1, <2>3
<1>11. CASE Sent
  <2>1. send.op # "idle" /\ send'.op = "idle" /\ m_index' = m_index BY <1>11 DEF Sent, Idle
  <2>2. Rules!Asked BY <2>1 DEF Rules!Asked, Announcements
  <2> QED BY <2>2 DEF Rules!Next
<1>12. CASE Tick \/ ClockBack
  <2>1. \E d \in {-1, 1} : m_index' = Shifted(d) BY <1>12 DEF Tick, ClockBack
  <2>2. send = Idle /\ send' = Idle BY <1>12 DEF Tick, ClockBack
  <2> QED BY <2>1, <2>2, ClockLook
<1>13. CASE UNCHANGED requestVars BY <1>1, <1>13 DEF requestVars
<1> QED
  BY <1>2, <1>3, <1>4, <1>5, <1>6, <1>7, <1>8, <1>9, <1>10, <1>11, <1>12, <1>13 DEF RequestsNext

\* The tracker and its callers do what txrequest.h promises: a transaction is
\* asked of one peer at a time, the best of those whose wait is over, again
\* only once that request expired or failed, and forgotten when all have.
THEOREM TrackerImplementsRules == RequestsSpec => ImplementsRules
<1>1. RequestsInit => Rules!Init
  <2> SUFFICES ASSUME RequestsInit PROVE Rules!Init OBVIOUS
  <2>1. \A t \in Txs : m_index[t] = NoRow BY DEF RequestsInit
  <2>2. Announcements = [t \in Txs |-> Rules!NoRow] BY <2>1, LooksHolds, PlainFacts DEF Looks
  <2>3. send.op = "idle" BY DEF RequestsInit, Idle
  <2> QED BY <2>2, <2>3 DEF Rules!Init
<1>2. IInv /\ [RequestsNext]_requestVars => [Rules!Next]_Rules!vars BY StepLook
<1>3. RequestsSpec => []IInv BY InitIInv, NextIInv, PTL DEF RequestsSpec
<1> QED BY <1>1, <1>2, <1>3, PTL DEF RequestsSpec, ImplementsRules, Rules!Spec
=============================================================================
