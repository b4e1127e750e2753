----------------------------- MODULE MainSignals -----------------------------
(***************************************************************************)
(* MainSignalsInstance (validationinterface.cpp): the list of validation    *)
(* interfaces that signals are dispatched to.  A dispatch walks the list    *)
(* with m_mutex released during each call; a count per list entry keeps the *)
(* entry it stands on from being erased under it.                           *)
(*                                                                          *)
(* A step is what is done under one holding of m_mutex.  Entries are        *)
(* numbered as they are made; a list that is only appended to is in the     *)
(* order of the numbers.                                                    *)
(***************************************************************************)
EXTENDS Naturals, FiniteSets

CONSTANTS
    Interfaces,     \* CValidationInterface objects
    Walks,          \* calls of Iterate that can be under way at once
    MaxEntries      \* bound: list entries ever made

ASSUME MainSignalsConstants == IsFiniteSet(Walks) /\ MaxEntries \in Nat

VARIABLES
    m_list,         \* entries in the list
    callbacks,      \* interface of an entry
    count,          \* reference count of an entry
    m_map,          \* entry of a registered interface, 0 if it is not registered
    made,           \* entries made so far
    at,             \* entry a walk stands on, 0 if it is not under way
    due             \* ghost: registered since the walk began, and not yet called

signalVars == <<m_list, callbacks, count, m_map, made, at, due>>

Entries == 1 .. MaxEntries
Nobody == "nobody"

SignalsInit ==
    /\ m_list = {} /\ made = 0
    /\ callbacks = [n \in Entries |-> Nobody]
    /\ count = [n \in Entries |-> 0]
    /\ m_map = [i \in Interfaces |-> 0]
    /\ at = [w \in Walks |-> 0]
    /\ due = [w \in Walks |-> {}]
-----------------------------------------------------------------------------
\* Callers register an interface that is not registered; for those emplace
\* always makes an entry.
Register(i) ==
    /\ m_map[i] = 0 /\ made < MaxEntries
    /\ made' = made + 1
    /\ m_map' = [m_map EXCEPT ![i] = made + 1]
    /\ m_list' = m_list \cup {made + 1}
    /\ callbacks' = [callbacks EXCEPT ![made + 1] = i]
    /\ count' = [count EXCEPT ![made + 1] = 1]
    /\ UNCHANGED <<at, due>>

\* One reference to each entry of N is given up; entries without one are erased.
Released(N) ==
    /\ count' = [n \in Entries |-> IF n \in N THEN count[n] - 1 ELSE count[n]]
    /\ m_list' = m_list \ {n \in N : count[n] = 1}

UnregisterErases(i) ==      \* slip: the entry is erased whoever stands on it
    /\ IF m_map[i] = 0 THEN UNCHANGED <<m_list, count, m_map>>
       ELSE /\ m_list' = m_list \ {m_map[i]}
            /\ count' = [count EXCEPT ![m_map[i]] = @ - 1]
            /\ m_map' = [m_map EXCEPT ![i] = 0]
    /\ due' = [w \in Walks |-> due[w] \ {i}]
    /\ UNCHANGED <<callbacks, made, at>>

Unregister(i) ==
    /\ IF m_map[i] = 0 THEN UNCHANGED <<m_list, count, m_map>>
       ELSE Released({m_map[i]}) /\ m_map' = [m_map EXCEPT ![i] = 0]
    /\ due' = [w \in Walks |-> due[w] \ {i}]
    /\ UNCHANGED <<callbacks, made, at>>

Clear ==
    /\ Released({m_map[i] : i \in Interfaces} \ {0})
    /\ m_map' = [i \in Interfaces |-> 0]
    /\ due' = [w \in Walks |-> {}]
    /\ UNCHANGED <<callbacks, made, at>>

\* The entry after n, 0 at the end.
Following(n, L) ==
    IF \E k \in L : k > n
    THEN CHOOSE k \in L : k > n /\ \A j \in L : j > n => k <= j
    ELSE 0

\* The walk leaves the entry `left` and comes to entry n (0: none).
StandOn(w, n, left) ==
    /\ at' = [at EXCEPT ![w] = n]
    /\ count' = [m \in Entries |-> IF m = left THEN count[m] - 1
                                   ELSE IF m = n THEN count[m] + 1 ELSE count[m]]
    /\ m_list' = IF left # 0 /\ count[left] = 1 THEN m_list \ {left} ELSE m_list

IterateBegin(w) ==
    LET n == Following(0, m_list)
    IN  /\ at[w] = 0
        /\ StandOn(w, n, 0)
        /\ due' = [due EXCEPT ![w] =
                      {i \in Interfaces : m_map[i] # 0 /\ (n # 0 => callbacks[n] # i)}]
        /\ UNCHANGED <<callbacks, m_map, made>>

IterateSkips(w) ==          \* slip: erase already returned the next entry
    LET n == Following(at[w], m_list)
        m == IF count[at[w]] = 1 /\ n # 0 THEN Following(n, m_list) ELSE n
    IN  /\ at[w] # 0
        /\ StandOn(w, m, at[w])
        /\ due' = [due EXCEPT ![w] = IF m = 0 THEN @ ELSE @ \ {callbacks[m]}]
        /\ UNCHANGED <<callbacks, m_map, made>>

\* The called function returned: the next entry, and its interface is called.
IterateNext(w) ==
    LET n == Following(at[w], m_list)
    IN  /\ at[w] # 0
        /\ StandOn(w, n, at[w])
        /\ due' = [due EXCEPT ![w] = IF n = 0 THEN @ ELSE @ \ {callbacks[n]}]
        /\ UNCHANGED <<callbacks, m_map, made>>

SignalsNext ==
    \/ \E i \in Interfaces : Register(i) \/ Unregister(i)
    \/ Clear
    \/ \E w \in Walks : IterateBegin(w) \/ IterateNext(w)

SignalsSpec == SignalsInit /\ [][SignalsNext]_signalVars
-----------------------------------------------------------------------------
(* Properties.                                                              *)

SignalsTypeOK ==
    /\ m_list \subseteq Entries /\ made \in 0 .. MaxEntries
    /\ callbacks \in [Entries -> Interfaces \cup {Nobody}]
    /\ count \in [Entries -> Nat]
    /\ m_map \in [Interfaces -> Entries \cup {0}]
    /\ at \in [Walks -> Entries \cup {0}]
    /\ due \in [Walks -> SUBSET Interfaces]

Registered(n) == \E i \in Interfaces : m_map[i] = n

\* The comment on ListEntry: the count is the number of current executions of
\* the entry, plus 1 if it is registered, and never 0 in the list.
CountExact ==
    \A n \in m_list :
        /\ count[n] = Cardinality({w \in Walks : at[w] = n}) + (IF Registered(n) THEN 1 ELSE 0)
        /\ count[n] > 0

\* No iterator dangles: a walk stands on an entry of the list however
\* interfaces come and go during the call, and m_map leads to the entry of its
\* interface.
EntriesAlive ==
    /\ \A w \in Walks : at[w] # 0 => at[w] \in m_list
    /\ \A i \in Interfaces : m_map[i] # 0 => m_map[i] \in m_list /\ callbacks[m_map[i]] = i

\* Reference counts and map are exact, however interfaces come and go.
Referenced == SignalsTypeOK /\ CountExact /\ EntriesAlive

\* A dispatch that ended called every interface that was registered from its
\* beginning to its end.
NoneMissed == \A w \in Walks : at[w] = 0 => due[w] = {}
=============================================================================
