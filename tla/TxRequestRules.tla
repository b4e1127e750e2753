--------------------------- MODULE TxRequestRules ---------------------------
(***************************************************************************)
(* What TxRequestTracker promises (txrequest.h): who may be asked for a     *)
(* transaction, and when an announcement is forgotten.  An announcement is  *)
(* a candidate, requested or completed; which candidate is next is a        *)
(* condition on all of them, not a state that has to be kept up to date.    *)
(***************************************************************************)
EXTENDS Integers

CONSTANTS
    Txs, Peers,         \* transaction hashes, connections
    Priority(_, _),     \* of a peer for a transaction, higher is better
    Expiry,             \* how long a request may stay unanswered
    Delays,             \* how long an announcement may have to wait
    Floor               \* times before this are not told apart

VARIABLES
    ann,        \* [Txs -> [Peers -> announcement]]
    asking      \* is the node choosing what to ask a peer for?

vars == <<ann, asking>>

None == [state |-> "none", time |-> 0]
Done == [state |-> "completed", time |-> 0]
Candidate(d) == [state |-> "candidate", time |-> d]
Requested == [state |-> "requested", time |-> Expiry]

Live(a) == a.state \in {"candidate", "requested"}
NoRow == [p \in Peers |-> None]

\* If only failed announcements remain, all are forgotten.
Settled(row) == IF \E p \in Peers : Live(row[p]) THEN row ELSE NoRow

Init == ann = [t \in Txs |-> NoRow] /\ asking = FALSE

Announce(t, p, d) ==
    /\ ~asking
    /\ ann[t][p] = None
    /\ ann' = [ann EXCEPT ![t][p] = Candidate(d)]
    /\ UNCHANGED asking

Respond(t, p) ==
    /\ ~asking
    /\ Live(ann[t][p])
    /\ ann' = [ann EXCEPT ![t] = Settled([ann[t] EXCEPT ![p] = Done])]
    /\ UNCHANGED asking

Forget(S) ==
    /\ ann' = [t \in Txs |-> IF t \in S THEN NoRow ELSE ann[t]]
    /\ UNCHANGED asking

\* A transaction came whose parent u is missing: it is forgotten, u announced.
Replace(t, u, p, d) ==
    /\ ~asking /\ t # u
    /\ ann[u][p] = None
    /\ ann' = [ann EXCEPT ![t] = NoRow, ![u][p] = Candidate(d)]
    /\ UNCHANGED asking

Disconnect(p) ==
    /\ ~asking
    /\ ann' = [t \in Txs |-> Settled([ann[t] EXCEPT ![p] = None])]
    /\ UNCHANGED asking

\* The clock moved.  How far an overdue time lies back is told down to Floor.
Pass(d) ==
    /\ ~asking
    /\ ann' = [t \in Txs |-> [p \in Peers |->
                  IF ~Live(ann[t][p]) THEN ann[t][p]
                  ELSE [ann[t][p] EXCEPT !.time = IF @ + d < Floor THEN Floor ELSE @ + d]]]
    /\ UNCHANGED asking

Ask == ~asking /\ asking' = TRUE /\ UNCHANGED ann

Expire(t, p) ==
    /\ asking
    /\ ann[t][p].state = "requested" /\ ann[t][p].time <= 0
    /\ ann' = [ann EXCEPT ![t] = Settled([ann[t] EXCEPT ![p] = Done])]
    /\ UNCHANGED asking

Due(t, p) == ann[t][p].state = "candidate" /\ ann[t][p].time <= 0

\* No other request is outstanding, and p is the best choice.
Request(t, p) ==
    /\ asking
    /\ Due(t, p)
    /\ \A q \in Peers : ann[t][q].state # "requested"
    /\ \A q \in Peers : Due(t, q) => Priority(t, p) >= Priority(t, q)
    /\ ann' = [ann EXCEPT ![t][p] = Requested]
    /\ UNCHANGED asking

Asked == asking /\ asking' = FALSE /\ UNCHANGED ann

Next ==
    \/ \E t \in Txs, p \in Peers :
           \/ \E d \in Delays : Announce(t, p, d)
           \/ \E u \in Txs, d \in Delays : Replace(t, u, p, d)
           \/ Respond(t, p) \/ Expire(t, p) \/ Request(t, p)
    \/ \E S \in SUBSET Txs : Forget(S)
    \/ \E p \in Peers : Disconnect(p)
    \/ \E d \in {-1, 1} : Pass(d)
    \/ Ask \/ Asked

Spec == Init /\ [][Next]_vars
=============================================================================
