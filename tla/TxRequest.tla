------------------------------ MODULE TxRequest ------------------------------
(***************************************************************************)
(* The tracker of transaction announcements (txrequest.cpp) and the code of *)
(* net_processing.cpp that calls it under cs_main.  Every (transaction,     *)
(* peer) pair has at most one announcement; the one to ask next is kept as  *)
(* CANDIDATE_BEST while times pass, requests expire and peers leave.        *)
(*                                                                          *)
(* m_time is kept relative to the clock: the time still to wait.  A row is  *)
(* the part of the index ByTxHash sorts together.  m_peerinfo is a cache of *)
(* counts, and m_sequence, which orders what is asked in one message, is    *)
(* left out.  The loops of SetTimePoint and of SendMessages are steps of    *)
(* their own; cs_main is held until send.op is idle again.                  *)
(***************************************************************************)
EXTENDS Integers, FiniteSets

CONSTANTS
    Txs, Peers,
    Preferred, Whitelisted,     \* peers with fPreferredDownload, fWhitelisted
    Hash, HashRange,            \* salted hash of (txhash, peer), and 2^63
    Parent,                     \* a transaction's unknown parent, or NoTx
    NoTx,
    NONPREF_PEER_TX_DELAY, OVERLOADED_PEER_TX_DELAY, GETDATA_TX_INTERVAL,
    MAX_PEER_TX_ANNOUNCEMENTS, MAX_PEER_TX_IN_FLIGHT,
    MaxBack                     \* how far the clock may fall back

ASSUME TxRequestConstants ==
    /\ Preferred \subseteq Peers
    /\ HashRange \in Nat
    /\ Hash \in [Txs -> [Peers -> 0..(HashRange - 1)]]
    /\ NoTx \notin Txs
    /\ Parent \in [Txs -> Txs \cup {NoTx}]
    /\ \A t \in Txs : Parent[t] # t
    /\ NONPREF_PEER_TX_DELAY \in Nat /\ OVERLOADED_PEER_TX_DELAY \in Nat
    /\ GETDATA_TX_INTERVAL \in Nat \ {0}
    /\ MAX_PEER_TX_ANNOUNCEMENTS \in Nat /\ MAX_PEER_TX_IN_FLIGHT \in Nat
    /\ MaxBack \in Nat

VARIABLES
    m_index,    \* [Txs -> [Peers -> announcement]]
    conn,       \* peers: new, up or gone; a NodeId is never used again
    have,       \* in the mempool, the orphans or the coins cache
    rejects,    \* recentRejects
    back,       \* how far the clock is behind its latest reading
    send        \* SendMessages under way: what it does, for whom, still to ask

requestVars == <<m_index, conn, have, rejects, back, send>>

State == {"NONE", "DELAYED", "READY", "BEST", "REQUESTED", "COMPLETED"}
NoAnn == [state |-> "NONE", time |-> 0]
NoRow == [p \in Peers |-> NoAnn]
Idle == [op |-> "idle", peer |-> NoTx, todo |-> {}]

IsSelected(a) == a.state \in {"BEST", "REQUESTED"}
IsWaiting(a) == a.state \in {"REQUESTED", "DELAYED"}
IsSelectable(a) == a.state \in {"READY", "BEST"}
Live(a) == a.state \notin {"NONE", "COMPLETED"}

\* PriorityComputer: preferred peers first, then the hash.
Priority(t, p) == Hash[t][p] + (IF p \in Preferred THEN HashRange ELSE 0)

\* CountInFlight and Count.
CountInFlight(index, p) == Cardinality({t \in Txs : index[t][p].state = "REQUESTED"})
Count(index, p) == Cardinality({t \in Txs : index[t][p].state # "NONE"})

AlreadyHave(t) == t \in have \cup rejects

RequestsInit ==
    /\ m_index = [t \in Txs |-> NoRow]
    /\ conn = [p \in Peers |-> "new"]
    /\ have = {} /\ rejects = {}
    /\ back = 0
    /\ send = Idle
-----------------------------------------------------------------------------
(* The row of one transaction.                                              *)

Completed == [state |-> "COMPLETED", time |-> 0]
To(row, p, s) == [row EXCEPT ![p].state = s]

\* In ByTxHash order a READY one is followed by the better READY ones, then by
\* the BEST or REQUESTED one, then by the COMPLETED ones.
PromoteCandidateReady(t, row, p) ==
    IF \E q \in Peers : row[q].state = "READY" /\ Priority(t, q) > Priority(t, p)
    THEN To(row, p, "READY")
    ELSE IF \A q \in Peers : ~IsSelected(row[q])
    THEN To(row, p, "BEST")
    ELSE IF \E q \in Peers : row[q].state = "BEST" /\ Priority(t, p) > Priority(t, q)
    THEN [q \in Peers |-> IF q = p THEN [row[q] EXCEPT !.state = "BEST"]
                          ELSE IF row[q].state = "BEST" THEN [row[q] EXCEPT !.state = "READY"]
                          ELSE row[q]]
    ELSE To(row, p, "READY")

\* The READY one that precedes the selected one: the best of them.
TopReady(t, row) ==
    CHOOSE q \in Peers : /\ row[q].state = "READY"
                         /\ \A r \in Peers : row[r].state = "READY" => Priority(t, q) >= Priority(t, r)

ChangeOnly(t, row, p, new) == [row EXCEPT ![p] = new]   \* slip: none is selected instead
ChangeAndReselect(t, row, p, new) ==
    LET reselected == IF IsSelected(row[p]) /\ \E q \in Peers : row[q].state = "READY"
                      THEN To(row, TopReady(t, row), "BEST") ELSE row
    IN  [reselected EXCEPT ![p] = new]

IsOnlyNonCompleted(row, p) == \A q \in Peers \ {p} : ~Live(row[q])

MakeCompleted(t, row, p) ==
    IF ~Live(row[p]) THEN row
    ELSE IF IsOnlyNonCompleted(row, p) THEN NoRow
    ELSE ChangeAndReselect(t, row, p, Completed)

\* DisconnectedPeer, for one transaction.
NotErased(t, row, p) == MakeCompleted(t, row, p)    \* slip: it stays, completed
Dropped(t, row, p) == [MakeCompleted(t, row, p) EXCEPT ![p] = NoAnn]

\* RequestedTx.  Unless p's announcement was the best, another may have to
\* give way to it.
RequestedTx(row, p) ==
    LET asked == [state |-> "REQUESTED", time |-> GETDATA_TX_INTERVAL]
    IN  IF row[p].state = "BEST" THEN [row EXCEPT ![p] = asked]
        ELSE IF row[p].state \notin {"DELAYED", "READY"} THEN row
        ELSE [q \in Peers |-> IF q = p THEN asked
                              ELSE IF row[q].state = "BEST" THEN [row[q] EXCEPT !.state = "READY"]
                              ELSE IF row[q].state = "REQUESTED" THEN Completed
                              ELSE row[q]]

ReceivedInv(row, p, wait) ==
    IF row[p].state # "NONE" THEN row ELSE [row EXCEPT ![p] = [state |-> "DELAYED", time |-> wait]]

ForgetTxHash(index, S) == [t \in Txs |-> IF t \in S THEN NoRow ELSE index[t]]
-----------------------------------------------------------------------------
(* Messages from a peer, and its end.                                       *)

Wait(index, p) ==
    (IF p \in Preferred THEN 0 ELSE NONPREF_PEER_TX_DELAY)
    + (IF p \notin Whitelisted /\ CountInFlight(index, p) >= MAX_PEER_TX_IN_FLIGHT
       THEN OVERLOADED_PEER_TX_DELAY ELSE 0)

AddTxAnnouncement(index, t, p) ==
    IF p \notin Whitelisted /\ Count(index, p) >= MAX_PEER_TX_ANNOUNCEMENTS THEN index
    ELSE [index EXCEPT ![t] = ReceivedInv(index[t], p, Wait(index, p))]

ReceivedResponse(t, p) == [m_index EXCEPT ![t] = MakeCompleted(t, m_index[t], p)]

InitializeNode(p) ==
    /\ send = Idle /\ conn[p] = "new"
    /\ conn' = [conn EXCEPT ![p] = "up"]
    /\ UNCHANGED <<m_index, have, rejects, back, send>>

FinalizeNode(p) ==
    /\ send = Idle /\ conn[p] = "up"
    /\ conn' = [conn EXCEPT ![p] = "gone"]
    /\ m_index' = [t \in Txs |-> Dropped(t, m_index[t], p)]
    /\ \E orphans \in SUBSET have : have' = have \ orphans      \* EraseOrphansFor
    /\ UNCHANGED <<rejects, back, send>>

InvMessage(p, t) ==
    /\ send = Idle /\ conn[p] = "up"
    /\ ~AlreadyHave(t)
    /\ m_index' = AddTxAnnouncement(m_index, t, p)
    /\ UNCHANGED <<conn, have, rejects, back, send>>

NotFound(p, t) ==
    /\ send = Idle /\ conn[p] = "up"
    /\ m_index' = ReceivedResponse(t, p)
    /\ UNCHANGED <<conn, have, rejects, back, send>>

\* The orphans that waited for t, until one is taken or found invalid.
ProcessOrphanTx(t, known) ==
    \/ have' = known /\ UNCHANGED rejects
    \/ \E u \in {v \in known : Parent[v] = t}, remembered \in BOOLEAN :
           /\ have' = known \ {u}
           /\ rejects' = IF remembered THEN rejects \cup {u} ELSE rejects

TxAccepted(p, t) ==
    /\ send = Idle /\ conn[p] = "up"
    /\ ~AlreadyHave(t)
    /\ m_index' = ForgetTxHash(ReceivedResponse(t, p), {t})
    /\ \E trimmed \in SUBSET have : ProcessOrphanTx(t, (have \ trimmed) \cup {t})
    /\ UNCHANGED <<conn, back, send>>

\* An orphan: its parent is asked for, unless it was rejected.
TxOrphan(p, t) ==
    /\ send = Idle /\ conn[p] = "up"
    /\ ~AlreadyHave(t)
    /\ Parent[t] # NoTx
    /\ IF Parent[t] \in rejects
       THEN /\ rejects' = rejects \cup {t}
            /\ m_index' = ForgetTxHash(ReceivedResponse(t, p), {t})
            /\ UNCHANGED have
       ELSE /\ \E evicted \in SUBSET (have \cup {t}) :         \* LimitOrphanTxSize
                   have' = (have \cup {t}) \ evicted
            /\ m_index' = ForgetTxHash(
                   IF AlreadyHave(Parent[t]) THEN ReceivedResponse(t, p)
                   ELSE AddTxAnnouncement(ReceivedResponse(t, p), Parent[t], p), {t})
            /\ UNCHANGED rejects
    /\ UNCHANGED <<conn, back, send>>

\* Invalid, or here already.  One with a witness is not remembered.
TxRefused(p, t, remembered) ==
    /\ send = Idle /\ conn[p] = "up"
    /\ rejects' = IF remembered THEN rejects \cup {t} ELSE rejects
    /\ m_index' = IF remembered THEN ForgetTxHash(ReceivedResponse(t, p), {t})
                  ELSE ReceivedResponse(t, p)
    /\ UNCHANGED <<conn, have, back, send>>

\* A tip with the transactions S, which may conflict with some that were here;
\* the reject filter starts anew.
NewTip(S) ==
    /\ send = Idle
    /\ m_index' = ForgetTxHash(m_index, S)
    /\ \E gone \in SUBSET (have \cup S) : have' = (have \cup S) \ gone
    /\ rejects' = {}
    /\ UNCHANGED <<conn, back, send>>

\* Later rounds of ProcessOrphanTx, for the orphans still in the work set.
ProcessMessages(t) ==
    /\ send = Idle /\ t \in have
    /\ ProcessOrphanTx(t, have)
    /\ UNCHANGED <<m_index, conn, back, send>>

\* Into the mempool by another way: a wallet, an RPC call, a disconnected block.
Submitted(t) ==
    /\ send = Idle /\ t \notin have
    /\ have' = have \cup {t}
    /\ UNCHANGED <<m_index, conn, rejects, back, send>>

\* Evicted or expired from the mempool, the orphans or the coins cache.
Evicted(t) ==
    /\ send = Idle /\ t \in have
    /\ have' = have \ {t}
    /\ UNCHANGED <<m_index, conn, rejects, back, send>>
-----------------------------------------------------------------------------
(* The clock.                                                               *)

Later(a, d) ==
    IF ~Live(a) THEN a
    ELSE [a EXCEPT !.time = IF @ + d < -MaxBack THEN -MaxBack ELSE @ + d]
Shifted(d) == [t \in Txs |-> [p \in Peers |-> Later(m_index[t][p], d)]]

Tick ==
    /\ send = Idle
    /\ m_index' = Shifted(-1)
    /\ back' = IF back = 0 THEN 0 ELSE back - 1
    /\ UNCHANGED <<conn, have, rejects, send>>

ClockBack ==
    /\ send = Idle /\ back < MaxBack
    /\ m_index' = Shifted(1)
    /\ back' = back + 1
    /\ UNCHANGED <<conn, have, rejects, send>>
-----------------------------------------------------------------------------
(* SendMessages: GetRequestable, then a request for each answer.            *)

SendMessages(p) ==
    /\ send = Idle /\ conn[p] = "up"
    /\ send' = [op |-> "forward", peer |-> p, todo |-> {}]
    /\ UNCHANGED <<m_index, conn, have, rejects, back>>

\* The first of ByTime: the announcement that waits for the earliest time.
First(t, p) ==
    /\ IsWaiting(m_index[t][p])
    /\ \A u \in Txs, q \in Peers :
           IsWaiting(m_index[u][q]) => m_index[t][p].time <= m_index[u][q].time

\* The last of ByTime.
Last(t, p) ==
    /\ IsSelectable(m_index[t][p])
    /\ \A u \in Txs, q \in Peers :
           IsSelectable(m_index[u][q]) => m_index[t][p].time >= m_index[u][q].time

TimePassed(t, p) ==
    /\ send.op = "forward"
    /\ First(t, p) /\ m_index[t][p].time <= 0
    /\ m_index' = [m_index EXCEPT ![t] =
                      IF m_index[t][p].state = "DELAYED"
                      THEN PromoteCandidateReady(t, m_index[t], p)
                      ELSE MakeCompleted(t, m_index[t], p)]
    /\ UNCHANGED <<conn, have, rejects, back, send>>

NoMorePassed ==
    /\ send.op = "forward"
    /\ \A t \in Txs, p \in Peers : IsWaiting(m_index[t][p]) => m_index[t][p].time > 0
    /\ send' = [send EXCEPT !.op = "back"]
    /\ UNCHANGED <<m_index, conn, have, rejects, back>>

Demoted(t, p) ==
    /\ send.op = "back"
    /\ Last(t, p) /\ m_index[t][p].time > 0
    /\ m_index' = [m_index EXCEPT ![t] =
                      ChangeAndReselect(t, m_index[t], p,
                                        [state |-> "DELAYED", time |-> m_index[t][p].time])]
    /\ UNCHANGED <<conn, have, rejects, back, send>>

OfferReady ==                       \* slip: every candidate that is due is offered
    /\ send.op = "back"
    /\ \A t \in Txs, p \in Peers : IsSelectable(m_index[t][p]) => m_index[t][p].time <= 0
    /\ send' = [send EXCEPT !.op = "ask",
                            !.todo = {t \in Txs : IsSelectable(m_index[t][send.peer])}]
    /\ UNCHANGED <<m_index, conn, have, rejects, back>>
GetRequestable ==
    /\ send.op = "back"
    /\ \A t \in Txs, p \in Peers : IsSelectable(m_index[t][p]) => m_index[t][p].time <= 0
    /\ send' = [send EXCEPT !.op = "ask",
                            !.todo = {t \in Txs : m_index[t][send.peer].state = "BEST"}]
    /\ UNCHANGED <<m_index, conn, have, rejects, back>>

GetDataSkips(t) ==                  \* slip: one that came by another way is passed over
    /\ send.op = "ask" /\ t \in send.todo
    /\ m_index' = IF AlreadyHave(t) THEN m_index
                  ELSE [m_index EXCEPT ![t] = RequestedTx(m_index[t], send.peer)]
    /\ send' = [send EXCEPT !.todo = @ \ {t}]
    /\ UNCHANGED <<conn, have, rejects, back>>
GetData(t) ==
    /\ send.op = "ask" /\ t \in send.todo
    /\ m_index' = IF AlreadyHave(t) THEN ForgetTxHash(m_index, {t})
                  ELSE [m_index EXCEPT ![t] = RequestedTx(m_index[t], send.peer)]
    /\ send' = [send EXCEPT !.todo = @ \ {t}]
    /\ UNCHANGED <<conn, have, rejects, back>>

Sent ==
    /\ send.op = "ask" /\ send.todo = {}
    /\ send' = Idle
    /\ UNCHANGED <<m_index, conn, have, rejects, back>>
-----------------------------------------------------------------------------
RequestsNext ==
    \/ \E p \in Peers :
           \/ InitializeNode(p) \/ FinalizeNode(p) \/ SendMessages(p)
           \/ \E t \in Txs :
                  \/ InvMessage(p, t) \/ NotFound(p, t) \/ TxAccepted(p, t) \/ TxOrphan(p, t)
                  \/ \E remembered \in BOOLEAN : TxRefused(p, t, remembered)
                  \/ TimePassed(t, p) \/ Demoted(t, p)
    \/ \E S \in SUBSET Txs : NewTip(S)
    \/ \E t \in Txs : ProcessMessages(t) \/ Submitted(t) \/ Evicted(t) \/ GetData(t)
    \/ NoMorePassed \/ GetRequestable \/ Sent
    \/ Tick \/ ClockBack

RequestsSpec == RequestsInit /\ [][RequestsNext]_requestVars

\* The message thread visits every peer again and again, SendMessages ends
\* what it began, and time passes between two calls.
RequestsFairness ==
    /\ \A p \in Peers : SF_requestVars(SendMessages(p))
    /\ WF_requestVars(\E t \in Txs, p \in Peers : TimePassed(t, p) \/ Demoted(t, p))
    /\ WF_requestVars(NoMorePassed \/ GetRequestable \/ Sent \/ \E t \in Txs : GetData(t))
    /\ SF_requestVars(Tick)

RequestsFairSpec == RequestsSpec /\ RequestsFairness
-----------------------------------------------------------------------------
(* Properties.                                                              *)

Longest == IF GETDATA_TX_INTERVAL > NONPREF_PEER_TX_DELAY + OVERLOADED_PEER_TX_DELAY
           THEN GETDATA_TX_INTERVAL ELSE NONPREF_PEER_TX_DELAY + OVERLOADED_PEER_TX_DELAY
Times == (-MaxBack)..(Longest + MaxBack)

RequestsTypeOK ==
    /\ m_index \in [Txs -> [Peers -> [state : State, time : Times]]]
    /\ conn \in [Peers -> {"new", "up", "gone"}]
    /\ have \subseteq Txs /\ rejects \subseteq Txs
    /\ back \in 0..MaxBack
    /\ \/ send = Idle
       \/ send \in [op : {"forward", "back", "ask"}, peer : Peers, todo : SUBSET Txs]

RowSane(t, row) ==
    /\ \A p, q \in Peers : IsSelected(row[p]) /\ IsSelected(row[q]) => p = q
    /\ \A p \in Peers : row[p].state = "READY" => \E q \in Peers : IsSelected(row[q])
    /\ \A p, q \in Peers :
           row[p].state = "READY" /\ row[q].state = "BEST" => Priority(t, q) >= Priority(t, p)
    /\ \A p \in Peers : row[p].state = "COMPLETED" => \E q \in Peers : Live(row[q])

\* SanityCheck's assertions, which only tests make: a transaction has at most
\* one selected announcement; one that is ready implies one selected, and not a
\* worse one; and not all of its announcements are completed.
SanityCheck == \A t \in Txs : RowSane(t, m_index[t])

\* PostGetRequestableSanityCheck: once GetRequestable has answered, only times
\* to come are waited for and no candidate is offered early, also when the
\* clock was set back.
PostGetRequestableSanityCheck ==
    send.op = "ask" =>
        \A t \in Txs, p \in Peers :
            /\ IsWaiting(m_index[t][p]) => m_index[t][p].time > 0
            /\ IsSelectable(m_index[t][p]) => m_index[t][p].time <= 0

\* The assertions of InitializeNode and FinalizeNode: a peer that is not
\* connected has no announcement, so none is left when the last one leaves.
OnlyConnected ==
    \A t \in Txs, p \in Peers : m_index[t][p].state # "NONE" => conn[p] = "up"

\* What the tracker is told and asked leaves it tidy: times in range, nothing
\* offered early, nothing of a peer that left.
Bookkeeping == RequestsTypeOK /\ PostGetRequestableSanityCheck /\ OnlyConnected

\* Seen from outside, the five states are three, and the selection kept up to
\* date step by step is the best choice among all announcements.
Plain(a) ==
    CASE a.state = "NONE" -> [state |-> "none", time |-> a.time]
      [] a.state = "COMPLETED" -> [state |-> "completed", time |-> a.time]
      [] a.state = "REQUESTED" -> [state |-> "requested", time |-> a.time]
      [] OTHER -> [state |-> "candidate", time |-> a.time]

Announcements == [t \in Txs |-> [p \in Peers |-> Plain(m_index[t][p])]]
WaitTimes == {0, NONPREF_PEER_TX_DELAY, OVERLOADED_PEER_TX_DELAY,
              NONPREF_PEER_TX_DELAY + OVERLOADED_PEER_TX_DELAY}

Rules == INSTANCE TxRequestRules WITH
    Expiry <- GETDATA_TX_INTERVAL, Delays <- WaitTimes, Floor <- -MaxBack,
    ann <- Announcements, asking <- send.op # "idle"

ImplementsRules == Rules!Spec

\* Every announced transaction is eventually forgotten: received, or asked of
\* each peer that announced it until all of them failed or left; provided the
\* clock is not set back again and again.
EverythingForgotten ==
    <>[](back = 0) => \A t \in Txs : (m_index[t] # NoRow) ~> (m_index[t] = NoRow)
=============================================================================
