---------------------------- MODULE CheckVerdict ----------------------------
(***************************************************************************)
(* What a CCheckQueueControl promises its caller, without threads: a        *)
(* session collects checks, and its Wait() returns whether all of them, and *)
(* nothing else, succeed.                                                   *)
(***************************************************************************)
CONSTANTS Masters, NoMaster, Checks, Valid

VARIABLES owner, phase, added, ret

vars == <<owner, phase, added, ret>>

Init == owner = NoMaster /\ phase = "closed" /\ added = {} /\ ret = TRUE

Open(m) ==
    /\ phase = "closed"
    /\ owner' = m /\ phase' = "open" /\ added' = {}
    /\ UNCHANGED ret

Collect(S) ==
    /\ phase = "open"
    /\ added' = added \cup S
    /\ UNCHANGED <<owner, phase, ret>>

Ask == phase = "open" /\ phase' = "waiting" /\ UNCHANGED <<owner, added, ret>>

Answer ==
    /\ phase = "waiting" /\ phase' = "done"
    /\ ret' = (added \subseteq Valid)
    /\ UNCHANGED <<owner, added>>

Close ==
    /\ phase = "done" /\ phase' = "closed"
    /\ owner' = NoMaster
    /\ UNCHANGED <<added, ret>>

Next ==
    \/ \E m \in Masters : Open(m)
    \/ \E S \in SUBSET Checks : Collect(S)
    \/ Ask \/ Answer \/ Close

Safety == Init /\ [][Next]_vars
Spec == Safety /\ WF_vars(Ask) /\ WF_vars(Answer)
=============================================================================
