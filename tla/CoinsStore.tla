----------------------------- MODULE CoinsStore -----------------------------
(***************************************************************************)
(* What the stack of coins views promises (coins.h): one map from           *)
(* transactions to their unspent outputs with the block it belongs to.  A   *)
(* block is applied to a scratch copy that is kept as a whole or dropped as *)
(* a whole, and what was saved last survives the process.                   *)
(***************************************************************************)
CONSTANTS Txids, Unspent, Pruned, Blocks, NoHash

VARIABLES
    saved, current,     \* the map on disk, the map of the active chain
    scratch, open       \* the copy a block is applied to, while there is one

vars == <<saved, current, scratch, open>>

Empty == [coins |-> [t \in Txids |-> Pruned], best |-> NoHash]

Init == saved = Empty /\ current = Empty /\ scratch = Empty /\ open = FALSE

Begin ==
    /\ ~open /\ open' = TRUE
    /\ scratch' = current
    /\ UNCHANGED <<saved, current>>

\* Outputs of one transaction are created, spent or restored.
Write(t, v) ==
    /\ open
    /\ scratch' = [scratch EXCEPT !.coins[t] = v]
    /\ UNCHANGED <<saved, current, open>>

Commit(b) ==
    /\ open /\ open' = FALSE
    /\ current' = [coins |-> scratch.coins, best |-> b]
    /\ scratch' = Empty
    /\ UNCHANGED saved

Drop ==
    /\ open /\ open' = FALSE
    /\ scratch' = Empty
    /\ UNCHANGED <<saved, current>>

Save ==
    /\ ~open
    /\ saved' = current
    /\ UNCHANGED <<current, scratch, open>>

Restart ==
    /\ open' = FALSE
    /\ current' = saved /\ scratch' = Empty
    /\ UNCHANGED saved

Next ==
    \/ Begin \/ Drop \/ Save \/ Restart
    \/ \E t \in Txids, v \in Unspent \cup {Pruned} : Write(t, v)
    \/ \E b \in Blocks : Commit(b)

Spec == Init /\ [][Next]_vars
=============================================================================
