----------------------------- MODULE MCTxRequest -----------------------------
(***************************************************************************)
(* A small instance of TxRequest.                                           *)
(***************************************************************************)
EXTENDS TxRequest

CONSTANTS t1, t2, p1, p2

\* Each peer is the better one for one of the transactions.
HashTwo == [t \in Txs |-> [p \in Peers |-> IF (t = t1) = (p = p1) THEN 0 ELSE 1]]
SecondHasParent == [t \in Txs |-> IF t = t2 THEN t1 ELSE NoTx]
=============================================================================
