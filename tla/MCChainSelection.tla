-------------------------- MODULE MCChainSelection --------------------------
(* A small block tree for ChainSelection, and what a node meets on it. *)
EXTENDS ChainSelection, TLC

CONSTANTS g, a1, a2, b1, b2, b3, t1, t2

\* Two blocks against a branch of three of the same weight together.
Tree == {g, a1, a2, b1, b2, b3}
Line == Tree \ {a2}
TreeParent == (a1 :> g) @@ (a2 :> a1) @@ (b1 :> g) @@ (b2 :> b1) @@ (b3 :> b2)
TreeProof  == [x \in Tree |-> IF x = a2 THEN 2 ELSE 1]
TreeAddr   == (g :> 0) @@ (a1 :> 1) @@ (a2 :> 5) @@ (b1 :> 2) @@ (b2 :> 3) @@ (b3 :> 4)

\* Blocks of a tree arrive at a node with one thread.
Node(blocks, bad, ops) ==
  [blocks |-> blocks, bad |-> bad, malformed |-> {}, threads |-> {t1},
   horizon |-> 0, keep |-> 2, ops |-> ops]

Choosing   == Node(Line, {b2}, {"invalidate", "precious"})
Preferring == [Node(Line, {b2}, {"precious"}) EXCEPT !.threads = {t1, t2}]
\* A thread that waits for cs_main is overtaken by one with a better block.
Overtaking == [Node(Tree, {}, {}) EXCEPT !.threads = {t1, t2}, !.malformed = {a2}]
Dying      == Node(Line, {b3}, {"crash"})
Reconsider == Node(Line, {b3}, {"invalidate", "reconsider"})

\* Settings in which the exceptions of the properties are met: a chain is
\* invalidated while a second thread is on its way to it, and while the coins of
\* its tip are on disk; a pruned block arrives again
\* below blocks that wait for it twice, or as the tip.
Racing   == [Node({g, a1, b1, b2}, {}, {"invalidate"}) EXCEPT !.threads = {t1, t2}]
Torn     == Node({g, a1, b1}, {}, {"invalidate", "crash"})
Refetch  == [Node(Tree \ {b3}, {}, {"prune", "precious"}) EXCEPT !.keep = 1, !.horizon = 1]
Falling  == [Node({g, a1, a2, b1}, {}, {"prune", "invalidate"}) EXCEPT !.keep = 1]

All == {Choosing, Preferring, Overtaking, Dying, Reconsider,
        Racing, Torn, Refetch, Falling}
=============================================================================
