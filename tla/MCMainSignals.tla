---------------------------- MODULE MCMainSignals ----------------------------
(* A small instance of MainSignals.                                         *)
EXTENDS MainSignals, TLC
CONSTANTS i1, i2, i3, w1, w2
Symmetric == Permutations(Interfaces) \cup Permutations(Walks)
=============================================================================
