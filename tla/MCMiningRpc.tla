---------------------------- MODULE MCMiningRpc ----------------------------
(* Small instances of MiningRpc.                                            *)
EXTENDS MiningRpc
CONSTANTS s1, s2, a1, x1, g1, l1, net

MCInterfaces == {s1, s2, a1, "peerLogic"}
MCSettings == {OneThread}

Scene(procs, bad, ends) == [procs |-> procs, bad |-> bad, stop |-> ends]

\* Two submitters; a submitter and the message thread, and either block
\* invalid; merged mining with templates; a longpoll while blocks arrive; and the
\* node stopped: with a longpoll, with a submitter beside a template or a longpoll,
\* and with the message thread.
Together ==
    {Scene({s1, s2}, {2}, FALSE), Scene({s1, net}, {1}, FALSE), Scene({s1, net}, {2}, FALSE),
     Scene({a1, x1, g1, l1}, {2}, FALSE), Scene({net, l1}, {2}, FALSE),
     Scene({x1, g1, l1}, {}, TRUE), Scene({s1, g1}, {}, TRUE), Scene({s1, l1}, {}, TRUE),
     Scene({net}, {1}, TRUE)}
=============================================================================
