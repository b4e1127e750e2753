----------------------------- MODULE MCScheduler -----------------------------
(* Small instances of Scheduler.                                            *)
EXTENDS Scheduler
CONSTANTS s1, s2, c1, c2, c3, dump, once, twice

\* The node: one thread and a periodic task until it is interrupted.  A pool of
\* two threads with single tasks, stopped or drained.
NodeAndPool ==
    {[threads |-> {s1}, tasks |-> {dump}, ops |-> {"interrupt"}],
     [threads |-> {s1, s2}, tasks |-> {once, twice}, ops |-> {"drain", "stop"}]}
=============================================================================
