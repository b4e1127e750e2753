---------------------------- MODULE MCCheckQueue ----------------------------
(***************************************************************************)
(* Two workers and one master, which is the import thread so that it can be *)
(* interrupted; four checks, one of which fails: enough for a batch of two. *)
(***************************************************************************)
EXTENDS CheckQueue
=============================================================================
