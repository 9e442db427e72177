---------------------------- MODULE MCScheduler ----------------------------
(* Small instances of Scheduler. *)
EXTENDS Scheduler

CONSTANTS s1, g1, a1, a2
=============================================================================
