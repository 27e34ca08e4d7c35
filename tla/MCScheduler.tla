---------------------------- MODULE MCScheduler ----------------------------
(* Constants are given in the configurations.                                *)
EXTENDS Scheduler
=============================================================================
