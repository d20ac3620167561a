-------------------------- MODULE MCBatchScheduler --------------------------
(* Instances of BatchScheduler for TLC. *)
EXTENDS BatchScheduler

CONSTANTS j1, j2
=============================================================================
