------------------------------ MODULE MCSched ------------------------------
(***************************************************************************)
(* Instances of Sched for TLC.  Task 1 is the core task, task 2 the shell; *)
(* the rest are created by fork and spawn.                                 *)
(***************************************************************************)
EXTENDS Sched
=============================================================================
