---------------------------- MODULE MCScheduler ----------------------------
(* Instances of Scheduler for TLC.                                          *)
EXTENDS Scheduler, TLC

(* Processes and calls are interchangeable; jobs differ by configuration.   *)
Symmetry == Permutations(Proc) \cup Permutations(Exec)

=============================================================================
