-------------------------- MODULE MCScheduleSync --------------------------
(* ScheduleSync on a small instance; its workers are interchangeable.      *)
EXTENDS ScheduleSync, TLC

Symmetry == Permutations(Worker)
===========================================================================
