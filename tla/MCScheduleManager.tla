-------------------------- MODULE MCScheduleManager --------------------------
(* Instances of ScheduleManager for TLC.                                    *)
EXTENDS ScheduleManager, TLC

Symmetry ==
    Permutations(Callers) \cup Permutations(Nodes) \cup Permutations(Schedules)
============================================================================
