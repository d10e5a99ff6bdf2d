----------------------------- MODULE MCScheduler -----------------------------
(* Two schedules; ids and pools are interchangeable.                         *)
EXTENDS Scheduler, TLC

CONSTANTS j1, j2, hourly, daily, broken, here, there

Symmetry == Permutations({j1, j2}) \cup Permutations({hourly, daily}) \cup Permutations({here, there})
=============================================================================
