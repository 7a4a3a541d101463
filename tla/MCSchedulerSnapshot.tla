------------------------ MODULE MCSchedulerSnapshot ------------------------
(* Pollers are alike; symmetry is used by the run without fairness only. *)
EXTENDS SchedulerSnapshot, TLC
Symmetry == Permutations(Pollers)
=============================================================================
