-------------------------- MODULE MCSchedulerLease --------------------------
(* Model-checking instance of SchedulerLease. *)
EXTENDS SchedulerLease, TLC

WorkerSymmetry == Permutations(Worker)
=============================================================================
