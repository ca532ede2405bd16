---------------------------- MODULE SingleRunner ----------------------------
(***************************************************************************)
(* What the periodic scheduler promises: "single-owner execution for       *)
(* periodic backend jobs" (background_jobs.py, module docstring).  A cycle  *)
(* begins only when no cycle is running, and ends before the next begins.  *)
(* SchedulerLease implements this with a row of the shared database.       *)
(***************************************************************************)
CONSTANTS Worker, Nobody   \* Nobody is not a worker

VARIABLE runner   \* the worker whose cycle is running, or Nobody

Init == runner = Nobody

Begin(w) == runner = Nobody /\ runner' = w

\* The cycle finished, or its process died.
End == runner # Nobody /\ runner' = Nobody

Next == End \/ \E w \in Worker : Begin(w)

Spec == Init /\ [][Next]_runner
=============================================================================
