------------------------------- MODULE MCJobs -------------------------------
(* Constants of the runs of Jobs. *)
EXTENDS Jobs, TLC

CONSTANTS w1, w2

Either == {TRUE, FALSE}
Each == {TRUE}
AnyWorker == Permutations(Worker)
=============================================================================
