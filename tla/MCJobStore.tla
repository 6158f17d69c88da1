----------------------------- MODULE MCJobStore ------------------------------
(* The job store with open callers on three jobs, two pids and one session. *)
EXTENDS JobStore, TLC

Symmetric == Permutations(Job) \cup Permutations(Pid)
==============================================================================
