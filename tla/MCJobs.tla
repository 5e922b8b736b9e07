------------------------------- MODULE MCJobs -------------------------------
(* Instances of Jobs for TLC. *)
EXTENDS Jobs, TLC

JobsAndWorkersSymmetry == Permutations(Jobs) \cup Permutations(Workers)

=============================================================================
