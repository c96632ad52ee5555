-------------------------- MODULE MCBatchWorkflow --------------------------
(* Instances of BatchWorkflow for TLC. *)
EXTENDS BatchWorkflow, TLC

\* Instances are interchangeable (invariants only).
InstanceSymmetry == Permutations(Instances)
=============================================================================
