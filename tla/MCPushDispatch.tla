--------------------------- MODULE MCPushDispatch ---------------------------
(* Instances of PushDispatch for TLC. *)
EXTENDS PushDispatch, TLC

\* Dispatchers are interchangeable (invariants only: symmetry is not sound
\* for liveness).
DispatcherSymmetry == Permutations(Dispatchers)
=============================================================================
