----------------------------- MODULE BatchLease -----------------------------
(***************************************************************************)
(* What the batch lock promises: at any time at most one workflow instance *)
(* has a live claim to run the batch, and a claim passes from one instance *)
(* to another only after it has ended or gone stale.                       *)
(***************************************************************************)
CONSTANT Instances

VARIABLE claims         \* the instances with a live claim

Init == claims = {}

Grant(i) ==
    /\ claims = {}
    /\ claims' = {i}

\* Given back, abandoned or expired.
Lapse ==
    /\ claims # {}
    /\ claims' = {}

Next == Lapse \/ \E i \in Instances : Grant(i)

Spec == Init /\ [][Next]_claims
=============================================================================
