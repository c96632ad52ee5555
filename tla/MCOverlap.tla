------------------------------ MODULE MCOverlap ------------------------------
(***************************************************************************)
(* Workers that overlap and die, for TLC: the workflow instances of        *)
(* BatchWorkflow, which this module extends, which contend for the lock    *)
(* row, and the dispatches of PushDispatch, which contend for a request.   *)
(* They share no state, so every behaviour is one of a single component,   *)
(* chosen at the start, while the other rests in its initial state.        *)
(***************************************************************************)
EXTENDS BatchWorkflow

CONSTANTS s1, r1, d1, d2

VARIABLES component, now, subscriptions, rows, run, registered, accepted,
          acceptedGens, disturbed

pushVars == <<now, subscriptions, rows, run, registered, accepted, acceptedGens,
              disturbed>>
mcVars == <<component, vars, pushVars>>

\* One request, registered up to three times, and two dispatches that may die at
\* any await.
Push == INSTANCE PushDispatch WITH
    Subscriptions <- {s1}, Races <- {r1}, Dispatchers <- {d1, d2},
    FireTimes <- {0, 1}, Limit <- 1, ChunkSize <- 1, MaxFailures <- 2,
    Retention <- 1, FailureCap <- 3, MaxNow <- 2, MaxRegistrations <- 3,
    Crashes <- TRUE, Absent <- Nobody

Runs(c) == component = c

MCInit == component \in {"batch", "dispatch"} /\ Init /\ Push!Init

MCNext ==
    \/ Runs("batch") /\ Next /\ UNCHANGED <<component, pushVars>>
    \/ Runs("dispatch") /\ Push!Next /\ UNCHANGED <<component, vars>>

MCSpec == MCInit /\ [][MCNext]_mcVars

-----------------------------------------------------------------------------
\* However dispatches overlap, and at whatever await one of them dies, they keep
\* to their types, no push goes out that no registration asked for, and no row
\* stays marked sent unsent but for the three accidents SettledMeansSent names.
DeathsCostNoPush == Push!TypeOK /\ Push!ClaimBudget /\ Push!SettledMeansSent
=============================================================================
