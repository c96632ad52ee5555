------------------------- MODULE PushDispatchProofs -------------------------
(* Proofs about PushDispatch, for every value of its constants. *)
EXTENDS PushDispatch, FiniteSetTheorems, TLAPS

LEMMA RequestsFinite == IsFiniteSet(Requests)
  BY ConstantsAssumption, FS_Product DEF Requests

LEMMA IdleTyped == Idle \in Run
  BY DEF Idle, Run, Outcomes, Writes

\* A batch taken from a smaller one is still within the limit.
LEMMA SubBatch ==
  ASSUME NEW B \in SUBSET Requests, Cardinality(B) <= Limit,
         NEW C \in SUBSET B
  PROVE  IsFiniteSet(C) /\ Cardinality(C) <= Limit
<1>1. IsFiniteSet(B)
  BY RequestsFinite, FS_Subset
<1>2. /\ IsFiniteSet(C) /\ Cardinality(C) <= Cardinality(B)
      /\ Cardinality(C) \in Nat /\ Cardinality(B) \in Nat
  BY <1>1, FS_Subset, FS_CardinalityType
<1>. QED  BY <1>2, ConstantsAssumption

\* The part of TypeOK that speaks of the dispatches' local states.
RunOK ==
    /\ run \in [Dispatchers -> Run]
    /\ \A d \in Dispatchers : IsFiniteSet(run[d].batch)
                              /\ Cardinality(run[d].batch) <= Limit
    /\ \A d \in Dispatchers : \A r \in run[d].batch : run[d].outcome[r] = "none"

TablesOK ==
    /\ now \in Nat
    /\ subscriptions \in [Subscriptions -> (0..FailureCap) \cup {Absent}]
    /\ rows \in [Requests -> Row \cup {Absent}]
    /\ registered \in [Requests -> Nat]
    /\ accepted \in [Requests -> Nat]
    /\ acceptedGens \in [Requests -> SUBSET Nat]
    /\ disturbed \subseteq Requests

LEMMA TypeSplit == TypeOK <=> RunOK /\ TablesOK
  BY DEF TypeOK, RunOK, TablesOK

\* One dispatch moving to a well-formed local state keeps RunOK.
LEMMA RunStep ==
  ASSUME RunOK, NEW d \in Dispatchers, NEW x \in Run,
         IsFiniteSet(x.batch), Cardinality(x.batch) <= Limit,
         \A r \in x.batch : x.outcome[r] = "none",
         run' = [run EXCEPT ![d] = x]
  PROVE  RunOK'
BY DEF RunOK

LEMMA IdleRun ==
  ASSUME RunOK, NEW d \in Dispatchers, run' = [run EXCEPT ![d] = Idle]
  PROVE  RunOK'
<1>1. /\ Idle \in Run /\ IsFiniteSet(Idle.batch) /\ Cardinality(Idle.batch) <= Limit
      /\ \A r \in Idle.batch : Idle.outcome[r] = "none"
  BY IdleTyped, FS_EmptySet, ConstantsAssumption DEF Idle
<1>. QED  BY <1>1, RunStep

LEMMA InitTyped == Init => TypeOK
<1>. SUFFICES ASSUME Init PROVE TypeOK
  OBVIOUS
<1>1. RunOK
  <2>1. /\ Idle \in Run /\ IsFiniteSet(Idle.batch) /\ Cardinality(Idle.batch) <= Limit
        /\ \A r \in Idle.batch : Idle.outcome[r] = "none"
    BY IdleTyped, FS_EmptySet, ConstantsAssumption DEF Idle
  <2>. QED  BY <2>1 DEF Init, RunOK
<1>2. TablesOK
  BY DEF Init, TablesOK
<1>. QED  BY <1>1, <1>2, TypeSplit

\* The shared tables keep their types.
LEMMA TablesStep ==
  ASSUME TypeOK, [Next]_vars
  PROVE  TablesOK'
<1>. USE DEF TypeOK, TablesOK, history
<1>. USE ConstantsAssumption
<1>1. CASE User
  <2>1. ASSUME NEW s \in Subscriptions, UpsertSubscription(s)
        PROVE  TablesOK'
    BY <2>1 DEF UpsertSubscription
  <2>2. ASSUME NEW s \in Subscriptions, RemoveSubscription(s)
        PROVE  TablesOK'
    BY <2>2 DEF RemoveSubscription, RemoveWithDependentRequests
  <2>3. ASSUME NEW r \in Requests, NEW t \in FireTimes, UpsertRequest(r, t)
        PROVE  TablesOK'
    <3>1. [fireAt |-> t, sent |-> FALSE] \in Row
      BY DEF Row
    <3>. QED  BY <2>3, <3>1 DEF UpsertRequest
  <2>4. ASSUME NEW r \in Requests, RemoveRequest(r)
        PROVE  TablesOK'
    BY <2>4 DEF RemoveRequest
  <2>. QED  BY <1>1, <2>1, <2>2, <2>3, <2>4 DEF User
<1>2. CASE Tick
  BY <1>2 DEF Tick
<1>3. ASSUME NEW d \in Dispatchers, SelectDueCandidateIds(d)
      PROVE  TablesOK'
  BY <1>3 DEF SelectDueCandidateIds
<1>4. ASSUME NEW d \in Dispatchers, Continue(d)
      PROVE  TablesOK'
  <2>1. CASE ClaimDueIds(d)
    BY <2>1 DEF ClaimDueIds, SetSent, Row
  <2>2. CASE FetchClaimedRecords(d)
    BY <2>2 DEF FetchClaimedRecords, Run
  <2>3. CASE BeginChunk(d) \/ GatherOutcomes(d) \/ EndChunk(d)
    BY <2>3 DEF BeginChunk, GatherOutcomes, EndChunk
  <2>4. ASSUME NEW r \in Requests, NEW o \in Outcomes, SendOne(d, r, o)
        PROVE  TablesOK'
    <3>1. run[d].payload[r] \in Nat
      BY DEF Run
    <3>2. CASE o = "sent"
      BY <2>4, <3>1, <3>2 DEF SendOne
    <3>3. CASE o # "sent"
      BY <2>4, <3>3 DEF SendOne
    <3>. QED  BY <3>2, <3>3
  <2>5. CASE MarkSentBatch(d)
    BY <2>5 DEF MarkSentBatch, SetSent, Row
  <2>6. CASE ResetFailureCountBatch(d)
    BY <2>6 DEF ResetFailureCountBatch
  <2>7. CASE ApplyGoneOutcomes(d)
    BY <2>7 DEF ApplyGoneOutcomes, RemoveWithDependentRequests
  <2>8. CASE IncrementFailureCountBatch(d)
    BY <2>8 DEF IncrementFailureCountBatch, Incremented, Subscribed
  <2>9. CASE RemoveExceeded(d)
    BY <2>9 DEF RemoveExceeded, RemoveWithDependentRequests
  <2>10. CASE ReleaseClaimBatch(d)
    BY <2>10 DEF ReleaseClaimBatch, SetSent, Row
  <2>11. CASE PurgeOld(d)
    BY <2>11 DEF PurgeOld
  <2>. QED
    BY <1>4, <2>1, <2>2, <2>3, <2>4, <2>5, <2>6, <2>7, <2>8, <2>9, <2>10, <2>11
       DEF Continue
<1>5. ASSUME NEW d \in Dispatchers, Crash(d)
      PROVE  TablesOK'
  BY <1>5 DEF Crash
<1>6. CASE UNCHANGED vars
  BY <1>6 DEF vars
<1>. QED  BY <1>1, <1>2, <1>3, <1>4, <1>5, <1>6 DEF Next

\* A step of a dispatch keeps its local state well formed.
LEMMA ContinueTyped ==
  ASSUME TypeOK, NEW d \in Dispatchers, Continue(d)
  PROVE  RunOK'
<1>. DEFINE x == run'[d]
<1>0. /\ RunOK /\ run \in [Dispatchers -> Run] /\ run[d] \in Run
      /\ IsFiniteSet(run[d].batch) /\ Cardinality(run[d].batch) <= Limit
      /\ \A r \in run[d].batch : run[d].outcome[r] = "none"
  BY TypeSplit DEF RunOK
<1>1. ASSUME NEW y \in Run, run' = [run EXCEPT ![d] = y],
             y.batch \in SUBSET run[d].batch,
             \A r \in y.batch : y.outcome[r] = "none"
      PROVE  RunOK'
  <2>1. run[d].batch \in SUBSET Requests
    BY <1>0 DEF Run
  <2>2. IsFiniteSet(y.batch) /\ Cardinality(y.batch) <= Limit
    BY <1>0, <1>1, <2>1, SubBatch
  <2>. QED  BY <1>0, <1>1, <2>2, RunStep
<1>2. CASE ClaimDueIds(d)
  <2>. DEFINE claimed == {r \in run[d].batch : Claimable(r)}
              y == [run[d] EXCEPT !.pc = "fetch", !.batch = claimed]
  <2>1. y \in Run
    BY <1>0 DEF Run
  <2>2. /\ run' = [run EXCEPT ![d] = y] /\ y.batch \in SUBSET run[d].batch
        /\ y.outcome = run[d].outcome
    BY <1>0, <1>2 DEF ClaimDueIds, Run
  <2>. QED  BY <1>0, <1>1, <2>1, <2>2
<1>3. CASE FetchClaimedRecords(d)
  <2>. DEFINE found == {r \in run[d].batch : rows[r] # Absent
                                             /\ Subscribed(SubscriptionOf(r))}
              pay == [r \in Requests |-> IF r \in found THEN registered[r] ELSE 0]
              y == [run[d] EXCEPT !.pc = "send", !.batch = found, !.payload = pay]
  <2>1. pay \in [Requests -> Nat]
    BY DEF TypeOK
  <2>2. y \in Run
    BY <1>0, <2>1 DEF Run
  <2>3. /\ run' = [run EXCEPT ![d] = y] /\ y.batch \in SUBSET run[d].batch
        /\ y.outcome = run[d].outcome
    BY <1>0, <1>3 DEF FetchClaimedRecords, Run
  <2>. QED  BY <1>0, <1>1, <2>2, <2>3
<1>4. CASE BeginChunk(d)
  <2>1. PICK chunk \in SUBSET run[d].batch :
          run' = [run EXCEPT ![d].pc = "sending", ![d].batch = RestOf(@, chunk),
                        ![d].outcome = [r \in Requests |->
                            IF r \in chunk THEN "sending" ELSE "none"]]
    BY <1>4 DEF BeginChunk
  <2>. DEFINE out == [r \in Requests |-> IF r \in chunk THEN "sending" ELSE "none"]
              y == [run[d] EXCEPT !.pc = "sending",
                       !.batch = run[d].batch \ chunk, !.outcome = out]
  <2>2. out \in [Requests -> Outcomes]
    BY DEF Outcomes
  <2>3. y \in Run
    BY <1>0, <2>2 DEF Run
  <2>4. /\ run' = [run EXCEPT ![d] = y] /\ y.batch = run[d].batch \ chunk
        /\ y.outcome = out
    BY <1>0, <2>1 DEF RestOf, Run
  <2>5. run[d].batch \in SUBSET Requests
    BY <1>0 DEF Run
  <2>. QED  BY <1>1, <2>3, <2>4, <2>5
<1>5. ASSUME NEW r \in Requests, NEW o \in Outcomes, SendOne(d, r, o)
      PROVE  RunOK'
  <2>. DEFINE out == [run[d].outcome EXCEPT ![r] = o]
              pay == [run[d].payload EXCEPT ![r] = 0]
              y == [run[d] EXCEPT !.outcome = out, !.payload = pay]
  <2>1. out \in [Requests -> Outcomes] /\ pay \in [Requests -> Nat]
    BY <1>0 DEF Run
  <2>2. y \in Run
    BY <1>0, <2>1 DEF Run
  <2>3. run' = [run EXCEPT ![d] = y] /\ y.batch = run[d].batch /\ y.outcome = out
    BY <1>0, <1>5 DEF SendOne, Run
  <2>4. run[d].outcome[r] = "sending" /\ r \notin run[d].batch
    BY <1>0, <1>5 DEF SendOne
  <2>5. run[d].outcome \in [Requests -> Outcomes] /\ run[d].batch \subseteq Requests
    BY <1>0 DEF Run
  <2>6. \A q \in y.batch : y.outcome[q] = "none"
    BY <1>0, <2>3, <2>4, <2>5
  <2>. QED  BY <1>1, <2>2, <2>3, <2>6
<1>6. CASE GatherOutcomes(d)
  <2>. DEFINE w == (IF With(d, "sent") = {} THEN {}
                      ELSE {"markSent", "resetFailures"})
                     \cup (IF With(d, "gone") = {} THEN {} ELSE {"removeGone"})
                     \cup (IF With(d, "failed") = {} THEN {}
                           ELSE {"incrementFailures"})
              y == [run[d] EXCEPT !.pc = "apply", !.writes = w]
  <2>1. w \in SUBSET Writes
    BY DEF Writes
  <2>2. y \in Run
    BY <1>0, <2>1 DEF Run
  <2>3. /\ run' = [run EXCEPT ![d] = y] /\ y.batch = run[d].batch
        /\ y.outcome = run[d].outcome
    BY <1>0, <1>6 DEF GatherOutcomes, Run
  <2>. QED  BY <1>0, <1>1, <2>2, <2>3
<1>7. ASSUME NEW w \in Writes, run' = [run EXCEPT ![d].writes = @ \ {w}]
      PROVE  RunOK'
  <2>. DEFINE y == [run[d] EXCEPT !.writes = run[d].writes \ {w}]
  <2>1. y \in Run
    BY <1>0 DEF Run
  <2>2. /\ run' = [run EXCEPT ![d] = y] /\ y.batch = run[d].batch
        /\ y.outcome = run[d].outcome
    BY <1>0, <1>7 DEF Run
  <2>. QED  BY <1>0, <1>1, <2>1, <2>2
<1>8. CASE MarkSentBatch(d) \/ ResetFailureCountBatch(d) \/ ApplyGoneOutcomes(d)
           \/ RemoveExceeded(d)
  <2>1. \E w \in Writes : run' = [run EXCEPT ![d].writes = @ \ {w}]
    BY <1>8 DEF MarkSentBatch, ResetFailureCountBatch, ApplyGoneOutcomes,
       RemoveExceeded, Done, Writes
  <2>. QED  BY <1>7, <2>1
<1>9. CASE IncrementFailureCountBatch(d)
  <2>1. PICK e \in SUBSET Subscriptions, w \in SUBSET Writes :
          run' = [run EXCEPT ![d].exceeded = e, ![d].writes = w]
    <3>. DEFINE failed == With(d, "failed")
                hit == {s \in SubscriptionsOf(failed) : Subscribed(s)}
                e == {s \in hit : HasExceededFailureLimit(Incremented(s))}
                retry == {r \in failed : SubscriptionOf(r) \notin e}
                w == (run[d].writes \ {"incrementFailures"})
                      \cup (IF e = {} THEN {} ELSE {"removeExceeded"})
                      \cup (IF retry = {} THEN {} ELSE {"releaseClaims"})
    <3>1. e \in SUBSET Subscriptions
      BY DEF With, SubscriptionsOf, SubscriptionOf, Requests
    <3>2. run[d].writes \in SUBSET Writes
      BY <1>0 DEF Run
    <3>3. w \in SUBSET Writes
      BY <3>2 DEF Writes
    <3>4. run' = [run EXCEPT ![d].exceeded = e, ![d].writes = w]
      BY <1>9, <1>0 DEF IncrementFailureCountBatch
    <3>. HIDE DEF e, w
    <3>. QED  BY <3>1, <3>3, <3>4
  <2>. DEFINE y == [run[d] EXCEPT !.exceeded = e, !.writes = w]
  <2>2. y \in Run
    BY <1>0 DEF Run
  <2>3. /\ run' = [run EXCEPT ![d] = y] /\ y.batch = run[d].batch
        /\ y.outcome = run[d].outcome
    BY <1>0, <2>1 DEF Run
  <2>. QED  BY <1>0, <1>1, <2>2, <2>3
<1>10. CASE ReleaseClaimBatch(d)
  <2>. DEFINE out == [r \in Requests |->
                        IF r \in Retry(d) THEN "none" ELSE run[d].outcome[r]]
              y == [run[d] EXCEPT !.writes = run[d].writes \ {"releaseClaims"},
                                  !.outcome = out]
  <2>1. run[d].outcome \in [Requests -> Outcomes] /\ run[d].batch \subseteq Requests
    BY <1>0 DEF Run
  <2>2. out \in [Requests -> Outcomes]
    BY <2>1 DEF Outcomes
  <2>3. y \in Run
    BY <1>0, <2>2 DEF Run
  <2>4. run' = [run EXCEPT ![d] = y] /\ y.batch = run[d].batch /\ y.outcome = out
    BY <1>0, <1>10 DEF ReleaseClaimBatch, Run
  <2>. QED  BY <1>0, <1>1, <2>1, <2>3, <2>4
<1>11. CASE EndChunk(d)
  <2>. DEFINE out == [r \in Requests |-> "none"]
              y == [run[d] EXCEPT !.pc = "send", !.exceeded = {}, !.outcome = out]
  <2>1. Idle.outcome = out /\ out \in [Requests -> Outcomes]
    BY DEF Idle, Outcomes
  <2>2. y \in Run
    BY <1>0, <2>1 DEF Run
  <2>3. run' = [run EXCEPT ![d] = y] /\ y.batch = run[d].batch /\ y.outcome = out
    BY <1>0, <1>11, <2>1 DEF EndChunk, Run
  <2>4. run[d].batch \subseteq Requests
    BY <1>0 DEF Run
  <2>. QED  BY <1>1, <2>2, <2>3, <2>4
<1>12. CASE PurgeOld(d)
  BY <1>0, <1>12, IdleRun DEF PurgeOld
<1>. QED
  BY <1>2, <1>3, <1>4, <1>5, <1>6, <1>8, <1>9, <1>10, <1>11, <1>12 DEF Continue

\* The module's types are an invariant: TypeOK holds of every reachable state,
\* with it the LIMIT on a dispatch and the disjointness of its chunks.
THEOREM TypeCorrect == Spec => []TypeOK
<1>1. TypeOK /\ [Next]_vars => TypeOK'
  <2>. SUFFICES ASSUME TypeOK, [Next]_vars PROVE TypeOK'
    OBVIOUS
  <2>. USE DEF history
  <2>0. RunOK' => TypeOK'
    BY TablesStep DEF RunOK, TablesOK, TypeOK
  <2>2. RunOK
    BY TypeSplit
  <2>3. CASE User \/ Tick \/ UNCHANGED vars
    <3>1. run' = run
      BY <2>3 DEF User, UpsertSubscription, RemoveSubscription, UpsertRequest,
         RemoveRequest, Tick, vars
    <3>. QED  BY <2>0, <2>2, <3>1 DEF RunOK
  <2>4. ASSUME NEW d \in Dispatchers, SelectDueCandidateIds(d)
        PROVE  RunOK'
    <3>1. PICK ids \in DueCandidates(now) :
            run' = [run EXCEPT ![d] = [Idle EXCEPT !.pc = "claim", !.clock = now,
                                                   !.batch = ids]]
      BY <2>4 DEF SelectDueCandidateIds
    <3>. DEFINE y == [Idle EXCEPT !.pc = "claim", !.clock = now, !.batch = ids]
    <3>2. ids \in SUBSET Requests
      BY DEF DueCandidates, DueAt
    <3>3. Cardinality(ids) <= Limit /\ IsFiniteSet(ids)
      BY <3>2, RequestsFinite, FS_Subset, FS_CardinalityType, ConstantsAssumption
         DEF DueCandidates
    <3>4. y \in Run
      BY <3>2, IdleTyped DEF Run, TypeOK
    <3>5. y.batch = ids /\ \A r \in ids : y.outcome[r] = "none"
      BY <3>2 DEF Idle
    <3>. QED  BY <2>2, <3>1, <3>3, <3>4, <3>5, RunStep
  <2>5. ASSUME NEW d \in Dispatchers, Continue(d)
        PROVE  RunOK'
    BY <2>5, ContinueTyped
  <2>6. ASSUME NEW d \in Dispatchers, Crash(d)
        PROVE  RunOK'
    BY <2>2, <2>6, IdleRun DEF Crash
  <2>7. CASE \E d \in Dispatchers : SelectDueCandidateIds(d) \/ Continue(d) \/ Crash(d)
    BY <2>0, <2>4, <2>5, <2>6, <2>7
  <2>. QED  BY <2>3, <2>7 DEF Next
<1>. QED  BY InitTyped, <1>1, PTL DEF Spec

-----------------------------------------------------------------------------
(* The budget of claims.  It is inductive together with the fact that a     *)
(* dispatch has outcomes only while it works on a chunk.                    *)

OutcomesFresh ==
    \A d \in Dispatchers : run[d].pc \in {"idle", "claim", "fetch", "send"} =>
        \A r \in Requests : run[d].outcome[r] = "none"

BudgetInv == TypeOK /\ OutcomesFresh /\ ClaimBudget

Budget(r) ==
    accepted[r] + Cardinality(Owners(r)) + (IF Unsent(r) THEN 1 ELSE 0)
        <= registered[r]

\* Cardinalities of the sets of owners of a request.
LEMMA FewerOwners ==
  ASSUME NEW S \in SUBSET Dispatchers, NEW T \in SUBSET S
  PROVE  /\ Cardinality(S) \in Nat /\ Cardinality(T) \in Nat
         /\ Cardinality(T) <= Cardinality(S)
<1>1. IsFiniteSet(S)
  BY ConstantsAssumption, FS_Subset
<1>2. IsFiniteSet(T)
  BY <1>1, FS_Subset
<1>. QED  BY <1>1, <1>2, FS_Subset, FS_CardinalityType

LEMMA OneMoreOwner ==
  ASSUME NEW S \in SUBSET Dispatchers, NEW d \in Dispatchers,
         NEW T \in SUBSET (S \cup {d})
  PROVE  /\ Cardinality(S) \in Nat /\ Cardinality(T) \in Nat
         /\ Cardinality(T) <= Cardinality(S) + 1
<1>1. IsFiniteSet(S)
  BY ConstantsAssumption, FS_Subset
<1>2. /\ Cardinality(S) \in Nat
      /\ Cardinality(S \cup {d}) <= Cardinality(S) + 1
  <2>1. Cardinality(S) \in Nat
    BY <1>1, FS_CardinalityType
  <2>2. Cardinality(S \cup {d}) =
           IF d \in S THEN Cardinality(S) ELSE Cardinality(S) + 1
    BY <1>1, FS_AddElement
  <2>. QED  BY <2>1, <2>2
<1>3. S \cup {d} \in SUBSET Dispatchers
  OBVIOUS
<1>4. Cardinality(S \cup {d}) \in Nat /\ Cardinality(T) \in Nat
      /\ Cardinality(T) <= Cardinality(S \cup {d})
  BY <1>3, FewerOwners
<1>. QED  BY <1>2, <1>4

LEMMA OneOwnerLess ==
  ASSUME NEW S \in SUBSET Dispatchers, NEW d \in S, NEW T \in SUBSET (S \ {d})
  PROVE  /\ Cardinality(S) \in Nat /\ Cardinality(T) \in Nat
         /\ Cardinality(T) + 1 <= Cardinality(S)
<1>1. IsFiniteSet(S)
  BY ConstantsAssumption, FS_Subset
<1>2. /\ Cardinality(S) \in Nat
      /\ Cardinality(S \ {d}) = Cardinality(S) - 1
  BY <1>1, FS_RemoveElement, FS_CardinalityType
<1>3. S \ {d} \in SUBSET Dispatchers
  OBVIOUS
<1>4. Cardinality(S \ {d}) \in Nat /\ Cardinality(T) \in Nat
      /\ Cardinality(T) <= Cardinality(S \ {d})
  BY <1>3, FewerOwners
<1>. QED  BY <1>2, <1>4

\* A step that creates neither an owner nor an unsent row, and delivers nothing.
LEMMA QuietStep ==
  ASSUME TypeOK, TypeOK', NEW r \in Requests, Budget(r),
         accepted'[r] = accepted[r], registered'[r] = registered[r],
         Owners(r)' \subseteq Owners(r), Unsent(r)' => Unsent(r)
  PROVE  Budget(r)'
<1>1. Owners(r) \in SUBSET Dispatchers
  BY DEF Owners
<1>2. /\ Cardinality(Owners(r)) \in Nat /\ Cardinality(Owners(r)') \in Nat
      /\ Cardinality(Owners(r)') <= Cardinality(Owners(r))
  BY <1>1, FewerOwners
<1>3. accepted[r] \in Nat /\ registered[r] \in Nat
  BY DEF TypeOK
<1>. QED  BY <1>2, <1>3 DEF Budget

\* Only dispatch d moves, and it does not come to own r.
LEMMA OwnersQuiet ==
  ASSUME NEW d \in Dispatchers, NEW r \in Requests,
         \A e \in Dispatchers : e # d => run'[e] = run[e],
         InFlight(d, r)' => InFlight(d, r)
  PROVE  Owners(r)' \subseteq Owners(r)
BY DEF Owners, InFlight

LEMMA OthersKeep ==
  ASSUME TypeOK, NEW d \in Dispatchers,
         SelectDueCandidateIds(d) \/ Continue(d) \/ Crash(d)
  PROVE  \A e \in Dispatchers : e # d => run'[e] = run[e]
<1>1. run \in [Dispatchers -> Run]
  BY DEF TypeOK
<1>2. CASE SelectDueCandidateIds(d)
  BY <1>1, <1>2 DEF SelectDueCandidateIds
<1>3. CASE Continue(d)
  BY <1>1, <1>3 DEF Continue, ClaimDueIds, FetchClaimedRecords, BeginChunk,
     SendOne, GatherOutcomes, MarkSentBatch, ResetFailureCountBatch,
     ApplyGoneOutcomes, IncrementFailureCountBatch, RemoveExceeded,
     ReleaseClaimBatch, EndChunk, PurgeOld, Done
<1>4. CASE Crash(d)
  BY <1>1, <1>4 DEF Crash
<1>. QED  BY <1>2, <1>3, <1>4

LEMMA FreshStep == TypeOK /\ OutcomesFresh /\ [Next]_vars => OutcomesFresh'
<1>. SUFFICES ASSUME TypeOK, OutcomesFresh, [Next]_vars
              PROVE  OutcomesFresh'
  OBVIOUS
<1>. USE DEF OutcomesFresh
<1>0. run \in [Dispatchers -> Run]
  BY DEF TypeOK
<1>1. CASE User \/ Tick \/ UNCHANGED vars
  BY <1>1 DEF User, UpsertSubscription, RemoveSubscription, UpsertRequest,
     RemoveRequest, Tick, vars
<1>2. ASSUME NEW d \in Dispatchers,
             SelectDueCandidateIds(d) \/ Continue(d) \/ Crash(d)
      PROVE  OutcomesFresh'
  <2>1. \A e \in Dispatchers : e # d => run'[e] = run[e]
    BY <1>2, OthersKeep
  <2>2. SUFFICES ASSUME NEW r \in Requests,
                        run'[d].pc \in {"idle", "claim", "fetch", "send"}
                 PROVE  run'[d].outcome[r] = "none"
    BY <2>1
  <2>3. run[d].pc \in {"idle", "claim", "fetch", "send"} => run[d].outcome[r] = "none"
    OBVIOUS
  <2>4. CASE SelectDueCandidateIds(d)
    BY <1>0, <2>4 DEF SelectDueCandidateIds, Idle
  <2>5. CASE PurgeOld(d) \/ Crash(d)
    BY <1>0, <2>5 DEF PurgeOld, Crash, Idle
  <2>6. CASE ClaimDueIds(d)
    <3>1. run'[d].outcome = run[d].outcome
      BY <1>0, <2>6 DEF ClaimDueIds, Run
    <3>. QED  BY <2>3, <2>6, <3>1 DEF ClaimDueIds
  <2>7. CASE FetchClaimedRecords(d)
    <3>1. run'[d].outcome = run[d].outcome
      BY <1>0, <2>7 DEF FetchClaimedRecords, Run
    <3>. QED  BY <2>3, <2>7, <3>1 DEF FetchClaimedRecords
  <2>8. CASE BeginChunk(d) \/ GatherOutcomes(d)
    <3>1. run'[d].pc \in {"sending", "apply"}
      <4>1. CASE BeginChunk(d)
        BY <1>0, <4>1 DEF BeginChunk, Run
      <4>2. CASE GatherOutcomes(d)
        BY <1>0, <4>2 DEF GatherOutcomes, Run
      <4>. QED  BY <2>8, <4>1, <4>2
    <3>. QED  BY <2>2, <3>1
  <2>9. ASSUME NEW q \in Requests, NEW o \in Outcomes, SendOne(d, q, o)
        PROVE  FALSE
    <3>1. run'[d].pc = "sending"
      BY <1>0, <2>9 DEF SendOne, Run
    <3>. QED  BY <2>2, <3>1
  <2>10. CASE MarkSentBatch(d) \/ ResetFailureCountBatch(d) \/ ApplyGoneOutcomes(d)
              \/ RemoveExceeded(d) \/ IncrementFailureCountBatch(d)
              \/ ReleaseClaimBatch(d)
    <3>1. run'[d].pc = "apply"
      <4>1. CASE MarkSentBatch(d) \/ ResetFailureCountBatch(d)
                 \/ ApplyGoneOutcomes(d) \/ RemoveExceeded(d)
        <5>1. run[d].pc = "apply"
          BY <4>1 DEF MarkSentBatch, ResetFailureCountBatch, ApplyGoneOutcomes,
             RemoveExceeded, Applying
        <5>2. \E w \in Writes : run' = [run EXCEPT ![d].writes = @ \ {w}]
          BY <4>1 DEF MarkSentBatch, ResetFailureCountBatch, ApplyGoneOutcomes,
             RemoveExceeded, Done, Writes
        <5>. QED  BY <1>0, <5>1, <5>2 DEF Run
      <4>2. CASE IncrementFailureCountBatch(d)
        <5>1. run[d].pc = "apply"
              /\ \E e, w : run' = [run EXCEPT ![d].exceeded = e, ![d].writes = w]
          BY <4>2, <1>0 DEF IncrementFailureCountBatch, Applying
        <5>. QED  BY <1>0, <5>1 DEF Run
      <4>3. CASE ReleaseClaimBatch(d)
        BY <1>0, <4>3 DEF ReleaseClaimBatch, Applying, Run
      <4>. QED  BY <2>10, <4>1, <4>2, <4>3
    <3>. QED  BY <2>2, <3>1
  <2>11. CASE EndChunk(d)
    BY <1>0, <2>11 DEF EndChunk, Idle, Run
  <2>. QED
    BY <1>2, <2>4, <2>5, <2>6, <2>7, <2>8, <2>9, <2>10, <2>11 DEF Continue
<1>. QED  BY <1>1, <1>2 DEF Next

\* A user or the clock: a registration pays for the unsent row it creates.
LEMMA EnvironmentBudget ==
  ASSUME TypeOK, TypeOK', NEW r \in Requests, Budget(r),
         User \/ Tick \/ UNCHANGED vars
  PROVE  Budget(r)'
<1>. USE DEF history
<1>1. run' = run /\ accepted' = accepted
  BY DEF User, UpsertSubscription, RemoveSubscription, UpsertRequest,
     RemoveRequest, Tick, vars
<1>2. Owners(r)' = Owners(r)
  BY <1>1 DEF Owners, InFlight
<1>3. CASE registered'[r] = registered[r] /\ (Unsent(r)' => Unsent(r))
  BY <1>1, <1>2, <1>3, QuietStep
<1>4. CASE registered'[r] = registered[r] + 1
  <2>1. Cardinality(Owners(r)) \in Nat
    BY FewerOwners DEF Owners
  <2>2. accepted[r] \in Nat /\ registered[r] \in Nat
    BY DEF TypeOK
  <2>. QED  BY <1>1, <1>2, <1>4, <2>1, <2>2 DEF Budget
<1>5. ASSUME NEW q \in Requests, NEW t \in FireTimes, UpsertRequest(q, t)
      PROVE  \/ registered'[r] = registered[r] + 1
             \/ registered'[r] = registered[r] /\ (Unsent(r)' => Unsent(r))
  BY <1>5 DEF UpsertRequest, Unsent, TypeOK
<1>6. ASSUME ~ \E q \in Requests, t \in FireTimes : UpsertRequest(q, t)
      PROVE  registered'[r] = registered[r] /\ (Unsent(r)' => Unsent(r))
  <2>1. ASSUME NEW s \in Subscriptions, UpsertSubscription(s) \/ RemoveSubscription(s)
        PROVE  registered'[r] = registered[r] /\ (Unsent(r)' => Unsent(r))
    BY <2>1 DEF UpsertSubscription, RemoveSubscription,
       RemoveWithDependentRequests, Unsent
  <2>2. ASSUME NEW q \in Requests, RemoveRequest(q)
        PROVE  registered'[r] = registered[r] /\ (Unsent(r)' => Unsent(r))
    BY <2>2 DEF RemoveRequest, Unsent, TypeOK
  <2>3. CASE Tick \/ UNCHANGED vars
    BY <2>3 DEF Tick, vars, Unsent
  <2>. QED  BY <1>6, <2>1, <2>2, <2>3 DEF User
<1>. QED  BY <1>3, <1>4, <1>5, <1>6

\* A dispatch: a claim pays for the row it takes, a delivery or a release for
\* the claim it ends.
LEMMA DispatchBudget ==
  ASSUME TypeOK, TypeOK', OutcomesFresh, NEW r \in Requests, Budget(r),
         NEW d \in Dispatchers,
         SelectDueCandidateIds(d) \/ Continue(d) \/ Crash(d)
  PROVE  Budget(r)'
<1>. USE DEF history
<1>0. /\ run \in [Dispatchers -> Run] /\ run[d] \in Run
      /\ \A e \in Dispatchers : e # d => run'[e] = run[e]
      /\ accepted[r] \in Nat /\ registered[r] \in Nat
      /\ Owners(r) \in SUBSET Dispatchers
  BY OthersKeep DEF TypeOK, Owners
<1>1. ASSUME accepted'[r] = accepted[r], registered'[r] = registered[r],
             InFlight(d, r)' => InFlight(d, r), Unsent(r)' => Unsent(r)
      PROVE  Budget(r)'
  BY <1>0, <1>1, OwnersQuiet, QuietStep
<1>2. CASE SelectDueCandidateIds(d) \/ Crash(d)
  <2>1. run'[d].pc \in {"idle", "claim"}
    <3>1. CASE SelectDueCandidateIds(d)
      BY <1>0, <3>1 DEF SelectDueCandidateIds, Idle
    <3>2. CASE Crash(d)
      BY <1>0, <3>2 DEF Crash, Idle
    <3>. QED  BY <1>2, <3>1, <3>2
  <2>2. /\ accepted'[r] = accepted[r] /\ registered'[r] = registered[r]
        /\ rows' = rows
    BY <1>2 DEF SelectDueCandidateIds, Crash
  <2>. QED  BY <1>1, <2>1, <2>2 DEF InFlight, Unsent
<1>3. CASE ClaimDueIds(d)
  <2>1. ~InFlight(d, r) /\ run[d].outcome[r] = "none"
    BY <1>3 DEF ClaimDueIds, InFlight, OutcomesFresh
  <2>2. accepted'[r] = accepted[r] /\ registered'[r] = registered[r]
    BY <1>3 DEF ClaimDueIds
  <2>3. /\ run'[d].outcome = run[d].outcome
        /\ run'[d].batch = {q \in run[d].batch : Claimable(q)}
    BY <1>0, <1>3 DEF ClaimDueIds, Run
  <2>4. CASE r \in run[d].batch /\ Claimable(r)
    <3>1. Unsent(r) /\ ~Unsent(r)'
      BY <1>3, <2>4 DEF ClaimDueIds, SetSent, Claimable, Unsent, TypeOK, Row
    <3>2. Owners(r)' \in SUBSET (Owners(r) \cup {d})
      BY <1>0 DEF Owners, InFlight
    <3>3. /\ Cardinality(Owners(r)) \in Nat /\ Cardinality(Owners(r)') \in Nat
          /\ Cardinality(Owners(r)') <= Cardinality(Owners(r)) + 1
      BY <1>0, <3>2, OneMoreOwner
    <3>. QED  BY <1>0, <2>2, <3>1, <3>3 DEF Budget
  <2>5. CASE ~(r \in run[d].batch /\ Claimable(r))
    <3>1. ~InFlight(d, r)'
      BY <2>1, <2>3, <2>5 DEF InFlight
    <3>2. Unsent(r)' => Unsent(r)
      BY <1>3, <2>5 DEF ClaimDueIds, SetSent, Unsent
    <3>. QED  BY <1>1, <2>2, <3>1, <3>2
  <2>. QED  BY <2>4, <2>5
<1>4. CASE FetchClaimedRecords(d)
  <2>1. /\ run'[d].outcome = run[d].outcome
        /\ run'[d].batch \subseteq run[d].batch
    BY <1>0, <1>4 DEF FetchClaimedRecords, Run
  <2>2. InFlight(d, r)' => InFlight(d, r)
    BY <1>4, <2>1 DEF FetchClaimedRecords, InFlight
  <2>3. /\ accepted'[r] = accepted[r] /\ registered'[r] = registered[r]
        /\ rows' = rows
    BY <1>4 DEF FetchClaimedRecords
  <2>. QED  BY <1>1, <2>2, <2>3 DEF Unsent
<1>5. CASE BeginChunk(d)
  <2>1. PICK chunk \in SUBSET run[d].batch :
          /\ run'[d].batch = run[d].batch \ chunk
          /\ run'[d].outcome[r] = IF r \in chunk THEN "sending" ELSE "none"
    BY <1>0, <1>5 DEF BeginChunk, RestOf, Run
  <2>2. InFlight(d, r)' => InFlight(d, r)
    BY <1>5, <2>1 DEF BeginChunk, InFlight
  <2>3. /\ accepted'[r] = accepted[r] /\ registered'[r] = registered[r]
        /\ rows' = rows
    BY <1>5 DEF BeginChunk
  <2>. QED  BY <1>1, <2>2, <2>3 DEF Unsent
<1>6. ASSUME NEW q \in Requests, NEW o \in Outcomes, SendOne(d, q, o)
      PROVE  Budget(r)'
  <2>1. /\ run'[d].pc = "sending" /\ run[d].pc = "sending"
        /\ run[d].outcome[q] = "sending"
        /\ run'[d].batch = run[d].batch
        /\ run'[d].outcome = [run[d].outcome EXCEPT ![q] = o]
        /\ registered' = registered /\ rows' = rows
        /\ o = "sent" => accepted' = [accepted EXCEPT ![q] = @ + 1]
        /\ o # "sent" => accepted' = accepted
    <3>1. /\ run[d].pc = "sending" /\ run[d].outcome[q] = "sending"
          /\ registered' = registered /\ rows' = rows
          /\ o = "sent" => accepted' = [accepted EXCEPT ![q] = @ + 1]
          /\ o # "sent" => accepted' = accepted
      BY <1>6 DEF SendOne
    <3>2. run' = [run EXCEPT ![d].outcome[q] = o, ![d].payload[q] = 0]
      BY <1>6 DEF SendOne
    <3>3. /\ run'[d].pc = run[d].pc
          /\ run'[d].batch = run[d].batch
          /\ run'[d].outcome = [run[d].outcome EXCEPT ![q] = o]
      BY <1>0, <3>2 DEF Run
    <3>. QED  BY <3>1, <3>3
  <2>2. run[d].outcome \in [Requests -> Outcomes]
    BY <1>0 DEF Run
  <2>3. InFlight(d, r)' => InFlight(d, r)
    BY <2>1, <2>2 DEF InFlight
  <2>4. CASE q = r /\ o = "sent"
    <3>1. r \notin run[d].batch
      BY <2>1, <2>4 DEF TypeOK
    <3>2. d \in Owners(r) /\ ~InFlight(d, r)'
      BY <2>1, <2>2, <2>4, <3>1 DEF InFlight, Owners
    <3>3. Owners(r)' \in SUBSET (Owners(r) \ {d})
      BY <1>0, <2>3, <3>2, OwnersQuiet DEF Owners
    <3>4. /\ Cardinality(Owners(r)) \in Nat /\ Cardinality(Owners(r)') \in Nat
          /\ Cardinality(Owners(r)') + 1 <= Cardinality(Owners(r))
      BY <1>0, <3>2, <3>3, OneOwnerLess
    <3>5. accepted'[r] = accepted[r] + 1
      BY <2>1, <2>4 DEF TypeOK
    <3>6. Unsent(r)' = Unsent(r)
      BY <2>1 DEF Unsent
    <3>. QED  BY <1>0, <2>1, <3>4, <3>5, <3>6 DEF Budget
  <2>5. CASE ~(q = r /\ o = "sent")
    <3>1. accepted'[r] = accepted[r]
      BY <2>1, <2>5 DEF TypeOK
    <3>. QED  BY <1>1, <2>1, <2>3, <3>1 DEF Unsent
  <2>. QED  BY <2>4, <2>5
<1>7. CASE GatherOutcomes(d)
  <2>1. run'[d].batch = run[d].batch /\ run'[d].outcome = run[d].outcome
    BY <1>0, <1>7 DEF GatherOutcomes, Run
  <2>2. /\ accepted'[r] = accepted[r] /\ registered'[r] = registered[r]
        /\ rows' = rows
    BY <1>7 DEF GatherOutcomes
  <2>3. run[d].pc = "sending"
    BY <1>7 DEF GatherOutcomes
  <2>. QED  BY <1>1, <2>1, <2>2, <2>3 DEF Unsent, InFlight
<1>8. CASE MarkSentBatch(d) \/ ResetFailureCountBatch(d) \/ ApplyGoneOutcomes(d)
           \/ RemoveExceeded(d)
  <2>1. run[d].pc = "apply"
    BY <1>8 DEF MarkSentBatch, ResetFailureCountBatch, ApplyGoneOutcomes,
       RemoveExceeded, Applying
  <2>2. \E w \in Writes : run' = [run EXCEPT ![d].writes = @ \ {w}]
    BY <1>8 DEF MarkSentBatch, ResetFailureCountBatch, ApplyGoneOutcomes,
       RemoveExceeded, Done, Writes
  <2>3. run'[d].batch = run[d].batch /\ run'[d].outcome = run[d].outcome
    BY <1>0, <2>2 DEF Run
  <2>4. accepted'[r] = accepted[r] /\ registered'[r] = registered[r]
    BY <1>8 DEF MarkSentBatch, ResetFailureCountBatch, ApplyGoneOutcomes,
       RemoveExceeded
  <2>5. Unsent(r)' => Unsent(r)
    <3>1. CASE MarkSentBatch(d)
      BY <3>1 DEF MarkSentBatch, SetSent, Unsent, TypeOK, Row
    <3>2. CASE ResetFailureCountBatch(d)
      BY <3>2 DEF ResetFailureCountBatch, Unsent
    <3>3. CASE ApplyGoneOutcomes(d) \/ RemoveExceeded(d)
      BY <3>3 DEF ApplyGoneOutcomes, RemoveExceeded, RemoveWithDependentRequests,
         Unsent
    <3>. QED  BY <1>8, <3>1, <3>2, <3>3
  <2>. QED  BY <1>1, <2>1, <2>3, <2>4, <2>5 DEF InFlight
<1>9. CASE IncrementFailureCountBatch(d)
  <2>1. /\ run[d].pc = "apply"
        /\ \E e, w : run' = [run EXCEPT ![d].exceeded = e, ![d].writes = w]
    BY <1>0, <1>9 DEF IncrementFailureCountBatch, Applying
  <2>2. run'[d].batch = run[d].batch /\ run'[d].outcome = run[d].outcome
    BY <1>0, <2>1 DEF Run
  <2>3. /\ accepted'[r] = accepted[r] /\ registered'[r] = registered[r]
        /\ rows' = rows
    BY <1>9 DEF IncrementFailureCountBatch
  <2>. QED  BY <1>1, <2>1, <2>2, <2>3 DEF InFlight, Unsent
<1>10. CASE ReleaseClaimBatch(d)
  <2>1. /\ run[d].pc = "apply" /\ run'[d].pc = "apply"
        /\ run'[d].batch = run[d].batch
        /\ run'[d].outcome[r] =
              IF r \in Retry(d) THEN "none" ELSE run[d].outcome[r]
    BY <1>0, <1>10 DEF ReleaseClaimBatch, Applying, Run
  <2>2. accepted'[r] = accepted[r] /\ registered'[r] = registered[r]
    BY <1>10 DEF ReleaseClaimBatch
  <2>3. InFlight(d, r)' => InFlight(d, r)
    BY <2>1 DEF InFlight
  <2>4. CASE r \in Retry(d)
    <3>1. run[d].outcome[r] = "failed"
      BY <2>4 DEF Retry, With
    <3>2. r \notin run[d].batch
      BY <3>1 DEF TypeOK
    <3>3. d \in Owners(r) /\ ~InFlight(d, r)'
      BY <2>1, <2>4, <3>1, <3>2 DEF InFlight, Owners
    <3>4. Owners(r)' \in SUBSET (Owners(r) \ {d})
      BY <1>0, <2>3, <3>3, OwnersQuiet DEF Owners
    <3>5. /\ Cardinality(Owners(r)) \in Nat /\ Cardinality(Owners(r)') \in Nat
          /\ Cardinality(Owners(r)') + 1 <= Cardinality(Owners(r))
      BY <1>0, <3>3, <3>4, OneOwnerLess
    <3>. QED  BY <1>0, <2>2, <3>5 DEF Budget
  <2>5. CASE r \notin Retry(d)
    <3>1. Unsent(r)' => Unsent(r)
      BY <1>10, <2>5 DEF ReleaseClaimBatch, SetSent, Unsent
    <3>. QED  BY <1>1, <2>2, <2>3, <3>1
  <2>. QED  BY <2>4, <2>5
<1>11. CASE EndChunk(d)
  <2>1. /\ run[d].pc = "apply"
        /\ run'[d].batch = run[d].batch /\ run'[d].outcome[r] = "none"
    BY <1>0, <1>11 DEF EndChunk, Idle, Run
  <2>2. /\ accepted'[r] = accepted[r] /\ registered'[r] = registered[r]
        /\ rows' = rows
    BY <1>11 DEF EndChunk
  <2>. QED  BY <1>1, <2>1, <2>2 DEF InFlight, Unsent
<1>12. CASE PurgeOld(d)
  <2>1. run'[d].pc = "idle"
    BY <1>0, <1>12 DEF PurgeOld, Idle
  <2>2. accepted'[r] = accepted[r] /\ registered'[r] = registered[r]
    BY <1>12 DEF PurgeOld
  <2>3. Unsent(r)' => Unsent(r)
    BY <1>12 DEF PurgeOld, Unsent
  <2>. QED  BY <1>1, <2>1, <2>2, <2>3 DEF InFlight
<1>. QED
  BY <1>2, <1>3, <1>4, <1>5, <1>6, <1>7, <1>8, <1>9, <1>10, <1>11, <1>12
     DEF Continue

\* Pushes accepted, claims in flight and unsent rows of a request never outnumber
\* its registrations (ClaimBudget), however many dispatches overlap and crash.
THEOREM BudgetHolds == Spec => []ClaimBudget
<1>1. Init => BudgetInv
  <2>. SUFFICES ASSUME Init PROVE BudgetInv
    OBVIOUS
  <2>1. TypeOK /\ OutcomesFresh
    BY InitTyped DEF Init, OutcomesFresh, Idle
  <2>2. ASSUME NEW r \in Requests PROVE Budget(r)
    <3>1. Owners(r) = {}
      BY DEF Owners, InFlight, Init, Idle
    <3>2. accepted[r] = 0 /\ registered[r] = 0 /\ ~Unsent(r)
      BY DEF Init, Unsent
    <3>. QED  BY <3>1, <3>2, FS_EmptySet DEF Budget
  <2>. QED  BY <2>1, <2>2 DEF BudgetInv, ClaimBudget, Budget
<1>2. TypeOK /\ TypeOK' /\ BudgetInv /\ [Next]_vars => BudgetInv'
  <2>. SUFFICES ASSUME TypeOK, TypeOK', BudgetInv, [Next]_vars
                PROVE  BudgetInv'
    OBVIOUS
  <2>1. OutcomesFresh /\ \A r \in Requests : Budget(r)
    BY DEF BudgetInv, ClaimBudget, Budget
  <2>2. ASSUME NEW r \in Requests PROVE Budget(r)'
    <3>1. CASE User \/ Tick \/ UNCHANGED vars
      BY <2>1, <3>1, EnvironmentBudget
    <3>2. ASSUME NEW d \in Dispatchers,
                 SelectDueCandidateIds(d) \/ Continue(d) \/ Crash(d)
          PROVE  Budget(r)'
      BY <2>1, <3>2, DispatchBudget
    <3>. QED  BY <3>1, <3>2 DEF Next
  <2>3. OutcomesFresh'
    BY <2>1, FreshStep
  <2>. QED  BY <2>2, <2>3 DEF BudgetInv, ClaimBudget, Budget
<1>3. BudgetInv => ClaimBudget
  BY DEF BudgetInv
<1>. QED  BY <1>1, <1>2, <1>3, TypeCorrect, PTL DEF Spec

-----------------------------------------------------------------------------
\* What a step does to the two histories PushDelivery observes.
LEMMA ObservedStep ==
  ASSUME TypeOK, ClaimBudget, [Next]_vars
  PROVE  [Delivery!Next]_(Delivery!vars)
<1>. USE DEF Delivery!Next, Delivery!vars, history
<1>1. ASSUME NEW r \in Requests, NEW t \in FireTimes, UpsertRequest(r, t)
      PROVE  Delivery!Register(r)
  BY <1>1 DEF UpsertRequest, Delivery!Register
<1>2. ASSUME NEW d \in Dispatchers, NEW r \in Requests, NEW o \in Outcomes,
             SendOne(d, r, o)
      PROVE  Delivery!Deliver(r) \/ UNCHANGED <<registered, accepted>>
  <2>1. CASE o = "sent"
    <3>1. d \in Owners(r)
      BY <1>2 DEF SendOne, Owners, InFlight
    <3>2. /\ Cardinality(Owners(r)) \in Nat /\ Cardinality({}) \in Nat
          /\ Cardinality({}) + 1 <= Cardinality(Owners(r))
      BY <3>1, OneOwnerLess DEF Owners
    <3>3. Cardinality({}) = 0
      BY FS_EmptySet
    <3>4. accepted[r] \in Nat /\ registered[r] \in Nat
      BY DEF TypeOK
    <3>5. accepted[r] < registered[r]
      BY <3>2, <3>3, <3>4 DEF ClaimBudget
    <3>. QED  BY <1>2, <2>1, <3>5 DEF SendOne, Delivery!Deliver
  <2>2. CASE o # "sent"
    BY <1>2, <2>2 DEF SendOne
  <2>. QED  BY <2>1, <2>2
<1>3. CASE ~ \E r \in Requests : \/ \E t \in FireTimes : UpsertRequest(r, t)
                                 \/ \E d \in Dispatchers, o \in Outcomes : SendOne(d, r, o)
  <2>1. CASE User \/ Tick \/ UNCHANGED vars
    BY <1>3, <2>1 DEF User, UpsertSubscription, RemoveSubscription,
       RemoveRequest, Tick, vars
  <2>2. ASSUME NEW d \in Dispatchers,
               SelectDueCandidateIds(d) \/ Continue(d) \/ Crash(d)
        PROVE  UNCHANGED <<registered, accepted>>
    BY <1>3, <2>2 DEF SelectDueCandidateIds, Continue, Crash, ClaimDueIds,
       FetchClaimedRecords, BeginChunk, GatherOutcomes, MarkSentBatch,
       ResetFailureCountBatch, ApplyGoneOutcomes, IncrementFailureCountBatch,
       RemoveExceeded, ReleaseClaimBatch, EndChunk, PurgeOld
  <2>. QED  BY <2>1, <2>2 DEF Next
<1>. QED  BY <1>1, <1>2, <1>3

\* PushDispatch implements PushDelivery: the provider never accepts more pushes
\* of a request than the user registered.
THEOREM ImplementsDelivery == Spec => DeliverySpec
<1>1. Init => Delivery!Init
  BY DEF Init, Delivery!Init
<1>. QED
  BY <1>1, ObservedStep, TypeCorrect, BudgetHolds, PTL
     DEF Spec, DeliverySpec, Delivery!Spec

-----------------------------------------------------------------------------
(* What is marked sent.  A row that nothing has disturbed is worked on by    *)
(* one dispatch at most, which knows its latest content and either has had   *)
(* it accepted or will still give the claim back or delete the row.          *)

Calm(r) == rows[r] # Absent /\ r \notin disturbed

\* Dispatch d has read the content of r and not settled it.
HasRead(d, r) ==
    \/ run[d].outcome[r] = "sending" /\ run[d].pc = "sending"
    \/ r \in run[d].batch /\ run[d].pc \in {"send", "sending", "apply"}

\* Dispatch d will still send r, release its claim or delete its row.
Carries(d, r) ==
    \/ run[d].pc = "fetch" /\ r \in run[d].batch
    \/ HasRead(d, r)
    \/ /\ run[d].outcome[r] = "gone"
       /\ run[d].pc = "sending" \/ "removeGone" \in run[d].writes
    \/ /\ run[d].outcome[r] = "failed"
       /\ \/ run[d].pc = "sending" \/ "incrementFailures" \in run[d].writes
          \/ /\ SubscriptionOf(r) \in run[d].exceeded
             /\ "removeExceeded" \in run[d].writes
          \/ /\ SubscriptionOf(r) \notin run[d].exceeded
             /\ "releaseClaims" \in run[d].writes

OneWorks(r) == \A d, e \in Dispatchers : Busy(d, r) /\ Busy(e, r) => d = e
WorkedOnIsSent(r) == \A d \in Dispatchers : Busy(d, r) => rows[r].sent
ReadIsLatest(r) ==
    \A d \in Dispatchers : HasRead(d, r) => run[d].payload[r] = registered[r]
SentIsAccepted(r) ==
    \A d \in Dispatchers :
        run[d].outcome[r] = "sent" => registered[r] \in acceptedGens[r]
SentIsCarried(r) ==
    rows[r].sent => \/ registered[r] \in acceptedGens[r]
                    \/ \E d \in Dispatchers : Carries(d, r)

Tended(r) ==
    Calm(r) => /\ OneWorks(r) /\ WorkedOnIsSent(r) /\ ReadIsLatest(r)
               /\ SentIsAccepted(r) /\ SentIsCarried(r)

LEMMA CarryingIsBusy ==
  ASSUME NEW d \in Dispatchers, NEW r \in Requests, Carries(d, r)
  PROVE  Busy(d, r)
BY DEF Carries, HasRead, Busy, InFlight

\* A step of dispatch d that leaves the row of r and its histories alone.
LEMMA QuietDispatch ==
  ASSUME NEW r \in Requests, NEW d \in Dispatchers, Tended(r),
         \A e \in Dispatchers : e # d => run'[e] = run[e],
         Calm(r)' => Calm(r) /\ rows'[r].sent = rows[r].sent,
         registered'[r] = registered[r], acceptedGens'[r] = acceptedGens[r],
         Busy(d, r)' => Busy(d, r),
         HasRead(d, r)' => HasRead(d, r) /\ run'[d].payload[r] = run[d].payload[r],
         run'[d].outcome[r] = "sent" => run[d].outcome[r] = "sent",
         Calm(r)' /\ Carries(d, r) => Carries(d, r)'
  PROVE  Tended(r)'
<1>. SUFFICES ASSUME Calm(r)' PROVE (OneWorks(r) /\ WorkedOnIsSent(r)
        /\ ReadIsLatest(r) /\ SentIsAccepted(r) /\ SentIsCarried(r))'
  BY DEF Tended
<1>0. /\ OneWorks(r) /\ WorkedOnIsSent(r) /\ ReadIsLatest(r)
      /\ SentIsAccepted(r) /\ SentIsCarried(r)
      /\ rows'[r].sent = rows[r].sent
  BY DEF Tended
<1>1. \A e \in Dispatchers :
          /\ Busy(e, r)' => Busy(e, r)
          /\ Carries(e, r) => Carries(e, r)'
  <2>1. ASSUME NEW e \in Dispatchers, e # d
        PROVE  (Busy(e, r)' => Busy(e, r)) /\ (Carries(e, r) => Carries(e, r)')
    BY <2>1 DEF Busy, InFlight, Carries, HasRead
  <2>. QED  BY <2>1
<1>2. OneWorks(r)' /\ WorkedOnIsSent(r)'
  BY <1>0, <1>1 DEF OneWorks, WorkedOnIsSent
<1>3. ReadIsLatest(r)'
  <2>1. ASSUME NEW e \in Dispatchers, HasRead(e, r)'
        PROVE  run'[e].payload[r] = registered'[r]
    <3>1. CASE e = d
      BY <1>0, <2>1, <3>1 DEF ReadIsLatest
    <3>2. CASE e # d
      BY <1>0, <2>1, <3>2 DEF ReadIsLatest, HasRead
    <3>. QED  BY <3>1, <3>2
  <2>. QED  BY <2>1 DEF ReadIsLatest
<1>4. SentIsAccepted(r)'
  BY <1>0 DEF SentIsAccepted
<1>5. SentIsCarried(r)'
  BY <1>0, <1>1 DEF SentIsCarried
<1>. QED  BY <1>2, <1>3, <1>4, <1>5

\* Users and the clock: a registration disturbs the request, or finds nobody at
\* work on it.
LEMMA UsersTend ==
  ASSUME TypeOK, NEW r \in Requests, Tended(r), User \/ Tick \/ UNCHANGED vars
  PROVE  Tended(r)'
<1>. USE DEF history
<1>1. run' = run /\ acceptedGens' = acceptedGens
  BY DEF User, UpsertSubscription, RemoveSubscription, UpsertRequest,
     RemoveRequest, Tick, vars
<1>2. \A d \in Dispatchers : /\ Busy(d, r)' <=> Busy(d, r)
                             /\ Carries(d, r)' <=> Carries(d, r)
                             /\ HasRead(d, r)' <=> HasRead(d, r)
  BY <1>1 DEF Busy, InFlight, Carries, HasRead
<1>3. ASSUME Calm(r)' => Calm(r) /\ rows'[r].sent = rows[r].sent,
             registered'[r] = registered[r]
      PROVE  Tended(r)'
  BY <1>1, <1>2, <1>3 DEF Tended, OneWorks, WorkedOnIsSent, ReadIsLatest,
     SentIsAccepted, SentIsCarried
<1>4. ASSUME NEW t \in FireTimes, UpsertRequest(r, t)
      PROVE  Tended(r)'
  <2>1. CASE Disturbs(r)
    BY <1>4, <2>1 DEF UpsertRequest, Tended, Calm
  <2>2. CASE ~Disturbs(r)
    <3>1. \A d \in Dispatchers : ~Busy(d, r)'
      BY <1>2, <2>2 DEF Disturbs
    <3>2. \A d \in Dispatchers :
              ~HasRead(d, r)' /\ run'[d].outcome[r] = "none"
      BY <3>1 DEF Busy, InFlight, HasRead
    <3>3. ~rows'[r].sent
      BY <1>4 DEF UpsertRequest, TypeOK
    <3>. QED
      BY <3>1, <3>2, <3>3 DEF Tended, OneWorks, WorkedOnIsSent, ReadIsLatest,
         SentIsAccepted, SentIsCarried
  <2>. QED  BY <2>1, <2>2
<1>5. ASSUME NEW q \in Requests, NEW t \in FireTimes, UpsertRequest(q, t), q # r
      PROVE  Tended(r)'
  BY <1>3, <1>5 DEF UpsertRequest, TypeOK, Calm
<1>6. ASSUME NEW s \in Subscriptions, UpsertSubscription(s) \/ RemoveSubscription(s)
      PROVE  Tended(r)'
  BY <1>3, <1>6 DEF UpsertSubscription, RemoveSubscription,
     RemoveWithDependentRequests, Calm
<1>7. ASSUME NEW q \in Requests, RemoveRequest(q)
      PROVE  Tended(r)'
  BY <1>3, <1>7 DEF RemoveRequest, TypeOK, Calm
<1>8. CASE Tick \/ UNCHANGED vars
  BY <1>3, <1>8 DEF Tick, vars, Calm
<1>. QED  BY <1>4, <1>5, <1>6, <1>7, <1>8 DEF User

\* The two steps that set several fields, field by field.
LEMMA SelectStarts ==
  ASSUME TypeOK, NEW d \in Dispatchers, SelectDueCandidateIds(d)
  PROVE  /\ run[d].pc = "idle" /\ run'[d].pc = "claim"
         /\ \A r \in Requests : run'[d].outcome[r] = "none"
         /\ rows' = rows /\ UNCHANGED history
<1>1. PICK ids \in DueCandidates(now) :
        run' = [run EXCEPT ![d] = [Idle EXCEPT !.pc = "claim", !.clock = now,
                                               !.batch = ids]]
  BY DEF SelectDueCandidateIds
<1>2. run'[d].pc = "claim" /\ \A r \in Requests : run'[d].outcome[r] = "none"
  BY <1>1 DEF Idle, TypeOK
<1>. QED  BY <1>2 DEF SelectDueCandidateIds, history

LEMMA FetchReads ==
  ASSUME TypeOK, NEW d \in Dispatchers, FetchClaimedRecords(d)
  PROVE  LET found == {q \in run[d].batch : rows[q] # Absent
                                            /\ Subscribed(SubscriptionOf(q))}
         IN  /\ run[d].pc = "fetch" /\ run'[d].pc = "send"
             /\ run'[d].outcome = run[d].outcome
             /\ run'[d].batch = found
             /\ run'[d].payload = [q \in Requests |->
                                      IF q \in found THEN registered[q] ELSE 0]
             /\ disturbed' = disturbed \cup (run[d].batch \ found)
             /\ UNCHANGED <<rows, registered, acceptedGens>>
<1>. DEFINE found == {q \in run[d].batch : rows[q] # Absent
                                           /\ Subscribed(SubscriptionOf(q))}
            payload == [q \in Requests |-> IF q \in found THEN registered[q] ELSE 0]
<1>1. /\ run[d].pc = "fetch"
      /\ run' = [run EXCEPT ![d].pc = "send", ![d].batch = found,
                            ![d].payload = payload]
      /\ disturbed' = disturbed \cup (run[d].batch \ found)
      /\ UNCHANGED <<rows, registered, acceptedGens>>
  BY DEF FetchClaimedRecords
<1>. HIDE DEF found, payload
<1>2. /\ run'[d].pc = "send" /\ run'[d].outcome = run[d].outcome
      /\ run'[d].batch = found /\ run'[d].payload = payload
  BY <1>1 DEF TypeOK, Run
<1>. QED  BY <1>1, <1>2 DEF found, payload

\* The steps of a dispatch.
LEMMA DispatchTends ==
  ASSUME TypeOK, OutcomesFresh, NEW r \in Requests, Tended(r),
         NEW d \in Dispatchers,
         SelectDueCandidateIds(d) \/ Continue(d) \/ Crash(d)
  PROVE  Tended(r)'
<1>. USE DEF history
<1>0. /\ run \in [Dispatchers -> Run] /\ run[d] \in Run
      /\ run[d].outcome \in [Requests -> Outcomes]
      /\ \A e \in Dispatchers : e # d => run'[e] = run[e]
  BY OthersKeep DEF TypeOK, Run
\* The steps that leave rows, histories and outcomes alone.
<1>1. ASSUME rows' = rows, registered' = registered,
             acceptedGens' = acceptedGens, disturbed' = disturbed,
             Busy(d, r)' => Busy(d, r),
             HasRead(d, r)' => HasRead(d, r)
                               /\ run'[d].payload[r] = run[d].payload[r],
             run'[d].outcome[r] = "sent" => run[d].outcome[r] = "sent",
             Calm(r)' /\ Carries(d, r) => Carries(d, r)'
      PROVE  Tended(r)'
  BY <1>0, <1>1, QuietDispatch DEF Calm
<1>2. CASE SelectDueCandidateIds(d)
  <2>1. /\ run[d].pc = "idle" /\ run'[d].pc = "claim"
        /\ run'[d].outcome[r] = "none" /\ run[d].outcome[r] = "none"
        /\ rows' = rows /\ UNCHANGED history
    BY <1>2, SelectStarts DEF OutcomesFresh
  <2>. QED  BY <1>1, <2>1 DEF Busy, InFlight, HasRead, Carries
<1>3. CASE ClaimDueIds(d)
  <2>1. /\ run[d].pc = "claim" /\ run'[d].pc = "fetch"
        /\ run[d].outcome[r] = "none" /\ run'[d].outcome[r] = "none"
        /\ run'[d].batch = {q \in run[d].batch : Claimable(q)}
        /\ rows' = [q \in Requests |->
                       IF q \in run'[d].batch /\ rows[q] # Absent
                       THEN [rows[q] EXCEPT !.sent = TRUE] ELSE rows[q]]
        /\ UNCHANGED history
    BY <1>0, <1>3 DEF ClaimDueIds, SetSent, OutcomesFresh, Run
  <2>2. CASE r \notin run'[d].batch
    <3>1. rows'[r] = rows[r]
      BY <2>1, <2>2
    <3>2. ~Busy(d, r)' /\ ~HasRead(d, r)' /\ ~Carries(d, r)
      BY <2>1, <2>2 DEF Busy, InFlight, HasRead, Carries
    <3>. QED  BY <1>0, <2>1, <3>1, <3>2, QuietDispatch DEF Calm
  <2>3. CASE r \in run'[d].batch
    <3>1. rows[r] # Absent /\ ~rows[r].sent /\ rows'[r].sent
      BY <2>1, <2>3 DEF Claimable, Unsent, TypeOK, Row
    <3>2. SUFFICES ASSUME Calm(r)
                   PROVE  (OneWorks(r) /\ WorkedOnIsSent(r) /\ ReadIsLatest(r)
                           /\ SentIsAccepted(r) /\ SentIsCarried(r))'
      BY <2>1, <3>1 DEF Tended, Calm
    <3>3. \A e \in Dispatchers : ~Busy(e, r)
      BY <3>1, <3>2 DEF Tended, WorkedOnIsSent
    <3>4. \A e \in Dispatchers : e # d => ~Busy(e, r)'
      BY <1>0, <3>3 DEF Busy, InFlight
    <3>5. ~HasRead(d, r)' /\ Carries(d, r)'
      BY <2>1, <2>3 DEF HasRead, Carries
    <3>6. \A e \in Dispatchers : ~HasRead(e, r)' /\ run'[e].outcome[r] # "sent"
      BY <2>1, <3>4, <3>5 DEF HasRead, Busy, InFlight
    <3>. QED
      BY <3>1, <3>4, <3>5, <3>6 DEF OneWorks, WorkedOnIsSent, ReadIsLatest,
         SentIsAccepted, SentIsCarried
  <2>. QED  BY <2>2, <2>3
<1>4. CASE FetchClaimedRecords(d)
  <2>. DEFINE found == {q \in run[d].batch : rows[q] # Absent
                                            /\ Subscribed(SubscriptionOf(q))}
  <2>1. /\ run[d].pc = "fetch" /\ run'[d].pc = "send"
        /\ run[d].outcome[r] = "none" /\ run'[d].outcome[r] = "none"
        /\ run'[d].batch = found
        /\ run'[d].payload = [q \in Requests |->
                                 IF q \in found THEN registered[q] ELSE 0]
        /\ disturbed' = disturbed \cup (run[d].batch \ found)
        /\ UNCHANGED <<rows, registered, acceptedGens>>
    BY <1>4, FetchReads DEF OutcomesFresh
  <2>2. CASE r \in run[d].batch \ found
    BY <2>1, <2>2 DEF Tended, Calm
  <2>3. CASE r \notin run[d].batch
    <3>1. ~Busy(d, r)' /\ ~HasRead(d, r)' /\ ~Carries(d, r)
      BY <2>1, <2>3 DEF Busy, InFlight, HasRead, Carries
    <3>. QED  BY <1>0, <2>1, <3>1, QuietDispatch DEF Calm
  <2>4. CASE r \in found
    <3>1. SUFFICES ASSUME Calm(r)
                   PROVE  (OneWorks(r) /\ WorkedOnIsSent(r) /\ ReadIsLatest(r)
                           /\ SentIsAccepted(r) /\ SentIsCarried(r))'
      BY <2>1, <2>4 DEF Tended, Calm
    <3>2. Busy(d, r) /\ Busy(d, r)' /\ HasRead(d, r)' /\ Carries(d, r)'
      BY <2>1, <2>4 DEF Busy, InFlight, HasRead, Carries
    <3>3. \A e \in Dispatchers : e # d => ~Busy(e, r)
      BY <3>1, <3>2 DEF Tended, OneWorks
    <3>4. \A e \in Dispatchers : e # d => ~Busy(e, r)' /\ ~HasRead(e, r)'
      BY <1>0, <3>3 DEF Busy, InFlight, HasRead
    <3>5. rows[r].sent
      BY <3>1, <3>2 DEF Tended, WorkedOnIsSent
    <3>6. OneWorks(r)' /\ WorkedOnIsSent(r)' /\ SentIsCarried(r)'
      BY <2>1, <3>2, <3>4, <3>5 DEF OneWorks, WorkedOnIsSent, SentIsCarried
    <3>7. ReadIsLatest(r)'
      BY <2>1, <2>4, <3>4 DEF ReadIsLatest
    <3>8. SentIsAccepted(r)'
      BY <2>1, <3>4 DEF SentIsAccepted, Busy
    <3>. QED  BY <3>6, <3>7, <3>8
  <2>. QED  BY <2>2, <2>3, <2>4
<1>5. CASE BeginChunk(d)
  <2>1. PICK chunk \in SUBSET run[d].batch :
          /\ run'[d].batch = run[d].batch \ chunk
          /\ run'[d].outcome[r] = IF r \in chunk THEN "sending" ELSE "none"
          /\ run'[d].pc = "sending" /\ run'[d].payload = run[d].payload
    BY <1>0, <1>5 DEF BeginChunk, RestOf, Run
  <2>2. /\ run[d].pc = "send" /\ run[d].outcome[r] = "none"
        /\ rows' = rows /\ UNCHANGED history
    BY <1>5 DEF BeginChunk, OutcomesFresh
  <2>3. CASE r \in run[d].batch
    BY <1>1, <2>1, <2>2, <2>3 DEF Busy, InFlight, HasRead, Carries
  <2>4. CASE r \notin run[d].batch
    BY <1>1, <2>1, <2>2, <2>4 DEF Busy, InFlight, HasRead, Carries
  <2>. QED  BY <2>3, <2>4
<1>6. ASSUME NEW q \in Requests, NEW o \in Outcomes, SendOne(d, q, o)
      PROVE  Tended(r)'
  <2>1. /\ run[d].pc = "sending" /\ run'[d].pc = "sending"
        /\ run[d].outcome[q] = "sending" /\ o \in {"sent", "gone", "failed"}
        /\ run'[d].batch = run[d].batch
        /\ run'[d].outcome = [run[d].outcome EXCEPT ![q] = o]
        /\ run'[d].payload = [run[d].payload EXCEPT ![q] = 0]
        /\ UNCHANGED <<rows, registered, disturbed>>
        /\ o = "sent" => acceptedGens' =
              [acceptedGens EXCEPT ![q] = @ \cup {run[d].payload[q]}]
        /\ o # "sent" => acceptedGens' = acceptedGens
    <3>1. run' = [run EXCEPT ![d].outcome[q] = o, ![d].payload[q] = 0]
      BY <1>6 DEF SendOne
    <3>2. /\ run'[d].pc = run[d].pc /\ run'[d].batch = run[d].batch
          /\ run'[d].outcome = [run[d].outcome EXCEPT ![q] = o]
          /\ run'[d].payload = [run[d].payload EXCEPT ![q] = 0]
      BY <1>0, <3>1 DEF Run
    <3>. QED  BY <1>6, <3>2 DEF SendOne
  <2>2. CASE q # r
    <3>1. /\ run'[d].outcome[r] = run[d].outcome[r]
          /\ run'[d].payload[r] = run[d].payload[r]
          /\ acceptedGens'[r] = acceptedGens[r]
      BY <1>0, <2>1, <2>2 DEF TypeOK, Run
    <3>2. /\ Busy(d, r)' <=> Busy(d, r)
          /\ HasRead(d, r)' <=> HasRead(d, r)
          /\ Carries(d, r)' <=> Carries(d, r)
      BY <2>1, <3>1, <1>6 DEF Busy, InFlight, HasRead, Carries, SendOne
    <3>. QED  BY <1>0, <2>1, <3>1, <3>2, QuietDispatch DEF Calm
  <2>3. CASE q = r
    <3>0. SUFFICES ASSUME Calm(r)
                   PROVE  (OneWorks(r) /\ WorkedOnIsSent(r) /\ ReadIsLatest(r)
                           /\ SentIsAccepted(r) /\ SentIsCarried(r))'
      BY <2>1 DEF Tended, Calm
    <3>1. /\ Busy(d, r) /\ HasRead(d, r) /\ run'[d].outcome[r] = o
          /\ r \notin run'[d].batch
      BY <1>0, <2>1, <2>3 DEF Busy, HasRead, TypeOK
    <3>2. rows[r].sent /\ run[d].payload[r] = registered[r]
      BY <3>0, <3>1 DEF Tended, WorkedOnIsSent, ReadIsLatest
    <3>3. \A e \in Dispatchers : e # d => ~Busy(e, r)
      BY <3>0, <3>1 DEF Tended, OneWorks
    <3>4. \A e \in Dispatchers : e # d => ~Busy(e, r)' /\ ~HasRead(e, r)'
      BY <1>0, <3>3 DEF Busy, InFlight, HasRead
    <3>5. ~HasRead(d, r)'
      BY <2>1, <3>1 DEF HasRead
    <3>6. OneWorks(r)' /\ WorkedOnIsSent(r)' /\ ReadIsLatest(r)'
      BY <2>1, <3>2, <3>4, <3>5 DEF OneWorks, WorkedOnIsSent, ReadIsLatest
    <3>7. CASE o = "sent"
      <4>1. registered'[r] \in acceptedGens'[r]
        BY <2>1, <2>3, <3>2, <3>7 DEF TypeOK
      <4>. QED  BY <3>6, <4>1 DEF SentIsAccepted, SentIsCarried
    <3>8. CASE o \in {"gone", "failed"}
      <4>1. Carries(d, r)'
        BY <2>1, <3>1, <3>8 DEF Carries
      <4>2. SentIsAccepted(r)'
        BY <3>1, <3>4, <3>8 DEF SentIsAccepted, Busy
      <4>. QED  BY <3>6, <4>1, <4>2 DEF SentIsCarried
    <3>. QED  BY <2>1, <3>7, <3>8
  <2>. QED  BY <2>2, <2>3
<1>7. CASE GatherOutcomes(d)
  <2>1. /\ run'[d].pc = "apply" /\ run[d].pc = "sending"
        /\ run'[d].batch = run[d].batch /\ run'[d].outcome = run[d].outcome
        /\ run'[d].payload = run[d].payload
        /\ With(d, "sending") = {}
        /\ With(d, "gone") # {} => "removeGone" \in run'[d].writes
        /\ With(d, "failed") # {} => "incrementFailures" \in run'[d].writes
        /\ rows' = rows /\ UNCHANGED history
    BY <1>0, <1>7 DEF GatherOutcomes, Run
  <2>2. /\ run[d].outcome[r] = "gone" => "removeGone" \in run'[d].writes
        /\ run[d].outcome[r] = "failed" => "incrementFailures" \in run'[d].writes
    BY <2>1 DEF With
  <2>3. run[d].outcome[r] # "sending"
    BY <2>1 DEF With
  <2>4. Busy(d, r)' => Busy(d, r)
    BY <2>1 DEF Busy, InFlight
  <2>5. HasRead(d, r)' <=> HasRead(d, r)
    BY <2>1, <2>3 DEF HasRead
  <2>6. Carries(d, r) => Carries(d, r)'
    BY <2>1, <2>2, <2>5 DEF Carries
  <2>. QED  BY <1>1, <2>1, <2>4, <2>5, <2>6
\* The writes of a chunk: what they do not settle, they leave to be carried.
<1>8. ASSUME NEW w \in Writes, run' = [run EXCEPT ![d].writes = @ \ {w}]
      PROVE  /\ run'[d].pc = run[d].pc /\ run'[d].batch = run[d].batch
             /\ run'[d].outcome = run[d].outcome /\ run'[d].payload = run[d].payload
             /\ run'[d].exceeded = run[d].exceeded
             /\ run'[d].writes = run[d].writes \ {w}
             /\ Busy(d, r)' <=> Busy(d, r)
             /\ HasRead(d, r)' <=> HasRead(d, r)
  <2>1. /\ run'[d].pc = run[d].pc /\ run'[d].batch = run[d].batch
        /\ run'[d].outcome = run[d].outcome /\ run'[d].payload = run[d].payload
        /\ run'[d].exceeded = run[d].exceeded
        /\ run'[d].writes = run[d].writes \ {w}
    BY <1>0, <1>8 DEF Run
  <2>. QED  BY <2>1 DEF Busy, InFlight, HasRead
<1>9. CASE MarkSentBatch(d)
  <2>1. /\ run' = [run EXCEPT ![d].writes = @ \ {"markSent"}] /\ "markSent" \in Writes
        /\ UNCHANGED history
    BY <1>9 DEF MarkSentBatch, Done, Writes
  <2>2. Carries(d, r) => Carries(d, r)'
    BY <1>8, <2>1 DEF Carries
  <2>3. Calm(r)' => Calm(r) /\ rows'[r].sent = rows[r].sent
    <3>1. CASE r \in With(d, "sent") /\ Calm(r)
      <4>1. Busy(d, r)
        BY <3>1 DEF With, Busy
      <4>2. rows[r].sent
        BY <3>1, <4>1 DEF Tended, WorkedOnIsSent
      <4>. QED  BY <1>9, <3>1, <4>2 DEF MarkSentBatch, SetSent, TypeOK, Row
    <3>2. CASE r \notin With(d, "sent")
      BY <1>9, <2>1, <3>2 DEF MarkSentBatch, SetSent, Calm
    <3>3. ~Calm(r) => ~Calm(r)'
      BY <1>9, <2>1 DEF MarkSentBatch, SetSent, Calm
    <3>. QED  BY <3>1, <3>2, <3>3
  <2>4. /\ run'[d].outcome = run[d].outcome /\ run'[d].payload = run[d].payload
        /\ Busy(d, r)' <=> Busy(d, r)
        /\ HasRead(d, r)' <=> HasRead(d, r)
    BY <1>8, <2>1
  <2>. QED  BY <1>0, <2>1, <2>2, <2>3, <2>4, QuietDispatch
<1>10. CASE ResetFailureCountBatch(d)
  <2>1. /\ run' = [run EXCEPT ![d].writes = @ \ {"resetFailures"}]
        /\ "resetFailures" \in Writes /\ rows' = rows /\ UNCHANGED history
    BY <1>10 DEF ResetFailureCountBatch, Done, Writes
  <2>2. Carries(d, r) => Carries(d, r)'
    BY <1>8, <2>1 DEF Carries
  <2>. QED  BY <1>1, <1>8, <2>1, <2>2
<1>11. CASE ApplyGoneOutcomes(d)
  <2>1. /\ run' = [run EXCEPT ![d].writes = @ \ {"removeGone"}]
        /\ "removeGone" \in Writes /\ UNCHANGED history
        /\ rows'[r] = IF SubscriptionOf(r) \in SubscriptionsOf(With(d, "gone"))
                      THEN Absent ELSE rows[r]
    BY <1>11 DEF ApplyGoneOutcomes, RemoveWithDependentRequests, Done, Writes
  <2>2. Calm(r)' => Calm(r) /\ rows'[r] = rows[r] /\ run[d].outcome[r] # "gone"
    BY <2>1 DEF Calm, SubscriptionsOf, With
  <2>3. Calm(r)' /\ Carries(d, r) => Carries(d, r)'
    BY <1>8, <2>1, <2>2 DEF Carries
  <2>4. /\ run'[d].outcome = run[d].outcome /\ run'[d].payload = run[d].payload
        /\ Busy(d, r)' <=> Busy(d, r)
        /\ HasRead(d, r)' <=> HasRead(d, r)
    BY <1>8, <2>1
  <2>. QED  BY <1>0, <2>1, <2>2, <2>3, <2>4, QuietDispatch
<1>12. CASE IncrementFailureCountBatch(d)
  <2>1. PICK e \in SUBSET Subscriptions :
          LET retry == {q \in With(d, "failed") : SubscriptionOf(q) \notin e} IN
          run' = [run EXCEPT ![d].exceeded = e,
                     ![d].writes = (@ \ {"incrementFailures"})
                        \cup (IF e = {} THEN {} ELSE {"removeExceeded"})
                        \cup (IF retry = {} THEN {} ELSE {"releaseClaims"})]
    <3>. DEFINE failed == With(d, "failed")
                hit == {s \in SubscriptionsOf(failed) : Subscribed(s)}
                e == {s \in hit : HasExceededFailureLimit(Incremented(s))}
    <3>1. e \in SUBSET Subscriptions
      BY DEF With, SubscriptionsOf, SubscriptionOf, Requests
    <3>2. LET retry == {q \in With(d, "failed") : SubscriptionOf(q) \notin e} IN
          run' = [run EXCEPT ![d].exceeded = e,
                     ![d].writes = (@ \ {"incrementFailures"})
                        \cup (IF e = {} THEN {} ELSE {"removeExceeded"})
                        \cup (IF retry = {} THEN {} ELSE {"releaseClaims"})]
      BY <1>12 DEF IncrementFailureCountBatch
    <3>. HIDE DEF e
    <3>. QED  BY <3>1, <3>2
  <2>2. /\ run'[d].pc = run[d].pc /\ run'[d].batch = run[d].batch
        /\ run'[d].outcome = run[d].outcome /\ run'[d].payload = run[d].payload
        /\ run'[d].exceeded = e
        /\ run[d].writes \ {"incrementFailures"} \subseteq run'[d].writes
        /\ e # {} => "removeExceeded" \in run'[d].writes
        /\ {q \in With(d, "failed") : SubscriptionOf(q) \notin e} # {} =>
               "releaseClaims" \in run'[d].writes
        /\ run[d].pc = "apply" /\ rows' = rows /\ UNCHANGED history
    BY <1>0, <1>12, <2>1 DEF IncrementFailureCountBatch, Applying, Run
  <2>3. run[d].outcome[r] = "failed" =>
            \/ SubscriptionOf(r) \in e /\ "removeExceeded" \in run'[d].writes
            \/ SubscriptionOf(r) \notin e /\ "releaseClaims" \in run'[d].writes
    BY <2>2 DEF With
  <2>. QED  BY <1>1, <2>2, <2>3 DEF Busy, InFlight, HasRead, Carries
<1>13. CASE RemoveExceeded(d)
  <2>1. /\ run' = [run EXCEPT ![d].writes = @ \ {"removeExceeded"}]
        /\ "removeExceeded" \in Writes /\ UNCHANGED history
        /\ rows'[r] = IF SubscriptionOf(r) \in run[d].exceeded
                      THEN Absent ELSE rows[r]
    BY <1>13 DEF RemoveExceeded, RemoveWithDependentRequests, Writes
  <2>2. Calm(r)' => Calm(r) /\ rows'[r] = rows[r]
                    /\ SubscriptionOf(r) \notin run[d].exceeded
    BY <2>1 DEF Calm
  <2>3. Calm(r)' /\ Carries(d, r) => Carries(d, r)'
    BY <1>8, <2>1, <2>2 DEF Carries
  <2>4. /\ run'[d].outcome = run[d].outcome /\ run'[d].payload = run[d].payload
        /\ Busy(d, r)' <=> Busy(d, r)
        /\ HasRead(d, r)' <=> HasRead(d, r)
    BY <1>8, <2>1
  <2>. QED  BY <1>0, <2>1, <2>2, <2>3, <2>4, QuietDispatch
<1>14. CASE ReleaseClaimBatch(d)
  <2>1. /\ run[d].pc = "apply" /\ run'[d].pc = "apply"
        /\ run'[d].batch = run[d].batch /\ run'[d].payload = run[d].payload
        /\ run'[d].exceeded = run[d].exceeded
        /\ run'[d].writes = run[d].writes \ {"releaseClaims"}
        /\ run'[d].outcome[r] =
              IF r \in Retry(d) THEN "none" ELSE run[d].outcome[r]
        /\ rows'[r] = IF r \in Retry(d) /\ rows[r] # Absent
                      THEN [rows[r] EXCEPT !.sent = FALSE] ELSE rows[r]
        /\ UNCHANGED history
    BY <1>0, <1>14 DEF ReleaseClaimBatch, Applying, SetSent, Run
  <2>2. CASE r \notin Retry(d)
    <3>1. run[d].outcome[r] = "failed" => SubscriptionOf(r) \in run[d].exceeded
      BY <2>2 DEF Retry, With
    <3>2. /\ Busy(d, r)' <=> Busy(d, r)
          /\ HasRead(d, r)' <=> HasRead(d, r)
          /\ Carries(d, r) => Carries(d, r)'
      BY <2>1, <2>2, <3>1 DEF Busy, InFlight, HasRead, Carries
    <3>. QED  BY <1>0, <2>1, <2>2, <3>2, QuietDispatch DEF Calm
  <2>3. CASE r \in Retry(d)
    <3>0. SUFFICES ASSUME Calm(r)
                   PROVE  (OneWorks(r) /\ WorkedOnIsSent(r) /\ ReadIsLatest(r)
                           /\ SentIsAccepted(r) /\ SentIsCarried(r))'
      BY <2>1 DEF Tended, Calm
    <3>1. run[d].outcome[r] = "failed" /\ r \notin run[d].batch
      BY <2>3 DEF Retry, With, TypeOK
    <3>2. \A e \in Dispatchers : e # d => ~Busy(e, r)
      BY <3>0, <3>1 DEF Tended, OneWorks, Busy
    <3>3. \A e \in Dispatchers : ~Busy(e, r)'
      <4>1. ~Busy(d, r)'
        BY <2>1, <2>3, <3>1 DEF Busy, InFlight
      <4>. QED  BY <1>0, <3>2, <4>1 DEF Busy, InFlight
    <3>4. \A e \in Dispatchers : ~HasRead(e, r)' /\ run'[e].outcome[r] # "sent"
      BY <3>3 DEF Busy, InFlight, HasRead
    <3>5. ~rows'[r].sent
      BY <2>1, <2>3, <3>0 DEF Calm, TypeOK, Row
    <3>. QED  BY <3>3, <3>4, <3>5 DEF OneWorks, WorkedOnIsSent, ReadIsLatest,
         SentIsAccepted, SentIsCarried
  <2>. QED  BY <2>2, <2>3
<1>15. CASE EndChunk(d)
  <2>1. /\ run[d].pc = "apply" /\ run[d].writes = {} /\ run'[d].pc = "send"
        /\ run'[d].batch = run[d].batch /\ run'[d].outcome[r] = "none"
        /\ run'[d].payload = run[d].payload
        /\ rows' = rows /\ UNCHANGED history
    BY <1>0, <1>15 DEF EndChunk, Idle, Run
  <2>. QED  BY <1>1, <2>1 DEF Busy, InFlight, HasRead, Carries
<1>16. CASE PurgeOld(d)
  <2>1. /\ run[d].pc = "send" /\ run[d].batch = {} /\ run[d].outcome[r] = "none"
        /\ run'[d] = Idle /\ UNCHANGED history
        /\ rows'[r] = rows[r] \/ rows'[r] = Absent
    BY <1>0, <1>16 DEF PurgeOld, OutcomesFresh
  <2>2. ~Busy(d, r)' /\ ~HasRead(d, r)' /\ run'[d].outcome[r] = "none"
        /\ ~Carries(d, r)
    BY <2>1 DEF Idle, Busy, InFlight, HasRead, Carries
  <2>. QED  BY <1>0, <2>1, <2>2, QuietDispatch DEF Calm
<1>17. CASE Crash(d)
  <2>1. /\ run'[d] = Idle /\ UNCHANGED <<rows, registered, acceptedGens>>
        /\ disturbed' = disturbed \cup {q \in Requests : Busy(d, q)}
    BY <1>0, <1>17 DEF Crash
  <2>2. CASE Busy(d, r)
    BY <2>1, <2>2 DEF Tended, Calm
  <2>3. CASE ~Busy(d, r)
    <3>1. ~Busy(d, r)' /\ ~HasRead(d, r)' /\ run'[d].outcome[r] = "none"
      BY <2>1 DEF Idle, Busy, InFlight, HasRead
    <3>2. ~Carries(d, r)
      BY <2>3, CarryingIsBusy
    <3>. QED  BY <1>0, <2>1, <3>1, <3>2, QuietDispatch DEF Calm
  <2>. QED  BY <2>2, <2>3
<1>. QED
  BY <1>2, <1>3, <1>4, <1>5, <1>6, <1>7, <1>9, <1>10, <1>11, <1>12, <1>13, <1>14,
     <1>15, <1>16, <1>17 DEF Continue

\* A row marked sent that no dispatch works on was sent with its latest content,
\* unless it was registered over a dispatch at work, claimed without its
\* subscription or claimed by a dispatch that died (SettledMeansSent).
THEOREM SettledWasSent == Spec => []SettledMeansSent
<1>. DEFINE AllTended == \A r \in Requests : Tended(r)
<1>1. Init => OutcomesFresh /\ AllTended
  BY DEF Init, Idle, OutcomesFresh, Tended, Calm
<1>2. TypeOK /\ OutcomesFresh /\ AllTended /\ [Next]_vars
          => OutcomesFresh' /\ AllTended'
  <2>. SUFFICES ASSUME TypeOK, OutcomesFresh, AllTended, [Next]_vars
                PROVE  OutcomesFresh' /\ AllTended'
    OBVIOUS
  <2>1. OutcomesFresh'
    BY FreshStep
  <2>2. ASSUME NEW r \in Requests PROVE Tended(r)'
    <3>1. CASE User \/ Tick \/ UNCHANGED vars
      BY <3>1, UsersTend
    <3>2. ASSUME NEW d \in Dispatchers,
                 SelectDueCandidateIds(d) \/ Continue(d) \/ Crash(d)
          PROVE  Tended(r)'
      BY <3>2, DispatchTends
    <3>. QED  BY <3>1, <3>2 DEF Next
  <2>. QED  BY <2>1, <2>2
<1>3. AllTended => SettledMeansSent
  <2>. SUFFICES ASSUME AllTended, NEW r \in Requests, Settled(r), r \notin disturbed
                PROVE  registered[r] \in acceptedGens[r]
    BY DEF SettledMeansSent
  <2>1. \A d \in Dispatchers : ~Carries(d, r)
    BY CarryingIsBusy DEF Settled
  <2>. QED  BY <2>1 DEF Settled, Tended, Calm, SentIsCarried
<1>. QED  BY <1>1, <1>2, <1>3, TypeCorrect, PTL DEF Spec

-----------------------------------------------------------------------------
(* Subscriptions at the failure limit.  A dispatch that takes one there has  *)
(* its deletion among its writes until it is done, since a chunk counts its  *)
(* failures once.                                                            *)

\* Failures are counted before anything is removed for them.
CountsFirst ==
    \A d \in Dispatchers : "incrementFailures" \in run[d].writes =>
                               "removeExceeded" \notin run[d].writes

Purging(d, s) == s \in run[d].exceeded /\ Applying(d, "removeExceeded")

LEMMA ExceededByAnyone ==
  ExceededIsBeingPurged <=>
      \A s \in Subscriptions :
          Subscribed(s) /\ subscriptions[s] >= MaxFailures =>
              \E d \in Dispatchers : Purging(d, s)
BY DEF ExceededIsBeingPurged, Purging

\* No count that was not there before, and no purge given up.
LEMMA QuietCounts ==
  ASSUME ExceededIsBeingPurged,
         \A s \in Subscriptions :
             Subscribed(s)' /\ subscriptions'[s] >= MaxFailures =>
                 /\ Subscribed(s) /\ subscriptions[s] >= MaxFailures
                 /\ \A d \in Dispatchers : Purging(d, s) => Purging(d, s)'
  PROVE  ExceededIsBeingPurged'
BY ExceededByAnyone DEF ExceededIsBeingPurged, Purging

LEMMA ExceededStep ==
  ASSUME ~Crashes, MaxFailures > 0, TypeOK, CountsFirst, ExceededIsBeingPurged,
         [Next]_vars
  PROVE  CountsFirst' /\ ExceededIsBeingPurged'
<1>. USE DEF history
<1>0. /\ run \in [Dispatchers -> Run]
      /\ subscriptions \in [Subscriptions -> (0..FailureCap) \cup {Absent}]
      /\ MaxFailures \in Nat /\ FailureCap \in Nat /\ MaxFailures <= FailureCap
  BY ConstantsAssumption DEF TypeOK
<1>1. ASSUME run' = run,
             \A s \in Subscriptions :
                 subscriptions'[s] = subscriptions[s] \/ ~Subscribed(s)'
                 \/ subscriptions'[s] = 0
      PROVE  CountsFirst' /\ ExceededIsBeingPurged'
  <2>1. CountsFirst'
    BY <1>1 DEF CountsFirst
  <2>2. \A s \in Subscriptions :
            Subscribed(s)' /\ subscriptions'[s] >= MaxFailures =>
                Subscribed(s) /\ subscriptions[s] >= MaxFailures
    BY <1>0, <1>1 DEF Subscribed
  <2>3. ExceededIsBeingPurged'
    BY <1>1, <2>2, QuietCounts DEF Purging, Applying
  <2>. QED  BY <2>1, <2>3
<1>2. CASE User \/ Tick \/ UNCHANGED vars
  <2>1. ASSUME NEW s \in Subscriptions, UpsertSubscription(s) \/ RemoveSubscription(s)
        PROVE  CountsFirst' /\ ExceededIsBeingPurged'
    BY <1>0, <1>1, <2>1 DEF UpsertSubscription, RemoveSubscription,
       RemoveWithDependentRequests, Subscribed
  <2>2. CASE UNCHANGED <<subscriptions, run>>
    BY <1>1, <2>2
  <2>3. ASSUME NEW r \in Requests,
               (\E t \in FireTimes : UpsertRequest(r, t)) \/ RemoveRequest(r)
        PROVE  UNCHANGED <<subscriptions, run>>
    BY <2>3 DEF UpsertRequest, RemoveRequest
  <2>4. CASE Tick \/ UNCHANGED vars
    BY <2>2, <2>4 DEF Tick, vars
  <2>. QED  BY <1>2, <2>1, <2>2, <2>3, <2>4 DEF User
<1>3. ASSUME NEW d \in Dispatchers, SelectDueCandidateIds(d) \/ Continue(d)
      PROVE  CountsFirst' /\ ExceededIsBeingPurged'
  <2>0. /\ run[d] \in Run /\ \A e \in Dispatchers : e # d => run'[e] = run[e]
    BY <1>0, <1>3, OthersKeep
  <2>1. \A e \in Dispatchers, s \in Subscriptions :
            e # d /\ Purging(e, s) => Purging(e, s)'
    BY <2>0 DEF Purging, Applying
  \* Steps that count nothing and remove nothing.
  <2>2. ASSUME "incrementFailures" \in run'[d].writes =>
                   "removeExceeded" \notin run'[d].writes
        PROVE  CountsFirst'
    BY <2>0, <2>2 DEF CountsFirst
  <2>3. ASSUME \A s \in Subscriptions :
                   Subscribed(s)' /\ subscriptions'[s] >= MaxFailures =>
                       /\ Subscribed(s) /\ subscriptions[s] >= MaxFailures
                       /\ Purging(d, s) => Purging(d, s)'
        PROVE  ExceededIsBeingPurged'
    BY <2>1, <2>3, QuietCounts
  <2>4. ASSUME subscriptions' = subscriptions,
               \A s \in Subscriptions : ~Purging(d, s),
               run'[d].writes \subseteq {"markSent", "resetFailures", "removeGone",
                                         "incrementFailures"}
                   \/ run'[d].writes = run[d].writes
        PROVE  CountsFirst' /\ ExceededIsBeingPurged'
    <3>1. CountsFirst'
      BY <2>2, <2>4 DEF CountsFirst
    <3>2. ExceededIsBeingPurged'
      BY <2>3, <2>4 DEF Subscribed
    <3>. QED  BY <3>1, <3>2
  <2>5. CASE SelectDueCandidateIds(d)
    <3>1. run'[d].writes = {} /\ subscriptions' = subscriptions
      <4>1. PICK ids \in DueCandidates(now) :
              run' = [run EXCEPT ![d] = [Idle EXCEPT !.pc = "claim", !.clock = now,
                                                     !.batch = ids]]
        BY <2>5, Zenon DEF SelectDueCandidateIds
      <4>2. run'[d].writes = {}
        BY <1>0, <4>1 DEF Idle
      <4>. QED  BY <2>5, <4>2, Zenon DEF SelectDueCandidateIds
    <3>2. \A s \in Subscriptions : ~Purging(d, s)
      BY <2>5 DEF SelectDueCandidateIds, Purging, Applying
    <3>. QED  BY <2>4, <3>1, <3>2
  <2>6. CASE ClaimDueIds(d) \/ FetchClaimedRecords(d) \/ BeginChunk(d)
             \/ (\E r \in Requests, o \in Outcomes : SendOne(d, r, o))
    <3>1. run[d].pc # "apply" /\ subscriptions' = subscriptions
      BY <2>6 DEF ClaimDueIds, FetchClaimedRecords, BeginChunk, SendOne
    <3>2. run'[d].writes = run[d].writes
      <4>1. CASE ClaimDueIds(d)
        BY <1>0, <2>0, <4>1 DEF ClaimDueIds, Run
      <4>2. CASE FetchClaimedRecords(d)
        BY <1>0, <2>0, <4>2 DEF FetchClaimedRecords, Run
      <4>3. CASE BeginChunk(d)
        BY <1>0, <2>0, <4>3 DEF BeginChunk, Run
      <4>4. ASSUME NEW r \in Requests, NEW o \in Outcomes, SendOne(d, r, o)
            PROVE  run'[d].writes = run[d].writes
        BY <1>0, <2>0, <4>4 DEF SendOne, Run
      <4>. QED  BY <2>6, <4>1, <4>2, <4>3, <4>4
    <3>. QED  BY <2>4, <3>1, <3>2 DEF Purging, Applying
  <2>7. CASE GatherOutcomes(d)
    <3>1. /\ run[d].pc # "apply" /\ subscriptions' = subscriptions
          /\ run'[d].writes \subseteq {"markSent", "resetFailures", "removeGone",
                                       "incrementFailures"}
      BY <1>0, <2>0, <2>7 DEF GatherOutcomes, Run
    <3>. QED  BY <2>4, <3>1 DEF Purging, Applying
  \* A write of the chunk other than the counting.
  <2>8. ASSUME NEW w \in Writes, w # "removeExceeded",
               run[d].pc = "apply", run'[d].pc = "apply",
               run'[d].exceeded = run[d].exceeded,
               run'[d].writes = run[d].writes \ {w},
               \A s \in Subscriptions :
                   subscriptions'[s] = subscriptions[s] \/ ~Subscribed(s)'
                   \/ subscriptions'[s] = 0
        PROVE  CountsFirst' /\ ExceededIsBeingPurged'
    <3>1. CountsFirst'
      BY <2>2, <2>8 DEF CountsFirst
    <3>2. \A s \in Subscriptions : Purging(d, s) => Purging(d, s)'
      BY <2>8 DEF Purging, Applying
    <3>3. \A s \in Subscriptions :
              Subscribed(s)' /\ subscriptions'[s] >= MaxFailures =>
                  Subscribed(s) /\ subscriptions[s] >= MaxFailures
      BY <1>0, <2>8 DEF Subscribed
    <3>. QED  BY <2>3, <3>1, <3>2, <3>3
  <2>9. CASE MarkSentBatch(d) \/ ResetFailureCountBatch(d) \/ ApplyGoneOutcomes(d)
    <3>1. PICK w \in Writes : /\ w # "removeExceeded"
                              /\ run' = [run EXCEPT ![d].writes = @ \ {w}]
      BY <2>9 DEF MarkSentBatch, ResetFailureCountBatch, ApplyGoneOutcomes, Done,
         Writes
    <3>2. run[d].pc = "apply"
      BY <2>9 DEF MarkSentBatch, ResetFailureCountBatch, ApplyGoneOutcomes, Applying
    <3>3. /\ run'[d].pc = "apply" /\ run'[d].exceeded = run[d].exceeded
          /\ run'[d].writes = run[d].writes \ {w}
      BY <1>0, <2>0, <3>1, <3>2 DEF Run
    <3>4. \A s \in Subscriptions :
              subscriptions'[s] = subscriptions[s] \/ ~Subscribed(s)'
              \/ subscriptions'[s] = 0
      BY <2>9 DEF MarkSentBatch, ResetFailureCountBatch, ApplyGoneOutcomes,
         RemoveWithDependentRequests, Subscribed
    <3>. QED  BY <2>8, <3>1, <3>2, <3>3, <3>4
  <2>10. CASE ReleaseClaimBatch(d)
    <3>1. /\ run[d].pc = "apply" /\ run'[d].pc = "apply"
          /\ run'[d].exceeded = run[d].exceeded
          /\ run'[d].writes = run[d].writes \ {"releaseClaims"}
          /\ subscriptions' = subscriptions
      BY <1>0, <2>0, <2>10 DEF ReleaseClaimBatch, Applying, Run
    <3>. QED  BY <2>8, <3>1 DEF Writes
  <2>11. CASE RemoveExceeded(d)
    <3>1. /\ run[d].pc = "apply"
          /\ run'[d].writes = run[d].writes \ {"removeExceeded"}
          /\ \A s \in Subscriptions :
                 subscriptions'[s] = IF s \in run[d].exceeded THEN Absent
                                     ELSE subscriptions[s]
      BY <1>0, <2>0, <2>11 DEF RemoveExceeded, Applying,
         RemoveWithDependentRequests, Run
    <3>2. ExceededIsBeingPurged'
      BY <2>3, <3>1 DEF Subscribed, Purging
    <3>. QED  BY <2>2, <3>1, <3>2 DEF CountsFirst
  <2>12. CASE IncrementFailureCountBatch(d)
    <3>. DEFINE failed == With(d, "failed")
                hit == {s \in SubscriptionsOf(failed) : Subscribed(s)}
                exceeded == {s \in hit : HasExceededFailureLimit(Incremented(s))}
                retry == {r \in failed : SubscriptionOf(r) \notin exceeded}
    <3>1. /\ Applying(d, "incrementFailures")
          /\ subscriptions' = [s \in Subscriptions |->
                 IF s \in hit THEN Incremented(s) ELSE subscriptions[s]]
          /\ run' = [run EXCEPT ![d].exceeded = exceeded,
                        ![d].writes = (@ \ {"incrementFailures"})
                           \cup (IF exceeded = {} THEN {} ELSE {"removeExceeded"})
                           \cup (IF retry = {} THEN {} ELSE {"releaseClaims"})]
      BY <2>12 DEF IncrementFailureCountBatch
    <3>2. \A s \in hit : HasExceededFailureLimit(Incremented(s)) =>
              s \in exceeded
      OBVIOUS
    <3>3. \A s \in hit : Incremented(s) >= MaxFailures => s \in exceeded
      BY <3>2 DEF HasExceededFailureLimit
    <3>. HIDE DEF hit, exceeded, retry
    <3>4. /\ run[d].pc = "apply" /\ run'[d].pc = "apply"
          /\ run'[d].exceeded = exceeded
          /\ "incrementFailures" \notin run'[d].writes
          /\ exceeded # {} => "removeExceeded" \in run'[d].writes
      BY <1>0, <2>0, <3>1 DEF Applying, Run
    <3>5. \A s \in Subscriptions : ~Purging(d, s)
      BY <3>1 DEF CountsFirst, Applying, Purging
    <3>6. \A s \in exceeded : Purging(d, s)'
      BY <3>4 DEF Purging, Applying
    <3>7. ASSUME NEW s \in Subscriptions, Subscribed(s)',
                 subscriptions'[s] >= MaxFailures
          PROVE  \E e \in Dispatchers : Purging(e, s)'
      <4>1. CASE s \in hit
        BY <3>1, <3>3, <3>6, <3>7, <4>1
      <4>2. CASE s \notin hit
        <5>1. Subscribed(s) /\ subscriptions[s] >= MaxFailures
          BY <3>1, <3>7, <4>2 DEF Subscribed
        <5>2. PICK e \in Dispatchers : Purging(e, s)
          BY <5>1, ExceededByAnyone
        <5>. QED  BY <2>1, <3>5, <5>2
      <4>. QED  BY <4>1, <4>2
    <3>8. ExceededIsBeingPurged'
      BY <3>7 DEF ExceededIsBeingPurged, Purging
    <3>. QED  BY <2>2, <3>4, <3>8
  <2>13. CASE EndChunk(d)
    <3>1. /\ run[d].writes = {} /\ run'[d].writes = run[d].writes
          /\ subscriptions' = subscriptions
      BY <1>0, <2>0, <2>13 DEF EndChunk, Run
    <3>. QED  BY <2>4, <3>1 DEF Purging, Applying
  <2>14. CASE PurgeOld(d)
    <3>1. run[d].pc = "send" /\ run'[d].writes = {} /\ subscriptions' = subscriptions
      BY <1>0, <2>14 DEF PurgeOld, Idle
    <3>. QED  BY <2>4, <3>1 DEF Purging, Applying
  <2>. QED
    BY <1>3, <2>5, <2>6, <2>7, <2>9, <2>10, <2>11, <2>12, <2>13, <2>14 DEF Continue
<1>. QED  BY <1>2, <1>3 DEF Next, Crash

\* As long as no dispatch dies, a subscription at the failure limit is about to
\* be deleted by a dispatch (ExceededIsBeingPurged).
THEOREM ExceededArePurged ==
  ASSUME ~Crashes, MaxFailures > 0
  PROVE  Spec => []ExceededIsBeingPurged
<1>1. Init => CountsFirst /\ ExceededIsBeingPurged
  BY DEF Init, Idle, CountsFirst, ExceededIsBeingPurged, Subscribed
<1>2. TypeOK /\ CountsFirst /\ ExceededIsBeingPurged /\ [Next]_vars
          => CountsFirst' /\ ExceededIsBeingPurged'
  BY ExceededStep
<1>. QED  BY <1>1, <1>2, TypeCorrect, PTL DEF Spec
=============================================================================
