---------------------------- MODULE PushDispatch ----------------------------
(***************************************************************************)
(* Delivery of Web Push notifications (packages/api): the two D1 tables    *)
(* push_subscription and push_notification_request, the requests of the    *)
(* users, and PushUsecase.dispatchDue run by any number of overlapping     *)
(* callers (the minute cron and POST /push/dispatch).  A D1 statement or a *)
(* D1 batch is one atomic step; everything the code awaits between two of  *)
(* them is a point where the other actors may run.                         *)
(***************************************************************************)
EXTENDS Naturals, FiniteSets

CONSTANTS
    Subscriptions,      \* push_subscription ids (hash of the endpoint)
    Races,              \* race ids
    Dispatchers,        \* concurrent calls of dispatchDue
    FireTimes,          \* fire times a user may ask for
    Limit,              \* DISPATCH_BATCH_LIMIT
    ChunkSize,          \* DISPATCH_CONCURRENCY
    MaxFailures,        \* MAX_CONSECUTIVE_FAILURES
    Retention,          \* OLD_REQUEST_RETENTION_MS
    FailureCap,         \* bound: failure counts saturate here
    MaxNow,             \* bound: the clock stops here
    MaxRegistrations,   \* bound: registrations of one request
    Crashes,            \* TRUE: a dispatch may die at any await
    Absent              \* no row

Requests == Subscriptions \X Races
SubscriptionOf(r) == r[1]

Row == [fireAt : Nat, sent : BOOLEAN]
Outcomes == {"none", "sending", "sent", "gone", "failed"}
Writes == {"markSent", "resetFailures", "removeGone", "incrementFailures",
           "removeExceeded", "releaseClaims"}
Run == [pc : {"idle", "claim", "fetch", "send", "sending", "apply"},
        clock : Nat,
        batch : SUBSET Requests,
        outcome : [Requests -> Outcomes],
        writes : SUBSET Writes,
        exceeded : SUBSET Subscriptions,
        payload : [Requests -> Nat]]

ASSUME ConstantsAssumption ==
    /\ IsFiniteSet(Dispatchers)
    /\ IsFiniteSet(Subscriptions) /\ IsFiniteSet(Races)
    /\ FireTimes \subseteq Nat
    /\ {Limit, ChunkSize, MaxFailures, Retention, FailureCap, MaxNow,
        MaxRegistrations} \subseteq Nat
    /\ Limit > 0 /\ ChunkSize > 0 /\ MaxFailures <= FailureCap
    /\ Crashes \in BOOLEAN
    /\ Absent \notin Row \cup Nat

VARIABLES
    now,                \* the clock
    subscriptions,      \* push_subscription: failureCount, or Absent
    rows,               \* push_notification_request, or Absent
    run,                \* the local state of each dispatch
    registered,         \* history: registrations of each request
    accepted,           \* history: pushes of it the provider accepted
    acceptedGens,       \* history: registrations whose content was accepted
    disturbed           \* history: requests whose claim went astray

history == <<registered, accepted, acceptedGens, disturbed>>
vars == <<now, subscriptions, rows, run, history>>

Idle == [pc |-> "idle", clock |-> 0, batch |-> {},
         outcome |-> [r \in Requests |-> "none"], writes |-> {},
         exceeded |-> {}, payload |-> [r \in Requests |-> 0]]

Init ==
    /\ now = 0
    /\ subscriptions = [s \in Subscriptions |-> Absent]
    /\ rows = [r \in Requests |-> Absent]
    /\ run = [d \in Dispatchers |-> Idle]
    /\ registered = [r \in Requests |-> 0]
    /\ accepted = [r \in Requests |-> 0]
    /\ acceptedGens = [r \in Requests |-> {}]
    /\ disturbed = {}

-----------------------------------------------------------------------------
Subscribed(s) == subscriptions[s] # Absent
Unsent(r) == rows[r] # Absent /\ ~rows[r].sent
With(d, o) == {r \in Requests : run[d].outcome[r] = o}
SubscriptionsOf(R) == {SubscriptionOf(r) : r \in R}

\* Dispatch d owns a claim on r that it has neither delivered nor given up.
InFlight(d, r) ==
    /\ run[d].pc \in {"fetch", "send", "sending", "apply"}
    /\ r \in run[d].batch \/ run[d].outcome[r] \in {"sending", "failed"}

\* Dispatch d may still write to the row of r.
Busy(d, r) == InFlight(d, r) \/ run[d].outcome[r] # "none"

\* delete(...).where(inArray(subscriptionId, S)) and its subscriptions, in one
\* D1 batch.
RemoveWithDependentRequests(S) ==
    /\ subscriptions' = [s \in Subscriptions |->
                            IF s \in S THEN Absent ELSE subscriptions[s]]
    /\ rows' = [r \in Requests |->
                   IF SubscriptionOf(r) \in S THEN Absent ELSE rows[r]]

\* update(...).set({ sentAt }).where(inArray(id, R)): absent rows are not hit.
SetSent(R, value) ==
    rows' = [r \in Requests |->
                IF r \in R /\ rows[r] # Absent
                THEN [rows[r] EXCEPT !.sent = value] ELSE rows[r]]

-----------------------------------------------------------------------------
(* The users' requests. *)

UpsertSubscription(s) ==
    /\ ~Subscribed(s)          \* on a known row the failure count is kept
    /\ subscriptions' = [subscriptions EXCEPT ![s] = 0]
    /\ UNCHANGED <<now, rows, run, history>>

\* removeSubscription; sendTest and purgeStale delete through the same batch.
RemoveSubscription(s) ==
    /\ Subscribed(s)
    /\ RemoveWithDependentRequests({s})
    /\ UNCHANGED <<now, run, history>>

\* A registration that lands while a dispatch still works for an earlier one
\* may be overwritten by it.
Disturbs(r) == \E d \in Dispatchers : Busy(d, r)

\* Faulty variant: ON CONFLICT no longer sets sentAt to NULL.
UpsertRequestStillSent(r, t) ==
    /\ registered[r] < MaxRegistrations
    /\ rows' = [rows EXCEPT ![r] =
                   [fireAt |-> t, sent |-> rows[r] # Absent /\ rows[r].sent]]
    /\ registered' = [registered EXCEPT ![r] = @ + 1]
    /\ disturbed' = IF Disturbs(r) THEN disturbed \cup {r} ELSE disturbed \ {r}
    /\ UNCHANGED <<now, subscriptions, run, accepted, acceptedGens>>

UpsertRequest(r, t) ==
    /\ registered[r] < MaxRegistrations
    /\ rows' = [rows EXCEPT ![r] = [fireAt |-> t, sent |-> FALSE]]
    /\ registered' = [registered EXCEPT ![r] = @ + 1]
    /\ disturbed' = IF Disturbs(r) THEN disturbed \cup {r} ELSE disturbed \ {r}
    /\ UNCHANGED <<now, subscriptions, run, accepted, acceptedGens>>

RemoveRequest(r) ==
    /\ rows[r] # Absent
    /\ rows' = [rows EXCEPT ![r] = Absent]
    /\ UNCHANGED <<now, subscriptions, run, history>>

-----------------------------------------------------------------------------
(* dispatchDue *)

DueAt(t) == {r \in Requests : Unsent(r) /\ rows[r].fireAt <= t}

\* Faulty variant: the SELECT no longer tests sentAt IS NULL, so that requests
\* that were sent take the places of others.
DueCandidatesSentToo(t) ==
    LET due == {r \in Requests : rows[r] # Absent /\ rows[r].fireAt <= t} IN
        {ids \in SUBSET due :
            /\ Cardinality(ids) = Limit \/ (Cardinality(ids) < Limit /\ ids = due)
            /\ \A a \in ids, b \in due \ ids : rows[a].fireAt <= rows[b].fireAt}

\* ORDER BY fire_at_ms LIMIT: the earliest rows, ties broken either way.
DueCandidates(t) ==
    {ids \in SUBSET DueAt(t) :
        /\ \/ Cardinality(ids) = Limit
           \/ Cardinality(ids) < Limit /\ ids = DueAt(t)
        /\ \A a \in ids, b \in DueAt(t) \ ids : rows[a].fireAt <= rows[b].fireAt}

SelectDueCandidateIds(d) ==
    /\ run[d].pc = "idle"
    /\ \E ids \in DueCandidates(now) :
          run' = [run EXCEPT ![d] = [Idle EXCEPT !.pc = "claim", !.clock = now,
                                                 !.batch = ids]]
    /\ UNCHANGED <<now, subscriptions, rows, history>>

\* Faulty variant: the UPDATE no longer tests sentAt IS NULL.
ClaimableWithoutCas(r) == rows[r] # Absent

Claimable(r) == Unsent(r)

ClaimDueIds(d) ==
    /\ run[d].pc = "claim"
    /\ LET claimed == {r \in run[d].batch : Claimable(r)} IN
          /\ SetSent(claimed, TRUE)
          /\ run' = [run EXCEPT ![d].pc = "fetch", ![d].batch = claimed]
    /\ UNCHANGED <<now, subscriptions, history>>

\* The INNER JOIN drops claimed rows whose subscription is gone; they stay
\* claimed.  payload is the registration whose title and body were read.
FetchClaimedRecords(d) ==
    /\ run[d].pc = "fetch"
    /\ LET found == {r \in run[d].batch : rows[r] # Absent
                                          /\ Subscribed(SubscriptionOf(r))} IN
          /\ run' = [run EXCEPT ![d].pc = "send", ![d].batch = found,
                        ![d].payload = [r \in Requests |->
                            IF r \in found THEN registered[r] ELSE 0]]
          /\ disturbed' = disturbed \cup (run[d].batch \ found)
    /\ UNCHANGED <<now, subscriptions, rows, registered, accepted, acceptedGens>>

\* Faulty variant: the slices of two chunks overlap.
RestWithOverlap(batch, chunk) == batch \ (chunk \ batch)

RestOf(batch, chunk) == batch \ chunk

\* The next chunk of DISPATCH_CONCURRENCY sends starts.
BeginChunk(d) ==
    /\ run[d].pc = "send" /\ run[d].batch # {}
    /\ \E chunk \in SUBSET run[d].batch :
          /\ \/ Cardinality(chunk) = ChunkSize
             \/ Cardinality(chunk) < ChunkSize /\ chunk = run[d].batch
          /\ run' = [run EXCEPT ![d].pc = "sending", ![d].batch = RestOf(@, chunk),
                        ![d].outcome = [r \in Requests |->
                            IF r \in chunk THEN "sending" ELSE "none"]]
    /\ UNCHANGED <<now, subscriptions, rows, history>>

\* One sendOne settles.  A rejected promise counts as "failed".
SendOne(d, r, o) ==
    /\ run[d].pc = "sending" /\ run[d].outcome[r] = "sending"
    /\ o \in {"sent", "gone", "failed"}
    /\ run' = [run EXCEPT ![d].outcome[r] = o, ![d].payload[r] = 0]
    /\ IF o = "sent"
       THEN /\ accepted' = [accepted EXCEPT ![r] = @ + 1]
            /\ acceptedGens' = [acceptedGens EXCEPT ![r] = @ \cup {run[d].payload[r]}]
       ELSE UNCHANGED <<accepted, acceptedGens>>
    /\ UNCHANGED <<now, subscriptions, rows, registered, disturbed>>

\* Every send of the chunk has settled: the writes the three groups call for,
\* which Promise.all then runs in any order.
GatherOutcomes(d) ==
    /\ run[d].pc = "sending" /\ With(d, "sending") = {}
    /\ run' = [run EXCEPT ![d].pc = "apply",
                  ![d].writes =
                     (IF With(d, "sent") = {} THEN {}
                      ELSE {"markSent", "resetFailures"})
                     \cup (IF With(d, "gone") = {} THEN {} ELSE {"removeGone"})
                     \cup (IF With(d, "failed") = {} THEN {}
                           ELSE {"incrementFailures"})]
    /\ UNCHANGED <<now, subscriptions, rows, history>>

Applying(d, w) == run[d].pc = "apply" /\ w \in run[d].writes
Done(d, w) == run' = [run EXCEPT ![d].writes = @ \ {w}]

MarkSentBatch(d) ==
    /\ Applying(d, "markSent")
    /\ SetSent(With(d, "sent"), TRUE)
    /\ Done(d, "markSent")
    /\ UNCHANGED <<now, subscriptions, history>>

ResetFailureCountBatch(d) ==
    /\ Applying(d, "resetFailures")
    /\ subscriptions' = [s \in Subscriptions |->
           IF s \in SubscriptionsOf(With(d, "sent")) /\ Subscribed(s)
           THEN 0 ELSE subscriptions[s]]
    /\ Done(d, "resetFailures")
    /\ UNCHANGED <<now, rows, history>>

ApplyGoneOutcomes(d) ==
    /\ Applying(d, "removeGone")
    /\ RemoveWithDependentRequests(SubscriptionsOf(With(d, "gone")))
    /\ Done(d, "removeGone")
    /\ UNCHANGED <<now, history>>

\* Faulty variants: the limit is overshot by one; the limit is never reached.
HasExceededFailureLimitLate(count) == count > MaxFailures
NeverExceedsFailureLimit(count) == FALSE

HasExceededFailureLimit(count) == count >= MaxFailures

Incremented(s) == IF subscriptions[s] < FailureCap
                  THEN subscriptions[s] + 1 ELSE FailureCap

\* A failed send whose subscription is no longer there has no count: it is
\* retried, like one below the limit.
IncrementFailureCountBatch(d) ==
    /\ Applying(d, "incrementFailures")
    /\ LET failed == With(d, "failed")
           hit == {s \in SubscriptionsOf(failed) : Subscribed(s)}
           exceeded == {s \in hit : HasExceededFailureLimit(Incremented(s))}
           retry == {r \in failed : SubscriptionOf(r) \notin exceeded}
       IN  /\ subscriptions' = [s \in Subscriptions |->
                  IF s \in hit THEN Incremented(s) ELSE subscriptions[s]]
           /\ run' = [run EXCEPT ![d].exceeded = exceeded,
                         ![d].writes = (@ \ {"incrementFailures"})
                            \cup (IF exceeded = {} THEN {} ELSE {"removeExceeded"})
                            \cup (IF retry = {} THEN {} ELSE {"releaseClaims"})]
    /\ UNCHANGED <<now, rows, history>>

RemoveExceeded(d) ==
    /\ Applying(d, "removeExceeded")
    /\ RemoveWithDependentRequests(run[d].exceeded)
    /\ run' = [run EXCEPT ![d].writes = @ \ {"removeExceeded"}]
    /\ UNCHANGED <<now, history>>

Retry(d) == {r \in With(d, "failed") : SubscriptionOf(r) \notin run[d].exceeded}

\* Faulty variant: failed sends keep their claim.
ReleaseNothing(d) ==
    /\ Applying(d, "releaseClaims")
    /\ run' = [run EXCEPT ![d].writes = @ \ {"releaseClaims"},
                  ![d].outcome = [r \in Requests |->
                      IF r \in Retry(d) THEN "none" ELSE run[d].outcome[r]]]
    /\ UNCHANGED <<now, subscriptions, rows, history>>

\* sentAt goes back to NULL by id alone, whoever owns the claim by now.
ReleaseClaimBatch(d) ==
    /\ Applying(d, "releaseClaims")
    /\ SetSent(Retry(d), FALSE)
    /\ run' = [run EXCEPT ![d].writes = @ \ {"releaseClaims"},
                  ![d].outcome = [r \in Requests |->
                      IF r \in Retry(d) THEN "none" ELSE run[d].outcome[r]]]
    /\ UNCHANGED <<now, subscriptions, history>>

EndChunk(d) ==
    /\ run[d].pc = "apply" /\ run[d].writes = {}
    /\ run' = [run EXCEPT ![d].pc = "send", ![d].exceeded = {},
                          ![d].outcome = Idle.outcome]
    /\ UNCHANGED <<now, subscriptions, rows, history>>

\* After the last chunk; the dispatch returns.
PurgeOld(d) ==
    /\ run[d].pc = "send" /\ run[d].batch = {}
    /\ rows' = [r \in Requests |->
                   IF rows[r] # Absent /\ rows[r].fireAt + Retention < run[d].clock
                   THEN Absent ELSE rows[r]]
    /\ run' = [run EXCEPT ![d] = Idle]
    /\ UNCHANGED <<now, subscriptions, history>>

\* An await rejects (D1 error, decryptPushAuth) or the Worker is evicted: the
\* exception ends the dispatch and nothing it has claimed is given back.
Crash(d) ==
    /\ Crashes /\ run[d].pc # "idle"
    /\ run' = [run EXCEPT ![d] = Idle]
    /\ disturbed' = disturbed \cup {r \in Requests : Busy(d, r)}
    /\ UNCHANGED <<now, subscriptions, rows, registered, accepted, acceptedGens>>

Tick ==
    /\ now < MaxNow
    /\ now' = now + 1
    /\ UNCHANGED <<subscriptions, rows, run, history>>

-----------------------------------------------------------------------------
User ==
    \/ \E s \in Subscriptions : UpsertSubscription(s) \/ RemoveSubscription(s)
    \/ \E r \in Requests : \/ \E t \in FireTimes : UpsertRequest(r, t)
                           \/ RemoveRequest(r)

\* What a dispatch under way does next.
Continue(d) ==
    \/ ClaimDueIds(d) \/ FetchClaimedRecords(d) \/ BeginChunk(d)
    \/ \E r \in Requests, o \in Outcomes : SendOne(d, r, o)
    \/ GatherOutcomes(d) \/ MarkSentBatch(d) \/ ResetFailureCountBatch(d)
    \/ ApplyGoneOutcomes(d) \/ IncrementFailureCountBatch(d)
    \/ RemoveExceeded(d) \/ ReleaseClaimBatch(d) \/ EndChunk(d) \/ PurgeOld(d)

Next ==
    \/ User \/ Tick
    \/ \E d \in Dispatchers : SelectDueCandidateIds(d) \/ Continue(d) \/ Crash(d)

Spec == Init /\ [][Next]_vars

\* The cron starts a dispatch every minute, a running dispatch goes on, time
\* passes.  Users and crashes owe nothing.
Fairness ==
    /\ WF_vars(\E d \in Dispatchers : SelectDueCandidateIds(d))
    /\ \A d \in Dispatchers : WF_vars(Continue(d))
    /\ WF_vars(Tick)

FairSpec == Spec /\ Fairness

-----------------------------------------------------------------------------
\* The types of the tables and of the dispatches; a batch never exceeds the
\* LIMIT of selectDueCandidateIds, and no request of it is in two chunks.
TypeOK ==
    /\ now \in Nat
    /\ subscriptions \in [Subscriptions -> (0..FailureCap) \cup {Absent}]
    /\ rows \in [Requests -> Row \cup {Absent}]
    /\ run \in [Dispatchers -> Run]
    /\ \A d \in Dispatchers : IsFiniteSet(run[d].batch)
                              /\ Cardinality(run[d].batch) <= Limit
    /\ \A d \in Dispatchers : \A r \in run[d].batch : run[d].outcome[r] = "none"
    /\ registered \in [Requests -> Nat]
    /\ accepted \in [Requests -> Nat]
    /\ acceptedGens \in [Requests -> SUBSET Nat]
    /\ disturbed \subseteq Requests

Owners(r) == {d \in Dispatchers : InFlight(d, r)}

\* Every accepted push, every claim still in flight and the unsent row itself
\* are each paid for by a registration of their own: overlapping dispatches,
\* retries, late releases and crashes never create a push nobody asked for.
ClaimBudget ==
    \A r \in Requests :
        accepted[r] + Cardinality(Owners(r)) + (IF Unsent(r) THEN 1 ELSE 0)
            <= registered[r]

\* Overlapping dispatches hand at most one push per registration to the
\* provider: PushDispatch implements PushDelivery.
Delivery == INSTANCE PushDelivery
DeliverySpec == Delivery!Spec

\* A row marked sent that no dispatch works on any more: its latest content was
\* accepted.  The exceptions are exactly three: it was registered over a
\* dispatch at work for an earlier registration, claimed while its subscription
\* was missing, or claimed by a dispatch that died.
Settled(r) ==
    /\ rows[r] # Absent /\ rows[r].sent /\ Subscribed(SubscriptionOf(r))
    /\ \A d \in Dispatchers : ~Busy(d, r)

SettledMeansSent ==
    \A r \in Requests :
        Settled(r) => registered[r] \in acceptedGens[r] \/ r \in disturbed

\* A subscription at the failure limit is about to be deleted by the dispatch
\* that took it there: none lives on at or above the limit.
ExceededIsBeingPurged ==
    \A s \in Subscriptions :
        Subscribed(s) /\ subscriptions[s] >= MaxFailures =>
            \E d \in Dispatchers : /\ s \in run[d].exceeded
                                   /\ Applying(d, "removeExceeded")

\* With the cron running and no crash, retries end: from some point on no row
\* is due and unsent, whatever the push provider answers.
DueSettles == <>[](DueAt(now) = {})

\* What IPushRequestRepository.fetchDue claims (no reservation is taken twice
\* by overlapping runs): no registration's content is accepted twice.
NoDoubleSend ==
    \A r \in Requests : accepted[r] = Cardinality(acceptedGens[r])

\* What IPushRequestRepository.upsert claims (registering again returns the row
\* to the unsent state, to be sent anew): an unsent row becomes sent only by
\* being claimed for a dispatch.
UnsentLeavesByClaim ==
    [][\A r \in Requests :
          Unsent(r) /\ rows'[r] # Absent /\ rows'[r].sent =>
              \E d \in Dispatchers : ClaimDueIds(d)]_vars
=============================================================================
