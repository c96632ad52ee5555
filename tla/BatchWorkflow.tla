---------------------------- MODULE BatchWorkflow ----------------------------
(***************************************************************************)
(* The batch workflow (packages/batch) and the lock row batch_run_lock it  *)
(* shares through the api Worker (packages/api).  Instances are started by *)
(* the native cron or by POST /batch/trigger, acquire the lock, run one    *)
(* step per race type and target, release the lock and report.  Requests   *)
(* to the api may fail, be answered too late, or be executed after the     *)
(* caller has given up on them; an instance may die at any await.          *)
(* Time is measured in units of STEP_RETRY_CONFIG.timeout and only as      *)
(* ages, since the code only compares startedAt with a time in the past.   *)
(***************************************************************************)
EXTENDS Naturals

CONSTANTS
    Instances,          \* workflow instance ids in use at a time
    RaceTypeCount,      \* length of ALL_RACE_TYPES_FOR_BATCH
    SkippingRace,       \* RACE_TYPES_SKIPPING_RACE_TARGET
    MaxAttempts,        \* 1 + STEP_RETRY_CONFIG.retries.limit
    Stale,              \* STALE_LOCK_MS
    Losses,             \* TRUE: requests and steps may fail
    Deaths,             \* TRUE: the router or the workflow may die
    Nobody              \* workflowInstanceId IS NULL

ASSUME ConstantsAssumption ==
    /\ {RaceTypeCount, MaxAttempts, Stale} \subseteq Nat /\ MaxAttempts > 0
    /\ {Losses, Deaths} \subseteq BOOLEAN
    /\ Nobody \notin Instances

RaceTypes == 1..RaceTypeCount
Targets == {"place", "race", "calendar"}
Steps == RaceTypes \X Targets
Rank == [place |-> 1, race |-> 2, calendar |-> 3]

Expired == Stale + 1    \* ages saturate here
Ages == 0..Expired

Running == {"acquire", "work", "release", "notify"}
Ended == {"rejected", "skipped", "completed", "errored", "dead"}
Phases == {"new", "routing", "creating"} \cup Running \cup Ended
Requests == {"acquire", "release"} \X Instances

VARIABLES
    lock,       \* batch_run_lock: holder and age of startedAt
    pc,         \* where the router or the workflow of each instance is
    todo,       \* steps it has still to run
    failures,   \* steps it gave up on
    attempts,   \* failed attempts of its current step
    spent,      \* time its current attempt has taken
    age,        \* time since the row last granted it the lock
    stray,      \* requests to the api whose callers wait no longer
    doubtful,   \* instances whose creation the router believes failed
    reported    \* instances that reached notifyFailuresStep

vars == <<lock, pc, todo, failures, attempts, spent, age, stray, doubtful, reported>>

Init ==
    /\ lock = [holder |-> Nobody, age |-> 0]
    /\ pc = [i \in Instances |-> "new"]
    /\ todo = [i \in Instances |-> {}]
    /\ failures = [i \in Instances |-> {}]
    /\ attempts = [i \in Instances |-> 0]
    /\ spent = [i \in Instances |-> 0]
    /\ age = [i \in Instances |-> Expired]
    /\ stray = {} /\ doubtful = {} /\ reported = {}

-----------------------------------------------------------------------------
(* The api Worker: BatchLockRepository over the row batch_run_lock. *)

\* Faulty variants: the row is never stale; it is stale one unit too early.
NeverStale == FALSE
StaleTooEarly == lock.age >= Stale

\* lt(startedAt, now - STALE_LOCK_MS)
IsStale == lock.age > Stale

\* Faulty variant: the holder may not acquire again.
GrantableOnce(i) == lock.holder = Nobody \/ IsStale

Grantable(i) == lock.holder = Nobody \/ IsStale \/ lock.holder = i

\* The row grants the lock to i: startedAt becomes now.
GrantTo(i) ==
    /\ Grantable(i)
    /\ lock' = [holder |-> i, age |-> 0]

\* Faulty variant: any instance frees the row.
FreeRowOfAnyone(i) == lock' = [holder |-> Nobody, age |-> 0]

FreeRow(i) ==
    lock' = IF lock.holder = i THEN [holder |-> Nobody, age |-> 0] ELSE lock

\* i, if it is still there, now has a claim that starts at age 0.
Granted(i) == pc[i] \in {"creating"} \cup Running

\* A request that no caller waits for any more reaches the api, or never does.
Late(q) ==
    /\ q \in stray
    /\ stray' = stray \ {q}
    /\ \/ /\ q[1] = "acquire" /\ GrantTo(q[2])
          /\ age' = IF Granted(q[2]) THEN [age EXCEPT ![q[2]] = 0] ELSE age
       \/ /\ q[1] = "acquire" /\ ~Grantable(q[2])
          /\ UNCHANGED <<lock, age>>
       \/ /\ q[1] = "release" /\ FreeRow(q[2])
          /\ UNCHANGED age
    /\ UNCHANGED <<pc, todo, failures, attempts, spent, doubtful, reported>>

Lost(q) ==
    /\ Losses /\ q \in stray
    /\ stray' = stray \ {q}
    /\ UNCHANGED <<lock, pc, todo, failures, attempts, spent, age, doubtful, reported>>

-----------------------------------------------------------------------------
(* Starting an instance. *)

\* The steps a payload asks for, less those switched off.
Plan(types, targets) ==
    {s \in types \X targets : ~(s[1] \in SkippingRace /\ s[2] = "race")}

\* The native cron creates the instance without a payload, past the router.
StartByCron(i) ==
    /\ pc[i] = "new"
    /\ pc' = [pc EXCEPT ![i] = "acquire"]
    /\ todo' = [todo EXCEPT ![i] = Plan(RaceTypes, Targets)]
    /\ UNCHANGED <<lock, failures, attempts, spent, age, stray, doubtful, reported>>

\* handleBatchTriggerPost, its request valid, draws a fresh id.
Trigger(i, types, targets) ==
    /\ pc[i] = "new"
    /\ pc' = [pc EXCEPT ![i] = "routing"]
    /\ todo' = [todo EXCEPT ![i] = Plan(types, targets)]
    /\ UNCHANGED <<lock, failures, attempts, spent, age, stray, doubtful, reported>>

\* i leaves for good; what it no longer needs is forgotten.
End(i, phase) ==
    /\ pc' = [pc EXCEPT ![i] = phase]
    /\ todo' = [todo EXCEPT ![i] = {}]
    /\ attempts' = [attempts EXCEPT ![i] = 0]
    /\ spent' = [spent EXCEPT ![i] = 0]
    /\ age' = [age EXCEPT ![i] = Expired]

RouterAcquires(i) ==
    /\ pc[i] = "routing" /\ GrantTo(i)
    /\ pc' = [pc EXCEPT ![i] = "creating"]
    /\ age' = [age EXCEPT ![i] = 0]
    /\ UNCHANGED <<todo, failures, attempts, spent, stray, doubtful, reported>>

\* 409, or an error answered with 500: no release is sent, though the row may
\* have been or may yet be granted.
RouterRefused(i) ==
    /\ pc[i] = "routing"
    /\ \/ ~Grantable(i) /\ stray' = stray
       \/ Losses /\ stray' = stray \cup {<<"acquire", i>>}
    /\ End(i, "rejected")
    /\ UNCHANGED <<lock, failures, doubtful, reported>>

CreateWorkflow(i) ==
    /\ pc[i] = "creating"
    /\ pc' = [pc EXCEPT ![i] = "acquire"]
    /\ UNCHANGED <<lock, todo, failures, attempts, spent, age, stray, doubtful, reported>>

\* create() throws: the router sends one release and does not care for its fate.
CreateFails(i) ==
    /\ Losses /\ pc[i] = "creating"
    /\ stray' = stray \cup {<<"release", i>>}
    /\ End(i, "rejected")
    /\ UNCHANGED <<lock, failures, doubtful, reported>>

\* create() throws although the instance has been created.
CreateUnanswered(i) ==
    /\ Losses /\ pc[i] = "creating"
    /\ pc' = [pc EXCEPT ![i] = "acquire"]
    /\ stray' = stray \cup {<<"release", i>>}
    /\ doubtful' = doubtful \cup {i}
    /\ UNCHANGED <<lock, todo, failures, attempts, spent, age, reported>>

-----------------------------------------------------------------------------
(* The workflow: runBatchAllWorkflow. *)

\* Faulty variant: one retry more than the configured limit.
RetryOnceMore(i) ==
    /\ attempts[i] + 1 <= MaxAttempts
    /\ attempts' = [attempts EXCEPT ![i] = @ + 1]
    /\ spent' = [spent EXCEPT ![i] = 0]

\* The engine retries a failed attempt of the current step ...
RetryStep(i) ==
    /\ attempts[i] + 1 < MaxAttempts
    /\ attempts' = [attempts EXCEPT ![i] = @ + 1]
    /\ spent' = [spent EXCEPT ![i] = 0]

\* ... and the step ends with its last one.
LastAttempt(i) == attempts[i] + 1 >= MaxAttempts

Advance(i, phase) ==
    /\ pc' = [pc EXCEPT ![i] = phase]
    /\ attempts' = [attempts EXCEPT ![i] = 0]
    /\ spent' = [spent EXCEPT ![i] = 0]

\* The phase in which an instance with the steps T to run is.
PhaseFor(T) == IF T = {} THEN "release" ELSE "work"

AcquireLockStep(i) ==
    /\ pc[i] = "acquire" /\ GrantTo(i)
    /\ Advance(i, PhaseFor(todo[i]))
    /\ age' = [age EXCEPT ![i] = 0]
    /\ UNCHANGED <<todo, failures, stray, doubtful, reported>>

\* 409: the instance ends without a word.
SkipRun(i) ==
    /\ pc[i] = "acquire" /\ ~Grantable(i)
    /\ End(i, "skipped")
    /\ UNCHANGED <<lock, failures, stray, doubtful, reported>>

\* No answer in time, or an error.  The last attempt's exception ends the
\* instance before the try block: no release is sent.
AcquireFails(i) ==
    /\ Losses /\ pc[i] = "acquire"
    /\ stray' = stray \cup {<<"acquire", i>>}
    /\ \/ RetryStep(i) /\ UNCHANGED <<pc, todo, age>>
       \/ LastAttempt(i) /\ End(i, "errored")
    /\ UNCHANGED <<lock, failures, doubtful, reported>>

\* for each race type: place, then race, then calendar.
First(T, s) ==
    /\ s \in T
    /\ \A u \in T : s[1] < u[1] \/ (s[1] = u[1] /\ Rank[s[2]] <= Rank[u[2]])

RunStep(i, s) ==
    /\ pc[i] = "work" /\ First(todo[i], s)
    /\ todo' = [todo EXCEPT ![i] = @ \ {s}]
    /\ Advance(i, PhaseFor(todo[i] \ {s}))
    /\ UNCHANGED <<lock, failures, age, stray, doubtful, reported>>

\* collectStepFailure: the last failed attempt is noted and the run goes on.
StepFails(i, s) ==
    /\ Losses /\ pc[i] = "work" /\ First(todo[i], s)
    /\ \/ RetryStep(i) /\ UNCHANGED <<pc, todo, failures>>
       \/ /\ LastAttempt(i)
          /\ todo' = [todo EXCEPT ![i] = @ \ {s}]
          /\ failures' = [failures EXCEPT ![i] = @ \cup {s}]
          /\ Advance(i, PhaseFor(todo[i] \ {s}))
    /\ UNCHANGED <<lock, age, stray, doubtful, reported>>

\* The finally block, answered.
ReleaseLockStep(i) ==
    /\ pc[i] = "release" /\ FreeRow(i)
    /\ Advance(i, "notify")
    /\ age' = [age EXCEPT ![i] = Expired]
    /\ UNCHANGED <<todo, failures, stray, doubtful, reported>>

\* Its last exception leaves runAllRaceTypesWithLock: no report is made.
ReleaseFails(i) ==
    /\ Losses /\ pc[i] = "release"
    /\ stray' = stray \cup {<<"release", i>>}
    /\ \/ RetryStep(i) /\ UNCHANGED <<pc, todo, age>>
       \/ LastAttempt(i) /\ End(i, "errored")
    /\ UNCHANGED <<lock, failures, doubtful, reported>>

\* syncBatchWorkflowFailureIssue never throws; failures then end in one.
NotifyFailuresStep(i) ==
    /\ pc[i] = "notify"
    /\ reported' = reported \cup {i}
    /\ End(i, IF failures[i] = {} THEN "completed" ELSE "errored")
    /\ UNCHANGED <<lock, failures, stray, doubtful>>

-----------------------------------------------------------------------------
(* The environment. *)

\* The router's or the workflow's process is gone for good.
Die(i) ==
    /\ Deaths /\ pc[i] \in {"routing", "creating"} \cup Running
    /\ End(i, "dead")
    /\ UNCHANGED <<lock, failures, stray, doubtful, reported>>

\* The id of an ended instance that nothing refers to stands for a fresh one.
Recycle(i) ==
    /\ pc[i] \in Ended /\ lock.holder # i
    /\ stray \cap {<<"acquire", i>>, <<"release", i>>} = {}
    /\ pc' = [pc EXCEPT ![i] = "new"]
    /\ failures' = [failures EXCEPT ![i] = {}]
    /\ doubtful' = doubtful \ {i} /\ reported' = reported \ {i}
    /\ UNCHANGED <<lock, todo, attempts, spent, age, stray>>

Older(a) == IF a < Expired THEN a + 1 ELSE Expired

\* An attempt of a step lasts at most one unit; an instance may wait in the
\* engine's queue before its first step for any time.
Timed(i) == pc[i] \in {"work", "release", "notify"}

Tick ==
    /\ \A i \in Instances : Timed(i) => spent[i] = 0
    /\ lock' = [lock EXCEPT !.age = IF lock.holder = Nobody THEN 0 ELSE Older(@)]
    /\ age' = [i \in Instances |-> Older(age[i])]
    /\ spent' = [i \in Instances |-> IF Timed(i) THEN 1 ELSE 0]
    /\ UNCHANGED <<pc, todo, failures, attempts, stray, doubtful, reported>>

-----------------------------------------------------------------------------
Router(i) ==
    \/ RouterAcquires(i) \/ RouterRefused(i)
    \/ CreateWorkflow(i) \/ CreateFails(i) \/ CreateUnanswered(i)

Workflow(i) ==
    \/ AcquireLockStep(i) \/ SkipRun(i) \/ AcquireFails(i)
    \/ \E s \in Steps : RunStep(i, s) \/ StepFails(i, s)
    \/ ReleaseLockStep(i) \/ ReleaseFails(i) \/ NotifyFailuresStep(i)

Next ==
    \/ Tick
    \/ \E q \in Requests : Late(q) \/ Lost(q)
    \/ \E i \in Instances :
          \/ StartByCron(i) \/ Router(i) \/ Workflow(i) \/ Die(i) \/ Recycle(i)
          \/ \E types \in SUBSET RaceTypes, targets \in SUBSET Targets :
                Trigger(i, types, targets)

Spec == Init /\ [][Next]_vars

\* Instances go on, requests arrive or are lost, time passes, ids are reused;
\* the cron fires again and again, and an acquire asked for again and again is
\* sometimes answered.
Answered(i) == AcquireLockStep(i) \/ SkipRun(i)

Fairness ==
    /\ WF_vars(Tick)
    /\ \A q \in Requests : WF_vars(Late(q) \/ Lost(q))
    /\ \A i \in Instances : /\ WF_vars(Router(i)) /\ WF_vars(Workflow(i))
                            /\ WF_vars(Recycle(i))
    /\ SF_vars(\E i \in Instances : StartByCron(i))
    /\ SF_vars(\E i \in Instances : Answered(i))

FairSpec == Spec /\ Fairness

-----------------------------------------------------------------------------
\* The types of the lock row and of the instances; steps remain only before
\* the release, and only the current step counts attempts.
TypeOK ==
    /\ lock \in [holder : Instances \cup {Nobody}, age : Ages]
    /\ pc \in [Instances -> Phases]
    /\ todo \in [Instances -> SUBSET Steps]
    /\ failures \in [Instances -> SUBSET Steps]
    /\ attempts \in [Instances -> 0..(MaxAttempts - 1)]
    /\ spent \in [Instances -> 0..1]
    /\ age \in [Instances -> Ages]
    /\ stray \subseteq Requests
    /\ doubtful \subseteq Instances /\ reported \subseteq Instances
    /\ \A i \in Instances :
          /\ pc[i] \notin {"routing", "creating", "acquire", "work"} => todo[i] = {}
          /\ pc[i] \notin Running => attempts[i] = 0

\* An instance that holds a grant and has neither given it back nor let it
\* become stale.
Claiming(i) == pc[i] \in {"creating", "acquire", "work"} /\ age[i] <= Stale

\* A live claim is the lock row's: no late request, refused instance, retry,
\* release or theft of a stale lock takes the row from an instance that may be
\* at work.  The one exception is an instance the router gave up on.
LiveClaimHoldsLock ==
    \A i \in Instances :
        Claiming(i) /\ i \notin doubtful =>
            lock.holder = i /\ lock.age = age[i]

\* The row that the router or an earlier attempt has acquired never turns its
\* own instance away: acquire is idempotent for the holder.
OwnLockNeverRefuses ==
    [][\A i \in Instances :
          Claiming(i) /\ i \notin doubtful => pc'[i] # "skipped"]_vars

\* The instances' live claims behave as a lease: BatchWorkflow implements
\* BatchLease.
Lease == INSTANCE BatchLease WITH
            claims <- {i \in Instances : Claiming(i) /\ i \notin doubtful}
LeaseSpec == Lease!Spec

\* Whatever became of its holder, the lock moves on.
LockMovesOn ==
    \A i \in Instances : lock.holder = i ~> lock.holder # i

\* What wrangler.toml and BatchLockUsecase claim (the stale period outlasts
\* every run, retries included; no double execution): at most one instance
\* runs steps.
NoDoubleRun ==
    \A i, j \in Instances : pc[i] = "work" /\ pc[j] = "work" => i = j

\* What runBatchAllWorkflow claims (any failure is reported once all race
\* types are done): an instance that ends with failed steps has reported them.
FailuresReported ==
    \A i \in Instances :
        pc[i] = "errored" /\ failures[i] # {} => i \in reported
=============================================================================
