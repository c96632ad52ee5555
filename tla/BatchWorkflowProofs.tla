------------------------- MODULE BatchWorkflowProofs -------------------------
(* Proofs about BatchWorkflow, for every value of its constants. *)
EXTENDS BatchWorkflow, TLAPS

\* The environment's steps of one instance.
Environment(i) ==
    \/ StartByCron(i) \/ Die(i) \/ Recycle(i)
    \/ \E types \in SUBSET RaceTypes, targets \in SUBSET Targets :
          Trigger(i, types, targets)

LEMMA NextCases ==
  ASSUME Next
  PROVE  \/ Tick
         \/ \E q \in Requests : Late(q) \/ Lost(q)
         \/ \E i \in Instances : Environment(i) \/ Router(i) \/ Workflow(i)
BY DEF Next, Environment

\* Expired is an age, and so is anything older than an age.
LEMMA AgesOlder ==
  /\ Expired \in Ages /\ 0 \in Ages /\ Older(Expired) = Expired
  /\ \A a \in Ages : Older(a) \in Ages /\ (Older(a) <= Stale => a <= Stale)
BY ConstantsAssumption DEF Ages, Expired, Older

LEMMA AttemptsRange ==
  /\ 0 \in 0..(MaxAttempts - 1)
  /\ \A n \in 0..(MaxAttempts - 1) :
        n + 1 < MaxAttempts => n + 1 \in 0..(MaxAttempts - 1)
BY ConstantsAssumption

LEMMA PhaseKinds ==
  /\ Running \cup Ended \subseteq Phases
  /\ {"new", "routing", "creating"} \subseteq Phases
  /\ Running \cap Ended = {}
  /\ {"new", "routing", "creating"} \cap (Running \cup Ended) = {}
BY DEF Phases, Running, Ended

LEMMA InitTyped == Init => TypeOK
BY ConstantsAssumption, AgesOlder, AttemptsRange
   DEF Init, TypeOK, Phases, Requests, Running

-----------------------------------------------------------------------------
(* Type correctness, action by action. *)

LEMMA LateTyped ==
  ASSUME TypeOK, NEW q \in Requests, Late(q) \/ Lost(q)
  PROVE  TypeOK'
<1>1. q[2] \in Instances
  BY DEF Requests
<1>2. CASE Lost(q)
  BY <1>2 DEF Lost, TypeOK
<1>3. CASE Late(q)
  <2>1. lock' \in [holder : Instances \cup {Nobody}, age : Ages]
    BY <1>1, <1>3, AgesOlder DEF Late, GrantTo, FreeRow, TypeOK
  <2>2. age' \in [Instances -> Ages]
    BY <1>1, <1>3, AgesOlder DEF Late, TypeOK
  <2>. QED  BY <1>3, <2>1, <2>2 DEF Late, TypeOK
<1>. QED  BY <1>2, <1>3

\* An instance that ends keeps every type.
LEMMA EndTyped ==
  ASSUME TypeOK, NEW i \in Instances, NEW phase \in Ended, End(i, phase)
  PROVE  /\ pc' \in [Instances -> Phases]
         /\ todo' \in [Instances -> SUBSET Steps]
         /\ attempts' \in [Instances -> 0..(MaxAttempts - 1)]
         /\ spent' \in [Instances -> 0..1]
         /\ age' \in [Instances -> Ages]
         /\ \A j \in Instances :
              /\ pc'[j] \notin {"routing", "creating", "acquire", "work"}
                    => todo'[j] = {}
              /\ pc'[j] \notin Running => attempts'[j] = 0
BY AgesOlder, AttemptsRange, PhaseKinds DEF TypeOK, End, Ended

LEMMA EnvironmentTyped ==
  ASSUME TypeOK, NEW i \in Instances, Environment(i)
  PROVE  TypeOK'
<1>1. CASE StartByCron(i)
  <2>1. Plan(RaceTypes, Targets) \in SUBSET Steps
    BY DEF Plan, Steps
  <2>. QED  BY <1>1, <2>1, PhaseKinds DEF StartByCron, TypeOK, Running
<1>2. ASSUME NEW types \in SUBSET RaceTypes, NEW targets \in SUBSET Targets,
             Trigger(i, types, targets)
      PROVE  TypeOK'
  <2>1. Plan(types, targets) \in SUBSET Steps
    BY DEF Plan, Steps
  <2>. QED  BY <1>2, <2>1, PhaseKinds DEF Trigger, TypeOK, Running
<1>3. CASE Die(i)
  <2>1. "dead" \in Ended
    BY DEF Ended
  <2>. QED  BY <1>3, <2>1, EndTyped DEF Die, TypeOK
<1>4. CASE Recycle(i)
  BY <1>4, PhaseKinds DEF Recycle, TypeOK, Ended, Running
<1>. QED  BY <1>1, <1>2, <1>3, <1>4 DEF Environment

LEMMA RouterTyped ==
  ASSUME TypeOK, NEW i \in Instances, Router(i)
  PROVE  TypeOK'
<1>0. "rejected" \in Ended
  BY DEF Ended
<1>1. CASE RouterAcquires(i)
  BY <1>1, PhaseKinds, AgesOlder DEF RouterAcquires, GrantTo, TypeOK, Running
<1>2. CASE RouterRefused(i)
  <2>1. stray' \subseteq Requests
    BY <1>2 DEF RouterRefused, TypeOK, Requests
  <2>. QED  BY <1>0, <1>2, <2>1, EndTyped DEF RouterRefused, TypeOK
<1>3. CASE CreateWorkflow(i)
  BY <1>3, PhaseKinds DEF CreateWorkflow, TypeOK, Running
<1>4. CASE CreateFails(i)
  <2>1. stray' \subseteq Requests
    BY <1>4 DEF CreateFails, TypeOK, Requests
  <2>. QED  BY <1>0, <1>4, <2>1, EndTyped DEF CreateFails, TypeOK
<1>5. CASE CreateUnanswered(i)
  <2>1. stray' \subseteq Requests
    BY <1>5 DEF CreateUnanswered, TypeOK, Requests
  <2>. QED  BY <1>5, <2>1, PhaseKinds DEF CreateUnanswered, TypeOK, Running
<1>. QED  BY <1>1, <1>2, <1>3, <1>4, <1>5 DEF Router

\* A retried attempt keeps every type.
LEMMA RetryTyped ==
  ASSUME TypeOK, NEW i \in Instances, pc[i] \in Running, RetryStep(i)
  PROVE  /\ attempts' \in [Instances -> 0..(MaxAttempts - 1)]
         /\ spent' \in [Instances -> 0..1]
         /\ \A j \in Instances : pc[j] \notin Running => attempts'[j] = 0
BY AttemptsRange DEF TypeOK, RetryStep

\* So does a step that is over.
LEMMA AdvanceTyped ==
  ASSUME TypeOK, NEW i \in Instances, NEW phase \in Running, Advance(i, phase)
  PROVE  /\ pc' \in [Instances -> Phases]
         /\ attempts' \in [Instances -> 0..(MaxAttempts - 1)]
         /\ spent' \in [Instances -> 0..1]
         /\ \A j \in Instances : pc'[j] \notin Running => attempts'[j] = 0
BY AttemptsRange, PhaseKinds DEF TypeOK, Advance

LEMMA WorkflowTyped ==
  ASSUME TypeOK, NEW i \in Instances, Workflow(i)
  PROVE  TypeOK'
<1>0. /\ {"skipped", "completed", "errored"} \subseteq Ended
      /\ {"acquire", "work", "release", "notify"} \subseteq Running
      /\ \A T : PhaseFor(T) \in Running
  BY DEF Ended, Running, PhaseFor
<1>1. CASE AcquireLockStep(i)
  BY <1>0, <1>1, AdvanceTyped, AgesOlder
     DEF AcquireLockStep, GrantTo, TypeOK, Advance, PhaseFor
<1>2. CASE SkipRun(i)
  BY <1>0, <1>2, EndTyped DEF SkipRun, TypeOK
<1>3. CASE AcquireFails(i)
  <2>1. stray' \subseteq Requests
    BY <1>3 DEF AcquireFails, TypeOK, Requests
  <2>2. CASE RetryStep(i) /\ UNCHANGED <<pc, todo, age>>
    BY <1>0, <1>3, <2>1, <2>2, RetryTyped DEF AcquireFails, TypeOK
  <2>3. CASE End(i, "errored")
    BY <1>0, <1>3, <2>1, <2>3, EndTyped DEF AcquireFails, TypeOK
  <2>. QED  BY <1>3, <2>2, <2>3 DEF AcquireFails
<1>4. ASSUME NEW s \in Steps, RunStep(i, s)
      PROVE  TypeOK'
  BY <1>0, <1>4, AdvanceTyped DEF RunStep, TypeOK, Advance, PhaseFor
<1>5. ASSUME NEW s \in Steps, StepFails(i, s)
      PROVE  TypeOK'
  <2>1. CASE RetryStep(i) /\ UNCHANGED <<pc, todo, failures>>
    BY <1>0, <1>5, <2>1, RetryTyped DEF StepFails, TypeOK
  <2>2. CASE Advance(i, PhaseFor(todo[i] \ {s}))
             /\ todo' = [todo EXCEPT ![i] = @ \ {s}]
             /\ failures' = [failures EXCEPT ![i] = @ \cup {s}]
    BY <1>0, <1>5, <2>2, AdvanceTyped DEF StepFails, TypeOK, Advance, PhaseFor
  <2>. QED  BY <1>5, <2>1, <2>2 DEF StepFails
<1>6. CASE ReleaseLockStep(i)
  BY <1>0, <1>6, AdvanceTyped, AgesOlder
     DEF ReleaseLockStep, FreeRow, TypeOK, Advance
<1>7. CASE ReleaseFails(i)
  <2>1. stray' \subseteq Requests
    BY <1>7 DEF ReleaseFails, TypeOK, Requests
  <2>2. CASE RetryStep(i) /\ UNCHANGED <<pc, todo, age>>
    BY <1>0, <1>7, <2>1, <2>2, RetryTyped DEF ReleaseFails, TypeOK
  <2>3. CASE End(i, "errored")
    BY <1>0, <1>7, <2>1, <2>3, EndTyped DEF ReleaseFails, TypeOK
  <2>. QED  BY <1>7, <2>2, <2>3 DEF ReleaseFails
<1>8. CASE NotifyFailuresStep(i)
  BY <1>0, <1>8, EndTyped DEF NotifyFailuresStep, TypeOK
<1>. QED  BY <1>1, <1>2, <1>3, <1>4, <1>5, <1>6, <1>7, <1>8 DEF Workflow

LEMMA TickTyped ==
  ASSUME TypeOK, Tick
  PROVE  TypeOK'
BY AgesOlder DEF Tick, TypeOK

LEMMA StepTyped ==
  ASSUME TypeOK, [Next]_vars
  PROVE  TypeOK'
<1>1. CASE Next
  BY <1>1, NextCases, LateTyped, EnvironmentTyped, RouterTyped, WorkflowTyped,
     TickTyped
<1>2. CASE UNCHANGED vars
  BY <1>2 DEF vars, TypeOK
<1>. QED  BY <1>1, <1>2

\* The lock row and the instances always have their types.
THEOREM TypeCorrect == Spec => []TypeOK
<1>1. Init => TypeOK
  BY InitTyped
<1>2. TypeOK /\ [Next]_vars => TypeOK'
  BY StepTyped
<1>. QED  BY <1>1, <1>2, PTL DEF Spec

-----------------------------------------------------------------------------
(* The live claims hold the lock.  LiveClaimHoldsLock is not inductive: an     *)
(* instance must enter the engine without an age, and no release may be under *)
(* way for one that is not done.                                             *)

NoClaimYet ==
    \A i \in Instances :
        pc[i] \in {"new", "routing"} \cup Ended => age[i] = Expired

ReleasesAreOver ==
    \A i \in Instances :
        <<"release", i>> \in stray =>
            i \in doubtful \/ pc[i] \in {"release", "notify"} \cup Ended

LeaseInv == TypeOK /\ NoClaimYet /\ ReleasesAreOver /\ LiveClaimHoldsLock

LEMMA ExpiredIsStale == ~(Expired <= Stale)
BY ConstantsAssumption DEF Expired

LEMMA InitLease == Init => LeaseInv
<1>. SUFFICES ASSUME Init PROVE LeaseInv
  OBVIOUS
<1>1. TypeOK
  BY InitTyped
<1>2. NoClaimYet /\ ReleasesAreOver
  BY DEF Init, NoClaimYet, ReleasesAreOver
<1>3. LiveClaimHoldsLock
  BY DEF Init, LiveClaimHoldsLock, Claiming
<1>. QED  BY <1>1, <1>2, <1>3 DEF LeaseInv

\* The row is granted to i only if no other instance has a live claim.
LEMMA GrantExcludes ==
  ASSUME LeaseInv, NEW i \in Instances, Grantable(i),
         NEW j \in Instances, Claiming(j), j \notin doubtful
  PROVE  j = i
<1>1. lock.holder = j /\ lock.age = age[j] /\ age[j] <= Stale
  BY DEF LeaseInv, LiveClaimHoldsLock, Claiming
<1>2. ~IsStale
  BY <1>1, ConstantsAssumption DEF IsStale, LeaseInv, TypeOK, Ages, Expired
<1>. QED  BY <1>1, <1>2, ConstantsAssumption DEF Grantable

\* Freeing the row for i takes it from nobody else.
LEMMA FreeKeeps ==
  ASSUME NEW i \in Instances, FreeRow(i), NEW j \in Instances, j # i,
         lock.holder = j
  PROVE  lock' = lock
BY DEF FreeRow

LEMMA LateLease ==
  ASSUME LeaseInv, NEW q \in Requests, Late(q) \/ Lost(q)
  PROVE  NoClaimYet' /\ ReleasesAreOver' /\ LiveClaimHoldsLock'
<1>1. q[2] \in Instances /\ q = <<q[1], q[2]>>
  BY DEF Requests
<1>2. CASE Lost(q)
  BY <1>2 DEF Lost, LeaseInv, NoClaimYet, ReleasesAreOver, LiveClaimHoldsLock,
     Claiming
<1>3. CASE Late(q) /\ q[1] = "acquire" /\ GrantTo(q[2])
           /\ age' = IF Granted(q[2]) THEN [age EXCEPT ![q[2]] = 0] ELSE age
  <2>0. pc' = pc /\ doubtful' = doubtful /\ stray' \subseteq stray
    BY <1>3 DEF Late
  <2>1. NoClaimYet'
    BY <1>1, <1>3, <2>0
       DEF LeaseInv, TypeOK, NoClaimYet, Granted, Running, Ended
  <2>2. ReleasesAreOver'
    BY <2>0 DEF LeaseInv, ReleasesAreOver
  <2>3. ASSUME NEW j \in Instances, Claiming(j)', j \notin doubtful
        PROVE  lock'.holder = j /\ lock'.age = age'[j]
    <3>1. CASE j = q[2]
      BY <1>3, <2>0, <2>3, <3>1
         DEF GrantTo, Granted, Claiming, Running, LeaseInv, TypeOK
    <3>2. CASE j # q[2]
      <4>1. Claiming(j)
        BY <1>1, <1>3, <2>0, <2>3, <3>2 DEF Claiming, LeaseInv, TypeOK
      <4>. QED  BY <1>1, <1>3, <2>3, <3>2, <4>1, GrantExcludes DEF GrantTo
    <3>. QED  BY <3>1, <3>2
  <2>. QED  BY <2>0, <2>1, <2>2, <2>3 DEF LiveClaimHoldsLock
<1>4. CASE Late(q) /\ UNCHANGED <<lock, age>>
  BY <1>4 DEF Late, LeaseInv, NoClaimYet, ReleasesAreOver, LiveClaimHoldsLock,
     Claiming
<1>5. CASE Late(q) /\ q[1] = "release" /\ FreeRow(q[2]) /\ UNCHANGED age
  <2>0. /\ pc' = pc /\ doubtful' = doubtful /\ stray' \subseteq stray
        /\ <<"release", q[2]>> \in stray
    BY <1>1, <1>5 DEF Late
  <2>1. ~Claiming(q[2]) \/ q[2] \in doubtful
    BY <1>1, <2>0 DEF LeaseInv, ReleasesAreOver, Claiming, Ended
  <2>2. LiveClaimHoldsLock'
    BY <1>1, <1>5, <2>0, <2>1, FreeKeeps
       DEF LeaseInv, LiveClaimHoldsLock, Claiming
  <2>3. NoClaimYet' /\ ReleasesAreOver'
    BY <1>5, <2>0 DEF LeaseInv, NoClaimYet, ReleasesAreOver
  <2>. QED  BY <2>2, <2>3
<1>. QED  BY <1>2, <1>3, <1>4, <1>5 DEF Late

\* An instance that ends gives up its claim and nothing else.
LEMMA EndLease ==
  ASSUME LeaseInv, NEW i \in Instances, NEW phase \in Ended, End(i, phase),
         lock' = lock, doubtful' = doubtful,
         \A j \in Instances \ {i} :
            <<"release", j>> \in stray' => <<"release", j>> \in stray
  PROVE  NoClaimYet' /\ ReleasesAreOver' /\ LiveClaimHoldsLock'
<1>1. /\ \A j \in Instances \ {i} : pc'[j] = pc[j] /\ age'[j] = age[j]
      /\ pc'[i] \in Ended /\ age'[i] = Expired
  BY DEF End, LeaseInv, TypeOK
<1>2. NoClaimYet'
  BY <1>1 DEF LeaseInv, NoClaimYet
<1>3. ReleasesAreOver'
  BY <1>1 DEF LeaseInv, ReleasesAreOver
<1>4. LiveClaimHoldsLock'
  BY <1>1 DEF LeaseInv, LiveClaimHoldsLock, Claiming, Ended
<1>. QED  BY <1>2, <1>3, <1>4

LEMMA EnvironmentLease ==
  ASSUME LeaseInv, NEW i \in Instances, Environment(i)
  PROVE  NoClaimYet' /\ ReleasesAreOver' /\ LiveClaimHoldsLock'
<1>1. CASE StartByCron(i)
  BY <1>1, ExpiredIsStale DEF StartByCron, LeaseInv, TypeOK, NoClaimYet,
     ReleasesAreOver, LiveClaimHoldsLock, Claiming, Ended
<1>2. ASSUME NEW types \in SUBSET RaceTypes, NEW targets \in SUBSET Targets,
             Trigger(i, types, targets)
      PROVE  NoClaimYet' /\ ReleasesAreOver' /\ LiveClaimHoldsLock'
  BY <1>2 DEF Trigger, LeaseInv, TypeOK, NoClaimYet, ReleasesAreOver,
     LiveClaimHoldsLock, Claiming, Ended
<1>3. CASE Die(i)
  <2>1. "dead" \in Ended
    BY DEF Ended
  <2>. QED  BY <1>3, <2>1, EndLease DEF Die
<1>4. CASE Recycle(i)
  BY <1>4 DEF Recycle, LeaseInv, TypeOK, NoClaimYet, ReleasesAreOver,
     LiveClaimHoldsLock, Claiming, Ended
<1>. QED  BY <1>1, <1>2, <1>3, <1>4 DEF Environment

\* The instance that the row has just been granted to is the only claimant.
LEMMA GrantLease ==
  ASSUME LeaseInv, NEW i \in Instances, GrantTo(i),
         age' = [age EXCEPT ![i] = 0],
         NEW phase \in {"creating"} \cup Running, pc' = [pc EXCEPT ![i] = phase],
         pc[i] \notin {"release", "notify"} \cup Ended,
         stray' = stray, doubtful' = doubtful
  PROVE  NoClaimYet' /\ ReleasesAreOver' /\ LiveClaimHoldsLock'
<1>1. /\ \A j \in Instances \ {i} : pc'[j] = pc[j] /\ age'[j] = age[j]
      /\ pc'[i] = phase /\ age'[i] = 0
  BY DEF LeaseInv, TypeOK
<1>2. NoClaimYet'
  BY <1>1 DEF LeaseInv, NoClaimYet, Running, Ended
<1>3. ReleasesAreOver'
  BY <1>1 DEF LeaseInv, ReleasesAreOver
<1>4. ASSUME NEW j \in Instances, Claiming(j)', j \notin doubtful
      PROVE  lock'.holder = j /\ lock'.age = age'[j]
  BY <1>1, <1>4, GrantExcludes DEF GrantTo, Claiming
<1>. QED  BY <1>2, <1>3, <1>4 DEF LiveClaimHoldsLock

LEMMA RouterLease ==
  ASSUME LeaseInv, NEW i \in Instances, Router(i)
  PROVE  NoClaimYet' /\ ReleasesAreOver' /\ LiveClaimHoldsLock'
<1>0. "rejected" \in Ended
  BY DEF Ended
<1>1. CASE RouterAcquires(i)
  BY <1>1, GrantLease DEF RouterAcquires, Ended
<1>2. CASE RouterRefused(i)
  BY <1>0, <1>2, EndLease DEF RouterRefused
<1>3. CASE CreateWorkflow(i)
  BY <1>3 DEF CreateWorkflow, LeaseInv, TypeOK, NoClaimYet, ReleasesAreOver,
     LiveClaimHoldsLock, Claiming, Ended
<1>4. CASE CreateFails(i)
  BY <1>0, <1>4, EndLease DEF CreateFails
<1>5. CASE CreateUnanswered(i)
  BY <1>5 DEF CreateUnanswered, LeaseInv, TypeOK, NoClaimYet, ReleasesAreOver,
     LiveClaimHoldsLock, Claiming, Ended
<1>. QED  BY <1>1, <1>2, <1>3, <1>4, <1>5 DEF Router

\* A step of i in "work" or "release" that leaves the row alone.
LEMMA StepLease ==
  ASSUME LeaseInv, NEW i \in Instances, pc[i] \in {"work", "release"},
         lock' = lock, age' = age, doubtful' = doubtful,
         pc' = pc \/ (pc[i] = "work" /\ \E T : Advance(i, PhaseFor(T))),
         \A j \in Instances :
            <<"release", j>> \in stray' =>
                <<"release", j>> \in stray \/ (j = i /\ pc'[i] = "release")
  PROVE  NoClaimYet' /\ ReleasesAreOver' /\ LiveClaimHoldsLock'
<1>1. /\ \A j \in Instances \ {i} : pc'[j] = pc[j]
      /\ pc'[i] = pc[i] \/ (pc[i] = "work" /\ pc'[i] \in {"work", "release"})
  BY DEF LeaseInv, TypeOK, Advance, PhaseFor
<1>2. NoClaimYet'
  BY <1>1 DEF LeaseInv, NoClaimYet, Ended
<1>3. ReleasesAreOver'
  BY <1>1 DEF LeaseInv, ReleasesAreOver, Ended
<1>4. LiveClaimHoldsLock'
  BY <1>1 DEF LeaseInv, LiveClaimHoldsLock, Claiming
<1>. QED  BY <1>2, <1>3, <1>4

LEMMA WorkflowLease ==
  ASSUME LeaseInv, NEW i \in Instances, Workflow(i)
  PROVE  NoClaimYet' /\ ReleasesAreOver' /\ LiveClaimHoldsLock'
<1>0. {"skipped", "completed", "errored"} \subseteq Ended
  BY DEF Ended
<1>1. CASE AcquireLockStep(i)
  <2>1. PhaseFor(todo[i]) \in {"creating"} \cup Running
    BY DEF PhaseFor, Running
  <2>2. pc' = [pc EXCEPT ![i] = PhaseFor(todo[i])]
    BY <1>1 DEF AcquireLockStep, Advance
  <2>. QED  BY <1>1, <2>1, <2>2, GrantLease DEF AcquireLockStep, Ended
<1>2. CASE SkipRun(i)
  BY <1>0, <1>2, EndLease DEF SkipRun
<1>3. CASE AcquireFails(i)
  <2>1. CASE End(i, "errored")
    BY <1>0, <1>3, <2>1, EndLease DEF AcquireFails
  <2>2. CASE UNCHANGED <<pc, todo, age>>
    BY <1>3, <2>2 DEF AcquireFails, LeaseInv, NoClaimYet, ReleasesAreOver,
       LiveClaimHoldsLock, Claiming
  <2>. QED  BY <1>3, <2>1, <2>2 DEF AcquireFails
<1>4. ASSUME NEW s \in Steps, RunStep(i, s)
      PROVE  NoClaimYet' /\ ReleasesAreOver' /\ LiveClaimHoldsLock'
  BY <1>4, StepLease DEF RunStep
<1>5. ASSUME NEW s \in Steps, StepFails(i, s)
      PROVE  NoClaimYet' /\ ReleasesAreOver' /\ LiveClaimHoldsLock'
  BY <1>5, StepLease DEF StepFails
<1>6. CASE ReleaseLockStep(i)
  <2>1. /\ \A j \in Instances \ {i} : pc'[j] = pc[j] /\ age'[j] = age[j]
        /\ pc'[i] = "notify"
        /\ stray' = stray /\ doubtful' = doubtful
    BY <1>6 DEF ReleaseLockStep, Advance, LeaseInv, TypeOK
  <2>2. NoClaimYet' /\ ReleasesAreOver'
    BY <2>1 DEF LeaseInv, NoClaimYet, ReleasesAreOver, Ended
  <2>3. ASSUME NEW j \in Instances, Claiming(j)', j \notin doubtful
        PROVE  lock'.holder = j /\ lock'.age = age'[j]
    <3>1. j # i /\ Claiming(j)
      BY <2>1, <2>3 DEF Claiming
    <3>2. lock.holder = j /\ lock.age = age[j]
      BY <2>3, <3>1 DEF LeaseInv, LiveClaimHoldsLock
    <3>. QED  BY <1>6, <2>1, <3>1, <3>2, FreeKeeps DEF ReleaseLockStep
  <2>. QED  BY <2>1, <2>2, <2>3 DEF LiveClaimHoldsLock
<1>7. CASE ReleaseFails(i)
  <2>1. CASE End(i, "errored")
    BY <1>0, <1>7, <2>1, EndLease DEF ReleaseFails
  <2>2. CASE UNCHANGED <<pc, todo, age>>
    BY <1>7, <2>2, StepLease DEF ReleaseFails
  <2>. QED  BY <1>7, <2>1, <2>2 DEF ReleaseFails
<1>8. CASE NotifyFailuresStep(i)
  BY <1>0, <1>8, EndLease DEF NotifyFailuresStep
<1>. QED  BY <1>1, <1>2, <1>3, <1>4, <1>5, <1>6, <1>7, <1>8 DEF Workflow

LEMMA TickLease ==
  ASSUME LeaseInv, Tick
  PROVE  NoClaimYet' /\ ReleasesAreOver' /\ LiveClaimHoldsLock'
<1>1. /\ pc' = pc /\ stray' = stray /\ doubtful' = doubtful
      /\ \A j \in Instances : age[j] \in Ages /\ age'[j] = Older(age[j])
  BY DEF Tick, LeaseInv, TypeOK
<1>2. NoClaimYet' /\ ReleasesAreOver'
  BY <1>1, AgesOlder DEF LeaseInv, NoClaimYet, ReleasesAreOver
<1>3. ASSUME NEW j \in Instances, Claiming(j)', j \notin doubtful
      PROVE  lock'.holder = j /\ lock'.age = age'[j]
  <2>1. Claiming(j)
    BY <1>1, <1>3, AgesOlder DEF Claiming
  <2>2. lock.holder = j /\ lock.age = age[j]
    BY <1>3, <2>1 DEF LeaseInv, LiveClaimHoldsLock
  <2>3. lock' = [lock EXCEPT !.age = Older(@)]
    BY <2>2, ConstantsAssumption DEF Tick
  <2>. QED  BY <1>1, <2>2, <2>3 DEF LeaseInv, TypeOK
<1>. QED  BY <1>1, <1>2, <1>3 DEF LiveClaimHoldsLock

LEMMA StepKeepsLease ==
  ASSUME LeaseInv, [Next]_vars
  PROVE  LeaseInv'
<1>1. TypeOK'
  BY StepTyped DEF LeaseInv
<1>2. CASE Next
  BY <1>1, <1>2, NextCases, LateLease, EnvironmentLease, RouterLease,
     WorkflowLease, TickLease DEF LeaseInv
<1>3. CASE UNCHANGED vars
  BY <1>1, <1>3 DEF vars, LeaseInv, NoClaimYet, ReleasesAreOver,
     LiveClaimHoldsLock, Claiming
<1>. QED  BY <1>2, <1>3

LEMMA LeaseInvHolds == Spec => []LeaseInv
<1>1. LeaseInv /\ [Next]_vars => LeaseInv'
  BY StepKeepsLease
<1>. QED  BY <1>1, InitLease, PTL DEF Spec

\* While its claim is live an instance holds the lock row: within the stale
\* period no other instance can be granted it.
THEOREM ClaimsHold == Spec => []LiveClaimHoldsLock
<1>1. LeaseInv => LiveClaimHoldsLock
  BY DEF LeaseInv
<1>. QED  BY <1>1, LeaseInvHolds, PTL

\* Acquiring again never fails for the instance that holds a live claim: the
\* conflict answer is for others.
THEOREM OwnLockAccepts == Spec => OwnLockNeverRefuses
<1>1. ASSUME LeaseInv, [Next]_vars,
             NEW i \in Instances, Claiming(i), i \notin doubtful
      PROVE  pc'[i] # "skipped"
  <2>0. /\ lock.holder = i /\ pc[i] # "skipped" /\ pc \in [Instances -> Phases]
        /\ Grantable(i)
    BY <1>1 DEF LeaseInv, LiveClaimHoldsLock, Claiming, TypeOK, Grantable
  <2>1. ASSUME NEW j \in Instances, Environment(j)
        PROVE  pc'[i] # "skipped"
    BY <2>0, <2>1 DEF Environment, StartByCron, Trigger, Die, End, Recycle
  <2>2. ASSUME NEW j \in Instances, Router(j)
        PROVE  pc'[i] # "skipped"
    BY <2>0, <2>2 DEF Router, RouterAcquires, RouterRefused, CreateWorkflow,
       CreateFails, CreateUnanswered, End
  <2>3. ASSUME NEW j \in Instances, Workflow(j)
        PROVE  pc'[i] # "skipped"
    BY <2>0, <2>3 DEF Workflow, AcquireLockStep, SkipRun, AcquireFails, RunStep,
       StepFails, ReleaseLockStep, ReleaseFails, NotifyFailuresStep, End,
       Advance, PhaseFor
  <2>4. ASSUME NEW q \in Requests, Late(q) \/ Lost(q)
        PROVE  pc'[i] # "skipped"
    BY <2>0, <2>4 DEF Late, Lost
  <2>5. CASE Tick
    BY <2>0, <2>5 DEF Tick
  <2>6. CASE UNCHANGED vars
    BY <2>0, <2>6 DEF vars
  <2>. QED  BY <1>1, <2>1, <2>2, <2>3, <2>4, <2>5, <2>6, NextCases
<1>2. LeaseInv /\ [Next]_vars =>
        [\A i \in Instances :
            Claiming(i) /\ i \notin doubtful => pc'[i] # "skipped"]_vars
  BY <1>1
<1>. QED  BY <1>2, LeaseInvHolds, PTL DEF Spec, OwnLockNeverRefuses

-----------------------------------------------------------------------------
(* BatchWorkflow implements BatchLease.                                      *)

Claims == {i \in Instances : Claiming(i) /\ i \notin doubtful}

\* Sets of at most one common member follow each other as the lease allows.
LEMMA SingleClaim ==
  ASSUME NEW x \in Instances, Claims \subseteq {x}, Claims' \subseteq {x}
  PROVE  [Lease!Next]_Claims
<1>1. CASE Claims = {} /\ Claims' = {x}
  BY <1>1 DEF Claims, Lease!Next, Lease!Grant
<1>2. CASE Claims = {x} /\ Claims' = {}
  BY <1>2 DEF Claims, Lease!Next, Lease!Lapse
<1>3. CASE Claims' = Claims
  BY <1>3 DEF Claims
<1>. QED  BY <1>1, <1>2, <1>3

\* All live claims are those of the row's holder.
LEMMA ClaimsOfHolder ==
  ASSUME LeaseInv
  PROVE  Claims \subseteq {lock.holder}
BY DEF LeaseInv, LiveClaimHoldsLock, Claims

LEMMA ClaimStep ==
  ASSUME LeaseInv, LeaseInv', [Next]_vars
  PROVE  [Lease!Next]_Claims
<1>1. CASE Claims' \subseteq Claims
  <2>1. CASE Claims = {}
    BY <1>1, <2>1 DEF Claims
  <2>2. CASE Claims # {}
    BY <1>1, <2>2, ClaimsOfHolder, SingleClaim DEF Claims
  <2>. QED  BY <2>1, <2>2
<1>2. ASSUME NEW i \in Instances, Grantable(i), lock'.holder = i
      PROVE  [Lease!Next]_Claims
  <2>1. Claims \subseteq {i}
    BY <1>2, GrantExcludes DEF Claims
  <2>2. Claims' \subseteq {i}
    BY <1>2 DEF LeaseInv, LiveClaimHoldsLock, Claims
  <2>. QED  BY <2>1, <2>2, SingleClaim
<1>3. ASSUME NEW i \in Instances, Environment(i)
      PROVE  Claims' \subseteq Claims
  BY <1>3, ExpiredIsStale DEF Environment, StartByCron, Trigger, Die, End,
     Recycle, LeaseInv, TypeOK, NoClaimYet, Claims, Claiming, Ended
<1>4. ASSUME NEW i \in Instances, Router(i)
      PROVE  RouterAcquires(i) \/ Claims' \subseteq Claims
  BY <1>4 DEF Router, RouterRefused, CreateWorkflow, CreateFails,
     CreateUnanswered, End, LeaseInv, TypeOK, Claims, Claiming
<1>5. ASSUME NEW i \in Instances, Workflow(i)
      PROVE  AcquireLockStep(i) \/ Claims' \subseteq Claims
  BY <1>5 DEF Workflow, SkipRun, AcquireFails, RunStep, StepFails,
     ReleaseLockStep, ReleaseFails, NotifyFailuresStep, End, Advance, PhaseFor,
     RetryStep, LeaseInv, TypeOK, Claims, Claiming
<1>6. ASSUME NEW q \in Requests, Late(q) \/ Lost(q)
      PROVE  \/ q[2] \in Instances /\ GrantTo(q[2])
             \/ Claims' \subseteq Claims
  BY <1>6 DEF Late, Lost, Requests, Claims, Claiming
<1>7. CASE Tick
  BY <1>1, <1>7, AgesOlder DEF Tick, LeaseInv, TypeOK, Claims, Claiming
<1>8. CASE UNCHANGED vars
  BY <1>1, <1>8 DEF vars, Claims, Claiming
<1>9. \A i \in Instances :
        RouterAcquires(i) \/ AcquireLockStep(i) \/ GrantTo(i) =>
            Grantable(i) /\ lock'.holder = i
  BY DEF RouterAcquires, AcquireLockStep, GrantTo
<1>. QED  BY <1>1, <1>2, <1>3, <1>4, <1>5, <1>6, <1>7, <1>8, <1>9, NextCases

\* The instances' live claims are a lease: never two at a time, and never
\* handed over while live.
THEOREM ImplementsLease == Spec => LeaseSpec
<1>1. Init => Lease!Init
  BY DEF Init, Lease!Init, Claiming
<1>2. LeaseInv /\ LeaseInv' /\ [Next]_vars => [Lease!Next]_Claims
  BY ClaimStep
<1>. QED  BY <1>1, <1>2, LeaseInvHolds, PTL DEF Spec, LeaseSpec, Lease!Spec, Claims
=============================================================================
