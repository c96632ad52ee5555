--------------------------- MODULE PushSubscription ---------------------------
(***************************************************************************)
(* Who owns a push subscription: WebNotificationScheduler in the tabs of   *)
(* one browser (packages/front) against PushUsecase.upsertSubscription,    *)
(* removeSubscription and purgeStale (packages/api).  The browser hands    *)
(* out an endpoint; the api keeps one row per endpoint and, from the first *)
(* registration on, the hash of a secret that a later registration has to  *)
(* present.  The tabs of the front never present it; a client of the api   *)
(* may keep it (keeps).  Requests and answers travel over HTTP: either may *)
(* be lost.  Deliveries are PushDispatch; here a dispatch only removes     *)
(* rows it judged gone or exceeded, or refreshes them.                     *)
(***************************************************************************)
EXTENDS Naturals

CONSTANTS
    Tabs,               \* tabs (or processes) of the client
    MaxEndpoint,        \* bound: endpoints the browser hands out
    Secrets,            \* bound: secrets in use at the same time
    Retention,          \* STALE_SUBSCRIPTION_RETENTION_DAYS
    Losses,             \* TRUE: answers may be lost
    Absent              \* no row, no value

Endpoints == 1..MaxEndpoint

Row == [secret : Secrets \cup {Absent}, age : 0..Retention]
\* What a client remembers: the endpoint (its hash is the id), the secret.
Known == [endpoint : Endpoints, secret : Secrets \cup {Absent}]
Call == [pc : {"idle", "find", "issue", "update", "answer", "remove", "removed"},
         endpoint : Endpoints \cup {Absent},
         secret : Secrets \cup {Absent}]

ConstantsAssumption ==
    /\ MaxEndpoint \in Nat \ {0}
    /\ Retention \in Nat \ {0}
    /\ Losses \in BOOLEAN
    /\ Absent \notin Row \cup Known \cup Secrets \cup Endpoints

VARIABLES
    keeps,              \* the client keeps the secret and presents it
    endpoint,           \* the endpoint the browser hands out now
    prefs,              \* SharedPreferences, shared by the tabs
    memory,             \* _subscriptionId and _endpoint of each tab
    call,               \* the request each tab waits for
    rows,               \* push_subscription
    requests,           \* endpoints with rows in push_notification_request
    judged,             \* endpoints a dispatch is about to remove
    purging,            \* ids purgeStale selected
    crossed,            \* history: endpoints of calls that overlapped, or for
                        \* which an answer was lost
    orphaned,           \* history: endpoints a request was made for without a row
    freshened           \* history: selected ids refreshed since

client == <<keeps, endpoint, prefs, memory>>
server == <<rows, requests, judged, purging, freshened>>
vars == <<client, call, server, crossed, orphaned>>

Idle == [pc |-> "idle", endpoint |-> Absent, secret |-> Absent]

Init ==
    /\ keeps \in BOOLEAN
    /\ endpoint = 1
    /\ prefs = Absent
    /\ memory = [t \in Tabs |-> Absent]
    /\ call = [t \in Tabs |-> Idle]
    /\ rows = [e \in Endpoints |-> Absent]
    /\ requests = {}
    /\ judged = {}
    /\ purging = {}
    /\ crossed = {}
    /\ orphaned = {}
    /\ freshened = {}

-----------------------------------------------------------------------------
Remembers(m, e) == m # Absent /\ m.endpoint = e
Idling(t) == call[t].pc = "idle"
Waiting(e) == {t \in Tabs : call[t].endpoint = e}
IsSecretIssued(e) == rows[e] # Absent /\ rows[e].secret # Absent

\* Secrets are random: one that nobody holds.
FreshSecrets ==
    {s \in Secrets : /\ \A e \in Endpoints : rows[e] # Absent => rows[e].secret # s
                     /\ \A m \in {prefs} \cup {memory[t] : t \in Tabs} :
                           m # Absent => m.secret # s
                     /\ \A t \in Tabs : call[t].secret # s}

\* A call for e begins while others are under way.
UnderWay == {call[t].endpoint : t \in Tabs} \ {Absent}
Cross(e) ==
    crossed' = IF UnderWay = {} THEN crossed ELSE crossed \cup UnderWay \cup {e}

\* Faulty variant: the dependent requests are left to a foreign key.
RemoveRowsOnly(E) ==
    /\ rows' = [e \in Endpoints |-> IF e \in E THEN Absent ELSE rows[e]]
    /\ UNCHANGED requests

\* removeWithDependentRequests and ...Batch: both tables in one D1 batch.
RemoveWithDependentRequests(E) ==
    /\ rows' = [e \in Endpoints |-> IF e \in E THEN Absent ELSE rows[e]]
    /\ requests' = requests \ E

-----------------------------------------------------------------------------
(* The client. *)

\* A page load: the constructor restores what the preferences hold.
OpenTab(t) ==
    /\ Idling(t)
    /\ memory' = [memory EXCEPT ![t] = prefs]
    /\ UNCHANGED <<keeps, endpoint, prefs, call, server, crossed, orphaned>>

\* The browser hands out another endpoint.  The service worker posts it without
\* a session, and the api refuses it.
RenewEndpoint ==
    /\ endpoint < MaxEndpoint
    /\ endpoint' = endpoint + 1
    /\ UNCHANGED <<keeps, prefs, memory, call, server, crossed, orphaned>>

\* PERF-119: an endpoint this tab registered is not registered again.
NeedsNoUpsert(t) == Remembers(memory[t], endpoint)

\* _ensureSubscribed: POST /push/subscription.  A client that keeps its secret
\* registers again, with it, whenever it likes.
EnsureSubscribed(t) ==
    /\ Idling(t)
    /\ keeps \/ ~NeedsNoUpsert(t)
    /\ call' = [call EXCEPT ![t] = [pc |-> "find", endpoint |-> endpoint,
                   secret |-> IF keeps /\ Remembers(memory[t], endpoint)
                              THEN memory[t].secret ELSE Absent]]
    /\ Cross(endpoint)
    /\ UNCHANGED <<client, server, orphaned>>

\* cancelAll: DELETE /push/subscription, when this tab knows an endpoint.
CancelAll(t) ==
    /\ Idling(t) /\ memory[t] # Absent
    /\ call' = [call EXCEPT ![t] = [pc |-> "remove", secret |-> Absent,
                                    endpoint |-> memory[t].endpoint]]
    /\ Cross(memory[t].endpoint)
    /\ UNCHANGED <<client, server, orphaned>>

\* scheduleRaceNotification and cancelRaceNotification, by the id this tab
\* knows: the api does not ask whether the subscription exists.
ScheduleRace(t) ==
    /\ Idling(t) /\ memory[t] # Absent
    /\ requests' = requests \cup {memory[t].endpoint}
    /\ orphaned' = IF rows[memory[t].endpoint] = Absent
                   THEN orphaned \cup {memory[t].endpoint} ELSE orphaned
    /\ UNCHANGED <<client, call, rows, judged, purging, freshened, crossed>>

CancelRace(t) ==
    /\ Idling(t) /\ memory[t] # Absent
    /\ requests' = requests \ {memory[t].endpoint}
    /\ UNCHANGED <<client, call, rows, judged, purging, freshened, crossed,
                   orphaned>>

-----------------------------------------------------------------------------
(* The api. *)

\* Faulty variant: any secret will do once one was issued.
VerifiesAnySecret(e, s) == s # Absent

\* verifyAndUpdateSubscription: the presented secret against the stored hash.
Verifies(e, s) == s # Absent /\ s = rows[e].secret

\* upsertSubscription: findSecretHashById, and what follows from it.
FindSecret(t) ==
    LET e == call[t].endpoint
    IN /\ call[t].pc = "find"
       /\ \/ /\ ~IsSecretIssued(e)
             /\ \E s \in FreshSecrets :
                   call' = [call EXCEPT ![t].pc = "issue", ![t].secret = s]
          \/ /\ IsSecretIssued(e) /\ Verifies(e, call[t].secret)
             /\ call' = [call EXCEPT ![t].pc = "update"]
       /\ UNCHANGED <<client, server, crossed, orphaned>>

\* Faulty variant: the row is touched before the secret is looked at.
RefusedTouching(e) ==
    rows' = [rows EXCEPT ![e] = IF @ = Absent THEN @ ELSE [@ EXCEPT !.age = 0]]

\* { ok: false }: nothing is written.
RefusedUnwritten(e) == UNCHANGED rows

Refuse(t) ==
    LET e == call[t].endpoint
    IN /\ call[t].pc = "find"
       /\ IsSecretIssued(e) /\ ~Verifies(e, call[t].secret)
       /\ RefusedUnwritten(e)
       /\ call' = [call EXCEPT ![t] = Idle]
       /\ UNCHANGED <<client, requests, judged, purging, freshened, crossed,
                      orphaned>>

\* insert ... onConflictDoUpdate: an update without a secret keeps the stored
\* one, and stores a row without one if the row is gone.
Upserted(t) ==
    [secret |-> IF call[t].pc = "issue" THEN call[t].secret
                ELSE IF rows[call[t].endpoint] = Absent THEN Absent
                ELSE rows[call[t].endpoint].secret,
     age |-> 0]

Upsert(t) ==
    LET e == call[t].endpoint
    IN /\ call[t].pc \in {"issue", "update"}
       /\ rows' = [rows EXCEPT ![e] = Upserted(t)]
       /\ freshened' = freshened \cup ({e} \cap purging)
       /\ call' = [call EXCEPT ![t].pc = "answer"]
       /\ UNCHANGED <<client, requests, judged, purging, crossed, orphaned>>

\* removeSubscription.
Remove(t) ==
    /\ call[t].pc = "remove"
    /\ RemoveWithDependentRequests({call[t].endpoint})
    /\ call' = [call EXCEPT ![t].pc = "removed"]
    /\ UNCHANGED <<client, judged, purging, freshened, crossed, orphaned>>

-----------------------------------------------------------------------------
(* Answers. *)

\* The id is remembered, in the tab and in the preferences.
Answered(t) ==
    LET m == [endpoint |-> call[t].endpoint,
              secret |-> IF keeps THEN call[t].secret ELSE Absent]
    IN /\ call[t].pc = "answer"
       /\ memory' = [memory EXCEPT ![t] = m]
       /\ prefs' = m
       /\ call' = [call EXCEPT ![t] = Idle]
       /\ UNCHANGED <<keeps, endpoint, server, crossed, orphaned>>

\* cancelAll goes on: memory and preferences are cleared.
ForgetSubscription(t) ==
    /\ call[t].pc = "removed"
    /\ memory' = [memory EXCEPT ![t] = Absent]
    /\ prefs' = Absent
    /\ call' = [call EXCEPT ![t] = Idle]
    /\ crossed' = IF \E u \in Tabs \ {t} : memory[u] # Absent
                  THEN crossed \cup {memory[u].endpoint :
                          u \in {v \in Tabs : memory[v] # Absent}}
                  ELSE crossed
    /\ UNCHANGED <<keeps, endpoint, server, orphaned>>

\* A request or its answer is lost, the tab is closed, or the api fails.
LoseAnswer(t) ==
    /\ Losses /\ ~Idling(t)
    /\ call' = [call EXCEPT ![t] = Idle]
    /\ crossed' = crossed \cup {call[t].endpoint}
    /\ UNCHANGED <<client, server, orphaned>>

-----------------------------------------------------------------------------
(* The dispatch and the cron. *)

\* A send found the subscription gone, or its failures reached the limit ...
JudgeSubscription(e) ==
    /\ rows[e] # Absent /\ e \in requests
    /\ judged' = judged \cup {e}
    /\ UNCHANGED <<client, call, rows, requests, purging, freshened, crossed,
                   orphaned>>

\* ... and the row is deleted by its id.
RemoveJudged(e) ==
    /\ e \in judged
    /\ RemoveWithDependentRequests({e})
    /\ judged' = judged \ {e}
    /\ UNCHANGED <<client, call, purging, freshened, crossed, orphaned>>

\* incrementFailureCountBatch and resetFailureCountBatch refresh updatedAt.
RefreshByDispatch(e) ==
    /\ rows[e] # Absent /\ e \in requests
    /\ rows' = [rows EXCEPT ![e].age = 0]
    /\ freshened' = freshened \cup ({e} \cap purging)
    /\ UNCHANGED <<client, call, requests, judged, purging, crossed, orphaned>>

\* The requests of e are sent or purged for their age (PushDispatch: DueSettles).
SettleRequests(e) ==
    /\ e \in requests
    /\ requests' = requests \ {e}
    /\ UNCHANGED <<client, call, rows, judged, purging, freshened, crossed,
                   orphaned>>

\* Faulty variant: the comparison the wrong way round.
StaleRowsFresh == {e \in Endpoints : rows[e] # Absent /\ rows[e].age < Retention}

StaleRows == {e \in Endpoints : rows[e] # Absent /\ rows[e].age = Retention}

\* purgeStale: the ids are selected ...
SelectStale ==
    /\ purging = {} /\ StaleRows # {}
    /\ purging' = StaleRows
    /\ freshened' = {}
    /\ UNCHANGED <<client, call, rows, requests, judged, crossed, orphaned>>

\* ... and deleted in a second statement.
DeleteStale ==
    /\ purging # {}
    /\ RemoveWithDependentRequests(purging)
    /\ purging' = {} /\ freshened' = {}
    /\ UNCHANGED <<client, call, judged, crossed, orphaned>>

\* A day passes; ages saturate at the retention.
Tick ==
    /\ rows' = [e \in Endpoints |->
                   IF rows[e] = Absent THEN Absent
                   ELSE [rows[e] EXCEPT !.age = IF @ < Retention THEN @ + 1 ELSE @]]
    /\ UNCHANGED <<client, call, requests, judged, purging, freshened, crossed,
                   orphaned>>

UseTab(t) ==
    \/ OpenTab(t) \/ EnsureSubscribed(t) \/ CancelAll(t)
    \/ ScheduleRace(t) \/ CancelRace(t)
Serve(t) ==
    FindSecret(t) \/ Refuse(t) \/ Upsert(t) \/ Remove(t) \/ Answered(t)
    \/ ForgetSubscription(t)
Maintain ==
    \/ \E e \in Endpoints :
          \/ JudgeSubscription(e) \/ RemoveJudged(e)
          \/ RefreshByDispatch(e) \/ SettleRequests(e)
    \/ SelectStale \/ DeleteStale

Use == RenewEndpoint \/ \E t \in Tabs : UseTab(t) \/ Serve(t) \/ LoseAnswer(t)

Next == Use \/ Maintain \/ Tick

Spec == Init /\ [][Next]_vars

\* The cron runs, days pass and requests come due; of the users nothing is
\* assumed.
FairSpec ==
    /\ Spec
    /\ WF_vars(SelectStale) /\ WF_vars(DeleteStale) /\ WF_vars(Tick)
    /\ \A e \in Endpoints : WF_vars(SettleRequests(e))

-----------------------------------------------------------------------------
(* Properties. *)

TypeOK ==
    /\ keeps \in BOOLEAN
    /\ endpoint \in Endpoints
    /\ prefs \in Known \cup {Absent}
    /\ memory \in [Tabs -> Known \cup {Absent}]
    /\ call \in [Tabs -> Call]
    /\ rows \in [Endpoints -> Row \cup {Absent}]
    /\ requests \in SUBSET Endpoints
    /\ judged \in SUBSET Endpoints
    /\ purging \in SUBSET Endpoints
    /\ freshened \in SUBSET purging

\* The browser holds no trace of a row whose secret it cannot present, and no
\* answer that would tell it is on its way: it can neither register the
\* endpoint again nor remove it.
LockedOut ==
    /\ IsSecretIssued(endpoint)
    /\ ~Remembers(prefs, endpoint)
    /\ \A t \in Tabs : ~Remembers(memory[t], endpoint)
    /\ \A t \in Waiting(endpoint) : call[t].pc = "find"

\* A browser is locked out of its own endpoint, and a client that keeps its
\* secret stops being recognised by it, only after an answer was lost or two
\* tabs crossed.
ClientsKeepAccess ==
    /\ LockedOut => endpoint \in crossed
    /\ \A e \in Endpoints \ crossed :
          keeps /\ IsSecretIssued(e) /\ Remembers(prefs, e) /\ Waiting(e) = {} =>
              prefs.secret = rows[e].secret

\* A notification request without its subscription was made by a tab that did
\* not know its subscription was gone; removing one never leaves the other.
OrphansAreLateRequests ==
    \A e \in requests : rows[e] = Absent => e \in orphaned

\* The purge deletes a subscription in use only if it was used again between
\* its two statements.
PurgesUnused ==
    \A e \in purging : rows[e] # Absent /\ purging' = {} =>
        rows[e].age = Retention \/ e \in freshened

PurgesOnlyUnused == [][PurgesUnused]_vars

\* A browser that was locked out is let in again: no refused attempt keeps the
\* row alive, so the purge of unused rows reaches it.
LockoutEnds == LockedOut ~> ~LockedOut
=============================================================================
