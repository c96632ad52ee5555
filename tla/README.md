# Verification of race-scheduler

TLA+ models of race-scheduler (Japanese and overseas horse, bicycle, boat and
auto races: scraped, stored, put into calendars, announced by Web Push), the
TLC runs that check them and the proofs TLAPS checks.  Paths below are relative
to `src/packages/` unless they start with `scripts/`.

    tlc -workers 2 -config MCOverlap.cfg MCOverlap.tla
    tlc -workers 2 -config MCServices.cfg MCServices.tla
    tlapm PushDispatchProofs.tla

Contents: 1 the system; 2 modules and how they correspond to the code; 3
properties, runs, bounds, fairness; 4 where code and documentation differ; 5
proofs; 6 abstractions; 7 observations; 8 not modelled.

## 1. The system

A monorepo of Cloudflare Workers that share one D1 (SQLite) database, and a
Flutter client.  A Worker request is a single JavaScript task: between two
awaits nothing else runs in it, but other requests, cron firings and workflow
instances run in between, in the same or in other isolates.  D1 executes one
statement, or one `batch([...])` of statements, atomically; nothing else is.
The code knows this: most of its comments on concurrency (`CONC-xx`) are about a
read in one statement and a write in a later one.  The client is one event loop
as well: between two awaits of a notifier, taps, timers and answers of other
requests run.

| component | state | operations | talks to |
|---|---|---|---|
| Push dispatch (`api`: `pushUsecase`, `pushRequestRepository`) | `push_notification_request` rows: fire time, `sentAt` | upsert, remove, `dispatchDue` = select, claim, fetch, send in chunks, apply outcomes, purge | minute cron, `POST /push/dispatch`, push providers |
| Push subscriptions (`pushSubscriptionRepository`, `web_notification_scheduler.dart`) | `push_subscription` rows: keys, secret, `failureCount`, `updatedAt`; in the browser the stored id and secret | upsert guarded by the secret, remove with dependent requests, count, reset, purge stale | tabs of a browser, dispatch |
| Batch run lock (`batchLockUsecase`, `batchLockRepository`) | the one row `batch_run_lock`: holder, `startedAt` | acquire (compare and set, takeover when stale, idempotent for the holder), release by the holder | router and workflow of `batch`, over HTTP |
| Batch workflow (`batch/src/workflows`, `batch/src/router.ts`) | position in the run, collected failures (durable, in the engine) | cron start, `POST /batch/trigger`, steps with retries, release, report | lock, api, scraping Worker, GitHub |
| Batch clients (`batch/src/client`, `cli.ts`) | none | validation, date ranges, fetch with timeout and retry | api, scraping |
| Races, places, players (`raceRepository`, `staleRacePruner`, ...) | tables `race`, `race_stage`, `race_condition`, `race_player`, `place`, ... | chunked upsert, pruning of stale rows | batch |
| Accounts (`authUsecase`, `authRepository`) | users, credentials, challenges, invites, sessions, join requests, favourites | register, log in, refresh, log out, invite, approve, reject | users, admin |
| GitHub issue synchronisation (`core/src/gateway`) and monitors | open issues on GitHub; the log of data quality warnings | list page by page, then create, comment or close; ping; count a window | crons of `api`, report of `batch` |
| HTTP plumbing (`api/src/router.ts`, middleware) | the context of each request (AsyncLocalStorage) | CORS, authorisation, limits, handler, cache headers | all clients |
| Front: favourites | the set shown, the set believed on the server, a delayed save | load, tap, clear, save as a difference, turn back | api |
| Front: notifications | scheduled notifications, settings | synchronise favourites and graded races, due, toggle | favourites, timeline |
| Front: session and joining | session in memory and in the preferences, request to join | submit, poll, register, log in, 401 | api |
| Release automation (`scripts/release`, `deploy.yml`) | tags, releases, drafts, `release_note` rows | compare, decide, publish or draft, dual write | GitHub, api |
| Calendar synchronisation, backfill, feature flags, notes, layout | rows of their own tables | single-statement reads and upserts | users, admin, calendar Worker |
| Domain model and policies (`core`) | none | pure functions | all |
| Admin Worker | none | pages that forward forms to api | api |
| Scraping and calendar Workers | not in the repository | | |

`PROJECT.json` lists all of them with their status.

What makes each hard, and what correctness means for it:

* **Push dispatch.**  The cron and a manual dispatch overlap; each claims rows
  with one statement, reads their content with another, awaits each push, and
  writes results back by id in up to six statements that run concurrently.
  Meanwhile users register again, cancel and unsubscribe.  Correct: a push is
  never delivered more often than it was asked for; what is marked sent was
  sent; a dead subscription is purged; retries end.
* **Subscriptions.**  An id is the hash of a public endpoint, so ownership is by
  a secret that one answer brings and that may be lost with it; the purge selects
  and deletes in two steps.  Correct: a browser keeps access to its own row, an
  active one is not purged, no request outlives its subscription unseen.
* **Lock and workflow.**  A lock with a lease that nobody renews, reached through
  requests that may be executed after their sender has given up, by instances
  that retry, fail and die.  Correct: a live claim is the row's, nobody frees
  another's lock, the holder's retries are not refused, the lock always moves
  on, each failure is reported.
* **Race upsert.**  Chunks of a synchronisation run concurrently and fail
  independently, a second synchronisation may overlap, and pruning deletes what
  the first did not bring.  Correct: nothing just scraped is deleted, tables
  agree with each other and in the end with the site.
* **Accounts.**  Invites and challenges that may be used once are read in one
  statement and spent in another; an account is three statements; approval and
  rejection of one request cross.  Correct: one use, owners, decisions that stand,
  sessions that stay ended.
* **Issue synchronisation.**  List-then-create by overlapping checks, over pages
  that move while they are read.  Correct: one open issue for a condition, which
  follows the condition.
* **HTTP plumbing.**  Five tables of routes in three files have to agree, and who
  is calling is ambient state of a request among others.
* **Front.**  Taps, saves, loads, polls and answers of earlier sessions arrive in
  any order, and the client turns back what failed although the server may have
  executed it.
* **Releases.**  Main grows, people relabel and publish between any two requests
  of the job.

## 2. Modules

| module | role |
|---|---|
| `PushDelivery` | abstract: at most one accepted push for each registration |
| `PushDispatch` | the two push tables, the users, any number of dispatches |
| `MCPushDispatch` | instance and symmetry for TLC |
| `PushDispatchProofs` | type correctness, claim budget, settled rows, failure limit, refinement of `PushDelivery` |
| `PushSubscription`, `PushSubscriptionProofs` | tabs of a browser, the ownership secret, the stale purge; access, orphans, purge |
| `BatchLease` | abstract: one claimant at a time, passed on only after it lapsed |
| `BatchWorkflow`, `MCBatchWorkflow` | the lock row, router, workflow, late requests |
| `BatchWorkflowProofs` | type correctness, live claims, refinement of `BatchLease` |
| `BatchDates` | the days a batch works on, by cron, command line and router |
| `RaceUpsert`, `MCRaceUpsert` | the race tables, the site, any number of calls of `RaceRepository.upsert` |
| `RaceUpsertProofs` | type correctness and accounting, justified pruning, halves of races, clean synchronisations |
| `Accounts`, `AccountsProofs` | invites, challenges, accounts, sessions, join requests; seven theorems |
| `IssueSync` | checks, pings, the paged list, comment, create, close |
| `DataQuality` | the warning log and the hourly window over its texts |
| `ApiRoutes`, `ApiRouter` | route tables of the api; the middleware chain |
| `FrontFavorites`, `FrontFavoritesProofs` | load, tap, delayed save, failure, turning back; types, nothing lost, settled saves |
| `FrontNotifications` | both synchronisations of scheduled notifications |
| `FrontSession` | join screen, ceremony, login, session |
| `AutoRelease` | the release job against merges, labels and people |
| `SingleServices` | the services that are there once: `IssueSync`, `ApiRouter`, `DataQuality`, `AutoRelease`, `FrontNotifications`, `FrontSession`, `BatchDates` |
| `Services` | these, and the accounts, subscriptions and favourites in several instances; a behaviour is one of a single service |
| `SingleServicesProofs` | invariants, types and properties of the services of `SingleServices` |
| `ServicesProofs` | every property of run `services`, for any bounds |
| `MCServices` | bounds of the seventeen instances |
| `MCLiveness` | the dispatches, without crashes, and four other components under their fairness |
| `MCOverlap` | the lock and the dispatches, with every death |

Which parts act on each other, and where the modules meet.  The push tables refer
to races by id only, and the batch run sees the upsert as the success or failure
of a step, so they are modelled side by side; that runs of the batch overlap
(`NoDoubleRun`) and that its client repeats requests is why `RaceUpsert` lets
synchronisations overlap.  `PushSubscription` and `PushDispatch` share the
subscription table: `RemoveSubscription` of the one is `Remove`, `RemoveJudged`
and `DeleteStale` of the other, and what `PushDispatch` does to a subscription is
`JudgeSubscription`, `RemoveJudged` and `RefreshByDispatch`.  The calls of
`FrontSession` end at the registrations and logins of `Accounts`, the favourites
of `FrontFavorites` are the rows `Accounts` lets users with a session write, and
`ApiRouter` says as whom each of those handlers runs.  `FrontNotifications`
takes the favourites as given and hands requests to a scheduler, on the Web
`PushSubscription`.  `DataQuality` ends where `IssueSync` begins: at a condition.

The `map` of `PROJECT.json` gives for each definition the lines it stands for.

### PushDispatch

`subscriptions` and `rows` are the tables: a failure count, a fire time and
whether `sentAt` is set, or `Absent`.  The id of a request row is derived from
its subscription and its race, so a request *is* that pair.  `run[d]` is the
local state of one call of `dispatchDue`:

| code | action |
|---|---|
| `selectDueCandidateIds` | `SelectDueCandidateIds` (earliest first, ties either way) |
| `claimDueIds`, `UPDATE ... WHERE sentAt IS NULL RETURNING` | `ClaimDueIds` |
| `fetchClaimedRecords`, an inner join | `FetchClaimedRecords` |
| next slice of `DISPATCH_CONCURRENCY` | `BeginChunk` |
| `sendOne` of one record; result sent, gone (404/410) or failed | `SendOne` |
| grouping of the settled results | `GatherOutcomes` |
| `markSentBatch`, `resetFailureCountBatch`, `applyGoneOutcomes`, `incrementFailureCountBatch`, `removeWithDependentRequests`, `releaseClaimBatch` | one action each, in every order `Promise.all` allows; the last two only after the count has returned |
| end of the loop body | `EndChunk` |
| `purgeOld` | `PurgeOld` |
| an await that rejects, an evicted Worker | `Crash` |

`registered`, `accepted`, `acceptedGens` and `disturbed` are history variables
for the properties; no guard reads them but the bound `MaxRegistrations`.
`disturbed` names the three accidents after which a row may stay marked sent
unsent: registered again over a dispatch at work, claimed without a
subscription, claimed by a dispatch that died.  `removeSubscription`, the test
push that finds its endpoint gone and the stale purge delete through the same
D1 batch and are all `RemoveSubscription`.

### BatchWorkflow

`lock` is the row; its `startedAt` is kept as an age, because the code only asks
whether it is older than `STALE_LOCK_MS`.  One unit of time is the step timeout
of five minutes, so an attempt of a step takes at most one unit (`Timed`,
`spent`); the pause of ten seconds between attempts is ignored, ages saturate
just past stale.  `pc` follows an instance through the router (`routing`,
`creating`) and the workflow (`acquire`, `work`, `release`, `notify`).

| code | action |
|---|---|
| native cron | `StartByCron` |
| `handleBatchTriggerPost` | `Trigger`, `RouterAcquires`, `RouterRefused`, `CreateWorkflow`, `CreateFails`, `CreateUnanswered` |
| `acquireLockStep` | `AcquireLockStep`, `SkipRun` (409), `AcquireFails` |
| `runStepSafely` per race type and target | `RunStep`, `StepFails` (`collectStepFailure`) |
| `releaseLockStep` in `finally` | `ReleaseLockStep`, `ReleaseFails` |
| `notifyFailuresStep` | `NotifyFailuresStep` |
| request executed after its caller's timeout of ten seconds | `Late`, over `stray`; `Lost` |
| process gone | `Die` |

A step whose process restarts is retried by the engine: a failed attempt.
`create()` may throw although it has created the instance (`doubtful`): the
router then releases a lock that the instance is about to rely on; the instance's
own acquire step takes it again, or is refused.  Ids are drawn by
`crypto.randomUUID`; `Recycle` lets a finite set of ids stand for ever fresh
ones, once nothing refers to the old bearer.  The order of race types in a
payload does not matter to any property and is canonical; a payload that names a
type twice repeats steps under the same name and is taken as a set.

### RaceUpsert

`site` is what the web site lists: the races of each place, and for a race the
starters (`{}` where the list could not be read, `playerList` undefined).
`races`, `related` and `players` are the tables `race`, `race_stage` with
`race_condition` (a race has a row in one of them, by its type) and
`race_player`.  `sync[y]` is the local state of one call of `upsert`: what it was
given, chunks not begun (`waiting`) and past their first batch (`inserted`),
rows written, `succeededEntities`, failed races, and the stale rows it has
selected.

| code | action |
|---|---|
| the site is edited | `ChangeSite` |
| batch, scraping Worker: pages of some places read and posted | `Scrape`; the call may arrive at any later time, behind a newer one |
| start of `upsert`, slicing by `processInChunks` | `Begin` |
| `batchInsertRaceTables`, one D1 batch of a chunk | `InsertRaceTables` |
| `batchInsertRacePlayer`, a statement for each slice | `InsertRacePlayers` |
| rest of `processRaceChunk` | `ChunkSucceeds` |
| any await of a chunk that rejects; `recordUpsertChunkFailure` | `ChunkFails`: what it has written stays |
| `pruneStaleRaces`: the select after all chunks have settled | `FindStaleRaces` |
| `deleteStaleRaceRows`: three statements for each slice | `DeleteConditions`, `DeleteStages`, `DeleteRaces` |
| its `catch` | `PruneFails`: logged, players come next |
| `pruneStaleRacePlayers` | `FindStalePlayers`, `DeleteRacePlayers`, `PrunePlayersFails` |
| end of `upsert` | `Return` |
| request lost, Worker evicted | `Crash` |

`tainted` is history: the call overlapped another or failed in part.

### Accounts

`call[c]` is one HTTP request: where it is and the rows it has read.  Each D1
statement is an action.

| code | action |
|---|---|
| `issueInvite` | `IssueInvite` |
| `registrationOptions`, `loginOptions` | `RegistrationOptions`, `StoreRegistrationChallenge`, `LoginOptions` |
| `consumeChallenge`: SELECT, DELETE | `PresentChallenge`, `ConsumeChallenge` |
| `persistNewAccount` and the check before it | `CheckInvite`, `CreateUser`, `CreateCredential`, `MarkUsed` |
| login: credential, then session | `FindCredential`, `IssueSession` |
| session middleware: read, then refresh | `ValidateSession`, `RefreshSession` |
| logout, favourites, request to join | `Logout`, `ChangeFavorite`, `RequestJoin` |
| `approveJoinRequest` | `BeginApproval`, `IssueForRequest`, `RereadRequest`, `ApproveJoinRequest` |
| `rejectJoinRequest` | `BeginRejection`, `RejectJoinRequest` |
| any await that rejects, eviction | `Fail` |

`invitedBy`, `issuedFor`, `passed`, `late` and `crossed` are history: `crossed`
names the invites, challenges and join requests on which two calls were between
their read and their write at once, or one stopped half way.

### PushSubscription

| code | action |
|---|---|
| front: `init`, `ensureSubscribed`, `cancelAll`, `schedule`, `cancel` | `OpenTab`, `EnsureSubscribed`, `CancelAll`, `ScheduleRace`, `CancelRace` |
| the browser draws a new endpoint | `RenewEndpoint` |
| `upsertSubscription`: read of the secret, refusal, guarded upsert | `FindSecret`, `Refuse`, `Upsert` |
| `removeSubscription` | `Remove` |
| the answer at the tab; forgetting a refused id; the answer lost | `Answered`, `ForgetSubscription`, `LoseAnswer` |
| a dispatch judges, removes or refreshes; requests come due | `JudgeSubscription`, `RemoveJudged`, `RefreshByDispatch`, `SettleRequests` |
| `purgeStale`: select, delete | `SelectStale`, `DeleteStale` |

### IssueSync and DataQuality

`IssueSync`: a check is started by its cron (`Start`), evaluates its condition
(`Evaluate`, or `PingOk`/`PingFailed` for `/health` with its retries), reads the
list page by page (`ReadPage`) and ends with `AddComment`, `CreateIssue` or
`CloseIssue`; every request may `Fail`.  Around it conditions break and are
repaired, GitHub has outages and people close issues.  `DataQuality` is the one
condition whose measure is itself a hazard: `RecordDataQualityWarning` stamps a
row by `CURRENT_TIMESTAMP`, `CheckOneSource` counts the rows whose text is not
before the text of the window's start.

### ApiRoutes and ApiRouter

`ApiRoutes` holds the tables: registered handlers, authorisation policy, documented
security (`openApiSpec.ts`), rate limits, cache lifetimes, with the precedence the
code gives overlapping patterns.  `ApiRouter` takes a request through them: `Send`,
`Preflight`, `Authorise`, `CheckSessionAuth` (an await), `Limit`, `Handle` (an
await), while sessions end (`EndSession`) and other requests advance.

### FrontFavorites

`shown` is the notifier's state, `pending` with `listeners` the delayed save and
the feedback that waits for it, `knownIds` the set the repository believes the
server has.  `ReadFavorites`, `Loaded`, `LoadFails`, `Rebuild` are the load, `Tap`
and `ClearAll` the user, `FlushPendingSave` the timer, `Execute`, `Answered`,
`FailRequest` a request of a save: on the server, at the client, and lost before
or after its execution.

### FrontNotifications

`EmitFavorites` and `EmitDay` are the listeners of `app.dart` and
`timeline_screen.dart`; each starts a synchronisation whose requests are
`ScheduleRaceNotification` and `CancelRaceNotification`, one at a time, until
`Done`.  Two synchronisations at a time that have the same to do for a race do no harm;
where they want different things (`Contested`) either may win.  `ToggleFavorite`,
`WatchPlayer`, `ReloadFavorites`, `LogOut`, `LogIn`, `ChangeRace`, `Toggle`, `ChangeLead`,
`LeaveDay`, `Due`, `Close` and `Open` are what happens meanwhile.

What the listener is given as its previous value decides what it cancels.
`favoriteRacesProvider` maps `favoriteRacesRawProvider` with `whenData`, and of the
`AsyncValue`s of Riverpod (3.4.2 by `pubspec.lock`, not in the repository) only `AsyncData`
keeps its value through `whenData`.  A provider that is invalidated (a watched player, the
timer) or ticks loads as `AsyncData` and keeps the list; one that loads because something
it watches has changed (a favourite, the session), or after an error, is `AsyncLoading`, so
`Reload` empties `listed` and the next `EmitFavorites` compares with nothing.

Two histories name what the property excuses.  `disturbed` has the races whose request
failed, was contested or was not made because a setting forbade it, that left the list
while the app was closed, and the graded ones whose notification was cancelled with the
favourite.  `dropped` has those that left the list while it reloaded, until they are listed
again; without it the comment of the code would be violated (`RemovedAreCancelled`, section
4).

### FrontSession

| code | action |
|---|---|
| navigation | `OpenJoin`, `BackToLogin` |
| `_submit` | `Submit`, `SubmitAnswered` |
| the operator | `Decide` |
| `_poll` by the timer | `Poll`, `PollInVain`, `PollDecided` |
| passkey registration and its retry | `RetryRegistration`, `Registered`, `RegistrationFails` |
| login | `LogIn`, `LoggedIn`, `LoginFails` |
| a request with the token, its answer, a 401 | `Call`, `Answer`, `Expire` |
| the two preference writes of `save` and `clear` | `WriteNickname`, `EndWrite` |
| the app restarts | `Restart` |

### AutoRelease

`Merge`, `Label` (a missing label is added), `Publish` (a person publishes the
draft) and `Backfill` surround one job: `Start`, `Compare`, `Decide`,
`GenerateReleaseSummary`, `FindDraft`, then `UpdateDraft`, `CreateDraft` or
`CreateRelease`, and `DualWrite` of the note; any request may `Fail`.

### BatchDates

`Schedule`, `CommandLine` and `PostBatch` start a batch for a range, by the checks
of each door; `RunStep` gives a step the days its client asks the api for, after
the conversions of `dateRange.ts`, `calendar.ts` and `queryParamParser.ts`.

## 3. Properties and runs

`PushDispatch`:

* `TypeOK`: also that a batch keeps to the limit and chunks are disjoint.
* `ClaimBudget`: accepted pushes of a request, dispatches that hold a claim on
  it, and its unsent row together never outnumber its registrations.
* `DeliverySpec`: the refinement of `PushDelivery`.
* `SettledMeansSent`: a row marked sent that no dispatch works on had its latest
  content accepted, or one of the three accidents happened.
* `ExceededIsBeingPurged`: no subscription survives at the failure limit.
* `DueSettles`: the backlog of due rows drains for good, whatever the provider
  answers.

`BatchWorkflow`:

* `TypeOK`: also that retries keep to the limit.
* `LiveClaimHoldsLock`: an instance that was granted the lock, has not released
  it and is not stale, is the row's holder, with the same age.
* `LeaseSpec`: the refinement of `BatchLease`.
* `OwnLockNeverRefuses`: an instance with a live claim is never answered 409.
* `LockMovesOn`: every holder is succeeded or the row freed.

`RaceUpsert`:

* `TypeOK`: also that a call counts each of its races exactly once, as a success
  or as a failure (`Accounted`), however its chunks interleave.
* `PrunesOnlyMissed`: a row of a race is deleted only on behalf of a call that
  brought races of its place and not this one; not because a chunk with the race
  failed or is on its way.  (An older call may still delete what a newer one has
  just written: the next synchronisation brings it back, see `Converges`.)
* `HalvesArePruned`: while nothing fails, a race without its stage or condition is
  in the middle of being pruned, even when calls overlap.
* `CleanSyncMirrors`: after a call that met no failure and no other call the tables
  hold for its places what the site listed.
* `Converges`: once site and infrastructure calm down, the tables become and stay
  what the site lists, whatever came before.

The services (`Services` gathers their types in one `TypeOK`):

* Accounts: `InviteIsOneUse` (one account for an invite; a used invite belongs to
  an account that can log in), `ChallengePassesOnce`, `SessionsHaveOwners`,
  `SessionsEndForGood`, `DecisionsMatchInvites`, `DecisionsStand`.  The
  first two and the decisions name the exception the code leaves open: two calls
  between their read and their write, or one that ended half way.
* Subscriptions: `ClientsKeepAccess` (locked out only after a lost answer or
  crossing tabs), `OrphansAreLateRequests` (a request without subscription was
  asked for after its subscription had gone), `PurgesOnlyUnused`, `LockoutEnds`.
* Issues: `OneIssuePerTitle`, `LoneCheckSettles` (a check that met neither failure
  nor another check leaves the list as its finding asks), `IssuesFollowCondition`.
* Data quality: `AlarmIsRecent` (the texts may miss rows, they never find one from
  before the window).
* Router: `HandlersKnowTheirCaller` (never another request's user; documented
  security holds for each handler), `FrontReachesItsRoutes` (the preflight keeps the front
  from no route whose policy admits sessions or all, but for the one of section 4).
* Favourites: `OnlyRemovedDisappear`, `SettledIsSaved`.
* Notifications: `NotificationsFollowLists` (once settled, what is scheduled is what
  both lists and the settings ask for, `disturbed` and `dropped` races aside).
* Session: `InviteRegistersAlone`, `SessionOutlivesFailures`.
* Releases: `ReleasesInOrder` = `VersionsIncrease` and `MajorAwaitsPerson`.
* Dates: `WorksOnAskedDays` = no asked day is missed and none added but the two the
  code documents, and `DoorsAgree`: both doors accept the same ranges.

| run | shows | instance | distinct states |
|---|---|---|---|
| `overlap` | `TypeOK`, `LiveClaimHoldsLock`, `LeaseSpec`, `OwnLockNeverRefuses` of the lock | 2 instances, 1 race type whose race target is skipped, 2 attempts, stale after 2, losses, deaths | 2,499,771 |
| | `DeathsCostNoPush` = `TypeOK`, `ClaimBudget` and `SettledMeansSent` of the dispatches | 1 request, 2 dispatches, fire times 0 and 1, 3 registrations, limit and chunk 1, crashes | |
| `push_double_send` | `NoDoubleSend` violated | 1 request, 2 dispatches, 2 registrations | |
| `push_reregister` | `UnsentLeavesByClaim` violated | 1 request, 1 dispatch, 2 registrations | |
| `batch_double_run` | `NoDoubleRun` violated | 2 instances, 3 race types, stale after 6 = 30 min, nothing fails | |
| `batch_report` | `FailuresReported` violated | 1 instance, losses | |
| `race_overlap` | `TypeOK`, `PrunesOnlyMissed`, `HalvesArePruned`, `CleanSyncMirrors` | 3 races of one place, 1 with two starters of another, chunks of 2, 2 calls, 2 changes of the site, 1 failure | about 5.1 million |
| `services` | the properties of the services above | table below | 3,615,194 |
| `data_quality` | `WarningsAreCounted` violated | `Quality` | |
| `favorites_failure` | `FailureDoesNoHarm` violated | `FailingFavorites` | |
| `favorites_early` | `EarlyTapTouchesOneRace` violated | `EarlyFavorites` | |
| `notifications_removed` | `RemovedAreCancelled` violated | `Notifications` | |
| `liveness` | `ClaimBudget`, `SettledMeansSent`, `DeliverySpec`, `ExceededIsBeingPurged` of the dispatches; `DueSettles`, `LockMovesOn`, `LockoutEnds`, `IssuesFollowCondition`, `Converges`, fair | table below | 218,999 |

The services share no state, so in `Services` a behaviour is one of a single
service, chosen in `Init` by `service`, while the other variables rest.  Its
states are the sum, not the product, of those of its instances, and a property
is checked in the instances it is about.

| instance of `MCServices` | bounds |
|---|---|
| `Registration` | 2 calls, 1 invite, 2 challenges, 2 users, 1 session, every expiry 1, time to 1 |
| `Visits` | 2 calls, 1 user, 1 session of TTL 2, time to 3: expiry, refresh, logout between read and write |
| `Joining` | 2 calls, 1 join request, 2 invites: approval against approval, rejection, failure |
| `Browser` | 2 tabs, 1 endpoint, 3 secrets, losses, purge |
| `Renewal` | 1 tab, 2 endpoints, 2 secrets |
| `RenewedTabs` | 2 tabs, 2 endpoints, 3 secrets, losses; only the steps of tabs and requests (`Use`), not removals by the api |
| `Monitors` | 2 checks, 2 titles (one pinged, 2 pings), numbers 1 to 2, 1 issue per page, so that a list has several pages |
| `Router` | any request (every registered route, `HEAD`, a wrong method, an unknown path; front, other browser, Worker; with and without token or session) beside the registration of a favourite by another user |
| `Favorites`, `CalmFavorites`, `FailingFavorites`, `EarlyFavorites` | 2 races; 2 overlapping saves, 3 taps, 1 failure; 1 save, 4 taps, no failure; 1 save, 2 taps, 1 failure; 1 save, a tap before the load |
| `Quality` | steps of 10 minutes from 21:40 to 02:40 of the next day, 2 warnings |
| `Releases` | 3 commits of any label, 1 failure |
| `Notifications` | 2 races, one graded, 2 synchronisations at a time, 4 events |
| `Sessions` | 2 join requests, 2 sessions, 2 requests of each kind at a time |
| `Dates` | ranges one day below, at and above each limit, a backward one, three hours of UTC |

| component of `MCLiveness` | bounds |
|---|---|
| `Batch` | 2 instances, 1 attempt, stale after 1, losses, deaths |
| `Browser` | 1 tab, 1 endpoint, 2 secrets, losses |
| `Monitor` | 2 checks of one pinged title, 1 issue per page |
| the dispatches | 2 requests of one subscription, 2 dispatches, limit and chunk 2, failure limit 2, no crash |
| `Limited` | the same with limit and chunk 1, both requests due at once |
| `Upsert` | 2 races of one place (one off its day), 2 starters, chunks of 1, 2 calls, 1 change, 1 failure; programmes with either race and with both, so that the race of the day is withdrawn and pruned |

The two components of `overlap` share no state either: a behaviour is one of the
instances or one of the dispatches.

Why the bounds suffice.  Two requests of different subscriptions touch no common
row, so the dispatches of `overlap` contend for one request, and cover what a second
would not: three registrations (one sent, one in flight, one pending), two
dispatches that die, a time that passes, a failure count that reaches its limit, a purge.
What a chunk of several outcomes adds (success and failure of the same
subscription in one chunk) is in `liveness`, and so is what the limit adds: with the
bounds of `Limited` one of two due requests does not fit into the dispatch, and the one
that failed may be taken before it again.  Two instances are all that the
lock row can tell apart (its holder and the others), and an ended id becomes a
fresh one, so arbitrarily many runs follow each other.

`race_overlap` has the smallest place whose races fall into two chunks, one of
them short and shared with another place, so that a chunk can fail beside one
that succeeded for the same place; slices of one make pruning a loop that
another call interrupts.  Two changes of the site let an old programme arrive
behind a newer one and a cancelled race return.  Calls are repeated without bound.

Two calls on one invite, challenge, session or join request are what an account
row can tell apart; a third adds nothing that the second does not do to the first.
A browser needs two tabs to cross and two endpoints to leave one behind, a list
two pages to shift, a range one day on each side of a limit.  The counters that
end behaviours (taps, events, failures, commits, minted ids, time) are all named
in the modules' CONSTANTS.  The theorems below remove the bounds for the safety
properties they cover.

**Fairness.**  `FairSpec` of `MCLiveness` is the conjunction of:

* `FairBatch`: the engine resumes an instance (weak fairness of `Workflow`), the router
  ends its request, a late request arrives or is lost, time passes, the cron fires
  again and again (strong: an id is free only between runs), and an acquire sent
  again and again is sometimes answered (strong).  Without the last an api that
  never answers would refute `LockMovesOn`, and nothing in the code could prevent it.
* `FairBrowser`: the cron purges, days pass, due requests are settled.  Nothing is
  assumed of tabs and users: `LockoutEnds` holds because a refused attempt does not
  renew `updatedAt`.
* `FairMonitor`: the crons fire and a check under way ends, by success or failure.
* `FairDispatch`, `FairLimited`: the cron starts some dispatch again and again, a dispatch
  under way goes on, time passes; users owe nothing and nothing crashes there.
* `FairUpsert`: a call under way goes on (weak fairness of `Proceed(y)`; the awaits
  return or reject, a rejection is a trouble), and the batch asks for all places
  again and again (strong: a call is free only between requests).  Bounded changes
  and troubles mean that both end some day, not when.

## 4. Where code and documentation differ

1. *`NoDoubleSend`.*  `fetchDue` claims ids in one statement and reads titles and
   bodies in another.  A request registered again between the two is sent with
   its new content at once, and again when the row, now unsent, becomes due.
   The interface promises that no reservation is fetched twice.
2. *`UnsentLeavesByClaim`.*  `markSentBatch` writes by id alone: a request
   registered again while its predecessor is being sent is marked sent, and is
   never sent.  The upsert promises to return the row to the unsent state.
3. *`NoDoubleRun`.*  The lock is granted once and never renewed; eight steps of
   less than the permitted five minutes outlast thirty minutes without a single
   retry, and the next trigger takes the lock over.  The comment on
   `STALE_LOCK_MS` claims a sufficient margin, retries included.
4. *`FailuresReported`.*  The release runs in `finally`; if its last attempt
   fails, the exception passes the report of the steps that failed.
5. *`WarningsAreCounted`.*  `created_at` is what `CURRENT_TIMESTAMP` writes, a space
   between date and time; the window's start is what `toISOString` writes, a `T`.
   Texts compare character by character and a space sorts before `T`, so a row of the
   day on which the window starts is never counted.  Outside the checks just after
   midnight UTC the alarm is deaf, although the log is promised to be counted over
   the latest window.
6. *`FailureDoesNoHarm`.*  A save that fails keeps the set it believed on the server
   although requests of it may have been executed.  The tap is turned back, the
   turned-back set equals that set, nothing is sent and the save reports success:
   the favourite stays on the server.  The comment of `RemoteFavoritesRepository`
   says that a save that fails half way does no harm.
7. *`EarlyTapTouchesOneRace`.*  A tap before the favourites are loaded starts from the
   empty set; when the load ends first, the save sends a DELETE for every other
   favourite of the user.

8. *`RemovedAreCancelled`.*  Switching a favourite off makes the list of favourites load
   again without a value (`whenData`), so the listener has nothing to compare the next list
   with and cancels nothing: the notification of the race comes all the same.  The comment of
   `_syncFavoriteNotifications` (`front/lib/app.dart:89`) says that races that left the list
   are cancelled.  The end of a session does the same to all of them.  It rests on how
   Riverpod passes on loading states, which is external (section 2, `FrontNotifications`).

`ClaimBudget` says how far the first goes: a registration is at worst sent in
place of an earlier one of the same request, never in addition to all of them.
`SettledMeansSent` does so for the second, `OnlyRemovedDisappear` for the sixth and
seventh: outside the early tap no save takes from the server what nobody removed.
`NotificationsFollowLists` has the `dropped` races of the eighth as an exception.

One more has no run of its own, because `FrontReachesItsRoutes` states it: its one
exception is `PATCH /auth/credential/:id`, which the policies open to sessions and the
preflight refuses, since `allowMethods` (`api/src/router.ts:197`) lacks `PATCH`.  The comment
on `allowHeaders` (`:198-202`) says that the front sends its token to every route of the
session policies, and that what the preflight lacks is never sent.  The front of this
commit does not call the route yet.

Properties of section 3 that have exceptions name them because the code leaves them open,
and hold everything else: two calls between their read and their write (`InviteIsOneUse`,
`DecisionsMatchInvites`, `ClientsKeepAccess`, `PurgesOnlyUnused`, `OneIssuePerTitle`), a lost
answer (`ClientsKeepAccess`), a failure between two statements (`HalvesArePruned`), a merge
after the comparison (`ReleasesInOrder`), a 401 of an earlier session
(`SessionOutlivesFailures`).  What becomes of these cases is said, where anything can be, by
`LockoutEnds`, `Converges`, `IssuesFollowCondition` and `DecisionsStand`.

## 5. Proofs

The theorems of a component are about its module's own `Spec`, for every value of the
constants that satisfies `ConstantsAssumption` of the module (or fewer assumptions, where
named).  `ServicesProofs` carries them over to `Services`, and so states for any bounds
what run `services` checks for those of `MCServices`: a lemma for each instance says that a
behaviour of `Services` either is one of the instance throughout or never runs it
(`RegistrationRuns` and its like), from which and the theorem of the instance the property
follows.  The only assumptions there are the `ConstantsAssumption` of the instances
(`ServicesAssumption`, `SingleServicesAssumption`), which TLC evaluates in every run.  With
that every safety property a passing run checks is a theorem (`DeathsCostNoPush` of
`MCOverlap` is three of `PushDispatch`, which `TypeCorrect`, `BudgetHolds` and
`SettledWasSent` prove for all bounds).

`PushDispatchProofs`, for every finite set of dispatches, subscriptions and races:

* `TypeCorrect`: `Spec => []TypeOK`.
* `BudgetHolds`: `Spec => []ClaimBudget`.  The budget is not inductive alone: a
  claim of a new dispatch would be counted with outcomes left over from an old
  one, and `SendOne` would not free a claim if the request were also still in
  the batch.  `BudgetInv` adds `OutcomesFresh`, that outcomes exist only while a
  chunk is being sent or applied, and, from `TypeOK`, that batch and outcomes are
  disjoint.  One lemma per group of actions shows how `Owners(r)` changes: it loses
  a dispatch when a push is accepted or given up, and gains one only where the row
  was unsent and is no more.
* `ImplementsDelivery`: `Spec => DeliverySpec`, each step a step or a stutter of
  `PushDelivery`, since the budget bounds an acceptance by the registrations.
* `SettledWasSent`: `Spec => []SettledMeansSent`.  `Tended` says of each undisturbed
  row marked sent that it is accepted or in the hands of a dispatch whose copy is
  the row's latest content; the three accidents are what leaves its reach.
* `ExceededArePurged`: without crashes and with a limit of at least one, a
  subscription at the limit is in the purge list of a dispatch under way.  `CountsFirst`
  says that the list is removed only after the count has returned.

`BatchWorkflowProofs`, for every set of instances:

* `TypeCorrect`: `Spec => []TypeOK`.
* `ClaimsHold`: `Spec => []LiveClaimHoldsLock`.  The strengthening `LeaseInv` adds
  `NoClaimYet` (an instance that has asked for nothing has an expired age) and
  `ReleasesAreOver` (a late release belongs to an instance that claims nothing,
  or is doubtful): without it a late release could free a row in use.
* `OwnLockAccepts`, `ImplementsLease`: the action property and the refinement,
  from the same invariant.

`RaceUpsertProofs`, for every set of races, places, starters and calls:

* `TypeCorrect`: `Spec => []TypeOK`, with the accounting of races.
* `PrunesJustified`: `Spec => PrunesOnlyMissed`.  A deletion happens several
  statements after the decision, so the inductive invariant `PruneInv` carries the
  decision along: the slice is part of the stale races, and each stale race was
  missed (`Pruning`).  That a stale race was not given to the call at all follows
  from the accounting: at the select each race given is a success or a failure,
  and the places of failures are left out.
* `HalvesHold`: `Spec => []HalvesArePruned`, inductive together with `PruneInv`: a
  companion row goes only with a slice that contains its race, and the slice is
  given up only with the race deleted or in trouble.
* `CleanSyncsMirror`: `Spec => CleanSyncMirrors`.  `Clean` follows an untainted call:
  it is alone (`Alone`; a failure taints its own call and a scrape the others), what its
  chunks have written is in the tables (`Wrote`), and what its prunings have still
  to clear is what the tables hold beyond the programme (`Clears`).

`AccountsProofs`, for any number of calls, invites, challenges, users, sessions and
join requests.  `Base` is shared: types, calls that hold only ids they were given
(`CallsKnow`), ids not yet minted that are fresh everywhere (`Fresh`).

* `TypeCorrect`; `OwnersHold` (`SessionsHaveOwners`); `SessionsEnd` (the action
  property `SessionsEndForGood`).
* `ChallengesHold`: by `ChallengeInv`, before an uncrossed challenge has passed it is a
  row, or in the hands of the one call that has read it; afterwards it is nowhere.
* `InvitesHold`: `InviteInv` follows an uncrossed invite through the statements of
  `persistNewAccount`; `UsedInv` says which account a used one belongs to.
* `DecisionsHold`: by `DecisionInv`, a call about to write its decision found the
  request pending or has been overtaken since (`late`).

* `DecisionsMatch` (`DecisionsMatchInvites`): by `MatchInv` an uncrossed request is pending
  while a call decides on it, and an invite issued for it is in its row or in the hands
  of such a call; `CallsApart` keeps apart what calls hold, from one use to the next.

`PushSubscriptionProofs`: `TypeCorrect`, `AccessKept`, `OrphansExplained`,
`PurgesJustified`, by `Access`: what a call carries fits the row (`CallsFit`), a tab
with an outdated memory has crossed (`OverlapsCross`), what is stored was answered
(`PrefsAreKnown`), a row is known somewhere or an answer is coming (`Accessible`),
and a kept secret is the row's (`SecretsMatch`).

`FrontFavoritesProofs`, for any races, saves at a time and taps:

* `TypeCorrect`: `FavoriteTypes` adds that a save under way has requests to make.
* `RemovedOnly` (`OnlyRemovedDisappear`), unless taps precede the load (`EarlyTaps`, see
  section 4): by `RemovedInv` what the repository believes to be on the server and the list
  does not show was turned off, and so was everything a save is about to remove, however
  saves overlap, fail and are turned back.
* `SettledSaved` (`SettledIsSaved`), when saves do not overlap and nothing fails: by
  `CalmInv` the repository knows what the server has, but for the races the one save under
  way has still to move.

`SingleServicesProofs`, for any bounds.  Each part finds the invariant of one service:

* Issues: `IssuesAlone` (`OneIssuePerTitle`), `ChecksSettle` (`LoneCheckSettles`) and types by
  `IssueInv`.  The list moves while it is read: new issues come in front, closed ones leave a
  gap.  `Sees` says what a check has learnt nevertheless: the issue of its title is at most
  on pages to come, as long as nobody else has closed or created what concerns it
  (`crossed`).  `NumbersHeld` keeps a number a check holds from being another title's.
* Router: `RouterHolds` by `RouterInv`: before it is authorised a request has no context, and
  from then on the one of its own session or token.  `CallerKnown` and `FrontPasses` follow
  from what the tables of routes say of each kind of request (`SessionMatches`, `ServiceOnly`,
  `HeadersAllowed`, `RefusedMethods` and others), which are about every request there could
  be, not those the run sends.
* Data quality: `QualityHolds`.  `RowsAreRecent` is the arithmetic of the two ways to write a
  time: a row whose text is not before the window's is not before it.
* Releases: `ReleasesIncrease` (`VersionsIncrease`) and `MajorWaits` (`MajorAwaitsPerson`), by
  `ReleaseInv`: while a draft exists, an unreleased commit labelled major keeps every job
  from releasing by itself, and a job whose tag is out of date lists that commit too.
  `ReleaseTypes` by `NotesInv`: what is noted are commits of main, and the table of notes
  knows only versions that exist.
* Session: `JoinCeremonies` (`InviteRegistersAlone`) by `JoinSafe` (timers, polls and
  ceremonies of one join form hand the invite to at most one of them), `KeepsSessions`
  (`SessionOutlivesFailures`) by `SessionInv` (saves and clears exclude each other, a clear
  is under way only for a session that is over, and the preferences hold what a restart
  needs, until the 401 of an earlier session arrives), `SessionTypes` by `ScreenInv`: that
  timers never exceed the slots needs that each of them took the slot of a submission.
* Notifications: `NotificationsHold`, from which `NotificationsFollowLists`.  By `Tracked` a race
  nothing disturbed is up to date, or every synchronisation that has it to do began with
  what the list and the settings say now (`Agrees`); `Covered` says so of graded races of the
  day.  While the list reloads nothing is known of a race, and what it does not list then is
  `dropped` if it may have a notification; the rest has none (`FavoritesEmitted`).
* Dates: `DatesHold` by `DatesInv` (`WorksOnAskedDays`; the range of a batch is in order),
  and `DoorsAgreeAlways`, for any calendar, limits as in the code.

`ServicesProofs`: `TypesHold`, `InvitesOneUse`, `ChallengesOnce`, `OwnersStand`, `SessionsEnd`,
`DecisionsFit`, `DecisionsHold`, `AccessKept`, `OrphansExplained`, `PurgesJustified`, `OneIssue`,
`LoneChecksSettle`, `CallersKnown`, `FrontPassesPreflight`, `AlarmsAreRecent`,
`ReleasesOrdered`, `RemovedOnly`, `SettledSaved`, `InviteOnce`, `SessionKept`, `ListsFollowed`
and `AskedDays`: one for each property of run `services`.

Only model-checked: the liveness properties `LockMovesOn`, `LockoutEnds`,
`IssuesFollowCondition`, `DueSettles` and `Converges`.  They rest on fairness, whose proof
needs ENABLED, which is beyond the prover.  No module uses a RECURSIVE operator.

## 6. Abstractions

* A push message is the number of its registration; titles, encryption and
  logging are left out.  `decryptPushAuth` that throws is a crash of the dispatch.
* `failureCount` saturates at `FailureCap`, above the limit.
* The purge compares fire times with the dispatch's clock; time stops at `MaxNow`
  so that the state space is finite; `Retention` is 1 there.
* In `BatchWorkflow` what a step does (scrape, upsert, calendar) is success or failure.
* A call brings the whole programme of each of its places: the batch lists place
  ids, and how the scraping Worker splits its POST is not in the repository.
* Of a race only its existence is kept, not its columns: every chunk overwrites all
  of them.  A race and its stage or condition are written by one D1 batch, which
  is one step.  The several selects that look for stale rows of many places run at
  once and are one step.
* A race id names the race type, and only mechanical races list starters, so
  `cleanupInvalidRelations` has nothing to delete.  The tables of player facts
  (`player`, `player_keirin`, `player_autorace`) are only a cause of `ChunkFails`.
* `OffDay` races (a date that is not the day their place id names) are never stale
  (CONC-04), so `Mirror` leaves them out of the comparison.  It also leaves out
  companion and starter rows of deleted races, which nothing reads, and places
  that list no race: nothing of such a place is fresh and nothing is pruned.
* The request checks of `POST /batch/trigger` admit any list of known types and
  targets, the empty ones included: `Trigger` takes every subset.
* `Accounts`: ids and tokens are random and therefore new; they are numbered in the
  order of minting.  WebAuthn verification is a library call that accepts or refuses;
  the sign count and label of a credential are left out, and whoever opens a page
  may ask for any call.
* `PushSubscription`: the secret stands for its hash; the encryption of `auth` is left
  out.  `updatedAt` is an age in days, of which `Retention` is the limit.
* `IssueSync`: a number is free again once its issue is closed and no check holds it.
  What a check measures is whether its condition is bad.
* `ApiRoutes`: a path with a parameter stands for all its instances.  Payload checks of
  handlers are left out.
* `FrontFavorites`: the change of session, which swaps the repository, is left out.
* `FrontNotifications`: a race has one of two contents, a lead time one of two values.
* `AutoRelease`: a commit has one of the labels or none; labels are only added where
  they are missing, never changed from one level to another; the text of notes is left out.
* `BatchDates`: a month has `DaysPerMonth` days; time zones are those of Japan and UTC.

## 7. Observations

Met while modelling; each follows from the lines named, none contradicts a promise
of the repository clearly enough to be listed in section 4.

* Router.  The body limit skips `PATCH`.
  Paths with a parameter (`/auth/credential/*`, `/auth/join-request/*`) match no entry
  of the rate limiter, which compares exactly or takes `*`.  `allowHeaders` lacks
  `X-Push-Subscription-Secret`; the front never sends it.  The 401 answers of session
  routes are not in `openApiSpec.ts`.
* Subscriptions.  The first answer carries the secret; when it is lost the browser is
  locked out until the purge (365 days), see `LockoutEnds`.  Registrations of an old and
  a new endpoint that overlap overwrite each other's stored id.  The POST of
  `pushsubscriptionchange` in `push-sw.js:139` has no Authorization and is always
  answered 401 (`router.ts:604`).
* Favourites.  Saves that overlap may leave the server with a set the front does not
  show, without a failure: the reason why `SettledIsSaved` is checked one save at a time.
* Notifications.  Removing a favourite cancels the automatic notification of a graded
  race; switching notifications off leaves the scheduled ones; a change of the lead time
  reaches favourites only; failed requests are not repeated; a favourite removed on
  another device while the app is closed keeps notifying.
* Session.  A late 401 of an earlier session clears the present one.  Submitting the
  join form twice before its answer may register one invite twice (`InviteRegistersAlone`
  names it `hasty`), which `join_request_screen.dart:87-91` means to exclude.
* Releases.  A change merged between the comparison and the POST is released unchecked
  (the exception in `MajorAwaitsPerson`).  A backfill may store the note of a draft, and
  the dual write of the published release is then ignored (`INSERT OR IGNORE`).
* Batch.  The race batch swallows an error of the api and reports success with 0 races
  (`batch/src/batch/race.ts:122-129`).  The command line takes no lock and runs the race
  target of boat races; it accepts dates that are not `YYYY-MM-DD`.
* Dates.  `z.coerce.date()` of a day without a time is 09:00 in Japan: a backfill misses
  places of its first day (`backfillController.schemas.ts:27-28`).
* Races.  A place whose programme is empty prunes nothing (`raceRepository.ts:766`).

## 8. Not modelled

The models cover the parts of the code that keep state across awaits, requests or
restarts.  The larger share of the repository by lines is of another kind, and a
model of it would restate it:

* master data and predicates over it (`core/src/domain`): tables of places, grades and
  stages, text patterns and policies without state, enumerated by the unit tests;
* screens, layout, design catalogue and derived providers of the Flutter client; the
  pages of the Admin Worker, which forward forms and keep nothing;
* static-analysis rules (`tools`), reports and maintenance scripts (`scripts`, but for
  the release automation), migrations, schemas, the OpenAPI text itself;
* calendar synchronisation, backfill, feature flags, layout, debug: single statements
  that no other part acts upon between two of their steps; the Google Calendar and
  scraping Workers are not in the repository;
* encryption of pushes and of `auth`: functions of data.

What remains that could be modelled: the place and player repositories, which share the
chunking of `RaceUpsert` without its pruning of races; the timeline of the front, whose
provider merges pages of days; the change of session under `FrontFavorites`.
