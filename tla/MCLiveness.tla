------------------------------ MODULE MCLiveness ------------------------------
(***************************************************************************)
(* The dispatches of PushDispatch, which this module extends, and what     *)
(* must eventually happen in four other modules, for TLC.  The components  *)
(* share no state, so every behaviour is one of a single component, chosen *)
(* at the start, while the others rest in their initial states.  The       *)
(* dispatches come with two sets of bounds, for the same two requests of   *)
(* one subscription.                                                       *)
(***************************************************************************)
EXTENDS PushDispatch, TLC

CONSTANTS i1, i2, c1, c2, t1, s1, s2, x, r1, r2, p1

VARIABLES
    component,          \* the component whose behaviour this is
    lock, pc, todo, failures, attempts, spent, age, stray, doubtful, reported,
    keeps, endpoint, prefs, memory, call, subscribed, requests, judged, purging,
    crossedTabs, orphaned, freshened,
    broken, up, issues, check, crossed, lone,
    site, races, related, players, sync, changes, troubles

lockVars == <<lock, pc, todo, failures, attempts, spent, age, stray, doubtful,
              reported>>
subscriptionVars == <<keeps, endpoint, prefs, memory, call, subscribed, requests,
                      judged, purging, crossedTabs, orphaned, freshened>>
issueVars == <<broken, up, issues, check, crossed, lone>>
raceVars == <<site, races, related, players, sync, changes, troubles>>
mcVars == <<component, lockVars, subscriptionVars, issueVars, vars, raceVars>>

\* One request at a time, of two that are due at once, either of which may come
\* first: the batch is full.
Limited == INSTANCE PushDispatch WITH
    FireTimes <- {0}, Limit <- 1, ChunkSize <- 1, MaxNow <- 0

\* Two instances, one race type, no retry, every loss and death.
Batch == INSTANCE BatchWorkflow WITH
    Instances <- {i1, i2}, RaceTypeCount <- 1, SkippingRace <- {1},
    MaxAttempts <- 1, Stale <- 1, Losses <- TRUE, Deaths <- TRUE,
    Nobody <- Absent

\* One tab of a browser that may lose any answer.
Browser == INSTANCE PushSubscription WITH
    Tabs <- {t1}, MaxEndpoint <- 1, Secrets <- {s1, s2},
    Retention <- 1, Losses <- TRUE, rows <- subscribed, crossed <- crossedTabs

\* Two checks of one pinged condition, one issue per page.
Monitor == INSTANCE IssueSync WITH
    Checks <- {c1, c2}, Titles <- {x}, Pinged <- {x}, Numbers <- 1..2,
    PerPage <- 1, MaxPings <- 2

\* Two synchronisations of two races with starters who may withdraw, or whose
\* list cannot be read.  One race has a date off its place's day, so that no
\* synchronisation prunes it; the other may be withdrawn or added again.
List(R, cars) == [listed |-> R, cars |-> [r \in {r1, r2} |-> IF r \in R THEN cars ELSE {}]]
Upsert == INSTANCE RaceUpsert WITH
    Races <- {r1, r2}, PlaceOf <- [r \in {r1, r2} |-> p1],
    Mechanical <- {r1, r2}, OffDay <- {r2}, Cars <- {c1, c2},
    Programmes <- {List({r1}, {c1, c2}), List({r1}, {c2}),
                   List({r1, r2}, {}), List({r2}, {c1})},
    Syncs <- {i1, i2}, ChunkSize <- 1, PlayerChunk <- 1, PruneChunk <- 2,
    MaxChanges <- 1, MaxTroubles <- 1

-----------------------------------------------------------------------------
Runs(c) == component = c

MCInit ==
    /\ component \in {"batch", "browser", "monitor", "dispatch", "limited", "upsert"}
    /\ Batch!Init /\ Browser!Init /\ Monitor!Init
    /\ Init /\ Upsert!Init
    /\ ~Runs("browser") => keeps = FALSE
    /\ ~Runs("upsert") => site = List({r1}, {c2})

MCNext ==
    \/ /\ Runs("batch") /\ Batch!Next
       /\ UNCHANGED <<component, subscriptionVars, issueVars, vars, raceVars>>
    \/ /\ Runs("browser") /\ Browser!Next
       /\ UNCHANGED <<component, lockVars, issueVars, vars, raceVars>>
    \/ /\ Runs("monitor") /\ Monitor!Next
       /\ UNCHANGED <<component, lockVars, subscriptionVars, vars, raceVars>>
    \/ /\ Runs("dispatch") /\ Next
       /\ UNCHANGED <<component, lockVars, subscriptionVars, issueVars, raceVars>>
    \/ /\ Runs("limited") /\ Limited!Next
       /\ UNCHANGED <<component, lockVars, subscriptionVars, issueVars, raceVars>>
    \/ /\ Runs("upsert") /\ Upsert!Next
       /\ UNCHANGED <<component, lockVars, subscriptionVars, issueVars, vars>>

MCSpec == MCInit /\ [][MCNext]_mcVars

-----------------------------------------------------------------------------
(* The FairSpec of each component, as long as it is the one that runs. *)

\* Instances go on, requests arrive or are lost, time passes, ids are reused;
\* the cron fires again and again, and an acquire asked for again and again is
\* sometimes answered.
FairBatch ==
    /\ WF_lockVars(Runs("batch") /\ Batch!Tick)
    /\ \A q \in Batch!Requests :
          WF_lockVars(Runs("batch") /\ (Batch!Late(q) \/ Batch!Lost(q)))
    /\ \A i \in {i1, i2} :
          /\ WF_lockVars(Runs("batch") /\ Batch!Router(i))
          /\ WF_lockVars(Runs("batch") /\ Batch!Workflow(i))
          /\ WF_lockVars(Runs("batch") /\ Batch!Recycle(i))
    /\ SF_lockVars(Runs("batch") /\ \E i \in {i1, i2} : Batch!StartByCron(i))
    /\ SF_lockVars(Runs("batch") /\ \E i \in {i1, i2} : Batch!Answered(i))

\* The cron runs, days pass and requests come due; of the users nothing is
\* assumed.
FairBrowser ==
    /\ WF_subscriptionVars(Runs("browser") /\ Browser!SelectStale)
    /\ WF_subscriptionVars(Runs("browser") /\ Browser!DeleteStale)
    /\ WF_subscriptionVars(Runs("browser") /\ Browser!Tick)
    /\ \A e \in Browser!Endpoints :
          WF_subscriptionVars(Runs("browser") /\ Browser!SettleRequests(e))

\* The crons fire and checks end.
FairMonitor ==
    /\ \A c \in {c1, c2} : WF_issueVars(Runs("monitor") /\ Monitor!Step(c))
    /\ WF_issueVars(Runs("monitor") /\ \E c \in {c1, c2} : Monitor!Start(c, x))

\* The cron dispatches every minute and nothing dies.
FairDispatch ==
    /\ WF_vars(Runs("dispatch") /\ \E d \in {i1, i2} : SelectDueCandidateIds(d))
    /\ \A d \in {i1, i2} : WF_vars(Runs("dispatch") /\ Continue(d))
    /\ WF_vars(Runs("dispatch") /\ Tick)

FairLimited ==
    /\ WF_vars(Runs("limited") /\ \E d \in {i1, i2} : Limited!SelectDueCandidateIds(d))
    /\ \A d \in {i1, i2} : WF_vars(Runs("limited") /\ Limited!Continue(d))

\* Synchronisations end, and every place is scraped again and again.
FairUpsert ==
    /\ \A y \in {i1, i2} : WF_raceVars(Runs("upsert") /\ Upsert!Proceed(y))
    /\ SF_raceVars(Runs("upsert") /\ \E y \in {i1, i2} : Upsert!Scrape(y, {p1}))

MCFairSpec ==
    /\ MCSpec
    /\ FairBatch /\ FairBrowser /\ FairMonitor /\ FairDispatch /\ FairLimited
    /\ FairUpsert

-----------------------------------------------------------------------------
\* Whatever became of its holder, the batch lock moves on.
LockMovesOn == Batch!LockMovesOn

\* A browser that was locked out is let in again: no refused attempt keeps the
\* row alive, so the purge of unused rows reaches it.
LockoutEnds == Browser!LockoutEnds

\* Once requests get through, a condition that stays good has its issues closed
\* and one that stays bad gets an issue, whatever failed on the way.
IssuesFollowCondition == Monitor!IssuesFollowCondition

\* Whatever failed or overlapped, the tables end up as the site lists them.
Converges == <>[](Runs("upsert") => Upsert!Mirror(site.listed, site.cars))
=============================================================================
