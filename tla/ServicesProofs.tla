---------------------------- MODULE ServicesProofs ----------------------------
(***************************************************************************)
(* What the runs check of the services, for any bounds: a behaviour of     *)
(* Services is one of the service it began with, while the others rest,    *)
(* and so what the modules of proofs show of each service holds of it.     *)
(***************************************************************************)
EXTENDS Services, SingleServicesProofs

\* The service is chosen at the start.
LEMMA OneService == [Next]_vars => service' = service
BY DEF Next, Only, vars

-----------------------------------------------------------------------------
(* Accounts. *)

LEMMA RegistrationRuns == Spec => ([]Runs("registration") /\ Registration!Spec) \/ []~Runs("registration")
<1>1. Init /\ Runs("registration") => Registration!Init
  BY DEF Init, Runs, FrontFavoritesRun
<1>2. [Next]_vars /\ Runs("registration") => [Registration!Next]_(Registration!vars)
  BY DEF Next, Only, Runs, vars, accountVars, Registration!vars,
     Registration!history, Registration!tables
<1>3. [Next]_vars => (Runs("registration")' <=> Runs("registration"))
  BY OneService DEF Runs
<1>. QED
  BY <1>1, <1>2, <1>3, PTL DEF Spec, Registration!Spec

LEMMA VisitsRuns == Spec => ([]Runs("visits") /\ Visits!Spec) \/ []~Runs("visits")
<1>1. Init /\ Runs("visits") => Visits!Init
  BY DEF Init, Runs, FrontFavoritesRun
<1>2. [Next]_vars /\ Runs("visits") => [Visits!Next]_(Visits!vars)
  BY DEF Next, Only, Runs, vars, accountVars, Visits!vars, Visits!history,
     Visits!tables
<1>3. [Next]_vars => (Runs("visits")' <=> Runs("visits"))
  BY OneService DEF Runs
<1>. QED
  BY <1>1, <1>2, <1>3, PTL DEF Spec, Visits!Spec

LEMMA JoiningRuns == Spec => ([]Runs("joining") /\ Joining!Spec) \/ []~Runs("joining")
<1>1. Init /\ Runs("joining") => Joining!Init
  BY DEF Init, Runs, FrontFavoritesRun
<1>2. [Next]_vars /\ Runs("joining") => [Joining!Next]_(Joining!vars)
  BY DEF Next, Only, Runs, vars, accountVars, Joining!vars, Joining!history,
     Joining!tables
<1>3. [Next]_vars => (Runs("joining")' <=> Runs("joining"))
  BY OneService DEF Runs
<1>. QED
  BY <1>1, <1>2, <1>3, PTL DEF Spec, Joining!Spec

\* Whatever overlaps or stops half way, an invite begets one account and is spent
\* only on one that can log in (authUsecase.ts, verifyRegistration).
THEOREM InvitesOneUse == Spec => []InviteIsOneUse
<1>1. Registration!Spec => []Registration!InviteIsOneUse
  BY ServicesAssumption, Registration!InvitesHold
<1>2. InviteIsOneUse <=> (Runs("registration") => Registration!InviteIsOneUse)
  BY DEF InviteIsOneUse
<1>. QED
  BY <1>1, <1>2, RegistrationRuns, PTL

\* A challenge lets one ceremony pass (authUsecase.ts, consumeChallenge).
THEOREM ChallengesOnce == Spec => []ChallengePassesOnce
<1>1. Registration!Spec => []Registration!ChallengePassesOnce
  BY ServicesAssumption, Registration!ChallengesHold
<1>2. ChallengePassesOnce <=> (Runs("registration") => Registration!ChallengePassesOnce)
  BY DEF ChallengePassesOnce
<1>. QED
  BY <1>1, <1>2, RegistrationRuns, PTL

\* Sessions and favourites belong to users who can log in (authUsecase.ts).
THEOREM OwnersStand == Spec => []SessionsHaveOwners
<1>1. Registration!Spec => []Registration!SessionsHaveOwners
  BY ServicesAssumption, Registration!OwnersHold
<1>2. Visits!Spec => []Visits!SessionsHaveOwners
  BY ServicesAssumption, Visits!OwnersHold
<1>3. SessionsHaveOwners <=>
       /\ (Runs("registration") => Registration!SessionsHaveOwners)
       /\ (Runs("visits") => Visits!SessionsHaveOwners)
  BY DEF SessionsHaveOwners
<1>. QED
  BY <1>1, <1>2, <1>3, RegistrationRuns, VisitsRuns, PTL

\* A session that has ended does not come back (authUsecase.ts, the refresh of
\* resolveSession).
THEOREM SessionsEnd == Spec => SessionsEndForGood
<1>1. Visits!Spec => [][Visits!SessionsStayEnded]_(Visits!vars)
  BY ServicesAssumption, Visits!SessionsEnd DEF Visits!SessionsEndForGood
<1>2. [Next]_vars /\ [Visits!SessionsStayEnded]_(Visits!vars)
      => [Runs("visits") => Visits!SessionsStayEnded]_vars
  BY DEF Next, Only, Runs, vars, accountVars, Visits!vars, Visits!history,
     Visits!tables
<1>3. ~Runs("visits") => [Runs("visits") => Visits!SessionsStayEnded]_vars
  OBVIOUS
<1>. QED
  BY <1>1, <1>2, <1>3, VisitsRuns, PTL DEF Spec, SessionsEndForGood

\* A decision on a join request stands (authUsecase.ts, approve and reject).
THEOREM DecisionsHold == Spec => DecisionsStand
<1>1. Joining!Spec => [][Joining!DecisionsKept]_(Joining!vars)
  BY ServicesAssumption, Joining!DecisionsHold DEF Joining!DecisionsStand
<1>2. [Next]_vars /\ [Joining!DecisionsKept]_(Joining!vars)
      => [Runs("joining") => Joining!DecisionsKept]_vars
  BY DEF Next, Only, Runs, vars, accountVars, Joining!vars, Joining!history,
     Joining!tables
<1>3. ~Runs("joining") => [Runs("joining") => Joining!DecisionsKept]_vars
  OBVIOUS
<1>. QED
  BY <1>1, <1>2, <1>3, JoiningRuns, PTL DEF Spec, DecisionsStand

\* Unless two decisions overlapped or one ended half way, a request that names an
\* invite is approved and alone holds an invite issued for it (authUsecase.ts,
\* approveJoinRequest).
THEOREM DecisionsFit == Spec => []DecisionsMatchInvites
<1>1. Joining!Spec => []Joining!DecisionsMatchInvites
  BY ServicesAssumption, Joining!DecisionsMatch
<1>2. DecisionsMatchInvites <=> (Runs("joining") => Joining!DecisionsMatchInvites)
  BY DEF DecisionsMatchInvites
<1>. QED
  BY <1>1, <1>2, JoiningRuns, PTL

-----------------------------------------------------------------------------
(* Web Push subscriptions. *)

LEMMA BrowserRuns == Spec => ([]Runs("browser") /\ Browser!Spec) \/ []~Runs("browser")
<1>1. Init /\ Runs("browser") => Browser!Init
  BY DEF Init, Runs, FrontFavoritesRun
<1>2. [Next]_vars /\ Runs("browser") => [Browser!Next]_(Browser!vars)
  BY DEF Next, Only, Runs, vars, subscriptionVars, Browser!vars, Browser!client,
     Browser!server
<1>3. [Next]_vars => (Runs("browser")' <=> Runs("browser"))
  BY OneService DEF Runs
<1>. QED
  BY <1>1, <1>2, <1>3, PTL DEF Spec, Browser!Spec

LEMMA RenewalRuns == Spec => ([]Runs("renewal") /\ Renewal!Spec) \/ []~Runs("renewal")
<1>1. Init /\ Runs("renewal") => Renewal!Init
  BY DEF Init, Runs, FrontFavoritesRun
<1>2. [Next]_vars /\ Runs("renewal") => [Renewal!Next]_(Renewal!vars)
  BY DEF Next, Only, Runs, vars, subscriptionVars, Renewal!vars, Renewal!client,
     Renewal!server
<1>3. [Next]_vars => (Runs("renewal")' <=> Runs("renewal"))
  BY OneService DEF Runs
<1>. QED
  BY <1>1, <1>2, <1>3, PTL DEF Spec, Renewal!Spec

LEMMA RenewedTabsRuns == Spec => ([]Runs("renewedTabs") /\ RenewedTabs!Spec) \/ []~Runs("renewedTabs")
<1>1. Init /\ Runs("renewedTabs") => RenewedTabs!Init
  BY DEF Init, Runs, FrontFavoritesRun
<1>2. [Next]_vars /\ Runs("renewedTabs") => [RenewedTabs!Next]_(RenewedTabs!vars)
  BY DEF Next, Only, Runs, vars, subscriptionVars, RenewedTabs!vars,
     RenewedTabs!client, RenewedTabs!server, RenewedTabs!Next
<1>3. [Next]_vars => (Runs("renewedTabs")' <=> Runs("renewedTabs"))
  BY OneService DEF Runs
<1>. QED
  BY <1>1, <1>2, <1>3, PTL DEF Spec, RenewedTabs!Spec

\* A browser keeps access to the subscription it registered, unless an answer was
\* lost or calls of its tabs overlapped (pushUsecase.ts, subscribe).
THEOREM AccessKept == Spec => []ClientsKeepAccess
<1>1. Browser!Spec => []Browser!ClientsKeepAccess
  BY ServicesAssumption, Browser!AccessKept
<1>2. Renewal!Spec => []Renewal!ClientsKeepAccess
  BY ServicesAssumption, Renewal!AccessKept
<1>3. RenewedTabs!Spec => []RenewedTabs!ClientsKeepAccess
  BY ServicesAssumption, RenewedTabs!AccessKept
<1>4. ClientsKeepAccess <=>
       /\ (Runs("browser") => Browser!ClientsKeepAccess)
       /\ (Runs("renewal") => Renewal!ClientsKeepAccess)
       /\ (Runs("renewedTabs") => RenewedTabs!ClientsKeepAccess)
  BY DEF ClientsKeepAccess
<1>. QED
  BY <1>1, <1>2, <1>3, <1>4, BrowserRuns, RenewalRuns, RenewedTabsRuns, PTL

\* A subscription and its notification requests go together
\* (pushSubscriptionRepository.ts).
THEOREM OrphansExplained == Spec => []OrphansAreLateRequests
<1>1. Browser!Spec => []Browser!OrphansAreLateRequests
  BY ServicesAssumption, Browser!OrphansExplained
<1>2. Renewal!Spec => []Renewal!OrphansAreLateRequests
  BY ServicesAssumption, Renewal!OrphansExplained
<1>3. RenewedTabs!Spec => []RenewedTabs!OrphansAreLateRequests
  BY ServicesAssumption, RenewedTabs!OrphansExplained
<1>4. OrphansAreLateRequests <=>
       /\ (Runs("browser") => Browser!OrphansAreLateRequests)
       /\ (Runs("renewal") => Renewal!OrphansAreLateRequests)
       /\ (Runs("renewedTabs") => RenewedTabs!OrphansAreLateRequests)
  BY DEF OrphansAreLateRequests
<1>. QED
  BY <1>1, <1>2, <1>3, <1>4, BrowserRuns, RenewalRuns, RenewedTabsRuns, PTL

\* The purge deletes no subscription in use, but for one used again between its
\* statements (pushSubscriptionRepository.ts, purgeStale).
THEOREM PurgesJustified == Spec => PurgesOnlyUnused
<1>1. Browser!Spec => [][Browser!PurgesUnused]_(Browser!vars)
  BY ServicesAssumption, Browser!PurgesJustified DEF Browser!PurgesOnlyUnused
<1>2. [Next]_vars /\ [Browser!PurgesUnused]_(Browser!vars)
      => [Runs("browser") => Browser!PurgesUnused]_vars
  BY DEF Next, Only, Runs, vars, subscriptionVars, Browser!vars, Browser!client,
     Browser!server
<1>3. ~Runs("browser") => [Runs("browser") => Browser!PurgesUnused]_vars
  OBVIOUS
<1>. QED
  BY <1>1, <1>2, <1>3, BrowserRuns, PTL DEF Spec, PurgesOnlyUnused

-----------------------------------------------------------------------------
(* GitHub issues. *)

LEMMA MonitorsRuns == Spec => ([]Runs("monitors") /\ Monitors!Spec) \/ []~Runs("monitors")
<1>1. Init /\ Runs("monitors") => Monitors!Init
  BY DEF Init, Runs, FrontFavoritesRun
<1>2. [Next]_vars /\ Runs("monitors") => [Monitors!Next]_(Monitors!vars)
  BY DEF Next, Only, Runs, vars, issueVars, Monitors!vars
<1>3. [Next]_vars => (Runs("monitors")' <=> Runs("monitors"))
  BY OneService DEF Runs
<1>. QED
  BY <1>1, <1>2, <1>3, PTL DEF Spec, Monitors!Spec

\* However many checks, outages and people act on the issues, a condition has one
\* open issue unless two checks of it overlapped or a check met the issues of
\* another with stale knowledge (githubIssueSync.ts, syncGithubIssueByCondition).
THEOREM OneIssue == Spec => []OneIssuePerTitle
<1>1. Monitors!Spec => []Monitors!OneIssuePerTitle
  BY IssuesAlone
<1>2. OneIssuePerTitle <=> (Runs("monitors") => Monitors!OneIssuePerTitle)
  BY DEF OneIssuePerTitle
<1>. QED
  BY <1>1, <1>2, MonitorsRuns, PTL

\* A check that nothing interfered with leaves an open issue when it found the
\* condition bad, and one less or none when it found it recovered (githubIssueSync.ts).
THEOREM LoneChecksSettle == Spec => LoneCheckSettles
<1>1. Monitors!Spec => [][Monitors!LoneCheckSettled]_(Monitors!vars)
  BY ChecksSettle
<1>2. [Next]_vars /\ [Monitors!LoneCheckSettled]_(Monitors!vars)
      => [Runs("monitors") => Monitors!LoneCheckSettled]_vars
  BY DEF Next, Only, Runs, vars, issueVars, Monitors!vars
<1>3. ~Runs("monitors") => [Runs("monitors") => Monitors!LoneCheckSettled]_vars
  OBVIOUS
<1>. QED
  BY <1>1, <1>2, <1>3, MonitorsRuns, PTL DEF Spec, LoneCheckSettles

-----------------------------------------------------------------------------
(* Requests to the api. *)

LEMMA RouterRuns == Spec => ([]Runs("router") /\ Router!Spec) \/ []~Runs("router")
<1>1. Init /\ Runs("router") => Router!Init
  BY DEF Init, Runs, FrontFavoritesRun
<1>2. [Next]_vars /\ Runs("router") => [Router!Next]_(Router!vars)
  BY DEF Next, Only, Runs, vars, routerVars, Router!vars
<1>3. [Next]_vars => (Runs("router")' <=> Runs("router"))
  BY OneService DEF Runs
<1>. QED
  BY <1>1, <1>2, <1>3, PTL DEF Spec, Router!Spec

\* A handler runs as the caller its own request proved, whatever else runs in the
\* isolate (router.ts, requireAppAuth; requestContext.ts).
THEOREM CallersKnown == Spec => []HandlersKnowTheirCaller
<1>1. Router!Spec => []Router!HandlersKnowTheirCaller
  BY RouterHolds, CallerKnown, PTL
<1>2. HandlersKnowTheirCaller <=> (Runs("router") => Router!HandlersKnowTheirCaller)
  BY DEF HandlersKnowTheirCaller
<1>. QED
  BY <1>1, <1>2, RouterRuns, PTL

\* The preflight keeps the front from no route whose policy opens it to sessions or
\* to all, but for the renaming of a credential (router.ts, buildCorsMiddleware).
THEOREM FrontPassesPreflight == Spec => []FrontReachesItsRoutes
<1>1. Router!Spec => []Router!FrontReachesItsRoutes
  BY RouterHolds, FrontPasses, PTL
<1>2. FrontReachesItsRoutes <=> (Runs("router") => Router!FrontReachesItsRoutes)
  BY DEF FrontReachesItsRoutes
<1>. QED
  BY <1>1, <1>2, RouterRuns, PTL

-----------------------------------------------------------------------------
(* Data quality. *)

LEMMA QualityRuns == Spec => ([]Runs("quality") /\ Quality!Spec) \/ []~Runs("quality")
<1>1. Init /\ Runs("quality") => Quality!Init
  BY DEF Init, Runs, FrontFavoritesRun
<1>2. [Next]_vars /\ Runs("quality") => [Quality!Next]_(Quality!vars)
  BY DEF Next, Only, Runs, vars, qualityVars, Quality!vars
<1>3. [Next]_vars => (Runs("quality")' <=> Runs("quality"))
  BY OneService DEF Runs
<1>. QED
  BY <1>1, <1>2, <1>3, PTL DEF Spec, Quality!Spec

\* The issue of a source is open after a check only for a warning of the window
\* of that check, whatever the texts of the instants (dataQualityWarningCheck.ts,
\* checkOneSource).
THEOREM AlarmsAreRecent == Spec => []AlarmIsRecent
<1>1. Quality!Spec => []Quality!AlarmIsRecent
  BY QualityHolds, PTL DEF QualityInv
<1>2. AlarmIsRecent <=> (Runs("quality") => Quality!AlarmIsRecent)
  BY DEF AlarmIsRecent
<1>. QED
  BY <1>1, <1>2, QualityRuns, PTL

-----------------------------------------------------------------------------
(* Releases. *)

LEMMA ReleasesRuns == Spec => ([]Runs("releases") /\ Releases!Spec) \/ []~Runs("releases")
<1>1. Init /\ Runs("releases") => Releases!Init
  BY DEF Init, Runs, FrontFavoritesRun
<1>2. [Next]_vars /\ Runs("releases") => [Releases!Next]_(Releases!vars)
  BY DEF Next, Only, Runs, vars, releaseVars, Releases!vars
<1>3. [Next]_vars => (Runs("releases")' <=> Runs("releases"))
  BY OneService DEF Runs
<1>. QED
  BY <1>1, <1>2, <1>3, PTL DEF Spec, Releases!Spec

\* Releases follow each other in order, and an automatic one brings nothing that a
\* person should have published (auto-release.ts).
THEOREM ReleasesOrdered == Spec => []ReleasesInOrder
<1>1. Releases!Spec => []Releases!VersionsIncrease
  BY SingleServicesAssumption, ReleasesIncrease
<1>2. Releases!Spec => []Releases!MajorAwaitsPerson
  BY SingleServicesAssumption, MajorWaits
<1>3. ReleasesInOrder <=>
        (Runs("releases") => Releases!VersionsIncrease /\ Releases!MajorAwaitsPerson)
  BY DEF ReleasesInOrder
<1>. QED
  BY <1>1, <1>2, <1>3, ReleasesRuns, PTL

-----------------------------------------------------------------------------
(* The favourites of the front. *)

LEMMA FavoritesRuns == Spec => ([]Runs("favorites") /\ Favorites!Spec) \/ []~Runs("favorites")
<1>1. Init /\ Runs("favorites") => Favorites!Init
  BY DEF Init, Runs, FrontFavoritesRun
<1>2. [Next]_vars /\ Runs("favorites") => [Favorites!Next]_(Favorites!vars)
  BY DEF Next, Only, Runs, vars, favoriteVars, Favorites!vars, Favorites!client,
     Favorites!history
<1>3. [Next]_vars => (Runs("favorites")' <=> Runs("favorites"))
  BY OneService DEF Runs
<1>. QED
  BY <1>1, <1>2, <1>3, PTL DEF Spec, Favorites!Spec

LEMMA CalmFavoritesRuns == Spec => ([]Runs("calmFavorites") /\ CalmFavorites!Spec) \/ []~Runs("calmFavorites")
<1>1. Init /\ Runs("calmFavorites") => CalmFavorites!Init
  BY DEF Init, Runs, FrontFavoritesRun
<1>2. [Next]_vars /\ Runs("calmFavorites") => [CalmFavorites!Next]_(CalmFavorites!vars)
  BY DEF Next, Only, Runs, vars, favoriteVars, CalmFavorites!vars,
     CalmFavorites!client, CalmFavorites!history
<1>3. [Next]_vars => (Runs("calmFavorites")' <=> Runs("calmFavorites"))
  BY OneService DEF Runs
<1>. QED
  BY <1>1, <1>2, <1>3, PTL DEF Spec, CalmFavorites!Spec

LEMMA FailingFavoritesRuns == Spec => ([]Runs("failingFavorites") /\ FailingFavorites!Spec) \/ []~Runs("failingFavorites")
<1>1. Init /\ Runs("failingFavorites") => FailingFavorites!Init
  BY DEF Init, Runs, FrontFavoritesRun
<1>2. [Next]_vars /\ Runs("failingFavorites") => [FailingFavorites!Next]_(FailingFavorites!vars)
  BY DEF Next, Only, Runs, vars, favoriteVars, FailingFavorites!vars,
     FailingFavorites!client, FailingFavorites!history
<1>3. [Next]_vars => (Runs("failingFavorites")' <=> Runs("failingFavorites"))
  BY OneService DEF Runs
<1>. QED
  BY <1>1, <1>2, <1>3, PTL DEF Spec, FailingFavorites!Spec

LEMMA EarlyFavoritesRuns == Spec => ([]Runs("earlyFavorites") /\ EarlyFavorites!Spec) \/ []~Runs("earlyFavorites")
<1>1. Init /\ Runs("earlyFavorites") => EarlyFavorites!Init
  BY DEF Init, Runs, FrontFavoritesRun
<1>2. [Next]_vars /\ Runs("earlyFavorites") => [EarlyFavorites!Next]_(EarlyFavorites!vars)
  BY DEF Next, Only, Runs, vars, favoriteVars, EarlyFavorites!vars,
     EarlyFavorites!client, EarlyFavorites!history
<1>3. [Next]_vars => (Runs("earlyFavorites")' <=> Runs("earlyFavorites"))
  BY OneService DEF Runs
<1>. QED
  BY <1>1, <1>2, <1>3, PTL DEF Spec, EarlyFavorites!Spec

\* However saves overlap and fail, a favourite leaves the server only when a tap
\* took it off the list (remote_favorites_repository.dart, save).
THEOREM RemovedOnly == Spec => OnlyRemovedDisappear
<1>1. Favorites!Spec => [][Favorites!OnlyRemovedDisappears]_(Favorites!vars)
  BY ServicesAssumption, Favorites!RemovedOnly DEF Favorites!OnlyRemovedDisappear
<1>2. [Next]_vars /\ [Favorites!OnlyRemovedDisappears]_(Favorites!vars)
      => [Runs("favorites") => Favorites!OnlyRemovedDisappears]_vars
  BY DEF Next, Only, Runs, vars, favoriteVars, Favorites!vars, Favorites!client,
     Favorites!history
<1>3. ~Runs("favorites") => [Runs("favorites") => Favorites!OnlyRemovedDisappears]_vars
  OBVIOUS
<1>. QED
  BY <1>1, <1>2, <1>3, FavoritesRuns, PTL DEF Spec, OnlyRemovedDisappear

\* While no request fails and no save overlaps another, what the list shows once
\* all is quiet is what the server has (favorite_ids_provider.dart).
THEOREM SettledSaved == Spec => []SettledIsSaved
<1>1. CalmFavorites!Spec => []CalmFavorites!SettledIsSaved
  BY ServicesAssumption, CalmFavorites!SettledSaved
<1>2. SettledIsSaved <=> (Runs("calmFavorites") => CalmFavorites!SettledIsSaved)
  BY DEF SettledIsSaved
<1>. QED
  BY <1>1, <1>2, CalmFavoritesRuns, PTL

-----------------------------------------------------------------------------
(* The session of the front. *)

LEMMA SessionsRuns == Spec => ([]Runs("sessions") /\ Sessions!Spec) \/ []~Runs("sessions")
<1>1. Init /\ Runs("sessions") => Sessions!Init
  BY DEF Init, Runs, FrontFavoritesRun
<1>2. [Next]_vars /\ Runs("sessions") => [Sessions!Next]_(Sessions!vars)
  BY DEF Next, Only, Runs, vars, sessionVars, Sessions!vars, Sessions!api,
     Sessions!joining, Sessions!memory
<1>3. [Next]_vars => (Runs("sessions")' <=> Runs("sessions"))
  BY OneService DEF Runs
<1>. QED
  BY <1>1, <1>2, <1>3, PTL DEF Spec, Sessions!Spec

\* However polls overlap and screens come and go, no invite is registered twice
\* side by side, unless the form was submitted again before its answer
\* (join_request_screen.dart, _poll).
THEOREM InviteOnce == Spec => []InviteRegistersAlone
<1>1. Sessions!Spec => []Sessions!InviteRegistersAlone
  BY JoinHolds, JoinCeremonies, PTL
<1>2. InviteRegistersAlone <=> (Runs("sessions") => Sessions!InviteRegistersAlone)
  BY DEF InviteRegistersAlone
<1>. QED
  BY <1>1, <1>2, SessionsRuns, PTL

\* Neither a failure nor a restart takes a session that holds from the user,
\* unless a 401 met another session than its own (session_provider.dart, save
\* and clear; auth_interceptor.dart, onUnauthorized).
THEOREM SessionKept == Spec => SessionOutlivesFailures
<1>1. Sessions!Spec => [][Sessions!KeepsSession]_(Sessions!vars)
  BY KeepsSessions
<1>2. [Next]_vars /\ [Sessions!KeepsSession]_(Sessions!vars)
      => [Runs("sessions") => Sessions!KeepsSession]_vars
  BY DEF Next, Only, Runs, vars, sessionVars, Sessions!vars, Sessions!api,
     Sessions!joining, Sessions!memory
<1>3. ~Runs("sessions") => [Runs("sessions") => Sessions!KeepsSession]_vars
  OBVIOUS
<1>. QED
  BY <1>1, <1>2, <1>3, SessionsRuns, PTL DEF Spec, SessionOutlivesFailures

-----------------------------------------------------------------------------
(* Notifications. *)

LEMMA NotificationsRuns == Spec => ([]Runs("notifications") /\ Notifications!Spec) \/ []~Runs("notifications")
<1>1. Init /\ Runs("notifications") => Notifications!Init
  BY DEF Init, Runs, FrontFavoritesRun
<1>2. [Next]_vars /\ Runs("notifications") => [Notifications!Next]_(Notifications!vars)
  BY DEF Next, Only, Runs, vars, notificationVars, Notifications!vars
<1>3. [Next]_vars => (Runs("notifications")' <=> Runs("notifications"))
  BY OneService DEF Runs
<1>. QED
  BY <1>1, <1>2, <1>3, PTL DEF Spec, Notifications!Spec

\* However synchronisations overlap, the notifications follow the favourites and
\* the races of the day.  Excused are the races that lost a request, of which two
\* synchronisations wanted different things, or that left the list while it
\* reloaded (app.dart, timeline_screen.dart).
THEOREM ListsFollowed == Spec => []NotificationsFollowLists
<1>1. NotificationTyped => Notifications!NotificationsFollowLists
  BY SingleServicesAssumption, NotificationFollows DEF NotificationTyped
<1>2. NotificationsFollowLists
        <=> (Runs("notifications") => Notifications!NotificationsFollowLists)
  BY DEF NotificationsFollowLists
<1>. QED  BY <1>1, <1>2, NotificationsHold, NotificationsRuns, PTL

-----------------------------------------------------------------------------
(* The days of a batch. *)

LEMMA DatesRuns == Spec => ([]Runs("dates") /\ Dates!Spec) \/ []~Runs("dates")
<1>1. Init /\ Runs("dates") => Dates!Init
  BY DEF Init, Runs, FrontFavoritesRun
<1>2. [Next]_vars /\ Runs("dates") => [Dates!Next]_(Dates!vars)
  BY DEF Next, Only, Runs, vars, dateVars, Dates!vars
<1>3. [Next]_vars => (Runs("dates")' <=> Runs("dates"))
  BY OneService DEF Runs
<1>. QED
  BY <1>1, <1>2, <1>3, PTL DEF Spec, Dates!Spec

\* Whatever the hour and the door, a batch works on every day it was asked for and
\* on none it was not, and what one door accepts the other accepts too
\* (dateRange.ts, queryParamParser.ts, validation.ts).
THEOREM AskedDays == Spec => []WorksOnAskedDays
<1>1. DatesInv => Dates!WorksOnAskedDays /\ Dates!DoorsAgree
  BY SingleServicesAssumption, DoorsAgreeAlways DEF DatesInv
<1>2. WorksOnAskedDays
        <=> (Runs("dates") => Dates!WorksOnAskedDays /\ Dates!DoorsAgree)
  BY DEF WorksOnAskedDays
<1>. QED  BY <1>1, <1>2, DatesHold, DatesRuns, PTL

-----------------------------------------------------------------------------
(* Types.  What the invariants above say of the variables, together.       *)

AccountTypes ==
    /\ Runs("registration") => Registration!TypeOK
    /\ Runs("visits") => Visits!TypeOK
    /\ Runs("joining") => Joining!TypeOK
SubscriptionTypes ==
    /\ Runs("browser") => Browser!TypeOK
    /\ Runs("renewal") => Renewal!TypeOK
    /\ Runs("renewedTabs") => RenewedTabs!TypeOK
FavouriteTypes ==
    /\ Runs("favorites") => Favorites!TypeOK
    /\ Runs("calmFavorites") => CalmFavorites!TypeOK
    /\ Runs("failingFavorites") => FailingFavorites!TypeOK
    /\ Runs("earlyFavorites") => EarlyFavorites!TypeOK
FrontTypes ==
    /\ Runs("notifications") => Notifications!TypeOK
    /\ Runs("sessions") => Sessions!TypeOK
WorkerTypes ==
    /\ Runs("monitors") => Monitors!TypeOK
    /\ Runs("router") => Router!TypeOK
    /\ Runs("quality") => Quality!TypeOK
JobTypes ==
    /\ Runs("releases") => Releases!TypeOK
    /\ Runs("dates") => Dates!TypeOK

LEMMA AccountTypesHold == Spec => []AccountTypes
<1>1. Registration!Spec => []Registration!TypeOK
  BY ServicesAssumption, Registration!TypeCorrect
<1>2. Visits!Spec => []Visits!TypeOK
  BY ServicesAssumption, Visits!TypeCorrect
<1>3. Joining!Spec => []Joining!TypeOK
  BY ServicesAssumption, Joining!TypeCorrect
<1>4. AccountTypes <=>
       /\ (Runs("registration") => Registration!TypeOK)
       /\ (Runs("visits") => Visits!TypeOK)
       /\ (Runs("joining") => Joining!TypeOK)
  BY DEF AccountTypes
<1>. QED
  BY <1>1, <1>2, <1>3, <1>4, RegistrationRuns, VisitsRuns, JoiningRuns, PTL

LEMMA SubscriptionTypesHold == Spec => []SubscriptionTypes
<1>1. Browser!Spec => []Browser!TypeOK
  BY ServicesAssumption, Browser!TypeCorrect
<1>2. Renewal!Spec => []Renewal!TypeOK
  BY ServicesAssumption, Renewal!TypeCorrect
<1>3. RenewedTabs!Spec => []RenewedTabs!TypeOK
  BY ServicesAssumption, RenewedTabs!TypeCorrect
<1>4. SubscriptionTypes <=>
       /\ (Runs("browser") => Browser!TypeOK)
       /\ (Runs("renewal") => Renewal!TypeOK)
       /\ (Runs("renewedTabs") => RenewedTabs!TypeOK)
  BY DEF SubscriptionTypes
<1>. QED
  BY <1>1, <1>2, <1>3, <1>4, BrowserRuns, RenewalRuns, RenewedTabsRuns, PTL

LEMMA FavouriteTypesHold == Spec => []FavouriteTypes
<1>1. Favorites!Spec => []Favorites!TypeOK
  BY ServicesAssumption, Favorites!TypeCorrect
<1>2. CalmFavorites!Spec => []CalmFavorites!TypeOK
  BY ServicesAssumption, CalmFavorites!TypeCorrect
<1>3. FailingFavorites!Spec => []FailingFavorites!TypeOK
  BY ServicesAssumption, FailingFavorites!TypeCorrect
<1>4. EarlyFavorites!Spec => []EarlyFavorites!TypeOK
  BY ServicesAssumption, EarlyFavorites!TypeCorrect
<1>5. FavouriteTypes <=>
       /\ (Runs("favorites") => Favorites!TypeOK)
       /\ (Runs("calmFavorites") => CalmFavorites!TypeOK)
       /\ (Runs("failingFavorites") => FailingFavorites!TypeOK)
       /\ (Runs("earlyFavorites") => EarlyFavorites!TypeOK)
  BY DEF FavouriteTypes
<1>. QED
  BY <1>1, <1>2, <1>3, <1>4, <1>5, FavoritesRuns, CalmFavoritesRuns,
     FailingFavoritesRuns, EarlyFavoritesRuns, PTL

LEMMA FrontTypesHold == Spec => []FrontTypes
<1>1. Notifications!Spec => []Notifications!TypeOK
  BY NotificationsHold, NotificationTypesHold, PTL
<1>2. Sessions!Spec => []Sessions!TypeOK
  BY SingleServicesAssumption, SessionTypes
<1>3. FrontTypes <=>
       /\ (Runs("notifications") => Notifications!TypeOK)
       /\ (Runs("sessions") => Sessions!TypeOK)
  BY DEF FrontTypes
<1>. QED
  BY <1>1, <1>2, <1>3, NotificationsRuns, SessionsRuns, PTL

LEMMA WorkerTypesHold == Spec => []WorkerTypes
<1>1. Monitors!Spec => []Monitors!TypeOK
  BY IssueTypes
<1>2. Router!Spec => []Router!TypeOK
  BY RouterTypes
<1>3. Quality!Spec => []Quality!TypeOK
  BY QualityTypes
<1>4. WorkerTypes <=>
       /\ (Runs("monitors") => Monitors!TypeOK)
       /\ (Runs("router") => Router!TypeOK)
       /\ (Runs("quality") => Quality!TypeOK)
  BY DEF WorkerTypes
<1>. QED
  BY <1>1, <1>2, <1>3, <1>4, MonitorsRuns, RouterRuns, QualityRuns, PTL

LEMMA JobTypesHold == Spec => []JobTypes
<1>1. Releases!Spec => []Releases!TypeOK
  BY SingleServicesAssumption, ReleaseTypes
<1>2. Dates!Spec => []Dates!TypeOK
  BY DateTypes
<1>3. JobTypes <=>
       /\ (Runs("releases") => Releases!TypeOK)
       /\ (Runs("dates") => Dates!TypeOK)
  BY DEF JobTypes
<1>. QED
  BY <1>1, <1>2, <1>3, ReleasesRuns, DatesRuns, PTL

\* Every service keeps to its types, its bounds and the relations between its
\* tables that its types state.
THEOREM TypesHold == Spec => []TypeOK
<1>1. AccountTypes /\ SubscriptionTypes /\ FavouriteTypes /\ FrontTypes /\ WorkerTypes /\
     JobTypes => TypeOK
  BY DEF TypeOK, AccountTypes, SubscriptionTypes, FavouriteTypes, FrontTypes,
     WorkerTypes, JobTypes
<1>. QED
  BY <1>1, AccountTypesHold, SubscriptionTypesHold, FavouriteTypesHold,
     FrontTypesHold, WorkerTypesHold, JobTypesHold, PTL
=============================================================================
