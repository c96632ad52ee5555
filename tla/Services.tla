------------------------------- MODULE Services -------------------------------
(***************************************************************************)
(* The services beside each other.  They share no state in the code, so    *)
(* every behaviour is one of a single service, chosen at the start, while  *)
(* the others rest in their initial states.  The services of SingleServices *)
(* are there once, those declared here several times, each time with       *)
(* bounds and circumstances of its own.                                    *)
(***************************************************************************)
EXTENDS SingleServices

CONSTANTS
    RegistrationBounds, VisitsBounds, JoiningBounds, BrowserBounds,
    RenewalBounds, RenewedTabsBounds, FavoritesBounds, CalmFavoritesBounds,
    FailingFavoritesBounds, EarlyFavoritesBounds

VARIABLES
    now, invites, challenges, credentials, sessions, joinRequests, minted,
    favorites, call, invitedBy, issuedFor, passed, late, crossed,
    keeps, endpoint, prefs, memory, post, rows, requests, judged, purging,
    crossedTabs, orphaned, freshened,
    serverFavorites, load, snapshot, shown, manual, pending, listeners, knownIds,
    saves, taps, failed, lastSaved, removed

accountVars == <<now, invites, challenges, credentials, sessions, joinRequests,
                 minted, favorites, call, invitedBy, issuedFor, passed, late,
                 crossed>>
subscriptionVars == <<keeps, endpoint, prefs, memory, post, rows, requests,
                      judged, purging, crossedTabs, orphaned, freshened>>
favoriteVars == <<serverFavorites, load, snapshot, shown, manual, pending,
                  listeners, knownIds, saves, taps, failed, lastSaved, removed>>
vars == <<service, accountVars, subscriptionVars, issueVars, routerVars,
          favoriteVars, qualityVars, releaseVars, notificationVars, sessionVars,
          dateVars>>

-----------------------------------------------------------------------------
\* Accounts: any calls; the refreshes of sessions; the decisions on join requests.
Registration == INSTANCE AccountsProofs WITH
    Calls <- RegistrationBounds.Calls,
    JoinRequests <- RegistrationBounds.JoinRequests,
    InviteTtl <- RegistrationBounds.InviteTtl,
    SessionTtl <- RegistrationBounds.SessionTtl,
    ChallengeTtl <- RegistrationBounds.ChallengeTtl,
    MaxNow <- RegistrationBounds.MaxNow,
    MaxInvites <- RegistrationBounds.MaxInvites,
    MaxChallenges <- RegistrationBounds.MaxChallenges,
    MaxUsers <- RegistrationBounds.MaxUsers,
    MaxSessions <- RegistrationBounds.MaxSessions
Visits == INSTANCE AccountsProofs WITH
    Calls <- VisitsBounds.Calls, JoinRequests <- VisitsBounds.JoinRequests,
    InviteTtl <- VisitsBounds.InviteTtl, SessionTtl <- VisitsBounds.SessionTtl,
    ChallengeTtl <- VisitsBounds.ChallengeTtl, MaxNow <- VisitsBounds.MaxNow,
    MaxInvites <- VisitsBounds.MaxInvites,
    MaxChallenges <- VisitsBounds.MaxChallenges,
    MaxUsers <- VisitsBounds.MaxUsers, MaxSessions <- VisitsBounds.MaxSessions
Joining == INSTANCE AccountsProofs WITH
    Calls <- JoiningBounds.Calls, JoinRequests <- JoiningBounds.JoinRequests,
    InviteTtl <- JoiningBounds.InviteTtl,
    SessionTtl <- JoiningBounds.SessionTtl,
    ChallengeTtl <- JoiningBounds.ChallengeTtl, MaxNow <- JoiningBounds.MaxNow,
    MaxInvites <- JoiningBounds.MaxInvites,
    MaxChallenges <- JoiningBounds.MaxChallenges,
    MaxUsers <- JoiningBounds.MaxUsers, MaxSessions <- JoiningBounds.MaxSessions

\* The tabs of a browser, which may lose answers; a browser that loses none; and
\* tabs while the api removes nothing of itself.
Browser == INSTANCE PushSubscriptionProofs WITH
    Tabs <- BrowserBounds.Tabs, MaxEndpoint <- BrowserBounds.MaxEndpoint,
    Secrets <- BrowserBounds.Secrets, Retention <- BrowserBounds.Retention,
    Losses <- TRUE, call <- post, crossed <- crossedTabs
Renewal == INSTANCE PushSubscriptionProofs WITH
    Tabs <- RenewalBounds.Tabs, MaxEndpoint <- RenewalBounds.MaxEndpoint,
    Secrets <- RenewalBounds.Secrets, Retention <- RenewalBounds.Retention,
    Losses <- FALSE, call <- post, crossed <- crossedTabs
RenewedTabs == INSTANCE PushSubscriptionProofs WITH
    Tabs <- RenewedTabsBounds.Tabs,
    MaxEndpoint <- RenewedTabsBounds.MaxEndpoint,
    Secrets <- RenewedTabsBounds.Secrets,
    Retention <- RenewedTabsBounds.Retention, Losses <- TRUE, call <- post,
    crossed <- crossedTabs

\* Favourites whose saves overlap and fail; saves one after the other, without
\* and with failures; taps before they are loaded.
Favorites == INSTANCE FrontFavoritesProofs WITH
    Races <- FavoritesBounds.Races, Slots <- FavoritesBounds.Slots,
    MaxTaps <- FavoritesBounds.MaxTaps,
    MaxFailures <- FavoritesBounds.MaxFailures, EarlyTaps <- FALSE,
    Overlaps <- TRUE, favorites <- serverFavorites
CalmFavorites == INSTANCE FrontFavoritesProofs WITH
    Races <- CalmFavoritesBounds.Races, Slots <- CalmFavoritesBounds.Slots,
    MaxTaps <- CalmFavoritesBounds.MaxTaps, EarlyTaps <- FALSE,
    Overlaps <- FALSE, MaxFailures <- 0, favorites <- serverFavorites
FailingFavorites == INSTANCE FrontFavoritesProofs WITH
    Races <- FailingFavoritesBounds.Races,
    Slots <- FailingFavoritesBounds.Slots,
    MaxTaps <- FailingFavoritesBounds.MaxTaps,
    MaxFailures <- FailingFavoritesBounds.MaxFailures, EarlyTaps <- FALSE,
    Overlaps <- FALSE, favorites <- serverFavorites
EarlyFavorites == INSTANCE FrontFavoritesProofs WITH
    Races <- EarlyFavoritesBounds.Races, Slots <- EarlyFavoritesBounds.Slots,
    MaxTaps <- EarlyFavoritesBounds.MaxTaps,
    MaxFailures <- EarlyFavoritesBounds.MaxFailures, EarlyTaps <- TRUE,
    Overlaps <- FALSE, favorites <- serverFavorites

ASSUME ServicesAssumption ==
    /\ Registration!ConstantsAssumption /\ Visits!ConstantsAssumption
    /\ Joining!ConstantsAssumption
    /\ Browser!ConstantsAssumption /\ Renewal!ConstantsAssumption
    /\ RenewedTabs!ConstantsAssumption
    /\ Favorites!ConstantsAssumption /\ CalmFavorites!ConstantsAssumption
    /\ FailingFavorites!ConstantsAssumption /\ EarlyFavorites!ConstantsAssumption

-----------------------------------------------------------------------------
FrontFavoritesRun ==
    service \in {"favorites", "calmFavorites", "failingFavorites", "earlyFavorites"}

Init ==
    /\ service \in {"registration", "visits", "joining", "browser", "renewal",
                    "renewedTabs", "monitors", "router", "favorites", "calmFavorites",
                    "failingFavorites", "earlyFavorites", "quality", "releases",
                    "notifications", "sessions", "dates"}
    /\ \/ Runs("visits") /\ Visits!Init
       \/ Runs("joining") /\ Joining!Init
       \/ service \notin {"visits", "joining"} /\ Registration!Init
    /\ \/ Runs("renewal") /\ Renewal!Init
       \/ Runs("renewedTabs") /\ RenewedTabs!Init
       \/ service \notin {"renewal", "renewedTabs"} /\ Browser!Init
    /\ service \in {"browser", "renewal", "renewedTabs"} \/ keeps = FALSE
    /\ Monitors!Init
    /\ Router!Init /\ (Runs("router") \/ configured = TRUE)
    /\ \/ Runs("favorites") /\ Favorites!Init
       \/ Runs("failingFavorites") /\ FailingFavorites!Init
       \/ Runs("earlyFavorites") /\ EarlyFavorites!Init
       \/ service \notin {"favorites", "failingFavorites", "earlyFavorites"}
          /\ CalmFavorites!Init
    /\ FrontFavoritesRun \/ serverFavorites = {}
    /\ Quality!Init /\ Releases!Init /\ Notifications!Init /\ Sessions!Init
    /\ Dates!Init

\* Only the variables of one service change.
Only(group) ==
    /\ UNCHANGED service
    /\ group # "accounts" => UNCHANGED accountVars
    /\ group # "subscriptions" => UNCHANGED subscriptionVars
    /\ group # "issues" => UNCHANGED issueVars
    /\ group # "router" => UNCHANGED routerVars
    /\ group # "favorites" => UNCHANGED favoriteVars
    /\ group # "quality" => UNCHANGED qualityVars
    /\ group # "releases" => UNCHANGED releaseVars
    /\ group # "notifications" => UNCHANGED notificationVars
    /\ group # "sessions" => UNCHANGED sessionVars
    /\ group # "dates" => UNCHANGED dateVars

Next ==
    \/ Runs("registration") /\ Registration!Next /\ Only("accounts")
    \/ Runs("visits") /\ Visits!Next /\ Only("accounts")
    \/ Runs("joining") /\ Joining!Next /\ Only("accounts")
    \/ Runs("browser") /\ Browser!Next /\ Only("subscriptions")
    \/ Runs("renewal") /\ Renewal!Next /\ Only("subscriptions")
    \/ Runs("renewedTabs") /\ RenewedTabs!Use /\ Only("subscriptions")
    \/ Runs("monitors") /\ Monitors!Next /\ Only("issues")
    \/ Runs("router") /\ Router!Next /\ Only("router")
    \/ Runs("favorites") /\ Favorites!Next /\ Only("favorites")
    \/ Runs("calmFavorites") /\ CalmFavorites!Next /\ Only("favorites")
    \/ Runs("failingFavorites") /\ FailingFavorites!Next /\ Only("favorites")
    \/ Runs("earlyFavorites") /\ EarlyFavorites!Next /\ Only("favorites")
    \/ Runs("quality") /\ Quality!Next /\ Only("quality")
    \/ Runs("releases") /\ Releases!Next /\ Only("releases")
    \/ Runs("notifications") /\ Notifications!Next /\ Only("notifications")
    \/ Runs("sessions") /\ Sessions!Next /\ Only("sessions")
    \/ Runs("dates") /\ Dates!Next /\ Only("dates")

Spec == Init /\ [][Next]_vars

-----------------------------------------------------------------------------
(* The properties of the services, each in the instances it is about. *)

\* The variables of the service that runs have their types.
TypeOK ==
    /\ Runs("registration") => Registration!TypeOK
    /\ Runs("visits") => Visits!TypeOK
    /\ Runs("joining") => Joining!TypeOK
    /\ Runs("browser") => Browser!TypeOK
    /\ Runs("renewal") => Renewal!TypeOK
    /\ Runs("renewedTabs") => RenewedTabs!TypeOK
    /\ Runs("monitors") => Monitors!TypeOK
    /\ Runs("router") => Router!TypeOK
    /\ Runs("favorites") => Favorites!TypeOK
    /\ Runs("calmFavorites") => CalmFavorites!TypeOK
    /\ Runs("failingFavorites") => FailingFavorites!TypeOK
    /\ Runs("earlyFavorites") => EarlyFavorites!TypeOK
    /\ Runs("quality") => Quality!TypeOK
    /\ Runs("releases") => Releases!TypeOK
    /\ Runs("notifications") => Notifications!TypeOK
    /\ Runs("sessions") => Sessions!TypeOK
    /\ Runs("dates") => Dates!TypeOK

\* An invite begets one account and is spent only on one that can log in.
InviteIsOneUse == Runs("registration") => Registration!InviteIsOneUse

\* A challenge lets one ceremony pass.
ChallengePassesOnce == Runs("registration") => Registration!ChallengePassesOnce

\* Sessions and favourites belong to users who can log in.
SessionsHaveOwners ==
    /\ Runs("registration") => Registration!SessionsHaveOwners
    /\ Runs("visits") => Visits!SessionsHaveOwners

\* A session that has ended does not come back.
SessionsEndForGood == [][Runs("visits") => Visits!SessionsStayEnded]_vars

\* A decided join request and the invites issued for it belong together.
DecisionsMatchInvites == Runs("joining") => Joining!DecisionsMatchInvites

\* A decision on a join request stands.
DecisionsStand == [][Runs("joining") => Joining!DecisionsKept]_vars

\* A browser keeps access to the subscription it registered.
ClientsKeepAccess ==
    /\ Runs("browser") => Browser!ClientsKeepAccess
    /\ Runs("renewal") => Renewal!ClientsKeepAccess
    /\ Runs("renewedTabs") => RenewedTabs!ClientsKeepAccess

\* Subscriptions and their notification requests go together.
OrphansAreLateRequests ==
    /\ Runs("browser") => Browser!OrphansAreLateRequests
    /\ Runs("renewal") => Renewal!OrphansAreLateRequests
    /\ Runs("renewedTabs") => RenewedTabs!OrphansAreLateRequests

\* The purge deletes no subscription in use.
PurgesOnlyUnused == [][Runs("browser") => Browser!PurgesUnused]_vars

\* A condition has one open issue.
OneIssuePerTitle == Runs("monitors") => Monitors!OneIssuePerTitle

\* A check alone leaves the list as the condition it found asks for.
LoneCheckSettles == [][Runs("monitors") => Monitors!LoneCheckSettled]_vars

\* A handler runs as the caller its own request proved, among other requests.
HandlersKnowTheirCaller == Runs("router") => Router!HandlersKnowTheirCaller

\* The front passes the preflight of every route its policy opens to sessions or
\* to all, but for the renaming of a credential.
FrontReachesItsRoutes == Runs("router") => Router!FrontReachesItsRoutes

\* A save takes no favourite from the server that nobody turned off.
OnlyRemovedDisappear == [][Runs("favorites") => Favorites!OnlyRemovedDisappears]_vars

\* What the front shows is what the server has, as long as saves do not overlap
\* and nothing fails.
SettledIsSaved == Runs("calmFavorites") => CalmFavorites!SettledIsSaved

\* The same when a save fails, as the comment of RemoteFavoritesRepository has it.
FailureDoesNoHarm == Runs("failingFavorites") => FailingFavorites!SettledIsSaved

\* A tap before the load has ended touches only the race that was tapped.
EarlyTapTouchesOneRace ==
    [][Runs("earlyFavorites") => EarlyFavorites!OnlyRemovedDisappears]_vars

\* The issue about data quality closes once no warning is recent.
AlarmIsRecent == Runs("quality") => Quality!AlarmIsRecent

\* No warning about data quality escapes the hourly checks.
WarningsAreCounted == Runs("quality") => Quality!WarningsAreCounted

\* Releases follow each other in order, and an automatic one brings nothing that
\* a person should have published.
ReleasesInOrder ==
    Runs("releases") => Releases!VersionsIncrease /\ Releases!MajorAwaitsPerson

\* Scheduled notifications are those of the favourites and the graded races.
NotificationsFollowLists == Runs("notifications") => Notifications!NotificationsFollowLists

\* What leaves the favourites is cancelled, as the comment of
\* _syncFavoriteNotifications has it.
RemovedAreCancelled == Runs("notifications") => Notifications!RemovedAreCancelled

\* Polls that overlap register an invite once.
InviteRegistersAlone == Runs("sessions") => Sessions!InviteRegistersAlone

\* Only a 401 takes a session from the user.
SessionOutlivesFailures == [][Runs("sessions") => Sessions!KeepsSession]_vars

\* A batch works on the days it was asked for, by whichever door.
WorksOnAskedDays == Runs("dates") => Dates!WorksOnAskedDays /\ Dates!DoorsAgree
=============================================================================
