------------------------------- MODULE ApiRoutes -------------------------------
(***************************************************************************)
(* The route tables of packages/api: which handlers router.ts registers,   *)
(* which policy its authorisation gives a request, which security its      *)
(* OpenAPI document promises, which routes are rate limited and which      *)
(* answers may be cached.  A request is a method and a path; paths with a  *)
(* parameter stand for all their instances.                                *)
(***************************************************************************)

\* The routes of some methods on some paths.
On(methods, paths) == methods \X paths

-----------------------------------------------------------------------------
(* What is registered. *)

CalendarRoutes == On({"GET"}, {"/calendar"})
                  \cup On({"GET", "POST", "DELETE"}, {"/calendar/flag"})
PlaceRoutes == On({"GET"}, {"/place/docs"}) \cup On({"GET", "POST"}, {"/place"})
RaceRoutes == On({"GET"}, {"/race/docs", "/race/calendar-event", "/race/players"})
              \cup On({"GET", "POST"}, {"/race"})
PlayerRoutes == On({"GET", "POST"}, {"/player"})
FavoriteRoutes == On({"GET", "POST", "DELETE"}, {"/favorite"})
AuthAdminRoutes ==
    On({"POST"}, {"/auth/invite", "/auth/join-requests/:id/approve",
                  "/auth/join-requests/:id/reject"})
    \cup On({"GET"}, {"/auth/participants", "/auth/join-requests"})
AuthCeremonyRoutes ==
    On({"POST"}, {"/auth/invite/verify", "/auth/register/options",
                  "/auth/register/verify", "/auth/login/options",
                  "/auth/login/verify", "/auth/logout", "/auth/join-request"})
    \cup On({"GET"}, {"/auth/join-request/:id"})
    \cup On({"PATCH"}, {"/auth/credential/:id"})
PushSubscriptionRoutes == On({"POST", "DELETE"}, {"/push/subscription", "/push/request"})
PushDispatchRoutes == On({"POST"}, {"/push/dispatch", "/push/test"})
ServerDrivenUiRoutes == On({"GET"}, {"/ui/announcement", "/ui/race-detail"})
ReleaseNoteRoutes == On({"GET", "POST"}, {"/release-notes"})
DocsRoutes == On({"GET"}, {"/openapi.json", "/docs"})
DebugRoutes == On({"GET"}, {"/debug/database"})
BackfillRoutes == On({"POST"}, {"/internal/backfill/place", "/internal/backfill/race"})
BatchLockRoutes ==
    On({"POST"}, {"/internal/batch-lock/acquire", "/internal/batch-lock/release"})
FeatureFlagRoutes == On({"GET", "POST"}, {"/internal/feature-flags"})
AllReleaseNotesRoutes == On({"GET"}, {"/internal/release-notes"})
UiLayoutRoutes ==
    On({"GET", "POST"}, {"/internal/ui-layout"})
    \cup On({"POST"}, {"/internal/ui-layout/preview"})
InternalRoutes ==
    DebugRoutes \cup BackfillRoutes \cup BatchLockRoutes \cup FeatureFlagRoutes
    \cup AllReleaseNotesRoutes \cup UiLayoutRoutes

Registered ==
    On({"GET"}, {"/health"})
    \cup CalendarRoutes \cup PlaceRoutes \cup RaceRoutes \cup PlayerRoutes
    \cup FavoriteRoutes \cup AuthAdminRoutes \cup AuthCeremonyRoutes
    \cup PushSubscriptionRoutes \cup PushDispatchRoutes
    \cup ServerDrivenUiRoutes \cup ReleaseNoteRoutes \cup DocsRoutes
    \cup InternalRoutes

\* Every path of the tables, and one that nothing is registered for.
Paths == {route[2] : route \in Registered} \cup {"/elsewhere"}
Methods == {"GET", "HEAD", "POST", "PUT", "DELETE", "PATCH"}

\* Workers, pages of the front, pages of another origin.
Clients == {"worker", "front", "other"}

\* Requests a client can make: a page has no service token, and a GET no body.
Possible(routes, sessions) ==
    {q \in [method : Methods, path : Paths, client : Clients,
            service : BOOLEAN, session : sessions, large : BOOLEAN] :
        /\ <<q.method, q.path>> \in routes
        /\ q.service => q.client = "worker"
        /\ q.large => q.method \notin {"GET", "HEAD"}}

\* Hono answers HEAD with the handler of GET.
HandlerOf(method, path) == <<IF method = "HEAD" THEN "GET" ELSE method, path>>
IsRegistered(method, path) == HandlerOf(method, path) \in Registered

-----------------------------------------------------------------------------
(* Who may call: APP_AUTH_ROUTES. *)

\* Prefix patterns such as '/auth/credential/*', and the paths below them.
Below == {<<"/auth/join-request/*", "/auth/join-request/:id">>,
          <<"/auth/credential/*", "/auth/credential/:id">>,
          <<"/auth/join-requests/*", "/auth/join-requests/:id/approve">>,
          <<"/auth/join-requests/*", "/auth/join-requests/:id/reject">>}

\* matchesPath: exact, every path, or a prefix.
MatchesPath(pattern, path) ==
    \/ pattern \in {path, "*"}
    \/ <<pattern, path>> \in Below

PublicRoutes ==
    On({"OPTIONS"}, {"*"})
    \cup On({"GET"}, {"/health", "/openapi.json", "/docs", "/place/docs",
                      "/race/docs", "/auth/join-request/*"})
    \cup On({"POST"}, {"/push/dispatch", "/auth/invite/verify",
                       "/auth/register/options", "/auth/register/verify",
                       "/auth/login/options", "/auth/login/verify",
                       "/auth/logout", "/auth/join-request"})
ServiceOrSessionRoutes ==
    On({"GET"}, {"/ui/announcement", "/ui/race-detail", "/release-notes",
                 "/calendar", "/place", "/race", "/race/calendar-event",
                 "/race/players"})
SessionOnlyRoutes ==
    On({"GET", "POST"}, {"/player"})
    \cup On({"POST", "DELETE"}, {"/push/subscription", "/push/request"})
    \cup On({"POST"}, {"/push/test"})
    \cup On({"GET", "POST", "DELETE"}, {"/favorite"})
    \cup On({"PATCH"}, {"/auth/credential/*"})

Matches(method, path, routes) ==
    \E route \in routes : route[1] = method /\ MatchesPath(route[2], path)

\* resolvePolicy: a route that is not listed is service-only.
ResolvePolicy(method, path) ==
    CASE Matches(method, path, PublicRoutes) -> "public"
      [] Matches(method, path, ServiceOrSessionRoutes) -> "service-or-session"
      [] Matches(method, path, SessionOnlyRoutes) -> "session-only"
      [] OTHER -> "service-only"

AcceptsServiceAuth(policy) == policy \in {"service-only", "service-or-session"}
AcceptsSessionAuth(policy) == policy \in {"session-only", "service-or-session"}

-----------------------------------------------------------------------------
(* What openApiSpec.ts promises of the operations it documents. *)

DocumentedPublic == On({"GET"}, {"/health"})
DocumentedServiceOrSession ==
    On({"GET"}, {"/ui/announcement", "/ui/race-detail", "/release-notes", "/calendar"})
DocumentedPlace == On({"GET"}, {"/place"})
DocumentedRace == On({"GET"}, {"/race", "/race/calendar-event", "/race/players"})
DocumentedPlayer == On({"GET", "POST"}, {"/player"})
DocumentedSubscription == On({"POST", "DELETE"}, {"/push/subscription"})
DocumentedRequest == On({"POST", "DELETE"}, {"/push/request"})
DocumentedTest == On({"POST"}, {"/push/test"})

DocumentedSessionOnly ==
    DocumentedPlayer \cup DocumentedSubscription \cup DocumentedRequest
    \cup DocumentedTest
DocumentedEither == DocumentedServiceOrSession \cup DocumentedPlace \cup DocumentedRace

\* Handlers that read or write what belongs to the user of the session.
FavoriteHandlers == FavoriteRoutes
WatchHandlers == PlayerRoutes
CredentialHandlers == On({"PATCH"}, {"/auth/credential/:id"})
UserHandlers == FavoriteHandlers \cup WatchHandlers \cup CredentialHandlers

-----------------------------------------------------------------------------
(* Rate limits and caching. *)

\* SERVICE_AUTH_EXEMPT_ROUTES whose reason does not exempt them from the limit.
LimitedRoutes ==
    On({"GET"}, {"/ui/announcement", "/ui/race-detail", "/release-notes",
                 "/openapi.json", "/docs", "/calendar", "/place", "/place/docs",
                 "/race", "/race/docs", "/race/calendar-event",
                 "/race/players", "/player", "/favorite",
                 "/auth/join-request/*"})
    \cup On({"POST"}, {"/player", "/push/subscription", "/push/request",
                       "/push/test", "/favorite", "/auth/invite/verify",
                       "/auth/register/options", "/auth/register/verify",
                       "/auth/login/options", "/auth/login/verify",
                       "/auth/logout", "/auth/join-request"})
    \cup On({"DELETE"}, {"/push/subscription", "/push/request", "/favorite"})
    \cup On({"PATCH"}, {"/auth/credential/*"})

\* shouldRateLimit compares whole paths, so no prefix pattern ever matches.
ShouldRateLimit(method, path) == <<method, path>> \in LimitedRoutes

\* registerBodyLimitMiddleware: the methods it is registered for.
HasBodyLimit(method) == method \in {"POST", "PUT", "DELETE"}

\* CACHE_TTL_BY_PATH and NO_STORE_PATHS, each with the paths below.
CachedPaths == {"/calendar", "/calendar/flag", "/place", "/place/docs"}
NoStorePaths == {"/player", "/race", "/race/docs", "/race/calendar-event",
                 "/race/players", "/health", "/ui/announcement",
                 "/ui/race-detail"}

\* allowMethods and allowHeaders of buildCorsMiddleware.
AllowMethods == {"GET", "POST", "PUT", "DELETE", "OPTIONS"}

\* Faulty variant: the header of the session is forgotten.
AllowHeadersWithoutSession == {"Content-Type"}

AllowHeaders == {"Content-Type", "Authorization"}
=============================================================================
