------------------------------- MODULE ApiRouter -------------------------------
(***************************************************************************)
(* A request on its way through the middleware of packages/api to its      *)
(* handler, with others under way in the same isolate: CORS, authorisation *)
(* by service token or session, rate limit, body limit, handler, and on    *)
(* the way back the headers for caches.  Every await of one request lets   *)
(* the others run; who is calling is kept per request in AsyncLocalStorage.*)
(* A browser asks first (preflight) whether it may send what it wants to.  *)
(***************************************************************************)
EXTENDS ApiRoutes, FiniteSets

CONSTANTS
    Requests,           \* requests handled at the same time
    Sendable,           \* what each may ask for: sets of Sent
    Users,              \* users; the session of a user is named after it
    Absent              \* nobody, nothing

Sent == [method : Methods, path : Paths, client : Clients,
         service : BOOLEAN,                \* carries the service token
         session : Users \cup {Absent},    \* carries a session token
         large : BOOLEAN]                  \* a body over the limit

Stages == {"idle", "preflight", "blocked", "authorise", "session", "limit",
           "handle", "answered"}

\* What AsyncLocalStorage holds for one request.
Context == [internal : BOOLEAN, user : Users \cup {Absent}]

ConstantsAssumption ==
    /\ Absent \notin Users
    /\ Sendable \in [Requests -> SUBSET Sent]

VARIABLES
    configured,         \* the environment has the keys the api requires
    live,               \* users whose session is valid
    sent, stage,        \* each request, and where it is
    context,            \* its context
    answer              \* its answer: status and Cache-Control

vars == <<configured, live, sent, stage, context, answer>>

NoContext == [internal |-> FALSE, user |-> Absent]
NoAnswer == [status |-> 0, cache |-> "none"]

Init ==
    /\ configured \in BOOLEAN
    /\ live = Users
    /\ sent = [r \in Requests |-> Absent]
    /\ stage = [r \in Requests |-> "idle"]
    /\ context = [r \in Requests |-> NoContext]
    /\ answer = [r \in Requests |-> NoAnswer]

-----------------------------------------------------------------------------
At(r, s) == stage[r] = s
Goto(r, s) == stage' = [stage EXCEPT ![r] = s]
PolicyOf(r) == ResolvePolicy(sent[r].method, sent[r].path)

Answer(r, status, cache) ==
    /\ answer' = [answer EXCEPT ![r] = [status |-> status, cache |-> cache]]
    /\ Goto(r, "answered")

\* Headers that a page may send only if the preflight allows them.
HeadersOf(q) ==
    (IF q.session # Absent THEN {"Authorization"} ELSE {})
    \cup (IF q.method = "GET" THEN {} ELSE {"Content-Type"})

\* Methods a page may always use.
SafelistedMethods == {"GET", "HEAD", "POST"}

\* A page needs the preflight for other methods and for those headers; it has
\* no service token.
NeedsPreflight(q) ==
    /\ q.client # "worker"
    /\ q.method \notin SafelistedMethods \/ HeadersOf(q) # {}

Send(r) ==
    /\ At(r, "idle")
    /\ \E q \in Sendable[r] :
          /\ sent' = [sent EXCEPT ![r] = q]
          /\ Goto(r, IF NeedsPreflight(q) THEN "preflight" ELSE "authorise")
    /\ UNCHANGED <<configured, live, context, answer>>

\* cors() answers OPTIONS itself, before the authorisation; the browser sends
\* the request only if origin, method and headers are allowed.
Preflight(r) ==
    /\ At(r, "preflight")
    /\ Goto(r, IF /\ sent[r].client = "front"
                  /\ sent[r].method \in AllowMethods \cup SafelistedMethods
                  /\ HeadersOf(sent[r]) \subseteq AllowHeaders
               THEN "authorise" ELSE "blocked")
    /\ UNCHANGED <<configured, live, sent, context, answer>>

-----------------------------------------------------------------------------
(* requireAppAuth. *)

RunWithInternalServiceCall(r) ==
    context' = [context EXCEPT ![r].internal = TRUE]

\* Faulty variant: the user is kept in a variable of the module.
RunWithSharedUserId(r, u) ==
    context' = [q \in Requests |-> [context[q] EXCEPT !.user = u]]

\* The user is known to what this request runs, across its awaits.
RunWithCurrentUserId(r, u) ==
    context' = [context EXCEPT ![r].user = u]

\* Public routes go on at once; ensureDIInitialized throws if keys are missing;
\* then the service token is tried, then the session.
Authorise(r) ==
    /\ At(r, "authorise")
    /\ \/ /\ PolicyOf(r) = "public"
          /\ Goto(r, "limit") /\ UNCHANGED <<context, answer>>
       \/ /\ PolicyOf(r) # "public" /\ ~configured
          /\ Answer(r, 500, "none") /\ UNCHANGED context
       \/ /\ PolicyOf(r) # "public" /\ configured
          /\ AcceptsServiceAuth(PolicyOf(r)) /\ sent[r].service
          /\ RunWithInternalServiceCall(r)
          /\ Goto(r, "limit") /\ UNCHANGED answer
       \/ /\ PolicyOf(r) # "public" /\ configured
          /\ ~(AcceptsServiceAuth(PolicyOf(r)) /\ sent[r].service)
          /\ IF AcceptsSessionAuth(PolicyOf(r)) /\ sent[r].session # Absent
             THEN Goto(r, "session") /\ UNCHANGED <<context, answer>>
             ELSE Answer(r, 401, "none") /\ UNCHANGED context
    /\ UNCHANGED <<configured, live, sent>>

\* checkSessionAuth: validateAndRefreshSession knows the session, or not.
CheckSessionAuth(r) ==
    LET u == sent[r].session
    IN /\ At(r, "session")
       /\ IF u \in live
          THEN RunWithCurrentUserId(r, u) /\ Goto(r, "limit") /\ UNCHANGED answer
          ELSE Answer(r, 401, "none") /\ UNCHANGED context
       /\ UNCHANGED <<configured, live, sent>>

-----------------------------------------------------------------------------
\* rateLimitMiddleware, then the body limit: 429 and 413.
Limit(r) ==
    LET q == sent[r]
    IN /\ At(r, "limit")
       /\ \/ ShouldRateLimit(q.method, q.path) /\ Answer(r, 429, "none")
          \/ q.large /\ HasBodyLimit(q.method) /\ Answer(r, 413, "none")
          \/ ~(q.large /\ HasBodyLimit(q.method)) /\ Goto(r, "handle")
             /\ UNCHANGED answer
       /\ UNCHANGED <<configured, live, sent, context>>

\* Cache-Control of an answer: only a successful GET gets one.
CacheHeader(q, status) ==
    CASE q.method # "GET" \/ status # 200 -> "none"
      [] q.path \in NoStorePaths -> "no-store"
      [] q.path \in CachedPaths -> "public"
      [] OTHER -> "none"

\* What a handler may answer: 404 where nothing is registered; a handler that
\* needs the environment fails without it; a favourite or a credential without
\* a user is refused; otherwise it succeeds or fails by itself.
Outcomes(r) ==
    LET q == sent[r]
        handler == HandlerOf(q.method, q.path)
    IN CASE ~IsRegistered(q.method, q.path) -> {404}
         [] handler \in DocsRoutes \cup On({"GET"}, {"/place/docs", "/race/docs"}) -> {200}
         [] handler \in FavoriteHandlers \cup CredentialHandlers /\ context[r].user = Absent -> {401}
         [] handler \in WatchHandlers /\ context[r].user = Absent -> {500}
         [] ~configured /\ handler # <<"GET", "/health">> -> {500}
         [] OTHER -> {200, 400, 500}

\* The handler runs, in the context of its request, and answers.
Handle(r) ==
    /\ At(r, "handle")
    /\ \E status \in Outcomes(r) : Answer(r, status, CacheHeader(sent[r], status))
    /\ UNCHANGED <<configured, live, sent, context>>

\* A session ends: logout or expiry.
EndSession(u) ==
    /\ u \in live /\ live' = live \ {u}
    /\ UNCHANGED <<configured, sent, stage, context, answer>>

Next ==
    \/ \E r \in Requests :
          \/ Send(r) \/ Preflight(r) \/ Authorise(r) \/ CheckSessionAuth(r)
          \/ Limit(r) \/ Handle(r)
    \/ \E u \in Users : EndSession(u)

Spec == Init /\ [][Next]_vars

-----------------------------------------------------------------------------
(* Properties. *)

TypeOK ==
    /\ configured \in BOOLEAN
    /\ live \in SUBSET Users
    /\ sent \in [Requests -> Sent \cup {Absent}]
    /\ stage \in [Requests -> Stages]
    /\ context \in [Requests -> Context]
    /\ answer \in [Requests -> [status : {0, 200, 400, 401, 404, 413, 429, 500},
                                cache : {"none", "no-store", "public"}]]

\* As whom a handler runs, whatever else runs in the isolate: the user of the
\* session its own request carries, or nobody; never another request's user.
\* What the document calls session-only has a user, what it calls either has
\* one or the other, and what is neither documented nor meant for callers
\* without an account runs for Workers alone.
HandlersKnowTheirCaller ==
    \A r \in Requests : At(r, "handle") =>
        LET q == sent[r]
            c == context[r]
            handler == HandlerOf(q.method, q.path)
        IN /\ c.user # Absent => c.user = q.session
           /\ c.internal => q.service
           /\ handler \in DocumentedSessionOnly \cup UserHandlers =>
                 c.user # Absent \/ (q.method = "HEAD" /\ c.internal)
           /\ handler \in DocumentedEither => c.user # Absent \/ c.internal
           /\ handler \in Registered \ (DocumentedEither \cup DocumentedSessionOnly
                  \cup UserHandlers \cup DocumentedPublic \cup DocsRoutes
                  \cup AuthCeremonyRoutes \cup PushDispatchRoutes
                  \cup On({"GET"}, {"/place/docs", "/race/docs"})) => c.internal

\* The preflight keeps no page of the front from a route that its policy opens
\* to sessions or to all, whatever headers the session needs.  The one exception
\* is the renaming of a credential: PATCH is no allowed method.
FrontReachesItsRoutes ==
    \A r \in Requests :
        At(r, "blocked") /\ sent[r].client = "front" /\ PolicyOf(r) # "service-only" =>
            <<sent[r].method, sent[r].path>> \in CredentialHandlers
=============================================================================
