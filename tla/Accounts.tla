------------------------------- MODULE Accounts -------------------------------
(***************************************************************************)
(* Accounts of packages/api: invites, WebAuthn challenges, users with      *)
(* their credentials, sessions, favourites and join requests.  Every HTTP  *)
(* request is a call; a D1 statement is one atomic step, so other calls    *)
(* run between any two statements of a handler, and a handler may stop at  *)
(* any of them (exception, eviction).  Tokens and ids are random: each is  *)
(* new, and is numbered here in the order of minting.  The assertion of an *)
(* authenticator is either accepted or refused; the credential it creates  *)
(* is named after the challenge it answers.                                *)
(***************************************************************************)
EXTENDS Naturals, FiniteSets

CONSTANTS
    Calls,              \* requests handled at the same time
    InviteTtl,          \* INVITE_TTL_MS
    SessionTtl,         \* SESSION_TTL_MS
    ChallengeTtl,       \* CHALLENGE_TTL_MS
    MaxNow,             \* bound: the clock stops here
    MaxInvites,         \* bound: invites minted
    MaxChallenges,      \* bound: challenges minted
    MaxUsers,           \* bound: users created
    MaxSessions,        \* bound: sessions minted
    JoinRequests,       \* ids of join requests
    Absent              \* no row

Invites == 1..MaxInvites
Challenges == 1..MaxChallenges
Users == 1..MaxUsers
Sessions == 1..MaxSessions

Invite == [expiresAt : Nat, usedBy : Users \cup {Absent}]
Challenge == [purpose : {"register", "login"}, expiresAt : Nat,
              invite : Invites \cup {Absent}]
Session == [user : Users, credential : Challenges, expiresAt : Nat]
JoinRequest == [status : {"pending", "approved", "rejected"},
                invite : Invites \cup {Absent}]
Steps == {"idle", "options", "consume", "check", "createUser",
          "createCredential", "markUsed", "findCredential", "createSession",
          "refresh", "act", "issue", "reread", "approve", "reject"}
Call == [pc : Steps,
         purpose : {"register", "login", Absent},
         id : Challenges \cup {Absent},      \* challengeId
         row : Challenge \cup {Absent},      \* the challenge as read
         invite : Invites \cup {Absent},
         user : Users \cup {Absent},
         credential : Challenges \cup {Absent},
         session : Sessions \cup {Absent},
         expiresAt : Nat,                    \* newExpiresAt
         request : JoinRequests \cup {Absent}]

ConstantsAssumption ==
    /\ {InviteTtl, SessionTtl, ChallengeTtl, MaxNow, MaxInvites,
        MaxChallenges, MaxUsers, MaxSessions} \subseteq Nat
    /\ Absent \notin Nat \cup JoinRequests \cup {"register", "login"}
    /\ Absent \notin Invite \cup Challenge \cup Session \cup JoinRequest

VARIABLES
    now,                \* the clock
    invites, challenges, credentials, sessions, joinRequests,  \* the tables
    minted,             \* how many of each id were minted; user rows
    favorites,          \* users with the favourite
    call,               \* the local state of each call
    invitedBy,          \* history: the invite each user registered with
    issuedFor,          \* history: the join request each invite was issued for
    passed,             \* history: how often each challenge passed
    late,               \* history: calls overtaken by another's decision
    crossed             \* history: rows that two calls worked on at once, or
                        \* that a call left half done

history == <<invitedBy, issuedFor, passed, late, crossed>>
tables == <<invites, challenges, credentials, sessions, joinRequests, favorites>>
vars == <<now, tables, minted, call, history>>

Idle == [pc |-> "idle", purpose |-> Absent, id |-> Absent, row |-> Absent,
         invite |-> Absent, user |-> Absent, credential |-> Absent,
         session |-> Absent, expiresAt |-> 0, request |-> Absent]

Init ==
    /\ now = 0
    /\ invites = [i \in Invites |-> Absent]
    /\ challenges = [h \in Challenges |-> Absent]
    /\ credentials = [k \in Challenges |-> Absent]
    /\ sessions = [s \in Sessions |-> Absent]
    /\ joinRequests = [j \in JoinRequests |-> Absent]
    /\ minted = [invite |-> 0, challenge |-> 0, user |-> 0, session |-> 0]
    /\ favorites = {}
    /\ call = [c \in Calls |-> Idle]
    /\ invitedBy = [u \in Users |-> Absent]
    /\ issuedFor = [i \in Invites |-> Absent]
    /\ passed = [h \in Challenges |-> 0]
    /\ late = {}
    /\ crossed = {}

-----------------------------------------------------------------------------
(* What the statements read. *)

\* findValidInvite: unused and unexpired.
IsValidInvite(i) ==
    /\ invites[i] # Absent
    /\ invites[i].usedBy = Absent
    /\ invites[i].expiresAt > now

\* The SELECT of validateAndRefreshSession.
IsLiveSession(s) == sessions[s] # Absent /\ sessions[s].expiresAt > now

\* Faulty variant: the status is not looked at.
IsKnown(j) == joinRequests[j] # Absent

IsPending(j) == joinRequests[j] # Absent /\ joinRequests[j].status = "pending"

At(c, step) == call[c].pc = step
Goto(c, step) == call' = [call EXCEPT ![c].pc = step]
Finish(c) == call' = [call EXCEPT ![c] = Idle]

-----------------------------------------------------------------------------
(* Invites. *)

\* insert(invite): a new token that expires after the TTL.
CreateInvite ==
    /\ minted.invite < MaxInvites
    /\ minted' = [minted EXCEPT !.invite = @ + 1]
    /\ invites' = [invites EXCEPT ![minted.invite + 1] =
                      [expiresAt |-> now + InviteTtl, usedBy |-> Absent]]

IssueInvite ==
    /\ CreateInvite
    /\ UNCHANGED <<now, challenges, credentials, sessions, joinRequests,
                   favorites, call, history>>

-----------------------------------------------------------------------------
(* Ceremonies: a challenge is handed out, then presented with an answer. *)

CreateChallenge(purpose, i) ==
    /\ minted.challenge < MaxChallenges
    /\ minted' = [minted EXCEPT !.challenge = @ + 1]
    /\ challenges' = [challenges EXCEPT ![minted.challenge + 1] =
                         [purpose |-> purpose, invite |-> i,
                          expiresAt |-> now + ChallengeTtl]]
    /\ UNCHANGED <<now, invites, credentials, sessions, joinRequests,
                   favorites, history>>

\* getRegistrationOptions: the invite is checked, the options are built, the
\* challenge is stored.
RegistrationOptions(c, i) ==
    /\ At(c, "idle") /\ IsValidInvite(i)
    /\ call' = [call EXCEPT ![c].pc = "options", ![c].invite = i]
    /\ UNCHANGED <<now, tables, minted, history>>

StoreRegistrationChallenge(c) ==
    /\ At(c, "options")
    /\ CreateChallenge("register", call[c].invite)
    /\ Finish(c)

LoginOptions ==
    /\ CreateChallenge("login", Absent)
    /\ UNCHANGED call

\* consumeChallenge, first statement: the row is read.  The client may present
\* any challenge it was handed, again and to either endpoint.
PresentChallenge(c, h, purpose) ==
    /\ At(c, "idle") /\ h <= minted.challenge
    /\ call' = [call EXCEPT ![c].pc = "consume", ![c].purpose = purpose,
                            ![c].id = h, ![c].row = challenges[h]]
    /\ crossed' = IF \E d \in Calls : At(d, "consume") /\ call[d].id = h
                  THEN crossed \cup {<<"challenge", h>>} ELSE crossed
    /\ UNCHANGED <<now, tables, minted, invitedBy, issuedFor, passed, late>>

\* The conditions after the delete, in consumeChallenge and in its callers.
Accepts(row, purpose) ==
    /\ row # Absent
    /\ row.expiresAt > now
    /\ row.purpose = purpose
    /\ purpose = "register" => row.invite # Absent

\* Faulty variant: only a login uses its challenge up.
DeletedChallengeOfLogin(row, purpose) == purpose = "login"

\* consumeChallenge deletes whether or not it will return the row.
DeletedChallenge(row, purpose) == TRUE

\* consumeChallenge, second statement: the row is deleted.
ConsumeChallenge(c) ==
    LET h == call[c].id
        row == call[c].row
        purpose == call[c].purpose
    IN /\ At(c, "consume")
       /\ challenges' = IF DeletedChallenge(row, purpose)
                        THEN [challenges EXCEPT ![h] = Absent] ELSE challenges
       /\ IF Accepts(row, purpose)
          THEN /\ call' = [call EXCEPT ![c].row = Absent,
                    ![c].pc = IF purpose = "register" THEN "check"
                              ELSE "findCredential",
                    ![c].invite = row.invite]
               /\ passed' = [passed EXCEPT ![h] = @ + 1]
          ELSE Finish(c) /\ UNCHANGED passed
       /\ UNCHANGED <<now, invites, credentials, sessions, joinRequests,
                      favorites, minted, invitedBy, issuedFor, late, crossed>>

-----------------------------------------------------------------------------
(* Registration. *)

\* A registration is between its check of the invite and its last use of it.
Registering(c, i) ==
    /\ call[c].invite = i
    /\ call[c].pc \in {"createUser", "createCredential", "markUsed"}

\* verifyRegistration: the invite is checked again, the answer verified.
CheckInvite(c) ==
    LET i == call[c].invite
    IN /\ At(c, "check")
       /\ \/ ~IsValidInvite(i) /\ Finish(c) /\ UNCHANGED crossed
          \/ /\ IsValidInvite(i)
             /\ Goto(c, "createUser")
             /\ crossed' = IF \E d \in Calls : Registering(d, i)
                           THEN crossed \cup {<<"invite", i>>} ELSE crossed
       /\ UNCHANGED <<now, tables, minted, invitedBy, issuedFor, passed, late>>

CreateUser(c) ==
    LET u == minted.user + 1
    IN /\ At(c, "createUser") /\ u <= MaxUsers
       /\ minted' = [minted EXCEPT !.user = u]
       /\ call' = [call EXCEPT ![c].pc = "createCredential", ![c].user = u]
       /\ invitedBy' = [invitedBy EXCEPT ![u] = call[c].invite]
       /\ UNCHANGED <<now, tables, issuedFor, passed, late, crossed>>

\* Faulty variant: a credential id that exists already is passed over.
CreateCredentialIfNew(c) ==
    LET k == call[c].id
    IN /\ At(c, "createCredential")
       /\ credentials' = [credentials EXCEPT ![k] =
                             IF @ = Absent THEN call[c].user ELSE @]
       /\ call' = [call EXCEPT ![c].pc = "markUsed", ![c].credential = k]
       /\ UNCHANGED <<now, invites, challenges, sessions, joinRequests,
                      favorites, minted, history>>

\* A credential id that exists already violates the primary key: the call ends.
CreateCredential(c) ==
    LET k == call[c].id
    IN /\ At(c, "createCredential")
       /\ credentials[k] = Absent
       /\ credentials' = [credentials EXCEPT ![k] = call[c].user]
       /\ call' = [call EXCEPT ![c].pc = "markUsed", ![c].credential = k]
       /\ UNCHANGED <<now, invites, challenges, sessions, joinRequests,
                      favorites, minted, history>>

\* Faulty variant: the invite keeps looking unused.
MarkInviteUnused(i, u) == UNCHANGED invites

\* markInviteUsed: by token alone.
MarkInviteUsed(i, u) == invites' = [invites EXCEPT ![i].usedBy = u]

MarkUsed(c) ==
    /\ At(c, "markUsed")
    /\ MarkInviteUsed(call[c].invite, call[c].user)
    /\ Goto(c, "createSession")
    /\ UNCHANGED <<now, challenges, credentials, sessions, joinRequests,
                   favorites, minted, history>>

-----------------------------------------------------------------------------
(* Login and sessions. *)

\* verifyLogin: the credential the answer names is looked up, the answer
\* verified (touchCredential writes the sign count, which is not modelled).
FindCredential(c, k) ==
    /\ At(c, "findCredential")
    /\ IF credentials[k] = Absent THEN Finish(c)
       ELSE call' = [call EXCEPT ![c].pc = "createSession", ![c].credential = k,
                                 ![c].user = credentials[k]]
    /\ UNCHANGED <<now, tables, minted, history>>

\* issueSession, the last statement of both ceremonies.
IssueSession(c) ==
    LET s == minted.session + 1
    IN /\ At(c, "createSession") /\ s <= MaxSessions
       /\ minted' = [minted EXCEPT !.session = s]
       /\ sessions' = [sessions EXCEPT ![s] =
                          [user |-> call[c].user, credential |-> call[c].credential,
                           expiresAt |-> now + SessionTtl]]
       /\ Finish(c)
       /\ UNCHANGED <<now, invites, challenges, credentials, joinRequests,
                      favorites, history>>

\* requireAppAuth on a session route: the session is read ...
ValidateSession(c, s) ==
    /\ At(c, "idle") /\ IsLiveSession(s)
    /\ call' = [call EXCEPT ![c].pc = "refresh", ![c].session = s,
                            ![c].expiresAt = now + SessionTtl,
                            ![c].user = sessions[s].user]
    /\ UNCHANGED <<now, tables, minted, history>>

\* Faulty variant: the refresh writes the row back if it is gone.
RefreshedAgain(s, c) ==
    [user |-> call[c].user, credential |-> 1, expiresAt |-> call[c].expiresAt]

\* update(session).set({ expiresAt }).where(token): an absent row is not hit.
Refreshed(s, c) ==
    IF sessions[s] = Absent THEN Absent
    ELSE [sessions[s] EXCEPT !.expiresAt = call[c].expiresAt]

\* ... then extended, and the request goes on as the session's user.
RefreshSession(c) ==
    LET s == call[c].session
    IN /\ At(c, "refresh")
       /\ sessions' = [sessions EXCEPT ![s] = Refreshed(s, c)]
       /\ Goto(c, "act")
       /\ UNCHANGED <<now, invites, challenges, credentials, joinRequests,
                      favorites, minted, history>>

Logout(s) ==
    /\ sessions[s] # Absent
    /\ sessions' = [sessions EXCEPT ![s] = Absent]
    /\ UNCHANGED <<now, invites, challenges, credentials, joinRequests,
                   favorites, minted, call, history>>

\* POST and DELETE /favorite as the user of the session; other session routes
\* write nothing modelled here.
ChangeFavorite(c) ==
    /\ At(c, "act")
    /\ favorites' \in {favorites \cup {call[c].user}, favorites \ {call[c].user}}
    /\ Finish(c)
    /\ UNCHANGED <<now, invites, challenges, credentials, sessions,
                   joinRequests, minted, history>>

-----------------------------------------------------------------------------
(* Join requests. *)

RequestJoin(j) ==
    /\ joinRequests[j] = Absent
    /\ joinRequests' = [joinRequests EXCEPT ![j] =
                           [status |-> "pending", invite |-> Absent]]
    /\ UNCHANGED <<now, invites, challenges, credentials, sessions, favorites,
                   minted, call, history>>

\* Calls that decide on j, and those that will not look at its status again.
Deciding(j) == {c \in Calls : call[c].request = j}
PastCheck(j) == {c \in Deciding(j) : call[c].pc \in {"approve", "reject"}}

\* approveJoinRequest (usecase), rejectJoinRequest: the request is read.
BeginDecision(c, j, step) ==
    /\ At(c, "idle") /\ IsPending(j)
    /\ call' = [call EXCEPT ![c].pc = step, ![c].request = j]
    /\ UNCHANGED <<now, tables, minted, history>>

\* The write of a decision, by id, whatever the status is by now.
WriteDecision(c, row) ==
    LET j == call[c].request
        others == Deciding(j) \ {c}
    IN /\ joinRequests' = [joinRequests EXCEPT ![j] = row]
       /\ Finish(c)
       /\ late' = (late \ {c}) \cup (PastCheck(j) \ {c})
       /\ crossed' = IF others = {} THEN crossed ELSE crossed \cup {<<"join", j>>}
       /\ UNCHANGED <<now, invites, challenges, credentials, sessions,
                      favorites, minted, invitedBy, issuedFor, passed>>

BeginApproval(c, j) == BeginDecision(c, j, "issue")

\* An invite is issued for the request before the request is decided.
IssueForRequest(c) ==
    /\ At(c, "issue")
    /\ CreateInvite
    /\ call' = [call EXCEPT ![c].pc = "reread", ![c].invite = minted.invite + 1]
    /\ issuedFor' = [issuedFor EXCEPT ![minted.invite + 1] = call[c].request]
    /\ UNCHANGED <<now, challenges, credentials, sessions, joinRequests,
                   favorites, invitedBy, passed, late, crossed>>

\* Faulty variant: the second reading of the request is left out.
StillPendingUnread(j) == TRUE

StillPending(j) == IsPending(j)

\* approveJoinRequest (repository): the request is read again ...
RereadRequest(c) ==
    /\ At(c, "reread")
    /\ IF StillPending(call[c].request) THEN Goto(c, "approve") ELSE Finish(c)
    /\ UNCHANGED <<now, tables, minted, history>>

\* ... and updated.
ApproveJoinRequest(c) ==
    /\ At(c, "approve")
    /\ WriteDecision(c, [status |-> "approved", invite |-> call[c].invite])

BeginRejection(c, j) == BeginDecision(c, j, "reject")

\* rejectJoinRequest: the status alone is written.
RejectJoinRequest(c) ==
    /\ At(c, "reject")
    /\ WriteDecision(c, [joinRequests[call[c].request] EXCEPT !.status = "rejected"])

-----------------------------------------------------------------------------
Tick ==
    /\ now < MaxNow /\ now' = now + 1
    /\ UNCHANGED <<tables, minted, call, history>>

\* What a call that ends early leaves half done.
LeftBehind(c) ==
    CASE call[c].pc \in {"createCredential", "markUsed"} ->
             {<<"invite", call[c].invite>>}
      [] call[c].pc \in {"reread", "approve"} -> {<<"join", call[c].request>>}
      [] OTHER -> {}

\* A statement fails (a credential id that exists, a D1 error), the answer is
\* refused or the Worker is evicted: the call ends where it is.
Fail(c) ==
    /\ ~At(c, "idle")
    /\ Finish(c)
    /\ crossed' = crossed \cup LeftBehind(c)
    /\ late' = late \ {c}
    /\ UNCHANGED <<now, tables, minted, invitedBy, issuedFor, passed>>

Register(c) ==
    \/ \E i \in Invites : RegistrationOptions(c, i)
    \/ StoreRegistrationChallenge(c)
    \/ \E h \in Challenges, purpose \in {"register", "login"} :
          PresentChallenge(c, h, purpose)
    \/ ConsumeChallenge(c) \/ CheckInvite(c) \/ CreateUser(c)
    \/ CreateCredential(c) \/ MarkUsed(c)

Visit(c) ==
    \/ \E k \in Challenges : FindCredential(c, k)
    \/ IssueSession(c)
    \/ \E s \in Sessions : ValidateSession(c, s)
    \/ RefreshSession(c) \/ ChangeFavorite(c)

Decide(c) ==
    \/ \E j \in JoinRequests : BeginApproval(c, j) \/ BeginRejection(c, j)
    \/ IssueForRequest(c) \/ RereadRequest(c)
    \/ ApproveJoinRequest(c) \/ RejectJoinRequest(c)

Next ==
    \/ IssueInvite \/ LoginOptions \/ Tick
    \/ \E s \in Sessions : Logout(s)
    \/ \E j \in JoinRequests : RequestJoin(j)
    \/ \E c \in Calls : Register(c) \/ Visit(c) \/ Decide(c) \/ Fail(c)

Spec == Init /\ [][Next]_vars

-----------------------------------------------------------------------------
(* Properties. *)

TypeOK ==
    /\ now \in Nat
    /\ invites \in [Invites -> Invite \cup {Absent}]
    /\ challenges \in [Challenges -> Challenge \cup {Absent}]
    /\ credentials \in [Challenges -> Users \cup {Absent}]
    /\ sessions \in [Sessions -> Session \cup {Absent}]
    /\ joinRequests \in [JoinRequests -> JoinRequest \cup {Absent}]
    /\ minted \in [invite : 0..MaxInvites, challenge : 0..MaxChallenges,
                   user : 0..MaxUsers, session : 0..MaxSessions]
    /\ favorites \in SUBSET Users
    /\ call \in [Calls -> Call]
    /\ invitedBy \in [Users -> Invites \cup {Absent}]
    /\ issuedFor \in [Invites -> JoinRequests \cup {Absent}]
    /\ passed \in [Challenges -> Nat]
    /\ late \in SUBSET Calls

AccountsOf(i) == {u \in Users : invitedBy[u] = i}
CredentialsOf(u) == {k \in Challenges : credentials[k] = u}

\* An invite begets one account (db/README: user ||--o| invite) and is spent
\* only on an account that can log in, unless two registrations were past the
\* check at once or one of them ended half way.
InviteIsOneUse ==
    \A i \in Invites :
        /\ <<"invite", i>> \notin crossed => Cardinality(AccountsOf(i)) <= 1
        /\ invites[i] # Absent /\ invites[i].usedBy # Absent =>
              /\ invites[i].usedBy \in AccountsOf(i)
              /\ CredentialsOf(invites[i].usedBy) # {}

\* A challenge lets one ceremony pass unless two calls had read it before
\* either deleted it (consumeChallenge: against replay).
ChallengePassesOnce ==
    \A h \in Challenges : <<"challenge", h>> \notin crossed => passed[h] <= 1

\* Every session belongs to the user who owns the credential it was opened
\* with, and only users with a credential have favourites.
SessionsHaveOwners ==
    /\ \A s \in Sessions : sessions[s] # Absent =>
          credentials[sessions[s].credential] = sessions[s].user
    /\ \A u \in favorites : CredentialsOf(u) # {}

\* A session that was logged out stays out, and one that expired comes back
\* only through a request that found it live before it expired.
SessionsStayEnded ==
    \A s \in Sessions : s <= minted.session /\ ~IsLiveSession(s) =>
        \/ ~IsLiveSession(s)'
        \/ /\ sessions[s] # Absent
           /\ \E c \in Calls : At(c, "refresh") /\ call[c].session = s

SessionsEndForGood == [][SessionsStayEnded]_vars

\* The invite of an approved request exists; and unless two decisions on a
\* request overlapped or one ended half way, a request that names an invite is
\* approved and every invite issued for it is the one it names.
DecisionsMatchInvites ==
    \A j \in JoinRequests : joinRequests[j] # Absent =>
        /\ joinRequests[j].status = "approved" =>
              /\ joinRequests[j].invite # Absent
              /\ invites[joinRequests[j].invite] # Absent
        /\ <<"join", j>> \notin crossed =>
              /\ joinRequests[j].invite # Absent => joinRequests[j].status = "approved"
              /\ \A i \in Invites : issuedFor[i] = j =>
                    \/ joinRequests[j].invite = i
                    \/ \E c \in Deciding(j) : call[c].invite = i

\* A decision on a join request is changed only by a call that was past its
\* last look at the status when the decision fell.
DecisionsKept ==
    \A j \in JoinRequests :
        /\ joinRequests[j] # Absent /\ joinRequests[j].status # "pending"
        /\ joinRequests'[j] # joinRequests[j]
        => \E c \in late \cap Deciding(j) : call'[c] = Idle

DecisionsStand == [][DecisionsKept]_vars
=============================================================================
