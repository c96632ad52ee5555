----------------------------- MODULE FrontSession -----------------------------
(***************************************************************************)
(* How a browser comes to a session and loses it: the request to join,     *)
(* polled until an operator decides, the passkey ceremony that follows,    *)
(* the login, the session in memory and in the preferences, and the        *)
(* answers 401 that end it.  Sessions are numbered in the order the api    *)
(* grants them; the invite of a join request goes by the request's number. *)
(***************************************************************************)
EXTENDS Naturals, FiniteSets

CONSTANTS
    Slots,      \* requests of one kind that may be under way together
    MaxJoins,   \* bound: join requests the api receives
    MaxTokens   \* bound: sessions the api grants

ConstantsAssumption ==
    /\ IsFiniteSet(Slots) /\ Slots # {}
    /\ MaxJoins \in Nat /\ MaxTokens \in Nat

None == 0
Joins == 1..MaxJoins

VARIABLES
    decided,    \* api: the join requests and what the operator made of them
    used,       \* api: the invites that begot an account
    granted,    \* api: how many sessions were granted
    valid,      \* api: the sessions that still hold
    screen,     \* the screen shown
    join,       \* the state of the join screen
    submits,    \* submissions of its form that await an answer
    polls,      \* its polls under way: the join request each asks for
    ceremonies, \* registrations under way: the invite, and is the screen there?
    loggingIn,  \* the login screen awaits its ceremony
    session,    \* the session in memory, whose token the interceptor sends
    stored,     \* the token and the nickname in the preferences
    writes,     \* saves and clears under way
    calls,      \* requests under way: the token each carries
    hasty,      \* history: the form was submitted again before the answer
    belated     \* history: a 401 met another session than its own

api == <<decided, used, granted, valid>>
joining == <<submits, polls, ceremonies>>
memory == <<session, stored, writes>>
vars == <<api, screen, join, joining, loggingIn, memory, calls, hasty, belated>>

Form == [phase |-> "form", requestId |-> None, inviteToken |-> None, timers |-> 0]
NoCeremony == [invite |-> None, mounted |-> FALSE]
Idle == [kind |-> "none", token |-> None, step |-> 0]
Free(slots, empty) == {s \in Slots : slots[s] = empty}

\* build of SessionNotifier: a token without its nickname is no session.
Restored == IF stored.token # None /\ stored.nickname # None THEN stored.token ELSE None

Init ==
    /\ decided = [j \in Joins |-> "unsent"] /\ used = {}
    /\ granted = 0 /\ valid = {}
    /\ screen = "login" /\ join = Form
    /\ submits = [s \in Slots |-> None] /\ polls = [s \in Slots |-> None]
    /\ ceremonies = [s \in Slots |-> NoCeremony]
    /\ loggingIn = FALSE
    /\ session = None /\ stored = [token |-> None, nickname |-> None]
    /\ writes = [s \in Slots |-> Idle]
    /\ calls = [s \in Slots |-> None]
    /\ hasty = FALSE /\ belated = FALSE

-----------------------------------------------------------------------------
(* The session in memory and in the preferences. *)

Writing(kind) == \E s \in Slots : writes[s].kind = kind

\* save or clear begins: the token goes first.
Write(kind, token) ==
    /\ \E s \in Free(writes, Idle) :
           writes' = [writes EXCEPT ![s] = [kind |-> kind, token |-> token, step |-> 1]]
    /\ stored' = [stored EXCEPT !.token = token]
    /\ UNCHANGED session

\* save of the session the api grants with this answer.
SaveGranted ==
    /\ granted < MaxTokens
    /\ granted' = granted + 1 /\ valid' = valid \cup {granted'}
    /\ Write("save", granted')
    /\ belated' = (belated \/ Writing("clear"))

\* onUnauthorized: clear, whichever session the refused request carried.
ClearAfter(token) ==
    /\ Write("clear", None)
    /\ belated' = (belated \/ Writing("save") \/ (token # session /\ session # None))

\* The screen goes: its timer is cancelled and no answer reaches it any more;
\* a ceremony goes on without it.
LeaveJoin ==
    /\ join' = Form
    /\ submits' = [s \in Slots |-> None] /\ polls' = [s \in Slots |-> None]
    /\ ceremonies' = [s \in Slots |-> [ceremonies[s] EXCEPT !.mounted = FALSE]]

\* The second preference is written.
WriteNickname(s) ==
    /\ writes[s].step = 1
    /\ stored' = [stored EXCEPT !.nickname = writes[s].token]
    /\ writes' = [writes EXCEPT ![s].step = 2]
    /\ UNCHANGED <<api, screen, join, joining, loggingIn, session, calls, hasty, belated>>

\* Memory and interceptor follow, and redirect leads from a screen for those
\* without a session to the app, or from the app to the login.
EndWrite(s) ==
    /\ writes[s].step = 2
    /\ writes' = [writes EXCEPT ![s] = Idle]
    /\ session' = writes[s].token
    /\ IF session' # None
       THEN screen' = "app" /\ loggingIn' = FALSE /\ LeaveJoin
       ELSE /\ screen' = IF screen = "app" THEN "login" ELSE screen
            /\ UNCHANGED <<join, joining, loggingIn>>
    /\ UNCHANGED <<api, stored, calls, hasty, belated>>

\* The app is closed, whatever is under way, and started again.
Restart ==
    /\ writes' = [s \in Slots |-> Idle] /\ calls' = [s \in Slots |-> None]
    /\ session' = Restored
    /\ screen' = IF session' = None THEN "login" ELSE "app"
    /\ loggingIn' = FALSE
    /\ join' = Form
    /\ submits' = [s \in Slots |-> None] /\ polls' = submits'
    /\ ceremonies' = [s \in Slots |-> NoCeremony]
    /\ UNCHANGED <<api, stored, hasty, belated>>

-----------------------------------------------------------------------------
(* Joining. *)

OpenJoin ==
    /\ screen = "login" /\ screen' = "join"
    /\ loggingIn' = FALSE
    /\ UNCHANGED <<api, join, joining, memory, calls, hasty, belated>>

BackToLogin ==
    /\ screen = "join" /\ screen' = "login"
    /\ LeaveJoin
    /\ UNCHANGED <<api, loggingIn, memory, calls, hasty, belated>>

\* _submit: the form stays open for another submission until the answer.
Submit(s, j) ==
    /\ screen = "join" /\ join.phase = "form"
    /\ s \in Free(submits, None)
    /\ decided[j] = "unsent" /\ \A i \in 1..(j - 1) : decided[i] # "unsent"
    /\ decided' = [decided EXCEPT ![j] = "pending"]
    /\ submits' = [submits EXCEPT ![s] = j]
    /\ hasty' = (hasty \/ \E t \in Slots : submits[t] # None)
    /\ UNCHANGED <<used, granted, valid, screen, join, polls, ceremonies, loggingIn, memory,
                   calls, belated>>

\* The answer starts the timer; without one the form asks to try again.
SubmitAnswered(s) ==
    /\ submits[s] # None
    /\ submits' = [submits EXCEPT ![s] = None]
    /\ \/ join' = [join EXCEPT !.phase = "waiting", !.requestId = submits[s],
                               !.timers = @ + 1]
       \/ UNCHANGED join
    /\ UNCHANGED <<api, screen, polls, ceremonies, loggingIn, memory, calls, hasty, belated>>

\* The operator decides.
Decide(j, decision) ==
    /\ decided[j] = "pending" /\ decision \in {"approved", "rejected"}
    /\ decided' = [decided EXCEPT ![j] = decision]
    /\ UNCHANGED <<used, granted, valid, screen, join, joining, loggingIn, memory, calls,
                   hasty, belated>>

\* A tick, whether or not the poll before has its answer.
Poll(s) ==
    /\ join.timers > 0
    /\ s \in Free(polls, None)
    /\ polls' = [polls EXCEPT ![s] = join.requestId]
    /\ UNCHANGED <<api, screen, join, submits, ceremonies, loggingIn, memory, calls, hasty,
                   belated>>

\* Faulty variant: every poll that learns of the approval registers.
NotRejected == join.phase \in {"waiting", "registering"}

\* Only the first poll that learns of the decision acts upon it.
StillWaiting == join.phase = "waiting"

\* cancel of the last timer; a timer of an earlier submission runs on.
Cancelled(timers) == IF timers = 0 THEN 0 ELSE timers - 1

\* fetchRegisterOptions and what follows, until the answer of verifyRegister.
BeginCeremony(j) ==
    \E c \in Free(ceremonies, NoCeremony) :
        ceremonies' = [ceremonies EXCEPT ![c] = [invite |-> j, mounted |-> TRUE]]

\* An answer that tells nothing: pending, or none.
PollInVain(s) ==
    /\ polls[s] # None
    /\ polls' = [polls EXCEPT ![s] = None]
    /\ UNCHANGED <<api, screen, join, submits, ceremonies, loggingIn, memory, calls, hasty,
                   belated>>

PollDecided(s) ==
    /\ polls[s] # None /\ decided[polls[s]] # "pending"
    /\ polls' = [polls EXCEPT ![s] = None]
    /\ \/ ~StillWaiting /\ UNCHANGED <<join, ceremonies>>
       \/ /\ StillWaiting /\ decided[polls[s]] = "rejected"
          /\ join' = [join EXCEPT !.phase = "rejected", !.timers = Cancelled(@)]
          /\ UNCHANGED ceremonies
       \/ /\ StillWaiting /\ decided[polls[s]] = "approved"
          /\ join' = [join EXCEPT !.phase = "registering",
                                  !.timers = Cancelled(@), !.inviteToken = polls[s]]
          /\ BeginCeremony(polls[s])
    /\ UNCHANGED <<api, screen, submits, loggingIn, memory, calls, hasty, belated>>

\* The button of the screen after a failure.
RetryRegistration ==
    /\ join.phase = "registrationFailed"
    /\ join' = [join EXCEPT !.phase = "registering"]
    /\ BeginCeremony(join.inviteToken)
    /\ UNCHANGED <<api, screen, submits, polls, loggingIn, memory, calls, hasty, belated>>

\* The invite is spent on an account; without the screen the session is dropped,
\* for its ref is gone.
Registered(c) ==
    /\ ceremonies[c].invite \in Joins \ used
    /\ used' = used \cup {ceremonies[c].invite}
    /\ ceremonies' = [ceremonies EXCEPT ![c] = NoCeremony]
    /\ \/ ceremonies[c].mounted /\ SaveGranted
       \/ ~ceremonies[c].mounted /\ UNCHANGED <<granted, valid, memory, belated>>
    /\ UNCHANGED <<decided, screen, join, submits, polls, loggingIn, calls, hasty>>

\* The api refuses, the user cancels, or a request fails, before or after the
\* api executed it.
RegistrationFails(c) ==
    /\ ceremonies[c] # NoCeremony
    /\ ceremonies' = [ceremonies EXCEPT ![c] = NoCeremony]
    /\ used' \in {used, used \cup {ceremonies[c].invite}}
    /\ join' = IF ceremonies[c].mounted
               THEN [join EXCEPT !.phase = "registrationFailed"] ELSE join
    /\ UNCHANGED <<decided, granted, valid, screen, submits, polls, loggingIn, memory, calls,
                   hasty, belated>>

-----------------------------------------------------------------------------
(* Logging in, calls of the app and their refusal. *)

\* _login, once there is an account; the button waits for the end.
LogIn ==
    /\ screen = "login" /\ ~loggingIn /\ used # {}
    /\ loggingIn' = TRUE
    /\ UNCHANGED <<api, screen, join, joining, memory, calls, hasty, belated>>

LoggedIn ==
    /\ loggingIn /\ ~Writing("save")
    /\ SaveGranted
    /\ UNCHANGED <<decided, used, screen, join, joining, loggingIn, calls, hasty>>

\* Cancelled or without an answer; a passkey that is refused is a 401 as well.
LoginFails ==
    /\ loggingIn /\ ~Writing("save")
    /\ loggingIn' = FALSE
    /\ UNCHANGED <<memory, belated>> \/ ClearAfter(None)
    /\ UNCHANGED <<api, screen, join, joining, calls, hasty>>

\* A request of the app.
Call(s) ==
    /\ screen = "app" /\ session # None
    /\ s \in Free(calls, None)
    /\ calls' = [calls EXCEPT ![s] = session]
    /\ UNCHANGED <<api, screen, join, joining, loggingIn, memory, hasty, belated>>

\* Faulty variant: any failure ends the session.
IsFailure(answer) == answer >= 400

\* Only the status 401 says that the session is over.
IsUnauthorized(answer) == answer = 401

\* The answer: 401 without a session that holds, else a success or a failure.
Answer(s, answer) ==
    /\ calls[s] # None
    /\ answer \in IF calls[s] \in valid THEN {200, 500} ELSE {401, 500}
    /\ calls' = [calls EXCEPT ![s] = None]
    /\ IF IsUnauthorized(answer) THEN ClearAfter(calls[s]) ELSE UNCHANGED <<memory, belated>>
    /\ UNCHANGED <<api, screen, join, joining, loggingIn, hasty>>

\* A session expires, or is ended by an operator.
Expire(t) ==
    /\ valid' = valid \ {t}
    /\ UNCHANGED <<decided, used, granted, screen, join, joining, loggingIn, memory, calls,
                   hasty, belated>>

-----------------------------------------------------------------------------
Next ==
    \/ OpenJoin \/ BackToLogin \/ RetryRegistration
    \/ LogIn \/ LoggedIn \/ LoginFails \/ Restart
    \/ \E j \in Joins, s \in Slots : Submit(s, j)
    \/ \E j \in Joins : Decide(j, "approved") \/ Decide(j, "rejected")
    \/ \E s \in Slots :
           \/ SubmitAnswered(s) \/ Poll(s) \/ PollInVain(s) \/ PollDecided(s)
           \/ Registered(s) \/ RegistrationFails(s)
           \/ WriteNickname(s) \/ EndWrite(s)
           \/ Call(s) \/ \E answer \in {200, 401, 500} : Answer(s, answer)
    \/ \E t \in valid : Expire(t)

Spec == Init /\ [][Next]_vars

-----------------------------------------------------------------------------
\* The variables have their types, a running poll belongs to the screen that
\* shows, and no ceremony starts without the operator's approval.
TypeOK ==
    /\ decided \in [Joins -> {"unsent", "pending", "approved", "rejected"}]
    /\ used \subseteq {j \in Joins : decided[j] = "approved"}
    /\ granted \in 0..MaxTokens /\ valid \subseteq 1..granted
    /\ screen \in {"login", "join", "app"}
    /\ join \in [phase : {"form", "waiting", "rejected", "registering", "registrationFailed"},
                 requestId : 0..MaxJoins, inviteToken : 0..MaxJoins,
                 timers : 0..Cardinality(Slots)]
    /\ submits \in [Slots -> 0..MaxJoins] /\ polls \in [Slots -> 0..MaxJoins]
    /\ screen = "join" \/ Free(polls, None) = Slots
    /\ ceremonies \in [Slots -> [invite : 0..MaxJoins, mounted : BOOLEAN]]
    /\ \A s \in Slots : ceremonies[s] = NoCeremony \/ decided[ceremonies[s].invite] = "approved"
    /\ loggingIn \in BOOLEAN
    /\ session \in 0..granted
    /\ stored \in [token : 0..granted, nickname : 0..granted]
    /\ writes \in [Slots -> [kind : {"none", "save", "clear"}, token : 0..granted, step : 0..2]]
    /\ calls \in [Slots -> 0..granted]
    /\ hasty \in BOOLEAN /\ belated \in BOOLEAN

\* Polls that overlap do not register one invite twice side by side, unless the
\* form was submitted again before its answer (join_request_screen.dart,
\* _poll: the guard against a double registration).
InviteRegistersAlone ==
    hasty \/ \A s, t \in Slots : ceremonies[s].invite = ceremonies[t].invite
                                 => s = t \/ ceremonies[s].invite = None

\* Neither a failure nor a restart takes a session that holds from the user;
\* only the 401 of an earlier session may (session_provider.dart, clear).
KeepsSession == session \in valid /\ ~belated => session' # None
SessionOutlivesFailures == [][KeepsSession]_vars
=============================================================================
