---------------------------- MODULE AccountsProofs ----------------------------
(* Proofs about Accounts, for every value of its constants. *)
EXTENDS Accounts, FiniteSetTheorems, TLAPS

LEMMA NextCases ==
  ASSUME Next
  PROVE  \/ IssueInvite \/ LoginOptions \/ Tick
         \/ \E s \in Sessions : Logout(s)
         \/ \E j \in JoinRequests : RequestJoin(j)
         \/ \E c \in Calls : Register(c) \/ Visit(c) \/ Decide(c) \/ Fail(c)
BY DEF Next

-----------------------------------------------------------------------------
(* What a call has come to know at each of its steps. *)

\* What call k knows of the tables: rows it will write to, or on whose behalf
\* it writes, are there.
Knows(k) ==
    /\ k.pc \in {"options", "check", "createUser", "createCredential", "markUsed",
                 "reread", "approve"}
          => k.invite \in Invites /\ invites[k.invite] # Absent
    /\ k.pc \in {"consume", "check", "createUser", "createCredential"}
          => k.id \in Challenges
    /\ k.pc = "consume" => k.id <= minted.challenge /\ k.purpose \in {"register", "login"}
    /\ k.pc \in {"createCredential", "markUsed"}
          => k.user \in Users /\ invitedBy[k.user] = k.invite
    /\ k.pc \in {"markUsed", "createSession"}
          => /\ k.user \in Users /\ k.credential \in Challenges
             /\ credentials[k.credential] = k.user
    /\ k.pc \in {"refresh", "act"} => k.user \in Users /\ CredentialsOf(k.user) # {}
    /\ k.pc = "refresh" => k.session \in Sessions
    /\ k.pc \in {"issue", "reread", "approve", "reject"}
          => k.request \in JoinRequests /\ joinRequests[k.request] # Absent
    /\ k.row # Absent /\ k.row.invite # Absent => invites[k.row.invite] # Absent

CallsKnow == \A c \in Calls : Knows(call[c])

\* Ids that were not minted are nowhere, and a challenge refers to an invite.
Fresh ==
    /\ \A i \in Invites : i > minted.invite => invites[i] = Absent
    /\ \A h \in Challenges : h > minted.challenge => challenges[h] = Absent /\ passed[h] = 0
    /\ \A u \in Users : u > minted.user => invitedBy[u] = Absent
    /\ \A h \in Challenges : challenges[h] # Absent /\ challenges[h].invite # Absent
          => invites[challenges[h].invite] # Absent
    /\ \A u \in Users : invitedBy[u] # Absent => invites[invitedBy[u]] # Absent

\* The tables lose none of the rows that a call may rely on.
Grows ==
    /\ minted'.challenge \in Nat /\ minted.challenge <= minted'.challenge
    /\ \A i \in Invites : invites[i] # Absent => invites'[i] # Absent
    /\ \A k \in Challenges : credentials[k] # Absent => credentials'[k] = credentials[k]
    /\ \A u \in Users : invitedBy[u] # Absent => invitedBy'[u] = invitedBy[u]
    /\ \A j \in JoinRequests : joinRequests[j] # Absent => joinRequests'[j] # Absent

Base == TypeOK /\ CallsKnow /\ Fresh

\* What a call knows stays true, until it goes on itself.
LEMMA OthersKnow ==
  ASSUME ConstantsAssumption, Base, Grows, NEW d \in Calls, call'[d] = call[d]
  PROVE  Knows(call[d])'
<1>1. call[d] \in Call /\ Knows(call[d])
  BY DEF Base, TypeOK, CallsKnow
<1>. DEFINE k == call[d]
<1>2. /\ k.pc \in {"options", "check", "createUser", "createCredential", "markUsed",
                   "reread", "approve"}
           => k.invite \in Invites /\ invites'[k.invite] # Absent
      /\ k.pc \in {"createCredential", "markUsed"}
           => k.user \in Users /\ invitedBy'[k.user] = k.invite
      /\ k.pc \in {"markUsed", "createSession"}
           => /\ k.user \in Users /\ k.credential \in Challenges
              /\ credentials'[k.credential] = k.user
      /\ k.pc \in {"issue", "reread", "approve", "reject"}
           => k.request \in JoinRequests /\ joinRequests'[k.request] # Absent
  BY <1>1 DEF Knows, Grows, ConstantsAssumption, Users, Invites
<1>3. k.row # Absent /\ k.row.invite # Absent => invites'[k.row.invite] # Absent
  <2>1. k.row # Absent /\ k.row.invite # Absent => k.row.invite \in Invites
    BY <1>1 DEF Call, Challenge
  <2>. QED  BY <1>1, <2>1 DEF Knows, Grows
<1>4. k.pc \in {"refresh", "act"}
         => k.user \in Users /\ {x \in Challenges : credentials'[x] = k.user} # {}
  BY <1>1 DEF Knows, Grows, CredentialsOf, ConstantsAssumption, Users
<1>5. k.pc = "consume" => k.id <= minted'.challenge
  <2>1. /\ {minted.challenge, minted'.challenge} \subseteq Nat
        /\ minted.challenge <= minted'.challenge
        /\ k.pc = "consume" => k.id \in Nat /\ k.id <= minted.challenge
    BY <1>1 DEF Base, TypeOK, Knows, Grows, Challenges
  <2>. QED  BY <2>1
<1>6. call'[d] = k /\ (k.pc = "consume" => k.purpose \in {"register", "login"})
  BY <1>1 DEF Knows
<1>7. k.pc \in {"consume", "check", "createUser", "createCredential"} => k.id \in Challenges
  BY <1>1 DEF Knows
<1>8. k.pc = "refresh" => k.session \in Sessions
  BY <1>1 DEF Knows
<1>. HIDE DEF k
<1>. QED  BY <1>2, <1>3, <1>4, <1>5, <1>6, <1>7, <1>8 DEF Knows, CredentialsOf

\* So a step of call c has to be looked at for c alone.
LEMMA CallKnows ==
  ASSUME ConstantsAssumption, Base, Grows, NEW c \in Calls,
         \A d \in Calls \ {c} : call'[d] = call[d],
         Knows(call[c])'
  PROVE  CallsKnow'
BY OthersKnow DEF CallsKnow

-----------------------------------------------------------------------------
(* Every step keeps Base and the rows that calls rely on. *)

LEMMA IdleTyped == Idle \in Call
BY DEF Idle, Call, Steps

LEMMA FinishKnows ==
  ASSUME Base, NEW c \in Calls, Finish(c)
  PROVE  /\ call' \in [Calls -> Call]
         /\ \A d \in Calls \ {c} : call'[d] = call[d]
         /\ call'[c] = Idle /\ Knows(call[c])'
<1>1. call'[c] = Idle
  BY DEF Finish, Base, TypeOK
<1>2. Knows(call[c])'
  BY <1>1 DEF Knows, Idle
<1>. QED  BY <1>1, <1>2, IdleTyped DEF Finish, Base, TypeOK

\* A new invite.
LEMMA InviteCreated ==
  ASSUME ConstantsAssumption, Base, CreateInvite
  PROVE  /\ minted.invite + 1 \in Invites
         /\ invites[minted.invite + 1] = Absent
         /\ invites' = [invites EXCEPT ![minted.invite + 1] =
                           [expiresAt |-> now + InviteTtl, usedBy |-> Absent]]
         /\ invites'[minted.invite + 1] # Absent
         /\ minted' = [minted EXCEPT !.invite = @ + 1]
         /\ minted' \in [invite : 0..MaxInvites, challenge : 0..MaxChallenges,
                         user : 0..MaxUsers, session : 0..MaxSessions]
         /\ invites' \in [Invites -> Invite \cup {Absent}]
         /\ \A i \in Invites : invites[i] # Absent => invites'[i] = invites[i]
         /\ \A i \in Invites : i > minted'.invite => invites'[i] = Absent
<1>1. minted.invite + 1 \in Invites /\ minted.invite + 1 \in 0..MaxInvites
  BY DEF ConstantsAssumption, Base, TypeOK, CreateInvite, Invites
<1>2. /\ [expiresAt |-> now + InviteTtl, usedBy |-> Absent] \in Invite
      /\ [expiresAt |-> now + InviteTtl, usedBy |-> Absent] # Absent
  BY DEF ConstantsAssumption, Base, TypeOK, Invite
<1>3. invites[minted.invite + 1] = Absent
  BY <1>1 DEF Base, Fresh, TypeOK
<1>4. /\ minted' = [minted EXCEPT !.invite = @ + 1]
      /\ minted' \in [invite : 0..MaxInvites, challenge : 0..MaxChallenges,
                      user : 0..MaxUsers, session : 0..MaxSessions]
      /\ minted'.invite = minted.invite + 1
  BY <1>1 DEF Base, TypeOK, CreateInvite
<1>5. /\ invites' = [invites EXCEPT ![minted.invite + 1] =
                         [expiresAt |-> now + InviteTtl, usedBy |-> Absent]]
      /\ invites' \in [Invites -> Invite \cup {Absent}]
  BY <1>1, <1>2 DEF Base, TypeOK, CreateInvite
<1>6. \A i \in Invites : i > minted'.invite => invites'[i] = Absent
  <2>1. \A i \in Invites : i > minted.invite + 1 => i > minted.invite /\ i # minted.invite + 1
    BY DEF Base, TypeOK, Invites
  <2>. QED  BY <1>1, <1>4, <1>5, <2>1 DEF Base, TypeOK, Fresh
<1>7. /\ invites'[minted.invite + 1] # Absent
      /\ \A i \in Invites : invites[i] # Absent => invites'[i] = invites[i]
  BY <1>1, <1>2, <1>3, <1>5 DEF Base, TypeOK
<1>. QED  BY <1>1, <1>3, <1>4, <1>5, <1>6, <1>7

\* A new challenge.
LEMMA ChallengeCreated ==
  ASSUME ConstantsAssumption, Base,
         NEW purpose \in {"register", "login"}, NEW i \in Invites \cup {Absent},
         i # Absent => invites[i] # Absent,
         CreateChallenge(purpose, i), call' \in [Calls -> Call]
  PROVE  TypeOK' /\ Fresh' /\ Grows
<1>. DEFINE row == [purpose |-> purpose, invite |-> i, expiresAt |-> now + ChallengeTtl]
<1>1. minted.challenge + 1 \in Challenges /\ minted.challenge + 1 \in 0..MaxChallenges
  BY DEF ConstantsAssumption, Base, TypeOK, CreateChallenge, Challenges
<1>2. row \in Challenge /\ row.invite = i
  BY DEF ConstantsAssumption, Base, TypeOK, Challenge
<1>3. challenges' = [challenges EXCEPT ![minted.challenge + 1] = row]
  BY DEF CreateChallenge
<1>4. TypeOK'
  BY <1>1, <1>2, <1>3 DEF CreateChallenge, Base, TypeOK, history
<1>5. Fresh'
  <2>1. \A h \in Challenges : h > minted'.challenge => challenges'[h] = Absent /\ passed'[h] = 0
    BY <1>1, <1>3 DEF CreateChallenge, Base, TypeOK, Fresh, history, Challenges
  <2>2. \A h \in Challenges : challenges'[h] # Absent /\ challenges'[h].invite # Absent
            => invites'[challenges'[h].invite] # Absent
    BY <1>1, <1>2, <1>3 DEF CreateChallenge, Base, TypeOK, Fresh
  <2>3. minted'.invite = minted.invite /\ minted'.user = minted.user
    BY DEF CreateChallenge, Base, TypeOK
  <2>. QED  BY <2>1, <2>2, <2>3 DEF Base, Fresh, CreateChallenge, history
<1>6. Grows
  BY DEF Grows, CreateChallenge, history, Base, TypeOK
<1>. QED  BY <1>4, <1>5, <1>6

LEMMA EnvironmentBase ==
  ASSUME ConstantsAssumption, Base,
         \/ IssueInvite \/ LoginOptions \/ Tick
         \/ \E s \in Sessions : Logout(s)
         \/ \E j \in JoinRequests : RequestJoin(j)
  PROVE  Base' /\ Grows
<1>1. TypeOK' /\ Fresh' /\ Grows
  <2>1. CASE IssueInvite
    <3>1. TypeOK'
      BY <2>1, InviteCreated DEF IssueInvite, Base, TypeOK, history
    <3>2. minted'.challenge = minted.challenge /\ minted'.user = minted.user
      BY <2>1 DEF IssueInvite, CreateInvite, Base, TypeOK
    <3>3. Fresh'
      BY <2>1, <3>2, InviteCreated DEF IssueInvite, Base, TypeOK, Fresh, history, Challenge
    <3>. QED  BY <2>1, <3>1, <3>3, InviteCreated DEF IssueInvite, Grows, history
  <2>2. CASE LoginOptions
    BY <2>2, ChallengeCreated DEF LoginOptions, Base, TypeOK
  <2>3. CASE Tick
    BY <2>3 DEF Tick, Base, TypeOK, Fresh, Grows, tables, history
  <2>4. CASE \E s \in Sessions : Logout(s)
    BY <2>4 DEF Logout, Base, TypeOK, Fresh, Grows, history
  <2>5. CASE \E j \in JoinRequests : RequestJoin(j)
    <3>1. PICK j \in JoinRequests : RequestJoin(j)
      BY <2>5
    <3>2. TypeOK'
      BY <3>1 DEF RequestJoin, Base, TypeOK, history, JoinRequest
    <3>3. Grows
      BY <3>1 DEF RequestJoin, Base, TypeOK, Grows, history
    <3>. QED  BY <3>1, <3>2, <3>3 DEF RequestJoin, Base, Fresh, history
  <2>. QED  BY <2>1, <2>2, <2>3, <2>4, <2>5
<1>2. call' = call
  BY DEF IssueInvite, LoginOptions, Tick, Logout, RequestJoin
<1>. QED  BY <1>1, <1>2, OthersKnow DEF Base, CallsKnow

\* A step of c that leaves the tables to the lemmas above and moves c on.
LEMMA MovedOn ==
  ASSUME Base, NEW c \in Calls, NEW k \in Call, call' = [call EXCEPT ![c] = k]
  PROVE  /\ call' \in [Calls -> Call]
         /\ \A d \in Calls \ {c} : call'[d] = call[d]
         /\ call'[c] = k
BY DEF Base, TypeOK

\* Nothing but calls and what they crossed changes.
LEMMA TablesStay ==
  ASSUME Base, UNCHANGED <<now, tables, minted, invitedBy, issuedFor, passed>>,
         call' \in [Calls -> Call], late' \in SUBSET Calls
  PROVE  TypeOK' /\ Fresh' /\ Grows
BY DEF Base, TypeOK, Fresh, Grows, tables

LEMMA CeremonyBase ==
  ASSUME ConstantsAssumption, Base, NEW c \in Calls,
         \/ \E i \in Invites : RegistrationOptions(c, i)
         \/ StoreRegistrationChallenge(c)
         \/ \E h \in Challenges, purpose \in {"register", "login"} :
               PresentChallenge(c, h, purpose)
         \/ ConsumeChallenge(c)
  PROVE  Base' /\ Grows
<1>0. call[c] \in Call /\ Knows(call[c])
  BY DEF Base, TypeOK, CallsKnow
<1>1. ASSUME NEW i \in Invites, RegistrationOptions(c, i) PROVE Base' /\ Grows
  <2>. DEFINE k == [call[c] EXCEPT !.pc = "options", !.invite = i]
  <2>1. k \in Call /\ k.pc = "options" /\ k.invite = i /\ k.row = call[c].row
    BY <1>0 DEF Call, Steps
  <2>2. call' = [call EXCEPT ![c] = k]
    BY <1>1 DEF RegistrationOptions, Base, TypeOK
  <2>3. TypeOK' /\ Fresh' /\ Grows
    BY <1>1, <2>1, <2>2, MovedOn, TablesStay
       DEF RegistrationOptions, history, Base, TypeOK
  <2>4. Knows(call[c])'
    BY <1>0, <1>1, <2>1, <2>2, MovedOn
       DEF RegistrationOptions, IsValidInvite, Knows, tables
  <2>. QED  BY <2>1, <2>2, <2>3, <2>4, MovedOn, CallKnows DEF Base
<1>2. CASE StoreRegistrationChallenge(c)
  <2>1. call[c].invite \in Invites /\ invites[call[c].invite] # Absent
    BY <1>0, <1>2 DEF StoreRegistrationChallenge, Knows, At
  <2>2. TypeOK' /\ Fresh' /\ Grows
    BY <1>2, <2>1, FinishKnows, ChallengeCreated DEF StoreRegistrationChallenge
  <2>. QED  BY <1>2, <2>2, FinishKnows, CallKnows DEF StoreRegistrationChallenge, Base
<1>3. ASSUME NEW h \in Challenges, NEW purpose \in {"register", "login"},
             PresentChallenge(c, h, purpose)
      PROVE  Base' /\ Grows
  <2>. DEFINE k == [call[c] EXCEPT !.pc = "consume", !.purpose = purpose, !.id = h,
                                   !.row = challenges[h]]
  <2>1. challenges[h] \in Challenge \cup {Absent}
    BY DEF Base, TypeOK
  <2>2. /\ k \in Call /\ k.pc = "consume" /\ k.purpose = purpose /\ k.id = h
        /\ k.row = challenges[h]
    BY <1>0, <2>1 DEF Call, Steps
  <2>3. call' = [call EXCEPT ![c] = k]
    BY <1>3 DEF PresentChallenge, Base, TypeOK
  <2>4. TypeOK' /\ Fresh' /\ Grows
    BY <1>3, <2>2, <2>3, MovedOn, TablesStay DEF PresentChallenge, Base, TypeOK
  <2>5. /\ h <= minted'.challenge
        /\ k.row # Absent /\ k.row.invite # Absent => invites'[k.row.invite] # Absent
    BY <1>3, <2>2 DEF PresentChallenge, tables, Base, Fresh
  <2>6. call'[c] = k
    BY <2>2, <2>3, MovedOn
  <2>7. Knows(call[c])'
    <3>. HIDE DEF k
    <3>. QED  BY <2>2, <2>5, <2>6 DEF Knows
  <2>. QED  BY <2>2, <2>3, <2>4, <2>7, MovedOn, CallKnows DEF Base
<1>4. CASE ConsumeChallenge(c)
  <2>1. call[c].id \in Challenges /\ call[c].purpose \in {"register", "login"}
    BY <1>0, <1>4 DEF ConsumeChallenge, At, Knows
  <2>2. /\ challenges' = [challenges EXCEPT ![call[c].id] = Absent]
        /\ UNCHANGED <<now, invites, credentials, sessions, joinRequests, favorites,
                       minted, invitedBy, issuedFor, late>>
    BY <1>4 DEF ConsumeChallenge, DeletedChallenge
  <2>3. /\ passed' \in [Challenges -> Nat]
        /\ \A h \in Challenges : h > minted.challenge => passed'[h] = 0
        /\ call' \in [Calls -> Call]
        /\ \A d \in Calls \ {c} : call'[d] = call[d]
        /\ Knows(call[c])'
    <3>1. CASE ~Accepts(call[c].row, call[c].purpose)
      BY <1>4, <3>1, FinishKnows DEF ConsumeChallenge, Base, TypeOK, Fresh
    <3>2. CASE Accepts(call[c].row, call[c].purpose)
      <4>. DEFINE pc == IF call[c].purpose = "register" THEN "check" ELSE "findCredential"
                  k == [call[c] EXCEPT !.row = Absent, !.pc = pc,
                                       !.invite = call[c].row.invite]
      <4>1. call[c].row \in Challenge /\ call[c].row.invite \in Invites \cup {Absent}
        BY <1>0, <3>2 DEF Accepts, Call, Challenge
      <4>2. pc \in Steps /\ pc \in {"check", "findCredential"}
        BY DEF Steps
      <4>3. /\ k \in Call /\ k.pc = pc /\ k.row = Absent /\ k.id = call[c].id
            /\ k.invite = call[c].row.invite
        <5>. HIDE DEF pc
        <5>. QED  BY <1>0, <4>1, <4>2 DEF Call
      <4>4. call' = [call EXCEPT ![c] = k] /\ passed' = [passed EXCEPT ![call[c].id] = @ + 1]
        BY <1>4, <3>2 DEF ConsumeChallenge, Base, TypeOK
      <4>5. call[c].id <= minted.challenge
        BY <1>0, <1>4 DEF ConsumeChallenge, At, Knows
      <4>6. Knows(call[c])'
        <5>1. /\ call'[c] = k /\ (pc = "check" => k.invite # Absent)
              /\ k.invite # Absent => invites'[k.invite] # Absent
          BY <1>0, <2>2, <3>2, <4>1, <4>3, <4>4, MovedOn DEF Knows, Accepts
        <5>. HIDE DEF k, pc
        <5>. QED  BY <2>1, <4>1, <4>2, <4>3, <5>1 DEF Knows
      <4>7. passed' \in [Challenges -> Nat]
        BY <2>1, <4>4 DEF Base, TypeOK
      <4>8. ASSUME NEW h \in Challenges, h > minted.challenge PROVE passed'[h] = 0
        BY <2>1, <4>4, <4>5, <4>8 DEF Base, TypeOK, Fresh, Challenges
      <4>. QED  BY <4>3, <4>4, <4>6, <4>7, <4>8, MovedOn
    <3>. QED  BY <3>1, <3>2
  <2>4. TypeOK'
    BY <2>1, <2>2, <2>3 DEF Base, TypeOK
  <2>5. Fresh' /\ Grows
    BY <2>1, <2>2, <2>3 DEF Base, TypeOK, Fresh, Grows
  <2>. QED  BY <2>3, <2>4, <2>5, CallKnows DEF Base
<1>. QED  BY <1>1, <1>2, <1>3, <1>4

\* A call that only moves to another step keeps the rest of its state.
LEMMA Goes ==
  ASSUME Base, NEW c \in Calls, NEW step \in Steps, Goto(c, step)
  PROVE  /\ call' \in [Calls -> Call]
         /\ \A d \in Calls \ {c} : call'[d] = call[d]
         /\ call'[c] = [call[c] EXCEPT !.pc = step]
         /\ call'[c].pc = step /\ call'[c].invite = call[c].invite
         /\ call'[c].id = call[c].id /\ call'[c].user = call[c].user
         /\ call'[c].credential = call[c].credential
         /\ call'[c].session = call[c].session
         /\ call'[c].request = call[c].request /\ call'[c].row = call[c].row
<1>1. call[c] \in Call
  BY DEF Base, TypeOK
<1>. DEFINE k == [call[c] EXCEPT !.pc = step]
<1>2. /\ k \in Call /\ k.pc = step /\ k.invite = call[c].invite /\ k.id = call[c].id
      /\ k.user = call[c].user /\ k.credential = call[c].credential
      /\ k.session = call[c].session /\ k.request = call[c].request
      /\ k.row = call[c].row
  BY <1>1 DEF Call
<1>3. call' = [call EXCEPT ![c] = k]
  BY DEF Goto, Base, TypeOK
<1>4. /\ call' \in [Calls -> Call]
      /\ \A d \in Calls \ {c} : call'[d] = call[d]
      /\ call'[c] = k
  BY <1>2, <1>3, MovedOn
<1>. QED  BY <1>2, <1>4

LEMMA RegistrationBase ==
  ASSUME ConstantsAssumption, Base, NEW c \in Calls,
         CheckInvite(c) \/ CreateUser(c) \/ CreateCredential(c) \/ MarkUsed(c)
  PROVE  Base' /\ Grows
<1>0. call[c] \in Call /\ Knows(call[c])
  BY DEF Base, TypeOK, CallsKnow
<1>1. CASE CheckInvite(c)
  <2>1. UNCHANGED <<now, tables, minted, invitedBy, issuedFor, passed, late>>
    BY <1>1 DEF CheckInvite
  <2>2. CASE Finish(c)
    BY <2>1, <2>2, FinishKnows, TablesStay, CallKnows DEF Base, TypeOK
  <2>3. CASE Goto(c, "createUser") /\ At(c, "check")
    <3>1. Knows(call[c])'
      BY <1>0, <2>1, <2>3, Goes DEF Knows, At, Steps, tables
    <3>. QED  BY <2>1, <2>3, <3>1, Goes, TablesStay, CallKnows DEF Base, TypeOK, Steps
  <2>. QED  BY <1>1, <2>2, <2>3 DEF CheckInvite
<1>2. CASE CreateUser(c)
  <2>. DEFINE u == minted.user + 1
              k == [call[c] EXCEPT !.pc = "createCredential", !.user = u]
  <2>1. /\ u \in Users /\ u \in 0..MaxUsers
        /\ call[c].invite \in Invites /\ invites[call[c].invite] # Absent
    BY <1>0, <1>2 DEF ConstantsAssumption, Base, TypeOK, CreateUser, Users, Knows, At
  <2>2. /\ k \in Call /\ k.pc = "createCredential" /\ k.user = u
        /\ k.invite = call[c].invite /\ k.id = call[c].id /\ k.row = call[c].row
    BY <1>0, <2>1 DEF Call, Steps
  <2>3. /\ call' = [call EXCEPT ![c] = k]
        /\ invitedBy' = [invitedBy EXCEPT ![u] = call[c].invite]
        /\ minted' = [minted EXCEPT !.user = u]
        /\ UNCHANGED <<now, tables, issuedFor, passed, late, crossed>>
    BY <1>2 DEF CreateUser, Base, TypeOK
  <2>4. /\ invitedBy[u] = Absent /\ call'[c] = k
        /\ minted'.user = u /\ minted'.challenge = minted.challenge
        /\ minted'.invite = minted.invite
    BY <2>1, <2>2, <2>3, MovedOn DEF Base, TypeOK, Fresh
  <2>5. TypeOK'
    BY <2>1, <2>2, <2>3, MovedOn DEF Base, TypeOK, tables
  <2>6. Grows
    BY <2>3, <2>4 DEF Grows, tables, Base, TypeOK
  <2>7. Fresh'
    <3>1. \A v \in Users : v > minted'.user => invitedBy'[v] = Absent
      <4>1. \A v \in Users : v > u => v > minted.user /\ v # u
        BY DEF Base, TypeOK, Users
      <4>. QED  BY <2>1, <2>3, <2>4, <4>1 DEF Base, TypeOK, Fresh
    <3>2. \A v \in Users : invitedBy'[v] # Absent => invites'[invitedBy'[v]] # Absent
      BY <2>1, <2>3 DEF Base, TypeOK, Fresh, tables
    <3>. QED  BY <2>3, <2>4, <3>1, <3>2 DEF Base, Fresh, tables
  <2>8. Knows(call[c])'
    <3>1. /\ invitedBy'[u] = k.invite /\ k.id \in Challenges
          /\ k.row # Absent /\ k.row.invite # Absent => invites'[k.row.invite] # Absent
          /\ invites'[k.invite] # Absent
      BY <1>0, <1>2, <2>1, <2>2, <2>3 DEF Knows, CreateUser, At, tables, Base, TypeOK
    <3>. HIDE DEF k, u
    <3>. QED  BY <2>1, <2>2, <2>4, <3>1 DEF Knows
  <2>. QED  BY <2>2, <2>3, <2>5, <2>6, <2>7, <2>8, MovedOn, CallKnows DEF Base
<1>3. CASE CreateCredential(c)
  <2>. DEFINE k == [call[c] EXCEPT !.pc = "markUsed", !.credential = call[c].id]
  <2>1. /\ call[c].id \in Challenges /\ call[c].user \in Users
        /\ call[c].invite \in Invites /\ invites[call[c].invite] # Absent
        /\ invitedBy[call[c].user] = call[c].invite
    BY <1>0, <1>3 DEF CreateCredential, Knows, At
  <2>2. /\ k \in Call /\ k.pc = "markUsed" /\ k.user = call[c].user
        /\ k.invite = call[c].invite /\ k.credential = call[c].id /\ k.row = call[c].row
    BY <1>0, <2>1 DEF Call, Steps
  <2>3. /\ call' = [call EXCEPT ![c] = k]
        /\ credentials' = [credentials EXCEPT ![call[c].id] = call[c].user]
        /\ credentials[call[c].id] = Absent
        /\ UNCHANGED <<now, invites, challenges, sessions, joinRequests, favorites,
                       minted, history>>
    BY <1>3 DEF CreateCredential, Base, TypeOK
  <2>4. TypeOK' /\ Fresh' /\ Grows
    BY <2>1, <2>2, <2>3, MovedOn DEF Base, TypeOK, Fresh, Grows, history
  <2>5. Knows(call[c])'
    <3>1. /\ invitedBy'[k.user] = k.invite /\ invites'[k.invite] # Absent
          /\ credentials'[k.credential] = k.user /\ call'[c] = k
          /\ k.row # Absent /\ k.row.invite # Absent => invites'[k.row.invite] # Absent
      BY <1>0, <2>1, <2>2, <2>3, MovedOn DEF Knows, history, Base, TypeOK
    <3>. HIDE DEF k
    <3>. QED  BY <2>1, <2>2, <3>1 DEF Knows
  <2>. QED  BY <2>2, <2>3, <2>4, <2>5, MovedOn, CallKnows DEF Base
<1>4. CASE MarkUsed(c)
  <2>1. /\ call[c].invite \in Invites /\ invites[call[c].invite] # Absent
        /\ call[c].user \in Users /\ invites[call[c].invite] \in Invite
    BY <1>0, <1>4 DEF MarkUsed, At, Knows, Base, TypeOK
  <2>2. /\ invites' = [invites EXCEPT ![call[c].invite].usedBy = call[c].user]
        /\ Goto(c, "createSession")
        /\ UNCHANGED <<now, challenges, credentials, sessions, joinRequests, favorites,
                       minted, history>>
    BY <1>4 DEF MarkUsed, MarkInviteUsed
  <2>3. /\ [invites[call[c].invite] EXCEPT !.usedBy = call[c].user] \in Invite
        /\ Absent \notin Invite
    BY <2>1 DEF Invite, ConstantsAssumption
  <2>4. /\ invites' \in [Invites -> Invite \cup {Absent}]
        /\ \A i \in Invites : invites'[i] = Absent <=> invites[i] = Absent
    BY <2>1, <2>2, <2>3 DEF Base, TypeOK
  <2>5. TypeOK'
    BY <2>2, <2>4, Goes DEF Base, TypeOK, history, Steps
  <2>6. Grows
    BY <2>2, <2>4 DEF Grows, history, Base, TypeOK
  <2>7. Fresh'
    BY <2>2, <2>4 DEF Fresh, history, Base, TypeOK, Challenge
  <2>8. Knows(call[c])'
    <3>1. call[c].row # Absent /\ call[c].row.invite # Absent
             => invites'[call[c].row.invite] # Absent
      BY <1>0, <2>4 DEF Knows, Call, Challenge
    <3>. QED  BY <1>0, <1>4, <2>2, <3>1, Goes DEF Knows, MarkUsed, At, Steps
  <2>. QED  BY <2>2, <2>5, <2>6, <2>7, <2>8, Goes, CallKnows DEF Base, Steps
<1>. QED  BY <1>1, <1>2, <1>3, <1>4

LEMMA VisitBase ==
  ASSUME ConstantsAssumption, Base, NEW c \in Calls, Visit(c), SessionsHaveOwners
  PROVE  Base' /\ Grows
<1>0. call[c] \in Call /\ Knows(call[c])
  BY DEF Base, TypeOK, CallsKnow
<1>1. ASSUME NEW h \in Challenges, FindCredential(c, h) PROVE Base' /\ Grows
  <2>1. UNCHANGED <<now, tables, minted, history>>
    BY <1>1 DEF FindCredential
  <2>2. CASE Finish(c)
    BY <2>1, <2>2, FinishKnows, TablesStay, CallKnows DEF Base, TypeOK, history
  <2>3. CASE credentials[h] # Absent /\ ~Finish(c)
    <3>. DEFINE k == [call[c] EXCEPT !.pc = "createSession", !.credential = h,
                                     !.user = credentials[h]]
    <3>1. credentials[h] \in Users
      BY <2>3 DEF Base, TypeOK
    <3>2. /\ k \in Call /\ k.pc = "createSession" /\ k.credential = h
          /\ k.user = credentials[h] /\ k.row = call[c].row
      BY <1>0, <3>1 DEF Call, Steps
    <3>3. call' = [call EXCEPT ![c] = k]
      BY <1>1, <2>3 DEF FindCredential, Base, TypeOK
    <3>4. TypeOK' /\ Fresh' /\ Grows
      BY <2>1, <3>2, <3>3, MovedOn, TablesStay DEF Base, TypeOK, history
    <3>5. Knows(call[c])'
      <4>1. /\ call'[c] = k /\ credentials'[h] = credentials[h]
            /\ k.row # Absent /\ k.row.invite # Absent => invites'[k.row.invite] # Absent
        BY <1>0, <2>1, <3>2, <3>3, MovedOn DEF Knows, tables
      <4>. HIDE DEF k
      <4>. QED  BY <3>1, <3>2, <4>1 DEF Knows
    <3>. QED  BY <3>2, <3>3, <3>4, <3>5, MovedOn, CallKnows DEF Base
  <2>. QED  BY <1>1, <2>2, <2>3 DEF FindCredential
<1>2. CASE IssueSession(c)
  <2>. DEFINE s == minted.session + 1
              row == [user |-> call[c].user, credential |-> call[c].credential,
                      expiresAt |-> now + SessionTtl]
  <2>1. s \in Sessions /\ s \in 0..MaxSessions
    BY <1>2 DEF ConstantsAssumption, Base, TypeOK, IssueSession, Sessions
  <2>2. row \in Session
    BY <1>0, <1>2 DEF ConstantsAssumption, Base, TypeOK, Session, IssueSession, At, Knows
  <2>3. TypeOK'
    BY <1>2, <2>1, <2>2, FinishKnows DEF IssueSession, Base, TypeOK, history
  <2>4. /\ minted'.challenge = minted.challenge /\ minted'.invite = minted.invite
        /\ minted'.user = minted.user
    BY <1>2 DEF IssueSession, Base, TypeOK
  <2>5. Fresh' /\ Grows
    BY <1>2, <2>4 DEF IssueSession, Base, TypeOK, Fresh, Grows, history
  <2>. QED  BY <1>2, <2>3, <2>5, FinishKnows, CallKnows DEF IssueSession, Base
<1>3. ASSUME NEW s \in Sessions, ValidateSession(c, s) PROVE Base' /\ Grows
  <2>. DEFINE k == [call[c] EXCEPT !.pc = "refresh", !.session = s,
                                   !.expiresAt = now + SessionTtl,
                                   !.user = sessions[s].user]
  <2>1. sessions[s] \in Session /\ sessions[s] # Absent
    BY <1>3 DEF ValidateSession, IsLiveSession, Base, TypeOK
  <2>2. /\ sessions[s].user \in Users /\ sessions[s].credential \in Challenges
        /\ credentials[sessions[s].credential] = sessions[s].user
    BY <2>1 DEF Session, SessionsHaveOwners
  <2>3. now + SessionTtl \in Nat
    BY DEF ConstantsAssumption, Base, TypeOK
  <2>4. /\ k \in Call /\ k.pc = "refresh" /\ k.session = s
        /\ k.user = sessions[s].user /\ k.row = call[c].row
    BY <1>0, <2>2, <2>3 DEF Call, Steps
  <2>5. call' = [call EXCEPT ![c] = k] /\ UNCHANGED <<now, tables, minted, history>>
    BY <1>3 DEF ValidateSession, Base, TypeOK
  <2>6. TypeOK' /\ Fresh' /\ Grows
    BY <2>4, <2>5, MovedOn, TablesStay DEF Base, TypeOK, history
  <2>7. Knows(call[c])'
    <3>1. /\ call'[c] = k /\ k.user \in Users
          /\ credentials'[sessions[s].credential] = k.user
          /\ k.row # Absent /\ k.row.invite # Absent => invites'[k.row.invite] # Absent
      BY <1>0, <2>2, <2>4, <2>5, MovedOn DEF Knows, tables
    <3>. HIDE DEF k
    <3>. QED  BY <2>2, <2>4, <3>1 DEF Knows, CredentialsOf
  <2>. QED  BY <2>4, <2>5, <2>6, <2>7, MovedOn, CallKnows DEF Base
<1>4. CASE RefreshSession(c)
  <2>. DEFINE s == call[c].session
  <2>1. s \in Sessions /\ call[c].user \in Users /\ CredentialsOf(call[c].user) # {}
    BY <1>0, <1>4 DEF RefreshSession, At, Knows
  <2>2. Refreshed(s, c) \in Session \cup {Absent}
    BY <1>0, <2>1 DEF Refreshed, Base, TypeOK, Session, Call
  <2>3. /\ Goto(c, "act") /\ "act" \in Steps
        /\ sessions' = [sessions EXCEPT ![s] = Refreshed(s, c)]
        /\ UNCHANGED <<now, invites, challenges, credentials, joinRequests, favorites,
                       minted, history>>
    BY <1>4 DEF RefreshSession, Steps
  <2>4. TypeOK'
    BY <2>1, <2>2, <2>3, Goes DEF Base, TypeOK, history
  <2>5. Fresh' /\ Grows
    BY <2>3 DEF Base, TypeOK, Fresh, Grows, history
  <2>6. Knows(call[c])'
    <3>1. /\ call'[c].pc = "act" /\ call'[c].user = call[c].user
          /\ call'[c].row = call[c].row
      BY <2>3, Goes
    <3>2. /\ {x \in Challenges : credentials'[x] = call[c].user} # {}
          /\ call[c].row # Absent /\ call[c].row.invite # Absent
                => invites'[call[c].row.invite] # Absent
      BY <1>0, <2>1, <2>3 DEF Knows, CredentialsOf
    <3>. QED  BY <2>1, <3>1, <3>2 DEF Knows, CredentialsOf
  <2>. QED  BY <2>3, <2>4, <2>5, <2>6, Goes, CallKnows DEF Base
<1>5. CASE ChangeFavorite(c)
  <2>1. call[c].user \in Users
    BY <1>0, <1>5 DEF ChangeFavorite, At, Knows
  <2>2. TypeOK' /\ Fresh' /\ Grows
    BY <1>5, <2>1, FinishKnows DEF ChangeFavorite, Base, TypeOK, Fresh, Grows, history
  <2>. QED  BY <1>5, <2>2, FinishKnows, CallKnows DEF ChangeFavorite, Base
<1>. QED  BY <1>1, <1>2, <1>3, <1>4, <1>5 DEF Visit

LEMMA DecideBase ==
  ASSUME ConstantsAssumption, Base, NEW c \in Calls, Decide(c)
  PROVE  Base' /\ Grows
<1>0. call[c] \in Call /\ Knows(call[c])
  BY DEF Base, TypeOK, CallsKnow
<1>1. ASSUME NEW j \in JoinRequests, NEW step \in {"issue", "reject"},
             BeginDecision(c, j, step)
      PROVE  Base' /\ Grows
  <2>. DEFINE k == [call[c] EXCEPT !.pc = step, !.request = j]
  <2>1. /\ k \in Call /\ k.pc = step /\ k.request = j /\ k.row = call[c].row
    BY <1>0 DEF Call, Steps
  <2>2. call' = [call EXCEPT ![c] = k] /\ UNCHANGED <<now, tables, minted, history>>
    BY <1>1 DEF BeginDecision, Base, TypeOK
  <2>3. TypeOK' /\ Fresh' /\ Grows
    BY <2>1, <2>2, MovedOn, TablesStay DEF Base, TypeOK, history
  <2>4. Knows(call[c])'
    <3>1. /\ call'[c] = k /\ joinRequests'[j] # Absent
          /\ k.row # Absent /\ k.row.invite # Absent => invites'[k.row.invite] # Absent
      BY <1>0, <1>1, <2>1, <2>2, MovedOn DEF Knows, tables, BeginDecision, IsPending
    <3>. HIDE DEF k
    <3>. QED  BY <2>1, <3>1 DEF Knows
  <2>. QED  BY <2>1, <2>2, <2>3, <2>4, MovedOn, CallKnows DEF Base
<1>2. CASE IssueForRequest(c)
  <2>. DEFINE k == [call[c] EXCEPT !.pc = "reread", !.invite = minted.invite + 1]
  <2>1. /\ CreateInvite
        /\ call[c].request \in JoinRequests /\ joinRequests[call[c].request] # Absent
    BY <1>0, <1>2 DEF IssueForRequest, At, Knows
  <2>2. /\ k \in Call /\ k.pc = "reread" /\ k.request = call[c].request
        /\ k.invite = minted.invite + 1 /\ k.row = call[c].row
    BY <1>0, <2>1, InviteCreated DEF Call, Steps
  <2>3. /\ call' = [call EXCEPT ![c] = k]
        /\ issuedFor' = [issuedFor EXCEPT ![minted.invite + 1] = call[c].request]
        /\ UNCHANGED <<now, challenges, credentials, sessions, joinRequests, favorites,
                       invitedBy, passed, late, crossed>>
    BY <1>2 DEF IssueForRequest, Base, TypeOK
  <2>4. TypeOK'
    BY <2>1, <2>2, <2>3, InviteCreated, MovedOn DEF Base, TypeOK
  <2>5. minted'.challenge = minted.challenge /\ minted'.user = minted.user
    BY <2>1 DEF CreateInvite, Base, TypeOK
  <2>6. Fresh'
    BY <2>1, <2>3, <2>5, InviteCreated DEF Fresh, Base, TypeOK, Challenge
  <2>7. Grows
    BY <2>1, <2>3, <2>5, InviteCreated DEF Grows, Base, TypeOK
  <2>8. Knows(call[c])'
    <3>1. /\ call'[c] = k /\ joinRequests'[k.request] # Absent
          /\ minted.invite + 1 \in Invites /\ invites'[minted.invite + 1] # Absent
      BY <2>1, <2>2, <2>3, InviteCreated, MovedOn
    <3>2. k.row # Absent /\ k.row.invite # Absent => invites'[k.row.invite] # Absent
      BY <1>0, <2>1, <2>2, <2>7 DEF Knows, Grows, Call, Challenge
    <3>. HIDE DEF k
    <3>. QED  BY <2>1, <2>2, <3>1, <3>2 DEF Knows
  <2>. QED  BY <2>2, <2>3, <2>4, <2>6, <2>7, <2>8, MovedOn, CallKnows DEF Base
<1>3. CASE RereadRequest(c)
  <2>1. UNCHANGED <<now, tables, minted, history>>
    BY <1>3 DEF RereadRequest
  <2>2. CASE Finish(c)
    BY <2>1, <2>2, FinishKnows, TablesStay, CallKnows DEF Base, TypeOK, history
  <2>3. CASE Goto(c, "approve") /\ At(c, "reread")
    <3>1. Knows(call[c])'
      BY <1>0, <2>1, <2>3, Goes DEF Knows, At, Steps, tables
    <3>. QED  BY <2>1, <2>3, <3>1, Goes, TablesStay, CallKnows
              DEF Base, TypeOK, Steps, history
  <2>. QED  BY <1>3, <2>2, <2>3 DEF RereadRequest
<1>4. CASE ApproveJoinRequest(c) \/ RejectJoinRequest(c)
  <2>1. /\ call[c].request \in JoinRequests /\ joinRequests[call[c].request] # Absent
        /\ joinRequests[call[c].request] \in JoinRequest
    BY <1>0, <1>4 DEF ApproveJoinRequest, RejectJoinRequest, At, Knows, Base, TypeOK
  <2>2. PICK row : /\ WriteDecision(c, row)
                   /\ \/ row = [status |-> "approved", invite |-> call[c].invite]
                      \/ row = [joinRequests[call[c].request] EXCEPT !.status = "rejected"]
    BY <1>4 DEF ApproveJoinRequest, RejectJoinRequest
  <2>3. row \in JoinRequest /\ row # Absent
    BY <1>0, <2>1, <2>2 DEF JoinRequest, Call, ConstantsAssumption
  <2>4. late' \in SUBSET Calls
    BY <2>2 DEF WriteDecision, PastCheck, Deciding, Base, TypeOK
  <2>5. TypeOK' /\ Fresh' /\ Grows
    BY <2>1, <2>2, <2>3, <2>4, FinishKnows DEF WriteDecision, Base, TypeOK, Fresh, Grows
  <2>. QED  BY <2>2, <2>5, FinishKnows, CallKnows DEF WriteDecision, Base
<1>. QED  BY <1>1, <1>2, <1>3, <1>4 DEF Decide, BeginApproval, BeginRejection

LEMMA FailBase ==
  ASSUME ConstantsAssumption, Base, NEW c \in Calls, Fail(c)
  PROVE  Base' /\ Grows
BY FinishKnows, TablesStay, CallKnows DEF Fail, Base, TypeOK

\* Nothing at all happens.
LEMMA Stutters ==
  ASSUME ConstantsAssumption, Base, UNCHANGED vars
  PROVE  Base' /\ Grows
<1>1. TypeOK' /\ Fresh' /\ Grows /\ call' = call
  BY DEF vars, tables, history, Base, TypeOK, Fresh, Grows
<1>. QED  BY <1>1, OthersKnow DEF Base, CallsKnow

LEMMA BaseStep ==
  ASSUME ConstantsAssumption, Base, SessionsHaveOwners, [Next]_vars
  PROVE  Base' /\ Grows
BY NextCases, Stutters, EnvironmentBase, CeremonyBase, RegistrationBase, VisitBase,
   DecideBase, FailBase DEF Register

LEMMA InitBase ==
  ASSUME ConstantsAssumption, Init
  PROVE  Base /\ SessionsHaveOwners
<1>1. Absent \notin Users
  BY DEF ConstantsAssumption, Users
<1>2. TypeOK
  BY IdleTyped DEF Init, TypeOK, ConstantsAssumption
<1>3. CallsKnow
  BY DEF Init, CallsKnow, Knows, Idle
<1>4. Fresh
  BY DEF Init, Fresh
<1>5. SessionsHaveOwners
  BY DEF Init, SessionsHaveOwners
<1>. QED  BY <1>2, <1>3, <1>4, <1>5 DEF Base

-----------------------------------------------------------------------------
(* Sessions and favourites belong to users with a credential. *)

\* Sessions and favourites that were there keep their owners.
LEMMA OwnersStay ==
  ASSUME ConstantsAssumption, Base, Grows, SessionsHaveOwners
  PROVE  /\ \A s \in Sessions : sessions[s] # Absent =>
               credentials'[sessions[s].credential] = sessions[s].user
         /\ \A u \in favorites : CredentialsOf(u)' # {}
<1>1. Absent \notin Users
  BY DEF ConstantsAssumption, Users
<1>2. \A k \in Challenges, u \in Users : credentials[k] = u => credentials'[k] = u
  BY <1>1 DEF Grows
<1>3. ASSUME NEW u \in favorites PROVE CredentialsOf(u)' # {}
  BY <1>2 DEF SessionsHaveOwners, CredentialsOf, Base, TypeOK
<1>4. \A s \in Sessions : sessions[s] # Absent =>
          sessions[s].credential \in Challenges /\ sessions[s].user \in Users
  BY DEF Base, TypeOK, Session
<1>. QED  BY <1>2, <1>3, <1>4 DEF SessionsHaveOwners

LEMMA OwnersStep ==
  ASSUME ConstantsAssumption, Base, SessionsHaveOwners, [Next]_vars
  PROVE  SessionsHaveOwners'
<1>. USE OwnersStay, BaseStep
<1>1. CASE UNCHANGED <<sessions, favorites>>
  BY <1>1 DEF SessionsHaveOwners
<1>2. ASSUME NEW s \in Sessions, Logout(s) PROVE SessionsHaveOwners'
  BY <1>2 DEF Logout, SessionsHaveOwners, Base, TypeOK
<1>3. ASSUME NEW c \in Calls, IssueSession(c) PROVE SessionsHaveOwners'
  <2>. DEFINE row == [user |-> call[c].user, credential |-> call[c].credential,
                      expiresAt |-> now + SessionTtl]
  <2>1. credentials[row.credential] = row.user
    BY <1>3 DEF IssueSession, At, Base, CallsKnow, Knows
  <2>2. /\ sessions' = [sessions EXCEPT ![minted.session + 1] = row]
        /\ credentials' = credentials /\ favorites' = favorites
    BY <1>3 DEF IssueSession
  <2>. HIDE DEF row
  <2>. QED  BY <2>1, <2>2 DEF SessionsHaveOwners, Base, TypeOK
<1>4. ASSUME NEW c \in Calls, RefreshSession(c) PROVE SessionsHaveOwners'
  <2>1. call[c].session \in Sessions
    BY <1>4 DEF RefreshSession, At, Base, CallsKnow, Knows
  <2>2. \/ sessions[call[c].session] = Absent /\ Refreshed(call[c].session, c) = Absent
        \/ /\ sessions[call[c].session] # Absent
           /\ Refreshed(call[c].session, c).user = sessions[call[c].session].user
           /\ Refreshed(call[c].session, c).credential
                 = sessions[call[c].session].credential
    BY <2>1 DEF Refreshed, Base, TypeOK, Session
  <2>. QED  BY <1>4, <2>1, <2>2 DEF RefreshSession, SessionsHaveOwners, Base, TypeOK
<1>5. ASSUME NEW c \in Calls, ChangeFavorite(c) PROVE SessionsHaveOwners'
  <2>1. CredentialsOf(call[c].user) # {}
    BY <1>5 DEF ChangeFavorite, At, Base, CallsKnow, Knows
  <2>. QED  BY <1>5, <2>1 DEF ChangeFavorite, SessionsHaveOwners, CredentialsOf
<1>6. CASE \E c \in Calls : Register(c)
  <2>1. UNCHANGED <<sessions, favorites>>
    BY <1>6 DEF Register, RegistrationOptions, StoreRegistrationChallenge, CreateChallenge,
                PresentChallenge, ConsumeChallenge, CheckInvite, CreateUser,
                CreateCredential, MarkUsed, tables
  <2>. QED  BY <1>1, <2>1
<1>7. CASE \E c \in Calls : Decide(c) \/ Fail(c)
  <2>1. UNCHANGED <<sessions, favorites>>
    BY <1>7 DEF Decide, BeginApproval, BeginRejection, BeginDecision, IssueForRequest,
                RereadRequest, ApproveJoinRequest, RejectJoinRequest, WriteDecision, Fail,
                tables
  <2>. QED  BY <1>1, <2>1
<1>8. CASE \E c \in Calls : Visit(c)
  <2>1. ASSUME NEW c \in Calls, NEW h \in Challenges, FindCredential(c, h)
        PROVE  UNCHANGED <<sessions, favorites>>
    BY <2>1 DEF FindCredential, tables
  <2>2. ASSUME NEW c \in Calls, NEW s \in Sessions, ValidateSession(c, s)
        PROVE  UNCHANGED <<sessions, favorites>>
    BY <2>2 DEF ValidateSession, tables
  <2>. QED  BY <1>1, <1>3, <1>4, <1>5, <1>8, <2>1, <2>2 DEF Visit
<1>9. CASE \/ IssueInvite \/ LoginOptions \/ Tick \/ UNCHANGED vars
           \/ \E j \in JoinRequests : RequestJoin(j)
  <2>1. UNCHANGED <<sessions, favorites>>
    BY <1>9 DEF IssueInvite, LoginOptions, CreateChallenge, Tick, RequestJoin, vars, tables
  <2>. QED  BY <1>1, <2>1
<1>. QED  BY <1>2, <1>6, <1>7, <1>8, <1>9, NextCases

\* The tables and the calls keep their types, for any number of calls, ids and
\* join requests.
THEOREM TypeCorrect ==
  ASSUME ConstantsAssumption
  PROVE  Spec => []TypeOK
<1>1. Init => Base /\ SessionsHaveOwners
  BY InitBase
<1>2. Base /\ SessionsHaveOwners /\ [Next]_vars => (Base /\ SessionsHaveOwners)'
  BY BaseStep, OwnersStep
<1>3. Base => TypeOK
  BY DEF Base
<1>. QED  BY <1>1, <1>2, <1>3, PTL DEF Spec

\* Sessions and favourites always have an owner who can log in, wherever
\* registrations, logins and failures interleave.
THEOREM OwnersHold ==
  ASSUME ConstantsAssumption
  PROVE  Spec => []SessionsHaveOwners
<1>1. Init => Base /\ SessionsHaveOwners
  BY InitBase
<1>2. Base /\ SessionsHaveOwners /\ [Next]_vars => (Base /\ SessionsHaveOwners)'
  BY BaseStep, OwnersStep
<1>. QED  BY <1>1, <1>2, PTL DEF Spec

-----------------------------------------------------------------------------
(* A challenge lets one ceremony pass. *)

Presents(c, h) == At(c, "consume") /\ call[c].id = h

\* Before a challenge has passed it is a row, or in the hands of the one call
\* that has read it; afterwards it is nowhere.
ChallengeInv ==
    \A h \in Challenges : <<"challenge", h>> \notin crossed =>
        /\ passed[h] <= 1
        /\ challenges[h] # Absent => passed[h] = 0
        /\ \A c \in Calls : Presents(c, h) =>
              /\ call[c].row # Absent => passed[h] = 0
              /\ \A d \in Calls : Presents(d, h) => d = c

\* Steps that hand out, present or consume no challenge.
LEMMA ChallengesRest ==
  ASSUME ChallengeInv, UNCHANGED <<challenges, passed>>, crossed \subseteq crossed',
         \A c \in Calls : call'[c].pc = "consume" => call'[c] = call[c]
  PROVE  ChallengeInv'
BY DEF ChallengeInv, Presents, At

LEMMA ChallengeGiven ==
  ASSUME ConstantsAssumption, Base, ChallengeInv,
         NEW purpose \in {"register", "login"}, NEW i \in Invites \cup {Absent},
         CreateChallenge(purpose, i),
         \A c \in Calls : call'[c].pc = "consume" => call'[c] = call[c]
  PROVE  ChallengeInv'
<1>1. minted.challenge + 1 \in Challenges /\ minted.challenge + 1 > minted.challenge
  BY DEF ConstantsAssumption, Base, TypeOK, CreateChallenge, Challenges
<1>2. passed[minted.challenge + 1] = 0 /\ passed' = passed /\ crossed' = crossed
  BY <1>1 DEF Base, Fresh, CreateChallenge, history
<1>3. \A h \in Challenges \ {minted.challenge + 1} : challenges'[h] = challenges[h]
  BY DEF CreateChallenge, Base, TypeOK
<1>. QED  BY <1>1, <1>2, <1>3 DEF ChallengeInv, Presents, At

LEMMA ChallengePresented ==
  ASSUME Base, ChallengeInv, NEW c \in Calls, NEW h \in Challenges,
         NEW purpose \in {"register", "login"}, PresentChallenge(c, h, purpose)
  PROVE  ChallengeInv'
<1>1. /\ call'[c].pc = "consume" /\ call'[c].id = h /\ call'[c].row = challenges[h]
      /\ \A d \in Calls \ {c} : call'[d] = call[d]
      /\ challenges' = challenges /\ passed' = passed /\ crossed \subseteq crossed'
  BY DEF PresentChallenge, Base, TypeOK, Call, tables
<1>2. <<"challenge", h>> \notin crossed' => \A d \in Calls : ~Presents(d, h)
  BY DEF PresentChallenge, Presents
<1>3. \A g \in Challenges : <<"challenge", g>> \notin crossed' =>
          <<"challenge", g>> \notin crossed
  BY <1>1
<1>. QED  BY <1>1, <1>2, <1>3 DEF ChallengeInv, Presents, At

LEMMA ChallengeConsumed ==
  ASSUME ConstantsAssumption, Base, ChallengeInv, NEW c \in Calls, ConsumeChallenge(c)
  PROVE  ChallengeInv'
<1>0. call[c].id \in Challenges
  BY DEF ConsumeChallenge, At, Base, CallsKnow, Knows
<1>. PICK g \in Challenges : g = call[c].id
  BY <1>0
<1>1. g \in Challenges /\ g = call[c].id /\ Presents(c, g)
  BY DEF ConsumeChallenge, Presents
<1>2. challenges' = [challenges EXCEPT ![g] = Absent] /\ crossed' = crossed
  BY <1>1 DEF ConsumeChallenge, DeletedChallenge
<1>3. /\ call'[c].pc # "consume"
      /\ \A d \in Calls \ {c} : call'[d] = call[d]
      /\ \/ passed' = passed
         \/ passed' = [passed EXCEPT ![g] = @ + 1] /\ call[c].row # Absent
  <2>1. CASE Accepts(call[c].row, call[c].purpose)
    <3>1. call[c].row # Absent
      BY <2>1 DEF Accepts
    <3>. QED  BY <1>1, <2>1, <3>1 DEF ConsumeChallenge, Base, TypeOK, Call
  <2>2. CASE ~Accepts(call[c].row, call[c].purpose)
    BY <2>2 DEF ConsumeChallenge, Finish, Idle, Base, TypeOK
  <2>. QED  BY <2>1, <2>2
<1>4. ASSUME NEW h \in Challenges, h # g, <<"challenge", h>> \notin crossed
      PROVE  passed'[h] = passed[h] /\ challenges'[h] = challenges[h]
  BY <1>1, <1>2, <1>3, <1>4 DEF Base, TypeOK
<1>5. <<"challenge", g>> \notin crossed =>
          /\ \A d \in Calls : ~Presents(d, g)'
          /\ challenges'[g] = Absent /\ passed'[g] <= 1
  <2>1. <<"challenge", g>> \notin crossed => \A d \in Calls : ~Presents(d, g)'
    BY <1>1, <1>3 DEF ChallengeInv, Presents, At
  <2>2. <<"challenge", g>> \notin crossed => passed'[g] <= 1
    <3>1. passed[g] \in Nat
      BY <1>1 DEF Base, TypeOK
    <3>. QED  BY <1>1, <1>3, <3>1 DEF ChallengeInv, Base, TypeOK
  <2>. QED  BY <1>1, <1>2, <2>1, <2>2 DEF Base, TypeOK
<1>6. ASSUME NEW h \in Challenges, h # g, NEW d \in Calls, Presents(d, h)'
      PROVE  Presents(d, h) /\ call'[d] = call[d]
  BY <1>3, <1>6 DEF Presents, At
<1>7. \A h \in Challenges : <<"challenge", h>> \notin crossed => <<"challenge", h>> \notin crossed'
  BY <1>2
<1>8. ASSUME NEW h \in Challenges, <<"challenge", h>> \notin crossed'
      PROVE  /\ passed'[h] <= 1
             /\ challenges'[h] # Absent => passed'[h] = 0
             /\ \A d \in Calls : Presents(d, h)' =>
                   /\ call'[d].row # Absent => passed'[h] = 0
                   /\ \A e \in Calls : Presents(e, h)' => e = d
  <2>1. CASE h = g
    BY <1>2, <1>5, <1>8, <2>1
  <2>2. CASE h # g
    BY <1>2, <1>4, <1>6, <1>8, <2>2 DEF ChallengeInv
  <2>. QED  BY <2>1, <2>2
<1>. QED  BY <1>8 DEF ChallengeInv

\* Neither row nor reader of a challenge is touched by the other actions.
LEMMA ChallengesElsewhere ==
  ASSUME Base, [Next]_vars, ~LoginOptions,
         \A c \in Calls : /\ ~StoreRegistrationChallenge(c) /\ ~ConsumeChallenge(c)
                          /\ \A h \in Challenges, purpose \in {"register", "login"} :
                                ~PresentChallenge(c, h, purpose)
  PROVE  /\ UNCHANGED <<challenges, passed>> /\ crossed \subseteq crossed'
         /\ \A c \in Calls : call'[c].pc = "consume" => call'[c] = call[c]
<1>1. CASE \/ IssueInvite \/ Tick \/ UNCHANGED vars
           \/ \E s \in Sessions : Logout(s)
           \/ \E j \in JoinRequests : RequestJoin(j)
  BY <1>1 DEF IssueInvite, Tick, Logout, RequestJoin, vars, tables, history
<1>2. ASSUME NEW c \in Calls, \E i \in Invites : RegistrationOptions(c, i)
      PROVE  /\ UNCHANGED <<challenges, passed>> /\ crossed \subseteq crossed'
             /\ \A d \in Calls : call'[d].pc = "consume" => call'[d] = call[d]
  BY <1>2 DEF RegistrationOptions, Base, TypeOK, Call, tables, history
<1>3. ASSUME NEW c \in Calls,
             CheckInvite(c) \/ CreateUser(c) \/ CreateCredential(c) \/ MarkUsed(c)
      PROVE  /\ UNCHANGED <<challenges, passed>> /\ crossed \subseteq crossed'
             /\ \A d \in Calls : call'[d].pc = "consume" => call'[d] = call[d]
  BY <1>3 DEF CheckInvite, CreateUser, CreateCredential, MarkUsed, Goto, Finish, Idle,
              Base, TypeOK, Call, tables, history
<1>4. ASSUME NEW c \in Calls, Visit(c)
      PROVE  /\ UNCHANGED <<challenges, passed>> /\ crossed \subseteq crossed'
             /\ \A d \in Calls : call'[d].pc = "consume" => call'[d] = call[d]
  <2>. USE DEF Goto, Finish, Idle, Base, TypeOK, Call, tables, history
  <2>1. CASE \E h \in Challenges : FindCredential(c, h)
    BY <2>1 DEF FindCredential
  <2>2. CASE \E s \in Sessions : ValidateSession(c, s)
    BY <2>2 DEF ValidateSession
  <2>3. CASE IssueSession(c) \/ RefreshSession(c) \/ ChangeFavorite(c)
    BY <2>3 DEF IssueSession, RefreshSession, ChangeFavorite
  <2>. QED  BY <1>4, <2>1, <2>2, <2>3 DEF Visit
<1>5. ASSUME NEW c \in Calls, Decide(c) \/ Fail(c)
      PROVE  /\ UNCHANGED <<challenges, passed>> /\ crossed \subseteq crossed'
             /\ \A d \in Calls : call'[d].pc = "consume" => call'[d] = call[d]
  BY <1>5 DEF Decide, BeginApproval, BeginRejection, BeginDecision, IssueForRequest,
              RereadRequest, ApproveJoinRequest, RejectJoinRequest, WriteDecision, Fail,
              Goto, Finish, Idle, Base, TypeOK, Call, tables, history
<1>. QED  BY <1>1, <1>2, <1>3, <1>4, <1>5, NextCases DEF Register

LEMMA ChallengeStep ==
  ASSUME ConstantsAssumption, Base, ChallengeInv, [Next]_vars
  PROVE  ChallengeInv'
<1>1. CASE LoginOptions
  <2>1. CreateChallenge("login", Absent) /\ call' = call
    BY <1>1 DEF LoginOptions
  <2>. QED  BY <2>1, ChallengeGiven
<1>2. ASSUME NEW c \in Calls, StoreRegistrationChallenge(c) PROVE ChallengeInv'
  <2>1. CreateChallenge("register", call[c].invite) /\ call[c].invite \in Invites
    BY <1>2 DEF StoreRegistrationChallenge, At, Base, CallsKnow, Knows
  <2>2. \A d \in Calls : call'[d].pc = "consume" => call'[d] = call[d]
    BY <1>2 DEF StoreRegistrationChallenge, Finish, Idle, Base, TypeOK
  <2>. QED  BY <2>1, <2>2, ChallengeGiven
<1>3. ASSUME ~LoginOptions,
             \A c \in Calls : /\ ~StoreRegistrationChallenge(c) /\ ~ConsumeChallenge(c)
                              /\ \A h \in Challenges, purpose \in {"register", "login"} :
                                    ~PresentChallenge(c, h, purpose)
      PROVE  ChallengeInv'
  BY <1>3, ChallengesElsewhere, ChallengesRest
<1>. QED  BY <1>1, <1>2, <1>3, ChallengePresented, ChallengeConsumed

\* A challenge that no two calls had read before either deleted it lets one
\* ceremony pass, however often it is presented (consumeChallenge).
THEOREM ChallengesHold ==
  ASSUME ConstantsAssumption
  PROVE  Spec => []ChallengePassesOnce
<1>1. Init => Base /\ SessionsHaveOwners /\ ChallengeInv
  BY InitBase DEF Init, ChallengeInv, Presents, At, Idle
<1>2. /\ Base /\ SessionsHaveOwners /\ ChallengeInv /\ [Next]_vars
      => (Base /\ SessionsHaveOwners /\ ChallengeInv)'
  BY BaseStep, OwnersStep, ChallengeStep
<1>3. ChallengeInv => ChallengePassesOnce
  BY DEF ChallengeInv, ChallengePassesOnce
<1>. QED  BY <1>1, <1>2, <1>3, PTL DEF Spec

-----------------------------------------------------------------------------
(* An invite begets one account. *)

\* The account of an invite is under construction: a call will spend the invite.
Building(c, i) == call[c].invite = i /\ call[c].pc \in {"createCredential", "markUsed"}

\* At most one registration of an invite is past its check; while it has made
\* no account, nobody has, and once it has, it is at work until the invite is used.
InviteInv ==
    \A i \in Invites : <<"invite", i>> \notin crossed =>
        /\ \A c, d \in Calls : Registering(c, i) /\ Registering(d, i) => c = d
        /\ \A c \in Calls : Registering(c, i) /\ At(c, "createUser") => AccountsOf(i) = {}
        /\ \A u, v \in AccountsOf(i) : u = v
        /\ AccountsOf(i) # {} =>
              invites[i].usedBy # Absent \/ \E c \in Calls : Building(c, i)

\* A used invite was used by its own account, which has a credential.
UsedInv ==
    \A i \in Invites : invites[i] # Absent /\ invites[i].usedBy # Absent =>
        invites[i].usedBy \in AccountsOf(i) /\ CredentialsOf(invites[i].usedBy) # {}

\* Steps of calls that are not registering, and other steps that keep users
\* and the use of invites.
InvitesRestHere ==
    /\ UNCHANGED invitedBy /\ crossed \subseteq crossed'
    /\ \A i \in Invites : invites[i] # Absent => invites'[i] = invites[i]
    /\ \A c \in Calls :
          /\ call'[c].pc \in {"createUser", "createCredential", "markUsed"}
                => call'[c] = call[c]
          /\ call[c].pc \in {"createCredential", "markUsed"}
                => call'[c] = call[c] \/ <<"invite", call[c].invite>> \in crossed'

LEMMA InvitesRest ==
  ASSUME ConstantsAssumption, Base, InviteInv, InvitesRestHere
  PROVE  InviteInv'
<1>1. \A c \in Calls, i \in Invites : Registering(c, i)' =>
          Registering(c, i) /\ call'[c] = call[c]
  BY DEF InvitesRestHere, Registering
<1>2. \A i \in Invites : AccountsOf(i)' = AccountsOf(i)
  BY DEF InvitesRestHere, AccountsOf
<1>3. \A i \in Invites : AccountsOf(i) # {} => invites[i] # Absent /\ invites'[i] = invites[i]
  BY DEF InvitesRestHere, AccountsOf, Base, Fresh, ConstantsAssumption, Invites
<1>4. ASSUME NEW i \in Invites, <<"invite", i>> \notin crossed'
      PROVE  /\ \A c, d \in Calls : Registering(c, i)' /\ Registering(d, i)' => c = d
             /\ \A c \in Calls : Registering(c, i)' /\ At(c, "createUser")' => AccountsOf(i)' = {}
             /\ \A u, v \in AccountsOf(i)' : u = v
             /\ AccountsOf(i)' # {} =>
                  invites'[i].usedBy # Absent \/ \E c \in Calls : Building(c, i)'
  <2>1. <<"invite", i>> \notin crossed
    BY <1>4 DEF InvitesRestHere
  <2>2. \A c \in Calls : Building(c, i) => Building(c, i)'
    BY <1>4 DEF InvitesRestHere, Building
  <2>3. \A c \in Calls : Registering(c, i)' /\ At(c, "createUser")' =>
            Registering(c, i) /\ At(c, "createUser")
    BY <1>1 DEF At
  <2>. QED  BY <1>1, <1>2, <1>3, <2>1, <2>2, <2>3 DEF InviteInv
<1>. QED  BY <1>4 DEF InviteInv

LEMMA InviteChecked ==
  ASSUME ConstantsAssumption, Base, InviteInv, NEW c \in Calls, CheckInvite(c)
  PROVE  InviteInv'
<1>0. call[c].invite \in Invites /\ At(c, "check")
  BY DEF CheckInvite, At, Base, CallsKnow, Knows
<1>1. CASE Finish(c) /\ UNCHANGED crossed
  <2>1. InvitesRestHere
    BY <1>0, <1>1 DEF CheckInvite, InvitesRestHere, Finish, Idle, At, Base, TypeOK, tables
  <2>. QED  BY <2>1, InvitesRest
<1>2. CASE ~(Finish(c) /\ UNCHANGED crossed)
  <2>. PICK i \in Invites : i = call[c].invite
    BY <1>0
  <2>1. /\ IsValidInvite(i) /\ Goto(c, "createUser") /\ i = call[c].invite
        /\ crossed \subseteq crossed'
        /\ <<"invite", i>> \notin crossed' => \A d \in Calls : ~Registering(d, i)
    BY <1>2 DEF CheckInvite
  <2>2. UNCHANGED <<invites, invitedBy>>
    BY DEF CheckInvite, tables
  <2>3. /\ \A d \in Calls \ {c} : call'[d] = call[d]
        /\ call'[c].pc = "createUser" /\ call'[c].invite = i
    BY <2>1, Goes DEF Steps
  <2>4. ASSUME NEW g \in Invites, <<"invite", g>> \notin crossed'
        PROVE  /\ \A d, e \in Calls : Registering(d, g)' /\ Registering(e, g)' => d = e
               /\ \A d \in Calls : Registering(d, g)' /\ At(d, "createUser")'
                     => AccountsOf(g)' = {}
               /\ \A u, v \in AccountsOf(g)' : u = v
               /\ AccountsOf(g)' # {} =>
                     invites'[g].usedBy # Absent \/ \E d \in Calls : Building(d, g)'
    <3>1. <<"invite", g>> \notin crossed /\ AccountsOf(g)' = AccountsOf(g)
      BY <2>1, <2>2, <2>4 DEF AccountsOf
    <3>2. \A d \in Calls \ {c} : /\ Registering(d, g)' <=> Registering(d, g)
                                 /\ At(d, "createUser")' <=> At(d, "createUser")
                                 /\ Building(d, g)' <=> Building(d, g)
      BY <2>3 DEF Registering, At, Building
    <3>3. Registering(c, g)' => g = i
      BY <2>3 DEF Registering
    <3>4. ~Building(c, g)
      BY <1>0 DEF Building, At
    <3>5. g = i => AccountsOf(g) = {}
      BY <2>1, <2>4, <3>1 DEF InviteInv, IsValidInvite, Building, Registering
    <3>6. g = i => \A d \in Calls : ~Registering(d, g)
      BY <2>1, <2>4
    <3>. QED  BY <2>2, <3>1, <3>2, <3>3, <3>4, <3>5, <3>6 DEF InviteInv
  <2>. QED  BY <2>4 DEF InviteInv
<1>. QED  BY <1>1, <1>2

LEMMA UserCreated ==
  ASSUME ConstantsAssumption, Base, InviteInv, NEW c \in Calls, CreateUser(c)
  PROVE  InviteInv'
<1>0. call[c].invite \in Invites /\ At(c, "createUser")
  BY DEF CreateUser, At, Base, CallsKnow, Knows
<1>. PICK i \in Invites : i = call[c].invite
  BY <1>0
<1>. PICK u : u = minted.user + 1
  OBVIOUS
<1>1. /\ invitedBy' = [invitedBy EXCEPT ![u] = i] /\ u \in Users
      /\ invitedBy[u] = Absent /\ i # Absent
      /\ UNCHANGED <<invites, crossed>>
  BY DEF CreateUser, tables, Base, TypeOK, Fresh, Users, Invites, ConstantsAssumption
<1>2. /\ \A d \in Calls \ {c} : call'[d] = call[d]
      /\ call'[c].pc = "createCredential" /\ call'[c].invite = i
  BY DEF CreateUser, Base, TypeOK, Call
<1>3. /\ AccountsOf(i)' = AccountsOf(i) \cup {u}
      /\ \A g \in Invites \ {i} : AccountsOf(g)' = AccountsOf(g)
  <2>1. \A v \in Users : invitedBy'[v] = IF v = u THEN i ELSE invitedBy[v]
    BY <1>1 DEF Base, TypeOK
  <2>2. \A g \in Invites : g # Absent
    BY DEF ConstantsAssumption, Invites
  <2>. QED  BY <1>1, <2>1, <2>2 DEF AccountsOf
<1>4. Registering(c, i)
  BY <1>0 DEF Registering, At
<1>5. ASSUME NEW g \in Invites, <<"invite", g>> \notin crossed'
      PROVE  /\ \A d, e \in Calls : Registering(d, g)' /\ Registering(e, g)' => d = e
             /\ \A d \in Calls : Registering(d, g)' /\ At(d, "createUser")'
                   => AccountsOf(g)' = {}
             /\ \A v, w \in AccountsOf(g)' : v = w
             /\ AccountsOf(g)' # {} =>
                   invites'[g].usedBy # Absent \/ \E d \in Calls : Building(d, g)'
  <2>1. <<"invite", g>> \notin crossed
    BY <1>1, <1>5
  <2>2. \A d \in Calls \ {c} : /\ Registering(d, g)' <=> Registering(d, g)
                               /\ At(d, "createUser")' <=> At(d, "createUser")
                               /\ Building(d, g)' <=> Building(d, g)
    BY <1>2 DEF Registering, At, Building
  <2>3. Registering(c, g)' => g = i /\ ~At(c, "createUser")'
    BY <1>2 DEF Registering, At
  <2>4. CASE g = i
    <3>1. AccountsOf(g) = {} /\ \A d \in Calls : Registering(d, g) => d = c
      BY <1>0, <1>4, <2>1, <2>4 DEF InviteInv
    <3>2. AccountsOf(g)' = {u} /\ Building(c, g)'
      BY <1>2, <1>3, <2>4, <3>1 DEF Building
    <3>. QED  BY <2>2, <2>3, <3>1, <3>2
  <2>5. CASE g # i
    <3>1. AccountsOf(g)' = AccountsOf(g) /\ ~Building(c, g)
      BY <1>0, <1>3, <2>5 DEF Building, At
    <3>. QED  BY <1>1, <2>1, <2>2, <2>3, <2>5, <3>1 DEF InviteInv
  <2>. QED  BY <2>4, <2>5
<1>. QED  BY <1>5 DEF InviteInv

\* Only the next steps of the one call that is building touch its invite.
LEMMA InviteBuilt ==
  ASSUME ConstantsAssumption, Base, InviteInv, NEW c \in Calls,
         CreateCredential(c) \/ MarkUsed(c)
  PROVE  InviteInv'
<1>0. /\ call[c].invite \in Invites
      /\ At(c, "createCredential") \/ At(c, "markUsed")
      /\ invites[call[c].invite] # Absent
      /\ At(c, "markUsed") => call[c].user \in Users
  BY DEF CreateCredential, MarkUsed, At, Base, CallsKnow, Knows
<1>. PICK i \in Invites : i = call[c].invite
  BY <1>0
<1>1. /\ UNCHANGED <<invitedBy, crossed>>
      /\ \A g \in Invites : g # i => invites'[g] = invites[g]
  BY DEF CreateCredential, MarkUsed, MarkInviteUsed, history, Base, TypeOK
<1>2. \A d \in Calls \ {c} : call'[d] = call[d]
  BY DEF CreateCredential, MarkUsed, Goto, Base, TypeOK
<1>3. \/ /\ invites' = invites
         /\ call'[c].pc = "markUsed" /\ call'[c].invite = i
      \/ /\ invites'[i].usedBy # Absent
         /\ call'[c].pc = "createSession"
  <2>1. CASE CreateCredential(c)
    BY <2>1 DEF CreateCredential, Base, TypeOK, Call
  <2>2. CASE MarkUsed(c)
    <3>1. invites[i] \in Invite /\ call[c].user # Absent
      BY <1>0, <2>2 DEF Base, TypeOK, ConstantsAssumption, Users, MarkUsed
    <3>2. invites'[i].usedBy = call[c].user
      BY <2>2, <3>1 DEF MarkUsed, MarkInviteUsed, Invite, Base, TypeOK
    <3>. QED  BY <2>2, <3>1, <3>2, Goes DEF MarkUsed, Steps
  <2>. QED  BY <2>1, <2>2
<1>4. \A g \in Invites : AccountsOf(g)' = AccountsOf(g)
  BY <1>1 DEF AccountsOf
<1>5. Registering(c, i) /\ ~At(c, "createUser") /\ ~At(c, "createUser")'
  BY <1>0, <1>3 DEF Registering, At
<1>6. ASSUME NEW g \in Invites, <<"invite", g>> \notin crossed'
      PROVE  /\ \A d, e \in Calls : Registering(d, g)' /\ Registering(e, g)' => d = e
             /\ \A d \in Calls : Registering(d, g)' /\ At(d, "createUser")'
                   => AccountsOf(g)' = {}
             /\ \A v, w \in AccountsOf(g)' : v = w
             /\ AccountsOf(g)' # {} =>
                   invites'[g].usedBy # Absent \/ \E d \in Calls : Building(d, g)'
  <2>1. <<"invite", g>> \notin crossed
    BY <1>1, <1>6
  <2>2. \A d \in Calls \ {c} : /\ Registering(d, g)' <=> Registering(d, g)
                               /\ At(d, "createUser")' <=> At(d, "createUser")
                               /\ Building(d, g)' <=> Building(d, g)
    BY <1>2 DEF Registering, At, Building
  <2>3. Registering(c, g)' => Registering(c, g)
    BY <1>3, <1>5 DEF Registering
  <2>4. Building(c, g) => g = i /\ (Building(c, g)' \/ invites'[g].usedBy # Absent)
    BY <1>3 DEF Building
  <2>5. invites[g].usedBy # Absent => invites'[g].usedBy # Absent
    BY <1>1, <1>3
  <2>. QED  BY <1>4, <1>5, <2>1, <2>2, <2>3, <2>4, <2>5 DEF InviteInv
<1>. QED  BY <1>6 DEF InviteInv

LEMMA InvitesElsewhere ==
  ASSUME ConstantsAssumption, Base, [Next]_vars,
         \A c \in Calls : ~CheckInvite(c) /\ ~CreateUser(c) /\ ~CreateCredential(c) /\ ~MarkUsed(c)
  PROVE  InvitesRestHere
<1>. USE DEF InvitesRestHere
<1>1. CASE IssueInvite
  BY <1>1, InviteCreated DEF IssueInvite, history
<1>2. CASE \/ LoginOptions \/ Tick \/ UNCHANGED vars
           \/ \E s \in Sessions : Logout(s)
           \/ \E j \in JoinRequests : RequestJoin(j)
  BY <1>2 DEF LoginOptions, CreateChallenge, Tick, Logout, RequestJoin, vars, tables, history
<1>3. ASSUME NEW c \in Calls, Register(c) PROVE InvitesRestHere
  <2>. USE DEF Goto, Finish, Idle, At, Base, TypeOK, Call, tables, history
  <2>1. CASE \E i \in Invites : RegistrationOptions(c, i)
    BY <2>1 DEF RegistrationOptions
  <2>2. CASE StoreRegistrationChallenge(c)
    BY <2>2 DEF StoreRegistrationChallenge, CreateChallenge
  <2>3. CASE \E h \in Challenges, purpose \in {"register", "login"} :
                PresentChallenge(c, h, purpose)
    BY <2>3 DEF PresentChallenge
  <2>4. CASE ConsumeChallenge(c)
    BY <2>4 DEF ConsumeChallenge
  <2>. QED  BY <1>3, <2>1, <2>2, <2>3, <2>4 DEF Register
<1>4. ASSUME NEW c \in Calls, Visit(c) PROVE InvitesRestHere
  <2>. USE DEF Goto, Finish, Idle, At, Base, TypeOK, Call, tables, history
  <2>1. CASE \E h \in Challenges : FindCredential(c, h)
    BY <2>1 DEF FindCredential
  <2>2. CASE \E s \in Sessions : ValidateSession(c, s)
    BY <2>2 DEF ValidateSession
  <2>3. CASE IssueSession(c) \/ RefreshSession(c) \/ ChangeFavorite(c)
    BY <2>3 DEF IssueSession, RefreshSession, ChangeFavorite
  <2>. QED  BY <1>4, <2>1, <2>2, <2>3 DEF Visit
<1>5. ASSUME NEW c \in Calls, Decide(c) PROVE InvitesRestHere
  <2>. USE DEF Goto, Finish, Idle, At, Base, TypeOK, Call, tables, history
  <2>1. CASE \E j \in JoinRequests : BeginApproval(c, j) \/ BeginRejection(c, j)
    BY <2>1 DEF BeginApproval, BeginRejection, BeginDecision
  <2>2. CASE IssueForRequest(c)
    <3>1. CreateInvite /\ call' = [call EXCEPT ![c].pc = "reread",
                                               ![c].invite = minted.invite + 1]
      BY <2>2 DEF IssueForRequest
    <3>. QED  BY <2>2, <3>1, InviteCreated DEF IssueForRequest
  <2>3. CASE RereadRequest(c)
    BY <2>3 DEF RereadRequest
  <2>4. CASE ApproveJoinRequest(c) \/ RejectJoinRequest(c)
    BY <2>4 DEF ApproveJoinRequest, RejectJoinRequest, WriteDecision
  <2>. QED  BY <1>5, <2>1, <2>2, <2>3, <2>4 DEF Decide
<1>6. ASSUME NEW c \in Calls, Fail(c) PROVE InvitesRestHere
  <2>1. /\ call'[c] = Idle /\ \A d \in Calls \ {c} : call'[d] = call[d]
        /\ crossed' = crossed \cup LeftBehind(c)
        /\ UNCHANGED <<invites, invitedBy>>
    BY <1>6, FinishKnows DEF Fail, tables
  <2>2. call[c].pc \in {"createCredential", "markUsed"}
           => <<"invite", call[c].invite>> \in LeftBehind(c)
    BY DEF LeftBehind
  <2>. QED  BY <2>1, <2>2 DEF Idle
<1>. QED  BY <1>1, <1>2, <1>3, <1>4, <1>5, <1>6, NextCases

LEMMA InviteStep ==
  ASSUME ConstantsAssumption, Base, InviteInv, [Next]_vars
  PROVE  InviteInv'
BY InvitesElsewhere, InvitesRest, InviteChecked, UserCreated, InviteBuilt

\* An invite becomes used in MarkUsed alone.
LEMMA UsedStep ==
  ASSUME ConstantsAssumption, Base, Grows, UsedInv, [Next]_vars
  PROVE  UsedInv'
<1>. DEFINE Owned(i, u) == invitedBy'[u] = i /\ {k \in Challenges : credentials'[k] = u} # {}
<1>1. ASSUME NEW i \in Invites, NEW u \in Users,
             invitedBy[u] = i, CredentialsOf(u) # {}
      PROVE  Owned(i, u)
  BY <1>1 DEF Grows, CredentialsOf, ConstantsAssumption, Invites, Users
<1>2. ASSUME NEW i \in Invites, invites[i] # Absent, invites[i].usedBy # Absent
      PROVE  /\ invites[i].usedBy \in Users /\ Owned(i, invites[i].usedBy)
  BY <1>1, <1>2 DEF UsedInv, AccountsOf
<1>3. CASE \E c \in Calls : MarkUsed(c)
  <2>. PICK c \in Calls : MarkUsed(c)
    BY <1>3
  <2>1. /\ call[c].invite \in Invites /\ invites[call[c].invite] # Absent
        /\ call[c].user \in Users /\ invitedBy[call[c].user] = call[c].invite
        /\ call[c].credential \in Challenges
        /\ credentials[call[c].credential] = call[c].user
    BY DEF MarkUsed, At, Base, CallsKnow, Knows
  <2>2. Owned(call[c].invite, call[c].user)
    BY <1>1, <2>1 DEF CredentialsOf
  <2>3. invites' = [invites EXCEPT ![call[c].invite].usedBy = call[c].user]
    BY DEF MarkUsed, MarkInviteUsed
  <2>4. invites'[call[c].invite].usedBy = call[c].user
    BY <2>1, <2>3 DEF Base, TypeOK, Invite
  <2>5. \A i \in Invites : i # call[c].invite => invites'[i] = invites[i]
    BY <2>3 DEF Base, TypeOK
  <2>6. ASSUME NEW i \in Invites, invites'[i] # Absent, invites'[i].usedBy # Absent
        PROVE  invites'[i].usedBy \in Users /\ Owned(i, invites'[i].usedBy)
    BY <1>2, <2>1, <2>2, <2>4, <2>5, <2>6
  <2>. QED  BY <2>6 DEF UsedInv, AccountsOf, CredentialsOf
<1>4. CASE ~\E c \in Calls : MarkUsed(c)
  <2>1. \A i \in Invites : invites'[i] = invites[i] \/ invites'[i].usedBy = Absent
    <3>1. CASE IssueInvite \/ \E c \in Calls : IssueForRequest(c)
      <4>1. CreateInvite
        BY <3>1 DEF IssueInvite, IssueForRequest
      <4>. QED  BY <4>1, InviteCreated DEF Base, TypeOK
    <3>2. CASE ~(IssueInvite \/ \E c \in Calls : IssueForRequest(c))
      <4>1. CASE \E c \in Calls : Register(c)
        BY <1>4, <4>1 DEF Register, RegistrationOptions, StoreRegistrationChallenge,
           CreateChallenge, PresentChallenge, ConsumeChallenge, CheckInvite, CreateUser,
           CreateCredential, tables
      <4>2. CASE \E c \in Calls : Visit(c)
        BY <4>2 DEF Visit, FindCredential, IssueSession, ValidateSession, RefreshSession,
           ChangeFavorite, tables
      <4>3. CASE \E c \in Calls : Decide(c) \/ Fail(c)
        BY <3>2, <4>3 DEF Decide, BeginApproval, BeginRejection, BeginDecision,
           RereadRequest, ApproveJoinRequest, RejectJoinRequest, WriteDecision, Fail, tables
      <4>4. CASE \/ LoginOptions \/ Tick \/ UNCHANGED vars
                 \/ \E s \in Sessions : Logout(s)
                 \/ \E j \in JoinRequests : RequestJoin(j)
        BY <4>4 DEF LoginOptions, CreateChallenge, Tick, Logout, RequestJoin, vars, tables
      <4>. QED  BY <3>2, <4>1, <4>2, <4>3, <4>4, NextCases
    <3>. QED  BY <3>1, <3>2
  <2>2. ASSUME NEW i \in Invites, invites'[i] # Absent, invites'[i].usedBy # Absent
        PROVE  invites'[i].usedBy \in Users /\ Owned(i, invites'[i].usedBy)
    BY <1>2, <2>1, <2>2
  <2>. QED  BY <2>2 DEF UsedInv, AccountsOf, CredentialsOf
<1>. QED  BY <1>3, <1>4

LEMMA AccountsCounted ==
  ASSUME ConstantsAssumption, NEW i \in Invites, \A u, v \in AccountsOf(i) : u = v
  PROVE  Cardinality(AccountsOf(i)) <= 1
<1>1. CASE AccountsOf(i) = {}
  BY <1>1, FS_EmptySet
<1>2. CASE AccountsOf(i) # {}
  <2>. PICK u : u \in AccountsOf(i)
    BY <1>2
  <2>1. AccountsOf(i) = {u}
    OBVIOUS
  <2>. QED  BY <2>1, FS_Singleton
<1>. QED  BY <1>1, <1>2

\* An invite begets at most one account, unless two registrations were past its
\* check at once or one ended half way, and a used invite always belongs to the
\* account that used it, which can log in (verifyRegistration).
THEOREM InvitesHold ==
  ASSUME ConstantsAssumption
  PROVE  Spec => []InviteIsOneUse
<1>. DEFINE Inv == Base /\ SessionsHaveOwners /\ InviteInv /\ UsedInv
<1>1. Init => Inv
  <2>1. Init => InviteInv /\ UsedInv
    BY DEF Init, InviteInv, UsedInv, Registering, AccountsOf, Idle, ConstantsAssumption,
           Invites
  <2>. QED  BY <2>1, InitBase
<1>2. Inv /\ [Next]_vars => Inv'
  BY BaseStep, OwnersStep, InviteStep, UsedStep
<1>3. Inv => InviteIsOneUse
  BY AccountsCounted DEF InviteInv, UsedInv, InviteIsOneUse
<1>. QED  BY <1>1, <1>2, <1>3, PTL DEF Spec

-----------------------------------------------------------------------------
(* Sessions end for good. *)

LEMMA SessionChanges ==
  ASSUME [Next]_vars
  PROVE  \/ sessions' = sessions /\ now' \in {now, now + 1}
         \/ now' = now /\ \/ \E s \in Sessions : Logout(s)
                          \/ \E c \in Calls : IssueSession(c) \/ RefreshSession(c)
<1>1. CASE \E c \in Calls : Register(c)
  BY <1>1 DEF Register, RegistrationOptions, StoreRegistrationChallenge, CreateChallenge,
     PresentChallenge, ConsumeChallenge, CheckInvite, CreateUser, CreateCredential, MarkUsed,
     tables
<1>2. CASE \E c \in Calls : Visit(c)
  BY <1>2 DEF Visit, FindCredential, IssueSession, ValidateSession, RefreshSession,
     ChangeFavorite, tables
<1>3. CASE \E c \in Calls : Decide(c) \/ Fail(c)
  BY <1>3 DEF Decide, BeginApproval, BeginRejection, BeginDecision, IssueForRequest,
     RereadRequest, ApproveJoinRequest, RejectJoinRequest, WriteDecision, Fail, tables
<1>4. CASE \/ IssueInvite \/ LoginOptions \/ Tick \/ UNCHANGED vars
           \/ \E s \in Sessions : Logout(s)
           \/ \E j \in JoinRequests : RequestJoin(j)
  BY <1>4 DEF IssueInvite, LoginOptions, CreateChallenge, Tick, Logout, RequestJoin, vars,
     tables
<1>. QED  BY <1>1, <1>2, <1>3, <1>4, NextCases

\* A session that has ended stays ended, but for a request that found it live
\* before it expired (validateAndRefreshSession).
THEOREM SessionsEnd ==
  ASSUME ConstantsAssumption
  PROVE  Spec => SessionsEndForGood
<1>1. ASSUME Base, [Next]_vars, NEW s \in Sessions, s <= minted.session,
             ~IsLiveSession(s), IsLiveSession(s)'
      PROVE  sessions[s] # Absent /\ \E c \in Calls : At(c, "refresh") /\ call[c].session = s
  <2>1. CASE sessions' = sessions /\ now' \in {now, now + 1}
    BY <1>1, <2>1 DEF IsLiveSession, Base, TypeOK, Session
  <2>2. ASSUME NEW t \in Sessions, Logout(t), now' = now PROVE FALSE
    BY <1>1, <2>2 DEF Logout, IsLiveSession, Base, TypeOK
  <2>3. ASSUME NEW c \in Calls, IssueSession(c), now' = now PROVE FALSE
    <3>1. minted.session + 1 # s
      BY <1>1 DEF Base, TypeOK, Sessions
    <3>. QED  BY <1>1, <2>3, <3>1 DEF IssueSession, IsLiveSession, Base, TypeOK
  <2>4. ASSUME NEW c \in Calls, RefreshSession(c), now' = now
        PROVE  sessions[s] # Absent /\ At(c, "refresh") /\ call[c].session = s
    BY <1>1, <2>4 DEF RefreshSession, Refreshed, IsLiveSession, Base, TypeOK
  <2>. QED  BY <1>1, <2>1, <2>2, <2>3, <2>4, SessionChanges
<1>2. Base /\ [Next]_vars => [SessionsStayEnded]_vars
  BY <1>1 DEF SessionsStayEnded
<1>3. Init => Base /\ SessionsHaveOwners
  BY InitBase
<1>4. Base /\ SessionsHaveOwners /\ [Next]_vars => (Base /\ SessionsHaveOwners)'
  BY BaseStep, OwnersStep
<1>. QED  BY <1>2, <1>3, <1>4, PTL DEF Spec, SessionsEndForGood

-----------------------------------------------------------------------------
(* Decisions stand. *)

\* A call about to write its decision found the request pending, or has been
\* overtaken since.
DecisionInv ==
    \A c \in Calls : call[c].pc \in {"approve", "reject"} =>
        joinRequests[call[c].request].status = "pending" \/ c \in late

\* A decision is written by its call, and reaches whoever was past the check.
LEMMA DecisionWritten ==
  ASSUME Base, DecisionInv, NEW c \in Calls, NEW row, WriteDecision(c, row),
         call[c].pc \in {"approve", "reject"}
  PROVE  DecisionInv' /\ DecisionsKept
<1>1. /\ call[c].request \in JoinRequests /\ call'[c] = Idle
      /\ \A d \in Calls \ {c} : call'[d] = call[d]
      /\ \A j \in JoinRequests \ {call[c].request} : joinRequests'[j] = joinRequests[j]
  BY DEF Base, CallsKnow, Knows, TypeOK, WriteDecision, Finish
<1>2. ASSUME NEW d \in Calls, call'[d].pc \in {"approve", "reject"}
      PROVE  joinRequests'[call'[d].request].status = "pending" \/ d \in late'
  <2>1. d # c /\ call'[d] = call[d] /\ call[d].request \in JoinRequests
    BY <1>1, <1>2 DEF Idle, Base, CallsKnow, Knows
  <2>2. CASE call[d].request = call[c].request
    <3>1. d \in PastCheck(call[c].request) \ {c}
      BY <1>2, <2>1, <2>2 DEF PastCheck, Deciding
    <3>. QED  BY <3>1 DEF WriteDecision
  <2>3. CASE call[d].request # call[c].request
    BY <1>1, <1>2, <2>1, <2>3 DEF DecisionInv, WriteDecision
  <2>. QED  BY <2>2, <2>3
<1>3. ASSUME NEW j \in JoinRequests, joinRequests[j].status # "pending",
             joinRequests'[j] # joinRequests[j]
      PROVE  \E d \in late \cap Deciding(j) : call'[d] = Idle
  <2>1. j = call[c].request /\ c \in late
    BY <1>1, <1>3 DEF DecisionInv
  <2>. QED  BY <1>1, <2>1 DEF Deciding
<1>. QED  BY <1>2, <1>3 DEF DecisionInv, DecisionsKept

\* Steps that decide on no request.
LEMMA DecisionsRest ==
  ASSUME Base, DecisionInv, UNCHANGED joinRequests,
         \A c \in Calls : call'[c].pc \in {"approve", "reject"} =>
             \/ call'[c] = call[c] /\ (c \in late => c \in late')
             \/ joinRequests[call'[c].request].status = "pending"
  PROVE  DecisionInv' /\ DecisionsKept
BY DEF DecisionInv, DecisionsKept

LEMMA DecisionStep ==
  ASSUME ConstantsAssumption, Base, DecisionInv, [Next]_vars
  PROVE  DecisionInv' /\ DecisionsKept
<1>1. ASSUME NEW c \in Calls, ApproveJoinRequest(c) \/ RejectJoinRequest(c)
      PROVE  DecisionInv' /\ DecisionsKept
  BY <1>1, DecisionWritten DEF ApproveJoinRequest, RejectJoinRequest, At
<1>2. ASSUME NEW j \in JoinRequests, RequestJoin(j) PROVE DecisionInv' /\ DecisionsKept
  <2>1. /\ joinRequests[j] = Absent /\ call' = call /\ late' = late
        /\ \A i \in JoinRequests \ {j} : joinRequests'[i] = joinRequests[i]
    BY <1>2 DEF RequestJoin, Base, TypeOK, history
  <2>2. \A c \in Calls : call[c].pc \in {"approve", "reject"} =>
            call[c].request \in JoinRequests \ {j}
    BY <2>1 DEF Base, CallsKnow, Knows
  <2>. QED  BY <2>1, <2>2 DEF DecisionInv, DecisionsKept
<1>3. ASSUME NEW c \in Calls, Register(c) PROVE DecisionInv' /\ DecisionsKept
  <2>. USE DEF Goto, Finish, Idle, At, Base, TypeOK, Call, tables, history
  <2>1. CASE \E i \in Invites : RegistrationOptions(c, i)
    BY <2>1, DecisionsRest DEF RegistrationOptions
  <2>2. CASE StoreRegistrationChallenge(c)
    BY <2>2, DecisionsRest DEF StoreRegistrationChallenge, CreateChallenge
  <2>3. CASE \E h \in Challenges, purpose \in {"register", "login"} :
                PresentChallenge(c, h, purpose)
    BY <2>3, DecisionsRest DEF PresentChallenge
  <2>4. CASE ConsumeChallenge(c)
    BY <2>4, DecisionsRest DEF ConsumeChallenge
  <2>5. CASE CheckInvite(c) \/ CreateUser(c)
    BY <2>5, DecisionsRest DEF CheckInvite, CreateUser
  <2>6. CASE CreateCredential(c) \/ MarkUsed(c)
    BY <2>6, DecisionsRest DEF CreateCredential, MarkUsed
  <2>. QED  BY <1>3, <2>1, <2>2, <2>3, <2>4, <2>5, <2>6 DEF Register
<1>4. ASSUME NEW c \in Calls, Visit(c) PROVE DecisionInv' /\ DecisionsKept
  <2>. USE DEF Goto, Finish, Idle, At, Base, TypeOK, Call, tables, history
  <2>1. CASE \E h \in Challenges : FindCredential(c, h)
    BY <2>1, DecisionsRest DEF FindCredential
  <2>2. CASE \E s \in Sessions : ValidateSession(c, s)
    BY <2>2, DecisionsRest DEF ValidateSession
  <2>3. CASE IssueSession(c) \/ RefreshSession(c) \/ ChangeFavorite(c)
    BY <2>3, DecisionsRest DEF IssueSession, RefreshSession, ChangeFavorite
  <2>. QED  BY <1>4, <2>1, <2>2, <2>3 DEF Visit
<1>5. ASSUME NEW c \in Calls, Decide(c) \/ Fail(c) PROVE DecisionInv' /\ DecisionsKept
  <2>. USE DEF Goto, Finish, Idle, At, Base, TypeOK, Call, tables, history
  <2>1. CASE \E j \in JoinRequests : BeginApproval(c, j) \/ BeginRejection(c, j)
    BY <2>1, DecisionsRest DEF BeginApproval, BeginRejection, BeginDecision, IsPending
  <2>2. CASE IssueForRequest(c)
    BY <2>2, DecisionsRest DEF IssueForRequest
  <2>3. CASE RereadRequest(c)
    BY <2>3, DecisionsRest DEF RereadRequest, StillPending, IsPending
  <2>4. CASE Fail(c)
    BY <2>4, DecisionsRest DEF Fail
  <2>. QED  BY <1>1, <1>5, <2>1, <2>2, <2>3, <2>4 DEF Decide
<1>6. CASE \/ IssueInvite \/ LoginOptions \/ Tick \/ UNCHANGED vars
           \/ \E s \in Sessions : Logout(s)
  BY <1>6, DecisionsRest DEF IssueInvite, LoginOptions, CreateChallenge, Tick, Logout, vars,
     tables, history
<1>. QED  BY <1>2, <1>3, <1>4, <1>5, <1>6, NextCases

\* A decision on a join request is overwritten only by a call that was past its
\* last look at the status when the decision fell (approveJoinRequest,
\* rejectJoinRequest).
THEOREM DecisionsHold ==
  ASSUME ConstantsAssumption
  PROVE  Spec => DecisionsStand
<1>1. Init => Base /\ SessionsHaveOwners /\ DecisionInv
  BY InitBase DEF Init, DecisionInv, Idle
<1>2. /\ Base /\ SessionsHaveOwners /\ DecisionInv /\ [Next]_vars
      => (Base /\ SessionsHaveOwners /\ DecisionInv)' /\ [DecisionsKept]_vars
  BY BaseStep, OwnersStep, DecisionStep
<1>. QED  BY <1>1, <1>2, PTL DEF Spec, DecisionsStand

-----------------------------------------------------------------------------
(* Decisions and the invites issued for them. *)

DecidingSteps == {"issue", "reread", "approve", "reject"}

\* Between two calls nothing is left of the first; only a call that decides has
\* a request, and it has an invite from the moment it issued one.
CallsApart ==
    \A c \in Calls :
        /\ call[c].pc = "idle" => call[c] = Idle
        /\ call[c].request # Absent => call[c].pc \in DecidingSteps
        /\ call[c].pc \in {"issue", "reject"} => call[c].invite = Absent

\* A request is pending as long as it has no invite and while a call decides on
\* it, and the invite it names exists ...
RequestFits(j) == joinRequests[j] # Absent =>
    /\ joinRequests[j].status = "pending" => joinRequests[j].invite = Absent
    /\ joinRequests[j].status = "approved" => joinRequests[j].invite # Absent
    /\ joinRequests[j].invite # Absent => invites[joinRequests[j].invite] # Absent
    /\ <<"join", j>> \notin crossed =>
          /\ joinRequests[j].invite # Absent => joinRequests[j].status = "approved"
          /\ Deciding(j) # {} => joinRequests[j].status = "pending"

\* ... and an invite issued for it is in its row or in the hands of such a call.
InviteFits(i, j) == issuedFor[i] = j =>
    /\ joinRequests[j] # Absent
    /\ <<"join", j>> \notin crossed =>
          joinRequests[j].invite = i \/ \E c \in Deciding(j) : call[c].invite = i

MatchInv ==
    /\ \A j \in JoinRequests : RequestFits(j)
    /\ \A i \in Invites, j \in JoinRequests : InviteFits(i, j)


\* What a call between its steps may do without touching any decision.
Passes(c) ==
    \/ call'[c] = call[c]
    \/ At(c, "reread") /\ call'[c] = [call[c] EXCEPT !.pc = "approve"]
    \/ call'[c] = Idle /\ call[c].request = Absent
    \/ /\ call[c].request = Absent /\ call'[c].request = Absent
       /\ call'[c].pc \notin {"idle", "issue", "reject"}

LEMMA NamedExist ==
  ASSUME Base, Grows, MatchInv, NEW j \in JoinRequests, joinRequests[j] # Absent,
         joinRequests[j].invite # Absent
  PROVE  invites'[joinRequests[j].invite] # Absent
<1>1. joinRequests[j] \in JoinRequest
  BY DEF Base, TypeOK
<1>. QED  BY <1>1 DEF MatchInv, RequestFits, Grows, JoinRequest

\* Steps that decide on no request and issue no invite for one.
LEMMA MatchRests ==
  ASSUME ConstantsAssumption, Base, Grows, CallsApart, MatchInv,
         UNCHANGED <<joinRequests, issuedFor>>,
         crossed \subseteq crossed', \A c \in Calls : Passes(c)
  PROVE  CallsApart' /\ MatchInv'
<1>1. Idle.request = Absent /\ Idle.pc = "idle" /\ Idle.invite = Absent
  BY DEF Idle
<1>2. CallsApart'
  BY <1>1 DEF Passes, CallsApart, DecidingSteps, At, Base, TypeOK, Call
<1>3. \A c \in Calls : /\ call'[c].request = call[c].request
                       /\ call[c].request # Absent => call'[c].invite = call[c].invite
  BY <1>1 DEF Passes, Base, TypeOK, Call
<1>4. \A j \in JoinRequests : Deciding(j)' = Deciding(j)
  BY <1>3 DEF Deciding
<1>5. \A j \in JoinRequests : RequestFits(j)'
  BY <1>4, NamedExist DEF MatchInv, RequestFits
<1>6. \A j \in JoinRequests : \A c \in Deciding(j) : call'[c].invite = call[c].invite
  BY <1>3 DEF Deciding, ConstantsAssumption
<1>7. \A i \in Invites, j \in JoinRequests : InviteFits(i, j)'
  BY <1>4, <1>6 DEF MatchInv, InviteFits
<1>. QED  BY <1>2, <1>5, <1>7 DEF MatchInv

\* A call that ends without having decided: what it issued is known to be left.
LEMMA MatchGivenUp ==
  ASSUME ConstantsAssumption, Base, Grows, CallsApart, MatchInv, NEW c \in Calls,
         Finish(c), UNCHANGED <<joinRequests, issuedFor>>, crossed \subseteq crossed',
         /\ call[c].request # Absent /\ call[c].invite # Absent
            => <<"join", call[c].request>> \in crossed'
  PROVE  CallsApart' /\ MatchInv'
<1>1. /\ Idle.request = Absent /\ Idle.pc = "idle"
      /\ call'[c] = Idle /\ \A d \in Calls \ {c} : call'[d] = call[d]
  BY FinishKnows DEF Idle
<1>2. CallsApart'
  BY <1>1 DEF CallsApart
<1>3. \A j \in JoinRequests : Deciding(j)' = Deciding(j) \ {c}
  BY <1>1 DEF Deciding, ConstantsAssumption
<1>4. \A j \in JoinRequests : RequestFits(j)'
  BY <1>3, NamedExist DEF MatchInv, RequestFits
<1>5. ASSUME NEW i \in Invites, NEW j \in JoinRequests PROVE InviteFits(i, j)'
  <2>. SUFFICES ASSUME issuedFor[i] = j, <<"join", j>> \notin crossed'
                PROVE  joinRequests[j].invite = i \/ \E d \in Deciding(j)' : call'[d].invite = i
    BY DEF MatchInv, InviteFits
  <2>1. joinRequests[j].invite = i \/ \E d \in Deciding(j) : call[d].invite = i
    BY DEF MatchInv, InviteFits
  <2>2. c \in Deciding(j) => call[c].invite # i
    BY DEF Deciding, ConstantsAssumption, Invites
  <2>3. \A d \in Deciding(j) : d \in Calls
    BY DEF Deciding
  <2>. QED  BY <1>1, <1>3, <2>1, <2>2, <2>3
<1>. QED  BY <1>2, <1>4, <1>5 DEF MatchInv

\* A pending request is taken up.
LEMMA MatchBegun ==
  ASSUME ConstantsAssumption, Base, CallsApart, MatchInv, NEW c \in Calls,
         NEW j \in JoinRequests, NEW step \in {"issue", "reject"}, BeginDecision(c, j, step)
  PROVE  CallsApart' /\ MatchInv'
<1>1. /\ call[c] = Idle /\ IsPending(j) /\ call[c] \in Call
      /\ call' = [call EXCEPT ![c] = [call[c] EXCEPT !.pc = step, !.request = j]]
      /\ UNCHANGED <<joinRequests, issuedFor, crossed, invites>>
  BY DEF BeginDecision, CallsApart, At, Base, TypeOK, tables, history
<1>2. /\ call'[c] = [Idle EXCEPT !.pc = step, !.request = j]
      /\ \A d \in Calls \ {c} : call'[d] = call[d]
  BY <1>1 DEF Base, TypeOK
<1>3. call'[c].pc = step /\ call'[c].request = j /\ call'[c].invite = Absent
  BY <1>2 DEF Idle
<1>4. CallsApart'
  BY <1>2, <1>3 DEF CallsApart, DecidingSteps
<1>5. \A x \in JoinRequests :
          /\ Deciding(x) \subseteq Deciding(x)'
          /\ x # j => Deciding(x)' = Deciding(x)
          /\ c \notin Deciding(x) /\ Deciding(x) \subseteq Calls
  BY <1>1, <1>2, <1>3 DEF Deciding, Idle, ConstantsAssumption
<1>6. ASSUME NEW x \in JoinRequests, NEW d \in Deciding(x) PROVE call'[d] = call[d]
  <2>1. d \in Calls \ {c}
    BY <1>5
  <2>. QED  BY <1>2, <2>1
<1>7. \A x \in JoinRequests : RequestFits(x)'
  BY <1>1, <1>5 DEF IsPending, MatchInv, RequestFits
<1>8. \A i \in Invites, x \in JoinRequests : InviteFits(i, x)'
  <2>1. ASSUME NEW i \in Invites, NEW x \in JoinRequests PROVE InviteFits(i, x)'
    <3>1. InviteFits(i, x)
      BY DEF MatchInv
    <3>. QED  BY <1>1, <1>5, <1>6, <3>1 DEF InviteFits
  <2>. QED  BY <2>1
<1>. QED  BY <1>4, <1>7, <1>8 DEF MatchInv

\* An invite is issued for a request.
LEMMA MatchIssued ==
  ASSUME ConstantsAssumption, Base, Grows, CallsApart, MatchInv, NEW c \in Calls,
         IssueForRequest(c)
  PROVE  CallsApart' /\ MatchInv'
<1>. DEFINE n == minted.invite + 1
            q == call[c].request
<1>1. /\ call[c] \in Call /\ q \in JoinRequests /\ joinRequests[q] # Absent
      /\ call[c].pc = "issue" /\ call[c].invite = Absent /\ n \in Invites
  BY InviteCreated DEF IssueForRequest, At, Base, TypeOK, CallsKnow, Knows, CallsApart
<1>2. /\ call' = [call EXCEPT ![c] = [call[c] EXCEPT !.pc = "reread", !.invite = n]]
      /\ issuedFor' = [issuedFor EXCEPT ![n] = q]
      /\ UNCHANGED <<joinRequests, crossed>>
  BY DEF IssueForRequest, Base, TypeOK
<1>3. /\ call'[c].pc = "reread" /\ call'[c].request = q /\ call'[c].invite = n
      /\ \A d \in Calls \ {c} : call'[d] = call[d]
  BY <1>1, <1>2 DEF Base, TypeOK, Call
<1>4. /\ issuedFor'[n] = q
      /\ \A i \in Invites \ {n} : issuedFor'[i] = issuedFor[i]
  BY <1>1, <1>2 DEF Base, TypeOK
<1>. HIDE DEF n, q
<1>5. CallsApart'
  BY <1>3 DEF CallsApart, DecidingSteps
<1>6. \A j \in JoinRequests : Deciding(j)' = Deciding(j)
  BY <1>3 DEF Deciding, q
<1>7. \A j \in JoinRequests : RequestFits(j)'
  BY <1>2, <1>6, NamedExist DEF MatchInv, RequestFits
<1>8. ASSUME NEW i \in Invites, NEW j \in JoinRequests PROVE InviteFits(i, j)'
  <2>. SUFFICES ASSUME issuedFor'[i] = j
                PROVE  /\ joinRequests[j] # Absent
                       /\ <<"join", j>> \notin crossed =>
                            joinRequests[j].invite = i \/ \E d \in Deciding(j)' : call'[d].invite = i
    BY <1>2 DEF InviteFits
  <2>1. CASE i = n
    <3>1. j = q /\ c \in Deciding(j)
      BY <1>4, <2>1 DEF Deciding, q
    <3>. QED  BY <1>1, <1>3, <1>6, <2>1, <3>1
  <2>2. CASE i # n
    <3>1. call[c].invite # i /\ Deciding(j) \subseteq Calls
      BY <1>1 DEF ConstantsAssumption, Invites, Deciding
    <3>. QED  BY <1>3, <1>4, <1>6, <2>2, <3>1 DEF MatchInv, InviteFits
  <2>. QED  BY <2>1, <2>2
<1>. QED  BY <1>5, <1>7, <1>8 DEF MatchInv

\* A decision is written.
LEMMA MatchDecided ==
  ASSUME ConstantsAssumption, Base, Grows, CallsApart, MatchInv, NEW c \in Calls,
         ApproveJoinRequest(c) \/ RejectJoinRequest(c)
  PROVE  CallsApart' /\ MatchInv'
<1>0. PICK x \in JoinRequests : x = call[c].request
  BY DEF ApproveJoinRequest, RejectJoinRequest, At, Base, CallsKnow, Knows
<1>. DEFINE row == joinRequests'[x]
<1>1. /\ call[c] \in Call /\ joinRequests[x] \in JoinRequest
      /\ joinRequests[x] # Absent
  BY <1>0 DEF ApproveJoinRequest, RejectJoinRequest, At, Base, TypeOK, CallsKnow, Knows
<1>2. \/ /\ row = [status |-> "approved", invite |-> call[c].invite]
         /\ call[c].invite \in Invites /\ invites[call[c].invite] # Absent
      \/ row = [joinRequests[x] EXCEPT !.status = "rejected"] /\ call[c].invite = Absent
  BY <1>0, <1>1 DEF ApproveJoinRequest, RejectJoinRequest, WriteDecision, At, Base, TypeOK,
              CallsKnow, Knows, CallsApart
<1>3. /\ \A j \in JoinRequests \ {x} : joinRequests'[j] = joinRequests[j]
      /\ crossed' = IF Deciding(x) \ {c} = {} THEN crossed ELSE crossed \cup {<<"join", x>>}
      /\ UNCHANGED <<invites, issuedFor>> /\ Finish(c)
  BY <1>0 DEF ApproveJoinRequest, RejectJoinRequest, WriteDecision, Base, TypeOK
<1>4. /\ Idle.request = Absent /\ Idle.pc = "idle"
      /\ call'[c] = Idle /\ \A d \in Calls \ {c} : call'[d] = call[d]
  BY <1>3, FinishKnows DEF Idle
<1>. HIDE DEF row
<1>5. CallsApart'
  BY <1>4 DEF CallsApart
<1>6. \A j \in JoinRequests : Deciding(j)' = Deciding(j) \ {c}
  BY <1>4 DEF Deciding, ConstantsAssumption
<1>7. Absent \notin Invites /\ c \in Deciding(x)
  BY <1>0 DEF ConstantsAssumption, Invites, Deciding
<1>8. /\ row.status \in {"approved", "rejected"} /\ row # Absent
      /\ row.invite \in {call[c].invite, joinRequests[x].invite}
      /\ row.status = "approved" => row.invite = call[c].invite /\ row.invite # Absent
      /\ row.status = "rejected" => row.invite = joinRequests[x].invite
                                    /\ call[c].invite = Absent
      /\ row.invite # Absent => invites'[row.invite] # Absent
  <2>1. row \in JoinRequest
    BY <1>1, <1>2 DEF JoinRequest
  <2>2. row # Absent
    BY <2>1 DEF ConstantsAssumption
  <2>3. joinRequests[x].invite # Absent => invites[joinRequests[x].invite] # Absent
    BY <1>1 DEF MatchInv, RequestFits
  <2>. QED  BY <1>1, <1>2, <1>3, <1>7, <2>2, <2>3 DEF JoinRequest
<1>9. ASSUME <<"join", x>> \notin crossed'
      PROVE  /\ Deciding(x)' = {} /\ <<"join", x>> \notin crossed
             /\ joinRequests[x].invite = Absent
             /\ \A i \in Invites : issuedFor[i] = x => call[c].invite = i
  <2>1. Deciding(x) = {c} /\ <<"join", x>> \notin crossed
    BY <1>3, <1>7, <1>9
  <2>2. joinRequests[x].invite = Absent
    <3>1. RequestFits(x)
      BY DEF MatchInv
    <3>. QED  BY <1>1, <2>1, <3>1 DEF RequestFits
  <2>3. ASSUME NEW i \in Invites, issuedFor[i] = x PROVE call[c].invite = i
    <3>1. InviteFits(i, x)
      BY <1>1 DEF MatchInv
    <3>. QED  BY <1>7, <2>1, <2>2, <2>3, <3>1 DEF InviteFits
  <2>. QED  BY <1>1, <1>6, <2>1, <2>2, <2>3
<1>10. \A j \in JoinRequests \ {x} :
          /\ c \notin Deciding(j) /\ Deciding(j)' = Deciding(j) /\ Deciding(j) \subseteq Calls
          /\ <<"join", j>> \notin crossed' => <<"join", j>> \notin crossed
  BY <1>0, <1>3, <1>6 DEF Deciding
<1>11. ASSUME NEW j \in JoinRequests PROVE RequestFits(j)'
  <2>1. CASE j = x
    BY <1>8, <1>9, <2>1 DEF row, RequestFits
  <2>2. CASE j # x
    BY <1>3, <1>10, <2>2 DEF MatchInv, RequestFits
  <2>. QED  BY <2>1, <2>2
<1>12. ASSUME NEW i \in Invites, NEW j \in JoinRequests PROVE InviteFits(i, j)'
  <2>1. CASE j = x
    <3>. SUFFICES ASSUME issuedFor[i] = x, <<"join", x>> \notin crossed'
                  PROVE  joinRequests'[x].invite = i
      BY <1>3, <1>8, <2>1 DEF row, InviteFits
    <3>. QED  BY <1>7, <1>8, <1>9 DEF row
  <2>2. CASE j # x
    BY <1>3, <1>4, <1>10, <2>2 DEF MatchInv, InviteFits
  <2>. QED  BY <2>1, <2>2
<1>. QED  BY <1>5, <1>11, <1>12 DEF MatchInv

\* Steps of a call that is not deciding, and steps of no call.
LEMMA MatchElsewhere ==
  ASSUME ConstantsAssumption, Base, Grows, CallsApart, MatchInv,
         \/ \E c \in Calls : Register(c) \/ Visit(c)
         \/ IssueInvite \/ LoginOptions \/ Tick \/ UNCHANGED vars
         \/ \E s \in Sessions : Logout(s)
  PROVE  CallsApart' /\ MatchInv'
<1>. SUFFICES /\ UNCHANGED <<joinRequests, issuedFor>> /\ crossed \subseteq crossed'
              /\ \A c \in Calls : Passes(c)
  BY MatchRests
<1>1. ASSUME NEW c \in Calls, Register(c)
      PROVE  /\ UNCHANGED <<joinRequests, issuedFor>> /\ crossed \subseteq crossed'
             /\ \A d \in Calls : Passes(d)
  <2>0. call[c].pc \in Steps /\ (call[c].request # Absent => call[c].pc \in DecidingSteps)
    BY DEF Base, TypeOK, Call, CallsApart
  <2>. USE <2>0 DEF DecidingSteps, Passes, Goto, Finish, Idle, At, Base, TypeOK, Call, tables, history
  <2>1. CASE \E i \in Invites : RegistrationOptions(c, i)
    BY <2>1 DEF RegistrationOptions, CallsApart
  <2>2. CASE StoreRegistrationChallenge(c)
    BY <2>2 DEF StoreRegistrationChallenge, CreateChallenge
  <2>3. CASE \E h \in Challenges, purpose \in {"register", "login"} :
                PresentChallenge(c, h, purpose)
    BY <2>3 DEF PresentChallenge, CallsApart
  <2>4. CASE ConsumeChallenge(c)
    BY <2>4 DEF ConsumeChallenge
  <2>5. CASE CheckInvite(c) \/ CreateUser(c)
    BY <2>5 DEF CheckInvite, CreateUser
  <2>6. CASE CreateCredential(c) \/ MarkUsed(c)
    BY <2>6 DEF CreateCredential, MarkUsed
  <2>. QED  BY <1>1, <2>1, <2>2, <2>3, <2>4, <2>5, <2>6 DEF Register
<1>2. ASSUME NEW c \in Calls, Visit(c)
      PROVE  /\ UNCHANGED <<joinRequests, issuedFor>> /\ crossed \subseteq crossed'
             /\ \A d \in Calls : Passes(d)
  <2>0. call[c].pc \in Steps /\ (call[c].request # Absent => call[c].pc \in DecidingSteps)
    BY DEF Base, TypeOK, Call, CallsApart
  <2>. USE <2>0 DEF DecidingSteps, Passes, Goto, Finish, Idle, At, Base, TypeOK, Call, tables, history
  <2>1. CASE \E h \in Challenges : FindCredential(c, h)
    BY <2>1 DEF FindCredential
  <2>2. CASE \E s \in Sessions : ValidateSession(c, s)
    BY <2>2 DEF ValidateSession, CallsApart
  <2>3. CASE IssueSession(c) \/ RefreshSession(c) \/ ChangeFavorite(c)
    BY <2>3 DEF IssueSession, RefreshSession, ChangeFavorite
  <2>. QED  BY <1>2, <2>1, <2>2, <2>3 DEF Visit
<1>3. CASE \/ IssueInvite \/ LoginOptions \/ Tick \/ UNCHANGED vars
           \/ \E s \in Sessions : Logout(s)
  BY <1>3 DEF Passes, IssueInvite, LoginOptions, CreateChallenge, Tick, Logout, vars, tables,
              history
<1>. QED  BY <1>1, <1>2, <1>3

\* Steps of a call that decides.
LEMMA MatchDeciding ==
  ASSUME ConstantsAssumption, Base, Grows, CallsApart, MatchInv, NEW c \in Calls,
         Decide(c) \/ Fail(c)
  PROVE  CallsApart' /\ MatchInv'
<1>0. call[c] \in Call /\ Knows(call[c])
  BY DEF Base, TypeOK, CallsKnow
<1>1. CASE \E j \in JoinRequests : BeginApproval(c, j) \/ BeginRejection(c, j)
  BY <1>1, MatchBegun DEF BeginApproval, BeginRejection
<1>2. CASE IssueForRequest(c)
  BY <1>2, MatchIssued
<1>3. CASE RereadRequest(c)
  <2>1. UNCHANGED <<joinRequests, issuedFor, crossed>> /\ At(c, "reread")
    BY <1>3 DEF RereadRequest, tables, history
  <2>2. CASE Goto(c, "approve")
    <3>1. \A d \in Calls : Passes(d)
      BY <2>1, <2>2 DEF Passes, Goto, Base, TypeOK
    <3>. QED  BY <2>1, <3>1, MatchRests
  <2>3. CASE Finish(c) /\ ~IsPending(call[c].request)
    <3>1. /\ call[c].request \in JoinRequests /\ RequestFits(call[c].request)
          /\ joinRequests[call[c].request] # Absent /\ c \in Deciding(call[c].request)
      BY <1>0, <2>1 DEF Knows, At, MatchInv, Deciding
    <3>2. <<"join", call[c].request>> \in crossed
      BY <2>3, <3>1 DEF RequestFits, IsPending
    <3>. QED  BY <2>1, <2>3, <3>2, MatchGivenUp
  <2>. QED  BY <1>3, <2>2, <2>3 DEF RereadRequest, StillPending
<1>4. CASE ApproveJoinRequest(c) \/ RejectJoinRequest(c)
  BY <1>4, MatchDecided
<1>5. CASE Fail(c)
  <2>1. Finish(c) /\ UNCHANGED <<joinRequests, issuedFor>> /\ crossed' = crossed \cup LeftBehind(c)
    BY <1>5 DEF Fail, tables
  <2>2. call[c].request # Absent /\ call[c].invite # Absent
            => <<"join", call[c].request>> \in LeftBehind(c)
    BY <1>0 DEF CallsApart, DecidingSteps, LeftBehind
  <2>. QED  BY <2>1, <2>2, MatchGivenUp
<1>. QED  BY <1>1, <1>2, <1>3, <1>4, <1>5 DEF Decide

\* A request is made.
LEMMA MatchRequested ==
  ASSUME ConstantsAssumption, Base, CallsApart, MatchInv, NEW j \in JoinRequests, RequestJoin(j)
  PROVE  CallsApart' /\ MatchInv'
<1>1. /\ joinRequests[j] = Absent /\ UNCHANGED <<call, issuedFor, crossed, invites>>
      /\ joinRequests'[j] = [status |-> "pending", invite |-> Absent]
      /\ \A x \in JoinRequests \ {j} : joinRequests'[x] = joinRequests[x]
  BY DEF RequestJoin, history, Base, TypeOK
<1>2. CallsApart' /\ \A x \in JoinRequests : Deciding(x)' = Deciding(x)
  BY <1>1 DEF CallsApart, Deciding
<1>3. \A x \in JoinRequests : RequestFits(x)'
  BY <1>1, <1>2 DEF MatchInv, RequestFits
<1>4. ASSUME NEW i \in Invites, NEW x \in JoinRequests PROVE InviteFits(i, x)'
  <2>1. InviteFits(i, x) /\ InviteFits(i, j)
    BY DEF MatchInv
  <2>. QED  BY <1>1, <1>2, <2>1 DEF InviteFits
<1>. QED  BY <1>2, <1>3, <1>4 DEF MatchInv

LEMMA MatchStep ==
  ASSUME ConstantsAssumption, Base, SessionsHaveOwners, CallsApart, MatchInv, [Next]_vars
  PROVE  CallsApart' /\ MatchInv'
BY BaseStep, MatchElsewhere, MatchDeciding, MatchRequested, NextCases

\* Unless two decisions on a join request overlapped or one ended half way, a
\* request that names an invite is approved and is the only one to hold an
\* invite issued for it (approveJoinRequest): for any number of requests,
\* invites and deciding calls.
THEOREM DecisionsMatch ==
  ASSUME ConstantsAssumption
  PROVE  Spec => []DecisionsMatchInvites
<1>1. Init => Base /\ SessionsHaveOwners /\ CallsApart /\ MatchInv
  <2>1. Init => CallsApart
    BY DEF Init, CallsApart, Idle
  <2>2. Init => MatchInv
    BY DEF Init, MatchInv, RequestFits, InviteFits, ConstantsAssumption
  <2>. QED  BY <2>1, <2>2, InitBase
<1>2. /\ Base /\ SessionsHaveOwners /\ CallsApart /\ MatchInv /\ [Next]_vars
      => (Base /\ SessionsHaveOwners /\ CallsApart /\ MatchInv)'
  BY BaseStep, OwnersStep, MatchStep
<1>3. MatchInv => DecisionsMatchInvites
  BY DEF MatchInv, RequestFits, InviteFits, DecisionsMatchInvites
<1>. QED  BY <1>1, <1>2, <1>3, PTL DEF Spec
=============================================================================
