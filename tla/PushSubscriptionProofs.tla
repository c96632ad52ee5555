------------------------ MODULE PushSubscriptionProofs ------------------------
(* Proofs about PushSubscription, for every value of its constants. *)
EXTENDS PushSubscription, TLAPS

Registering == {"find", "issue", "update", "answer"}
Removing == {"remove", "removed"}

\* Only an idle tab asks for no endpoint.
Typed == TypeOK /\ \A t \in Tabs : Idling(t) <=> call[t].endpoint = Absent

\* Calls are for endpoints the browser has handed out; a removal is for the one
\* its tab knows.
CallsFit ==
    /\ \A t \in Tabs : call[t].pc \in Registering => call[t].endpoint <= endpoint
    /\ \A e \in Endpoints : e > endpoint => rows[e] = Absent
    /\ \A t \in Tabs : call[t].pc \in Removing =>
          memory[t] # Absent /\ memory[t].endpoint = call[t].endpoint

\* Calls that are under way together have crossed.
OverlapsCross ==
    \A t, u \in Tabs : t # u /\ ~Idling(t) /\ ~Idling(u) => call[t].endpoint \in crossed

\* What the preferences hold, some tab knows.
PrefsAreKnown == prefs # Absent => \E t \in Tabs : memory[t] = prefs

\* While the calls for an endpoint do not cross others: a registration of an
\* earlier endpoint is over before the row of the current one, no row follows a
\* removal, and the browser knows of the current row or is about to.
Accessible ==
    /\ \A t \in Tabs : /\ call[t].pc \in Registering /\ call[t].endpoint # endpoint
                       /\ rows[endpoint] # Absent
                       => endpoint \in crossed
    /\ \A t \in Tabs : call[t].pc = "removed" /\ call[t].endpoint \notin crossed =>
          rows[call[t].endpoint] = Absent
    /\ rows[endpoint] # Absent /\ endpoint \notin crossed =>
          \/ Remembers(prefs, endpoint)
          \/ \E t \in Tabs : call[t].endpoint = endpoint /\ call[t].pc # "find"

\* The secret of an answer, and the one in the preferences, are the row's.
SecretsMatch ==
    \A e \in Endpoints \ crossed : IsSecretIssued(e) =>
        /\ \A t \in Tabs : call[t].endpoint = e /\ call[t].pc \in {"update", "answer"} =>
              call[t].secret = rows[e].secret
        /\ keeps /\ Remembers(prefs, e)
           /\ (\A t \in Tabs : call[t].endpoint = e => call[t].pc # "answer") =>
              prefs.secret = rows[e].secret

Access == CallsFit /\ OverlapsCross /\ PrefsAreKnown /\ Accessible /\ SecretsMatch

-----------------------------------------------------------------------------
(* Types. *)

LEMMA NothingElse ==
  ASSUME ConstantsAssumption
  PROVE  /\ Absent \notin Row /\ Absent \notin Known /\ Absent \notin Secrets
         /\ Absent \notin Endpoints /\ 1 \in Endpoints /\ Endpoints \subseteq Nat
         /\ Retention \in Nat \ {0}
BY DEF ConstantsAssumption, Endpoints

LEMMA TypedInit ==
  ASSUME ConstantsAssumption, Init
  PROVE  Typed
BY NothingElse DEF Init, Typed, TypeOK, Call, Idle, Idling

\* What is under way when a call begins and ends.
LEMMA CallsChange ==
  ASSUME Typed, NEW t \in Tabs, NEW k \in Call, call' = [call EXCEPT ![t] = k],
         k.pc = "idle" <=> k.endpoint = Absent
  PROVE  /\ call' \in [Tabs -> Call]
         /\ \A u \in Tabs : (call'[u].pc = "idle" <=> call'[u].endpoint = Absent)
         /\ call'[t] = k /\ \A u \in Tabs \ {t} : call'[u] = call[u]
BY DEF Typed, TypeOK, Idling

LEMMA IdleIsCall == Idle \in Call /\ Idle.pc = "idle" /\ Idle.endpoint = Absent
BY DEF Idle, Call

LEMMA TypedUseTab ==
  ASSUME ConstantsAssumption, Typed, NEW t \in Tabs, UseTab(t)
  PROVE  Typed'
<1>1. CASE OpenTab(t)
  BY <1>1 DEF OpenTab, Typed, TypeOK, Idling, server
<1>2. CASE EnsureSubscribed(t)
  <2>. DEFINE s == IF keeps /\ Remembers(memory[t], endpoint)
                   THEN memory[t].secret ELSE Absent
              k == [pc |-> "find", endpoint |-> endpoint, secret |-> s]
  <2>0. s \in Secrets \cup {Absent}
    BY DEF Remembers, Typed, TypeOK, Known
  <2>1. k \in Call /\ call' = [call EXCEPT ![t] = k]
    BY <1>2, <2>0 DEF EnsureSubscribed, Typed, TypeOK, Call
  <2>2. endpoint # Absent
    BY NothingElse DEF Typed, TypeOK
  <2>. QED  BY <1>2, <2>1, <2>2, CallsChange
            DEF EnsureSubscribed, Typed, TypeOK, Idling, client, server
<1>3. CASE CancelAll(t)
  <2>. DEFINE k == [pc |-> "remove", secret |-> Absent, endpoint |-> memory[t].endpoint]
  <2>1. k \in Call /\ call' = [call EXCEPT ![t] = k]
    BY <1>3 DEF CancelAll, Typed, TypeOK, Call, Known
  <2>2. memory[t].endpoint # Absent
    BY <1>3, NothingElse DEF CancelAll, Typed, TypeOK, Known
  <2>. QED  BY <1>3, <2>1, <2>2, CallsChange
            DEF CancelAll, Typed, TypeOK, Idling, client, server
<1>4. CASE ScheduleRace(t)
  BY <1>4 DEF ScheduleRace, Typed, TypeOK, Known, Idling, client
<1>5. CASE CancelRace(t)
  BY <1>5 DEF CancelRace, Typed, TypeOK, Idling, client
<1>. QED  BY <1>1, <1>2, <1>3, <1>4, <1>5 DEF UseTab

LEMMA TypedServe ==
  ASSUME ConstantsAssumption, Typed, NEW t \in Tabs, Serve(t) \/ LoseAnswer(t)
  PROVE  Typed'
<1>0. ~Idling(t) /\ call[t] \in Call /\ call[t].endpoint \in Endpoints
  BY DEF Serve, FindSecret, Refuse, Upsert, Remove, Answered, ForgetSubscription,
         LoseAnswer, Idling, Typed, TypeOK, Call
<1>1. CASE FindSecret(t)
  <2>1. PICK k \in Call : /\ call' = [call EXCEPT ![t] = k]
                          /\ k.pc \in {"issue", "update"} /\ k.endpoint = call[t].endpoint
    BY <1>0, <1>1 DEF FindSecret, FreshSecrets, Typed, TypeOK, Call
  <2>. QED  BY <1>0, <1>1, <2>1, CallsChange
            DEF FindSecret, Typed, TypeOK, Idling, client, server
<1>2. CASE Refuse(t)
  BY <1>2, IdleIsCall, CallsChange DEF Refuse, RefusedUnwritten, Typed, TypeOK, Idling, client
<1>3. CASE Upsert(t)
  <2>1. Upserted(t) \in Row
    BY <1>0, NothingElse DEF Typed, TypeOK, Call, Upserted, Row
  <2>. DEFINE k == [call[t] EXCEPT !.pc = "answer"]
  <2>2. /\ call' = [call EXCEPT ![t] = k] /\ k \in Call
        /\ k.pc = "answer" /\ k.endpoint = call[t].endpoint
    BY <1>0, <1>3 DEF Upsert, Call
  <2>. QED  BY <1>0, <1>3, <2>1, <2>2, CallsChange DEF Upsert, Typed, TypeOK, Idling, client
<1>4. CASE Remove(t)
  <2>. DEFINE k == [call[t] EXCEPT !.pc = "removed"]
  <2>1. /\ call' = [call EXCEPT ![t] = k] /\ k \in Call
        /\ k.pc = "removed" /\ k.endpoint = call[t].endpoint
    BY <1>0, <1>4 DEF Remove, Call
  <2>. QED  BY <1>0, <1>4, <2>1, CallsChange
            DEF Remove, RemoveWithDependentRequests, Typed, TypeOK, Idling, client
<1>5. CASE Answered(t)
  BY <1>0, <1>5, IdleIsCall, CallsChange
  DEF Answered, Typed, TypeOK, Call, Known, Idling, server
<1>6. CASE ForgetSubscription(t)
  <2>1. memory' \in [Tabs -> Known \cup {Absent}]
    BY <1>6 DEF ForgetSubscription, Typed, TypeOK
  <2>. QED  BY <1>6, <2>1, IdleIsCall, CallsChange
            DEF ForgetSubscription, Typed, TypeOK, Idling, server
<1>7. CASE LoseAnswer(t)
  BY <1>7, IdleIsCall, CallsChange DEF LoseAnswer, Typed, TypeOK, Idling, client, server
<1>. QED  BY <1>1, <1>2, <1>3, <1>4, <1>5, <1>6, <1>7 DEF Serve

\* The service, the browser and the calendar.
LEMMA TypedOthers ==
  ASSUME ConstantsAssumption, Typed, RenewEndpoint \/ Maintain \/ Tick \/ UNCHANGED vars
  PROVE  Typed'
<1>. Retention \in Nat /\ Retention # 0
  BY NothingElse
<1>1. CASE RenewEndpoint
  <2>1. endpoint + 1 \in Endpoints
    BY <1>1 DEF RenewEndpoint, Typed, TypeOK, Endpoints, ConstantsAssumption
  <2>. QED  BY <1>1, <2>1 DEF RenewEndpoint, Typed, TypeOK, Idling, server
<1>2. ASSUME NEW e \in Endpoints,
             \/ JudgeSubscription(e) \/ RemoveJudged(e) \/ SettleRequests(e)
      PROVE  Typed'
  BY <1>2 DEF JudgeSubscription, RemoveJudged, SettleRequests, RemoveWithDependentRequests,
              Typed, TypeOK, Idling, client
<1>3. ASSUME NEW e \in Endpoints, RefreshByDispatch(e)
      PROVE  Typed'
  <2>1. rows' \in [Endpoints -> Row \cup {Absent}]
    BY <1>3 DEF RefreshByDispatch, Typed, TypeOK, Row
  <2>. QED  BY <1>3, <2>1 DEF RefreshByDispatch, Typed, TypeOK, Idling, client
<1>4. CASE SelectStale
  BY <1>4 DEF SelectStale, StaleRows, Typed, TypeOK, Idling, client
<1>5. CASE DeleteStale
  BY <1>5 DEF DeleteStale, RemoveWithDependentRequests, Typed, TypeOK, Idling, client
<1>6. CASE Tick
  <2>1. \A r \in Row :
           [r EXCEPT !.age = IF r.age < Retention THEN r.age + 1 ELSE r.age] \in Row
    BY DEF Row
  <2>2. rows' \in [Endpoints -> Row \cup {Absent}]
    BY <1>6, <2>1 DEF Tick, Typed, TypeOK
  <2>. QED  BY <1>6, <2>2 DEF Tick, Typed, TypeOK, Idling, client
<1>7. CASE UNCHANGED vars
  BY <1>7 DEF vars, client, server, Typed, TypeOK, Idling
<1>. QED  BY <1>1, <1>2, <1>3, <1>4, <1>5, <1>6, <1>7 DEF Maintain

LEMMA TypedStep ==
  ASSUME ConstantsAssumption, Typed, [Next]_vars
  PROVE  Typed'
BY TypedUseTab, TypedServe, TypedOthers DEF Next, Use

\* The variables always have their types, an endpoint's row its own secret.
THEOREM TypeCorrect == ASSUME ConstantsAssumption PROVE Spec => []TypeOK
<1>1. Init => Typed
  BY TypedInit
<1>2. Typed /\ [Next]_vars => Typed'
  BY TypedStep
<1>3. Typed => TypeOK
  BY DEF Typed
<1>. QED  BY <1>1, <1>2, <1>3, PTL DEF Spec

-----------------------------------------------------------------------------
(* Access. *)

LEMMA AccessInit ==
  ASSUME ConstantsAssumption, Init
  PROVE  Access
BY NothingElse
DEF Init, Idle, Idling, Registering, Removing, IsSecretIssued,
    Access, CallsFit, OverlapsCross, PrefsAreKnown, Accessible, SecretsMatch

\* Nobody calls, and rows keep their secrets or go.
LEMMA AccessRests ==
  ASSUME Typed, Access, UNCHANGED <<client, call>>, crossed \subseteq crossed',
         \A e \in Endpoints : \/ rows'[e] = Absent
                              \/ /\ rows[e] # Absent
                                 /\ rows'[e].secret = rows[e].secret
  PROVE  Access'
<1>1. /\ endpoint \in Endpoints
      /\ \A t \in Tabs : call[t].pc # "idle" => call[t].endpoint \in Endpoints
  BY DEF Typed, TypeOK, Call, Idling
<1>2. CallsFit' /\ OverlapsCross' /\ PrefsAreKnown'
  BY <1>1 DEF Access, CallsFit, OverlapsCross, PrefsAreKnown, Idling, client
<1>3. Accessible'
  BY <1>1 DEF Access, CallsFit, Accessible, Remembers, Registering, Removing, client
<1>4. SecretsMatch'
  BY <1>1 DEF Access, SecretsMatch, IsSecretIssued, Remembers, client
<1>. QED  BY <1>2, <1>3, <1>4 DEF Access

LEMMA AccessReload ==
  ASSUME Typed, Access, NEW t \in Tabs, OpenTab(t)
  PROVE  Access'
<1>1. /\ Idling(t) /\ memory'[t] = prefs /\ \A u \in Tabs \ {t} : memory'[u] = memory[u]
      /\ UNCHANGED <<keeps, endpoint, prefs, call, rows, crossed>>
  BY DEF OpenTab, server, Typed, TypeOK
<1>2. CallsFit' /\ OverlapsCross'
  BY <1>1 DEF Access, CallsFit, OverlapsCross, Idling, Removing
<1>3. PrefsAreKnown' /\ Accessible' /\ SecretsMatch'
  BY <1>1 DEF Access, PrefsAreKnown, Accessible, SecretsMatch, IsSecretIssued, Remembers
<1>. QED  BY <1>2, <1>3 DEF Access

LEMMA AccessRenewal ==
  ASSUME ConstantsAssumption, Typed, Access, RenewEndpoint
  PROVE  Access'
<1>1. /\ endpoint' = endpoint + 1 /\ endpoint \in Nat
      /\ endpoint \in Endpoints /\ endpoint + 1 \in Endpoints
      /\ UNCHANGED <<keeps, prefs, memory, call, rows, crossed>>
  BY DEF RenewEndpoint, server, Typed, TypeOK, Endpoints, ConstantsAssumption
<1>2. rows[endpoint'] = Absent
  BY <1>1 DEF Access, CallsFit
<1>3. CallsFit'
  <2>1. ASSUME NEW t \in Tabs, call[t].pc \in Registering
        PROVE  call[t].endpoint \in Nat /\ call[t].endpoint <= endpoint
    BY <2>1, NothingElse DEF Access, CallsFit, Typed, TypeOK, Call, Idling, Registering
  <2>2. \A t \in Tabs : call[t].pc \in Registering => call[t].endpoint <= endpoint'
    BY <1>1, <2>1
  <2>3. \A e \in Endpoints : e > endpoint' => rows[e] = Absent
    BY <1>1, NothingElse DEF Access, CallsFit
  <2>. QED  BY <1>1, <2>2, <2>3 DEF Access, CallsFit
<1>4. OverlapsCross' /\ PrefsAreKnown' /\ Accessible' /\ SecretsMatch'
  BY <1>1, <1>2 DEF Access, OverlapsCross, PrefsAreKnown, Accessible, SecretsMatch,
                    IsSecretIssued, Remembers, Idling
<1>. QED  BY <1>3, <1>4 DEF Access

\* A call for e begins.
LEMMA AccessCall ==
  ASSUME ConstantsAssumption, Typed, Access, NEW t \in Tabs, NEW e \in Endpoints,
         Idling(t), Cross(e), UNCHANGED <<client, rows>>,
         call' \in [Tabs -> Call], call'[t].endpoint = e,
         \A u \in Tabs \ {t} : call'[u] = call[u],
         \/ call'[t].pc = "find" /\ e = endpoint
         \/ call'[t].pc = "remove" /\ memory[t] # Absent /\ memory[t].endpoint = e
  PROVE  Access'
<1>1. /\ UNCHANGED <<endpoint, keeps, prefs, memory, rows>> /\ crossed \subseteq crossed'
      /\ endpoint \in Nat /\ endpoint # Absent /\ e # Absent
      /\ call[t].endpoint = Absent /\ call[t].pc = "idle"
  BY NothingElse DEF client, Cross, Typed, TypeOK, Idling
<1>2. \A u \in Tabs : ~Idling(u) => call[u].endpoint \in crossed' /\ e \in crossed'
  BY DEF Cross, UnderWay, Typed
<1>3. CallsFit'
  BY <1>1 DEF Access, CallsFit, Registering, Removing
<1>4. OverlapsCross' /\ PrefsAreKnown'
  BY <1>1, <1>2 DEF Access, OverlapsCross, PrefsAreKnown, Idling
<1>5. Accessible'
  <2>1. Accessible!1'
    BY <1>1 DEF Access, Accessible, Registering
  <2>2. Accessible!2'
    BY <1>1 DEF Access, Accessible
  <2>3. Accessible!3'
    BY <1>1 DEF Access, Accessible, Remembers
  <2>. QED  BY <2>1, <2>2, <2>3 DEF Accessible
<1>6. SecretsMatch'
  <2>. SUFFICES ASSUME NEW f \in Endpoints, f \notin crossed', IsSecretIssued(f)'
                PROVE  SecretsMatch!(f)!2'
    BY DEF SecretsMatch
  <2>1. f \notin crossed /\ IsSecretIssued(f) /\ f # Absent
    BY <1>1, NothingElse DEF IsSecretIssued
  <2>. QED  BY <1>1, <2>1 DEF Access, SecretsMatch, Remembers
<1>. QED  BY <1>3, <1>4, <1>5, <1>6 DEF Access

\* A call ends: it is refused, or nothing of it is heard.
LEMMA AccessIdle ==
  ASSUME Typed, Access, NEW t \in Tabs, Refuse(t) \/ LoseAnswer(t)
  PROVE  Access'
<1>1. /\ UNCHANGED <<endpoint, keeps, prefs, memory, rows>> /\ crossed \subseteq crossed'
      /\ call'[t] = Idle /\ \A u \in Tabs \ {t} : call'[u] = call[u]
      /\ call[t].pc = "find" \/ call[t].endpoint \in crossed'
  BY DEF Refuse, LoseAnswer, RefusedUnwritten, client, server, Typed, TypeOK
<1>2. CallsFit' /\ OverlapsCross' /\ PrefsAreKnown'
  BY <1>1, IdleIsCall DEF Access, CallsFit, OverlapsCross, PrefsAreKnown, Idling, Registering,
                          Removing
<1>3. Accessible'
  BY <1>1, IdleIsCall DEF Access, Accessible, Remembers, Registering
<1>4. SecretsMatch'
  BY <1>1, IdleIsCall DEF Access, SecretsMatch, IsSecretIssued, Remembers, Idle
<1>. QED  BY <1>2, <1>3, <1>4 DEF Access

\* A secret is issued, or the one presented is the row's.
LEMMA AccessFind ==
  ASSUME ConstantsAssumption, Typed, Access, NEW t \in Tabs, FindSecret(t)
  PROVE  Access'
<1>1. /\ UNCHANGED <<endpoint, keeps, prefs, memory, rows, crossed>>
      /\ call[t].pc = "find" /\ call[t].endpoint # Absent
      /\ \A u \in Tabs \ {t} : call'[u] = call[u]
  BY DEF FindSecret, client, server, Typed, TypeOK, Idling
<1>2. call'[t].endpoint = call[t].endpoint /\ call'[t].pc \in {"issue", "update"}
  BY DEF FindSecret, Typed, TypeOK, Call
<1>3. call'[t].pc = "update" /\ IsSecretIssued(call[t].endpoint) =>
        call'[t].secret = rows[call[t].endpoint].secret
  BY DEF FindSecret, Verifies, Typed, TypeOK, Call
<1>4. CallsFit' /\ OverlapsCross' /\ PrefsAreKnown'
  BY <1>1, <1>2 DEF Access, CallsFit, OverlapsCross, PrefsAreKnown, Idling, Registering,
                    Removing
<1>5. Accessible'
  BY <1>1, <1>2 DEF Access, Accessible, Remembers, Registering
<1>6. SecretsMatch'
  BY <1>1, <1>2, <1>3 DEF Access, SecretsMatch, IsSecretIssued, Remembers
<1>. QED  BY <1>4, <1>5, <1>6 DEF Access

\* The row of e gets the secret of the call; whoever else calls has crossed it.
LEMMA AccessUpsert ==
  ASSUME ConstantsAssumption, Typed, Access, NEW t \in Tabs, Upsert(t)
  PROVE  Access'
<1>. DEFINE e == call[t].endpoint
<1>1. /\ UNCHANGED <<endpoint, keeps, prefs, memory, crossed>>
      /\ call[t].pc \in {"issue", "update"} /\ e \in Endpoints /\ ~Idling(t)
      /\ call' = [call EXCEPT ![t].pc = "answer"]
      /\ rows' = [rows EXCEPT ![e] = Upserted(t)]
  BY DEF Upsert, client, Typed, TypeOK, Idling, Call
<1>2. /\ call'[t].pc = "answer" /\ call'[t].endpoint = e
      /\ call'[t].secret = call[t].secret
      /\ \A u \in Tabs \ {t} : call'[u] = call[u]
  BY <1>1 DEF Typed, TypeOK, Call
<1>3. /\ rows'[e] = Upserted(t) /\ \A f \in Endpoints \ {e} : rows'[f] = rows[f]
  BY <1>1 DEF Typed, TypeOK
<1>4. Upserted(t) # Absent
  BY <1>1, NothingElse DEF Upserted, Row, Typed, TypeOK, Call
<1>5. e \notin crossed => \A u \in Tabs \ {t} : Idling(u) /\ call[u].endpoint = Absent
  BY <1>1 DEF Access, OverlapsCross, Typed
<1>6. e <= endpoint /\ e \in Nat /\ endpoint \in Endpoints /\ endpoint \in Nat
  BY <1>1, NothingElse DEF Access, CallsFit, Registering, Typed, TypeOK
<1>7. e \notin crossed /\ rows'[e].secret # Absent => call[t].secret = rows'[e].secret
  BY <1>1, <1>3 DEF Upserted, IsSecretIssued, Access, SecretsMatch
<1>. HIDE DEF e
<1>8. CallsFit' /\ OverlapsCross' /\ PrefsAreKnown'
  <2>1. \A u \in Tabs : call'[u].endpoint = call[u].endpoint
    BY <1>2 DEF e
  <2>2. CallsFit'
    BY <1>1, <1>2, <1>3, <1>6, <2>1 DEF Access, CallsFit, Registering, Removing
  <2>3. OverlapsCross'
    BY <1>1, <1>2, <2>1 DEF Access, OverlapsCross, Idling
  <2>. QED  BY <1>1, <2>2, <2>3 DEF Access, PrefsAreKnown
<1>9. Accessible'
  <2>1. Accessible!1'
    BY <1>1, <1>2, <1>3, <1>5, <1>6 DEF Access, Accessible, Registering, Idling, e
  <2>2. Accessible!2'
    <3>. SUFFICES ASSUME NEW u \in Tabs, call'[u].pc = "removed",
                         call'[u].endpoint \notin crossed
                  PROVE  rows'[call'[u].endpoint] = Absent
      BY <1>1 DEF Accessible
    <3>1. u # t /\ call'[u] = call[u] /\ call[u].endpoint \in Endpoints /\ ~Idling(u)
      BY <1>2 DEF Typed, TypeOK, Call, Idling
    <3>2. call[u].endpoint # e
      BY <1>5, <3>1
    <3>. QED  BY <1>3, <3>1, <3>2 DEF Access, Accessible
  <2>3. Accessible!3'
    BY <1>1, <1>2, <1>3, <1>5, <1>6 DEF Access, Accessible, Remembers, Idling
  <2>. QED  BY <2>1, <2>2, <2>3 DEF Accessible
<1>10. SecretsMatch'
  <2>. SUFFICES ASSUME NEW f \in Endpoints, f \notin crossed', IsSecretIssued(f)'
                PROVE  SecretsMatch!(f)!2'
    BY DEF SecretsMatch
  <2>1. CASE f = e
    <3>1. \A u \in Tabs : call'[u].endpoint = f => u = t
      BY <1>1, <1>2, <1>5, <2>1, NothingElse
    <3>2. f \notin crossed /\ call[t].secret = rows'[f].secret
      BY <1>1, <1>7, <2>1 DEF IsSecretIssued
    <3>3. call'[t].endpoint = f /\ call'[t].pc = "answer" /\ call'[t].secret = call[t].secret
      BY <1>2, <2>1
    <3>. QED  BY <3>1, <3>2, <3>3
  <2>2. CASE f # e
    <3>1. rows'[f] = rows[f] /\ IsSecretIssued(f) /\ f \notin crossed
      BY <1>1, <1>3, <2>2 DEF IsSecretIssued
    <3>. QED  BY <1>1, <1>2, <2>2, <3>1 DEF Access, SecretsMatch, Remembers
  <2>. QED  BY <2>1, <2>2
<1>. QED  BY <1>8, <1>9, <1>10 DEF Access

LEMMA AccessRemove ==
  ASSUME ConstantsAssumption, Typed, Access, NEW t \in Tabs, Remove(t)
  PROVE  Access'
<1>. DEFINE e == call[t].endpoint
<1>1. /\ UNCHANGED <<endpoint, keeps, prefs, memory, crossed>>
      /\ call[t].pc = "remove" /\ e \in Endpoints
      /\ call'[t].pc = "removed" /\ call'[t].endpoint = e
      /\ \A u \in Tabs \ {t} : call'[u] = call[u]
      /\ rows'[e] = Absent /\ \A f \in Endpoints \ {e} : rows'[f] = rows[f]
  BY DEF Remove, RemoveWithDependentRequests, client, Typed, TypeOK, Idling, Call
<1>. HIDE DEF e
<1>2. endpoint \in Endpoints
      /\ \A u \in Tabs : call[u].pc # "idle" => call[u].endpoint \in Endpoints
  BY DEF Typed, TypeOK, Call, Idling
<1>3. CallsFit' /\ OverlapsCross' /\ PrefsAreKnown'
  BY <1>1 DEF Access, CallsFit, OverlapsCross, PrefsAreKnown, Idling, Registering, Removing, e
<1>4. Accessible'
  BY <1>1, <1>2 DEF Access, Accessible, Remembers, Registering, e
<1>5. SecretsMatch'
  BY <1>1 DEF Access, SecretsMatch, IsSecretIssued, Remembers
<1>. QED  BY <1>3, <1>4, <1>5 DEF Access

\* The tab and the preferences remember what was registered; that a later
\* endpoint had a row already would have crossed.
LEMMA AccessAnswer ==
  ASSUME ConstantsAssumption, Typed, Access, NEW t \in Tabs, Answered(t)
  PROVE  Access'
<1>. DEFINE m == [endpoint |-> call[t].endpoint,
                  secret |-> IF keeps THEN call[t].secret ELSE Absent]
<1>1. /\ UNCHANGED <<endpoint, keeps, rows, crossed>>
      /\ call[t].pc = "answer" /\ call'[t] = Idle
      /\ \A u \in Tabs \ {t} : call'[u] = call[u] /\ memory'[u] = memory[u]
      /\ prefs' = m /\ memory'[t] = m
  BY DEF Answered, server, Typed, TypeOK
<1>2. /\ call[t].endpoint \in Endpoints /\ endpoint \in Endpoints /\ ~Idling(t)
      /\ m \in Known /\ m # Absent
      /\ \A e \in Endpoints : Remembers(m, e) <=> e = call[t].endpoint
      /\ keeps => m.secret = call[t].secret
  BY <1>1, NothingElse DEF Typed, TypeOK, Call, Idling, Known, Remembers
<1>. HIDE DEF m
<1>3. CallsFit' /\ OverlapsCross' /\ PrefsAreKnown'
  BY <1>1, <1>2, IdleIsCall DEF Access, CallsFit, OverlapsCross, PrefsAreKnown, Idling,
                                Registering, Removing
<1>4. Accessible'
  <2>1. Accessible!1'
    BY <1>1, IdleIsCall DEF Access, Accessible, Registering
  <2>2. Accessible!2'
    BY <1>1, IdleIsCall DEF Access, Accessible
  <2>3. Accessible!3'
    <3>1. rows[endpoint] # Absent /\ endpoint \notin crossed => call[t].endpoint = endpoint
      BY <1>1 DEF Access, Accessible, Registering
    <3>. QED  BY <1>1, <1>2, <3>1
  <2>. QED  BY <2>1, <2>2, <2>3 DEF Accessible
<1>5. SecretsMatch'
  <2>. SUFFICES ASSUME NEW e \in Endpoints, e \notin crossed, IsSecretIssued(e)
                PROVE  SecretsMatch!(e)!2'
    BY <1>1 DEF SecretsMatch, IsSecretIssued
  <2>1. \A u \in Tabs : call'[u].endpoint = e /\ call'[u].pc \in {"update", "answer"} =>
            call'[u].secret = rows[e].secret
    BY <1>1, IdleIsCall DEF Access, SecretsMatch
  <2>2. keeps /\ Remembers(m, e) => m.secret = rows[e].secret
    BY <1>1, <1>2 DEF Access, SecretsMatch
  <2>. QED  BY <1>1, <2>1, <2>2
<1>. QED  BY <1>3, <1>4, <1>5 DEF Access

\* The tab and the preferences forget what was removed; that another tab knew a
\* row would have crossed.
LEMMA AccessForget ==
  ASSUME ConstantsAssumption, Typed, Access, NEW t \in Tabs, ForgetSubscription(t)
  PROVE  Access'
<1>1. /\ UNCHANGED <<endpoint, keeps, rows>> /\ crossed \subseteq crossed'
      /\ call[t].pc = "removed" /\ call'[t] = Idle
      /\ \A u \in Tabs \ {t} : call'[u] = call[u] /\ memory'[u] = memory[u]
      /\ prefs' = Absent /\ memory'[t] = Absent
      /\ \A u \in Tabs \ {t} : memory[u] # Absent => memory[u].endpoint \in crossed'
  BY DEF ForgetSubscription, server, Typed, TypeOK
<1>2. memory[t] # Absent /\ memory[t].endpoint = call[t].endpoint /\ endpoint \in Endpoints
  BY <1>1 DEF Access, CallsFit, Removing, Typed, TypeOK
<1>3. CallsFit' /\ OverlapsCross' /\ PrefsAreKnown'
  BY <1>1, IdleIsCall DEF Access, CallsFit, OverlapsCross, PrefsAreKnown, Idling,
                          Registering, Removing
<1>4. Accessible'
  <2>1. Accessible!1'
    BY <1>1, IdleIsCall DEF Access, Accessible, Registering
  <2>2. Accessible!2'
    BY <1>1, IdleIsCall DEF Access, Accessible
  <2>3. Accessible!3'
    <3>. SUFFICES ASSUME rows[endpoint] # Absent, endpoint \notin crossed'
                  PROVE  \E u \in Tabs : call'[u].endpoint = endpoint /\ call'[u].pc # "find"
      BY <1>1 DEF Accessible
    <3>1. call[t].endpoint # endpoint
      BY <1>1 DEF Access, Accessible
    <3>2. ~Remembers(prefs, endpoint)
      BY <1>1, <1>2, <3>1 DEF Access, PrefsAreKnown, Remembers
    <3>3. PICK u \in Tabs : call[u].endpoint = endpoint /\ call[u].pc # "find"
      BY <1>1, <3>2 DEF Access, Accessible
    <3>. QED  BY <1>1, <3>1, <3>3
  <2>. QED  BY <2>1, <2>2, <2>3 DEF Accessible
<1>5. SecretsMatch'
  BY <1>1, IdleIsCall DEF Access, SecretsMatch, IsSecretIssued, Remembers
<1>. QED  BY <1>3, <1>4, <1>5 DEF Access

LEMMA AccessStep ==
  ASSUME ConstantsAssumption, Typed, Access, [Next]_vars
  PROVE  Access'
<1>1. CASE RenewEndpoint
  BY <1>1, AccessRenewal
<1>2. ASSUME NEW t \in Tabs, EnsureSubscribed(t)
      PROVE  Access'
  <2>1. /\ call'[t].pc = "find" /\ call'[t].endpoint = endpoint /\ endpoint \in Endpoints
        /\ \A u \in Tabs \ {t} : call'[u] = call[u]
    BY <1>2 DEF EnsureSubscribed, Typed, TypeOK
  <2>2. Idling(t) /\ Cross(endpoint) /\ UNCHANGED <<client, rows>>
    BY <1>2 DEF EnsureSubscribed, server
  <2>3. call' \in [Tabs -> Call]
    BY <1>2, TypedUseTab DEF UseTab, Typed, TypeOK
  <2>. QED  BY <2>1, <2>2, <2>3, AccessCall
<1>3. ASSUME NEW t \in Tabs, CancelAll(t)
      PROVE  Access'
  <2>1. /\ memory[t] # Absent /\ memory[t].endpoint \in Endpoints
        /\ call'[t].pc = "remove" /\ call'[t].endpoint = memory[t].endpoint
        /\ \A u \in Tabs \ {t} : call'[u] = call[u]
    BY <1>3 DEF CancelAll, Typed, TypeOK, Known
  <2>2. Idling(t) /\ Cross(memory[t].endpoint) /\ UNCHANGED <<client, rows>>
    BY <1>3 DEF CancelAll, server
  <2>3. call' \in [Tabs -> Call]
    BY <1>3, TypedUseTab DEF UseTab, Typed, TypeOK
  <2>. QED  BY <2>1, <2>2, <2>3, AccessCall
<1>4. ASSUME NEW t \in Tabs, ScheduleRace(t) \/ CancelRace(t)
      PROVE  Access'
  BY <1>4, AccessRests DEF ScheduleRace, CancelRace
<1>5. ASSUME NEW t \in Tabs, Serve(t) \/ LoseAnswer(t)
      PROVE  Access'
  BY <1>5, AccessFind, AccessIdle, AccessUpsert, AccessRemove, AccessAnswer, AccessForget
     DEF Serve
<1>6. ASSUME NEW e \in Endpoints,
             \/ JudgeSubscription(e) \/ RemoveJudged(e) \/ SettleRequests(e)
      PROVE  Access'
  BY <1>6, AccessRests DEF JudgeSubscription, RemoveJudged, SettleRequests,
                           RemoveWithDependentRequests, client, Typed, TypeOK
<1>7. ASSUME NEW e \in Endpoints, RefreshByDispatch(e)
      PROVE  Access'
  <2>1. \A f \in Endpoints : \/ rows'[f] = Absent
                             \/ rows[f] # Absent /\ rows'[f].secret = rows[f].secret
    BY <1>7 DEF RefreshByDispatch, Typed, TypeOK, Row
  <2>. QED  BY <1>7, <2>1, AccessRests DEF RefreshByDispatch
<1>8. CASE SelectStale \/ DeleteStale
  BY <1>8, AccessRests DEF SelectStale, DeleteStale, RemoveWithDependentRequests, client,
                           Typed, TypeOK
<1>9. CASE Tick
  <2>1. \A f \in Endpoints : \/ rows'[f] = Absent
                             \/ rows[f] # Absent /\ rows'[f].secret = rows[f].secret
    BY <1>9 DEF Tick, Typed, TypeOK, Row
  <2>. QED  BY <1>9, <2>1, AccessRests DEF Tick
<1>10. CASE UNCHANGED vars
  BY <1>10, AccessRests DEF vars, client, server
<1>. QED  BY <1>1, <1>2, <1>3, <1>4, <1>5, <1>6, <1>7, <1>8, <1>9, <1>10, AccessReload
          DEF Next, Use, UseTab, Maintain

\* A browser loses access to the subscription of its endpoint, and the secret it
\* keeps its meaning, only after calls overlapped or an answer was lost
\* (web_notification_scheduler.dart; pushUsecase.ts, upsertSubscription).
THEOREM AccessKept == ASSUME ConstantsAssumption PROVE Spec => []ClientsKeepAccess
<1>1. Init => Typed /\ Access
  BY TypedInit, AccessInit
<1>2. Typed /\ Access /\ [Next]_vars => (Typed /\ Access)'
  BY TypedStep, AccessStep
<1>3. Typed /\ Access => ClientsKeepAccess
  <2>. SUFFICES ASSUME Typed, Access
                PROVE  ClientsKeepAccess
    OBVIOUS
  <2>1. LockedOut => endpoint \in crossed
    BY DEF LockedOut, IsSecretIssued, Waiting, Access, Accessible
  <2>2. ASSUME NEW e \in Endpoints \ crossed, keeps, IsSecretIssued(e), Remembers(prefs, e),
               Waiting(e) = {}
        PROVE  prefs.secret = rows[e].secret
    BY <2>2 DEF Waiting, Access, SecretsMatch
  <2>. QED  BY <2>1, <2>2 DEF ClientsKeepAccess
<1>. QED  BY <1>1, <1>2, <1>3, PTL DEF Spec

-----------------------------------------------------------------------------
(* What is deleted. *)

\* The rows the purge has selected are as old as they were, or were used again.
SelectedUnused ==
    \A e \in purging : rows[e] # Absent => rows[e].age = Retention \/ e \in freshened

\* How a step treats the row of an endpoint: it goes with its requests, it is
\* used, it ages, or it stays.
RowSteps ==
    \A e \in Endpoints :
        \/ rows'[e] = Absent /\ (rows[e] # Absent => e \notin requests')
        \/ rows'[e] # Absent /\ (e \in purging => e \in freshened')
        \/ /\ rows'[e] # Absent /\ rows[e] # Absent
           /\ rows[e].age = Retention => rows'[e].age = Retention
        \/ rows'[e] = rows[e]

\* Purges and late requests are known to their histories.
Deleted == SelectedUnused /\ OrphansAreLateRequests

LEMMA DeletedFrame ==
  ASSUME Typed, Deleted, RowSteps,
         purging' = purging /\ freshened \subseteq freshened',
         \A e \in requests' : e \in requests \/ e \in orphaned' \/ rows'[e] # Absent,
         orphaned \subseteq orphaned'
  PROVE  Deleted'
<1>1. SelectedUnused'
  BY DEF Typed, TypeOK, Deleted, RowSteps, SelectedUnused
<1>2. requests \subseteq Endpoints
  BY DEF Typed, TypeOK
<1>3. ASSUME NEW e \in requests', rows'[e] = Absent, e \in requests
      PROVE  e \in orphaned'
  BY <1>2, <1>3 DEF Deleted, RowSteps, OrphansAreLateRequests
<1>4. OrphansAreLateRequests'
  BY <1>3 DEF OrphansAreLateRequests
<1>. QED  BY <1>1, <1>4 DEF Deleted

LEMMA DeletedStep ==
  ASSUME ConstantsAssumption, Typed, Deleted, [Next]_vars
  PROVE  Deleted'
<1>1. CASE UNCHANGED <<rows, requests, purging, freshened, orphaned>>
  BY <1>1 DEF Deleted, SelectedUnused, OrphansAreLateRequests
<1>2. ASSUME NEW t \in Tabs, ScheduleRace(t)
      PROVE  Deleted'
  BY <1>2, DeletedFrame DEF ScheduleRace, RowSteps
<1>3. ASSUME NEW t \in Tabs, CancelRace(t)
      PROVE  Deleted'
  BY <1>3, DeletedFrame DEF CancelRace, RowSteps
<1>4. ASSUME NEW t \in Tabs, Upsert(t)
      PROVE  Deleted'
  <2>0. call[t].endpoint \in Endpoints /\ call[t] \in Call
    BY <1>4 DEF Upsert, Typed, TypeOK, Call, Idling
  <2>1. Upserted(t) # Absent
    BY <2>0, NothingElse DEF Upserted, Row, Typed, TypeOK, Call
  <2>2. RowSteps
    BY <1>4, <2>1 DEF Upsert, RowSteps, Typed, TypeOK
  <2>. QED  BY <1>4, <2>2, DeletedFrame DEF Upsert
<1>5. ASSUME NEW t \in Tabs, Remove(t)
      PROVE  Deleted'
  <2>1. RowSteps
    BY <1>5 DEF Remove, RemoveWithDependentRequests, RowSteps
  <2>. QED  BY <1>5, <2>1, DeletedFrame DEF Remove, RemoveWithDependentRequests
<1>6. ASSUME NEW e \in Endpoints, RemoveJudged(e) \/ SettleRequests(e)
      PROVE  Deleted'
  <2>1. RowSteps
    BY <1>6 DEF RemoveJudged, SettleRequests, RemoveWithDependentRequests, RowSteps
  <2>. QED  BY <1>6, <2>1, DeletedFrame
            DEF RemoveJudged, SettleRequests, RemoveWithDependentRequests
<1>7. ASSUME NEW e \in Endpoints, RefreshByDispatch(e)
      PROVE  Deleted'
  <2>1. rows'[e] # Absent /\ \A f \in Endpoints \ {e} : rows'[f] = rows[f]
    BY <1>7, NothingElse DEF RefreshByDispatch, Typed, TypeOK, Row
  <2>2. RowSteps
    BY <1>7, <2>1 DEF RefreshByDispatch, RowSteps
  <2>. QED  BY <1>7, <2>2, DeletedFrame DEF RefreshByDispatch
<1>8. CASE SelectStale
  BY <1>8 DEF SelectStale, StaleRows, Deleted, SelectedUnused, OrphansAreLateRequests
<1>9. CASE DeleteStale
  <2>1. /\ rows' = [e \in Endpoints |-> IF e \in purging THEN Absent ELSE rows[e]]
        /\ requests' = requests \ purging /\ purging' = {} /\ orphaned' = orphaned
    BY <1>9 DEF DeleteStale, RemoveWithDependentRequests
  <2>2. requests \subseteq Endpoints
    BY DEF Typed, TypeOK
  <2>. QED  BY <2>1, <2>2 DEF Deleted, SelectedUnused, OrphansAreLateRequests
<1>10. CASE Tick
  <2>1. ASSUME NEW e \in Endpoints, rows[e] # Absent
        PROVE  /\ rows'[e] # Absent
               /\ rows[e].age = Retention => rows'[e].age = Retention
    <3>1. /\ rows[e] \in Row /\ rows[e].age \in 0..Retention
          /\ rows'[e] = [rows[e] EXCEPT !.age = IF rows[e].age < Retention
                                               THEN rows[e].age + 1 ELSE rows[e].age]
      BY <1>10, <2>1 DEF Tick, Typed, TypeOK, Row
    <3>2. rows'[e] # Absent
      BY <1>10, <2>1, TypedOthers, NothingElse DEF Tick, Typed, TypeOK, Row
    <3>. QED  BY <3>1, <3>2, NothingElse DEF Row
  <2>2. ASSUME NEW e \in Endpoints, rows[e] = Absent
        PROVE  rows'[e] = Absent
    BY <1>10, <2>2 DEF Tick
  <2>3. RowSteps
    BY <2>1, <2>2 DEF RowSteps
  <2>. QED  BY <1>10, <2>3, DeletedFrame DEF Tick
<1>11. ASSUME NEW t \in Tabs,
              \/ OpenTab(t) \/ EnsureSubscribed(t) \/ CancelAll(t)
              \/ FindSecret(t) \/ Refuse(t) \/ Answered(t) \/ ForgetSubscription(t)
              \/ LoseAnswer(t)
       PROVE  UNCHANGED <<rows, requests, purging, freshened, orphaned>>
  BY <1>11 DEF OpenTab, EnsureSubscribed, CancelAll, FindSecret, Refuse, RefusedUnwritten,
               Answered, ForgetSubscription, LoseAnswer, server
<1>12. ASSUME NEW e \in Endpoints, JudgeSubscription(e)
       PROVE  UNCHANGED <<rows, requests, purging, freshened, orphaned>>
  BY <1>12 DEF JudgeSubscription
<1>13. CASE RenewEndpoint \/ UNCHANGED vars
  BY <1>1, <1>13 DEF RenewEndpoint, vars, server
<1>. QED  BY <1>1, <1>2, <1>3, <1>4, <1>5, <1>6, <1>7, <1>8, <1>9, <1>10, <1>11, <1>12, <1>13
          DEF Next, Use, UseTab, Serve, Maintain

LEMMA DeletedInit ==
  ASSUME Init
  PROVE  Deleted
BY DEF Init, Deleted, SelectedUnused, OrphansAreLateRequests

\* A notification request without its subscription was asked for after the
\* subscription had gone (pushSubscriptionRepository.ts,
\* removeWithDependentRequests).
THEOREM OrphansExplained == ASSUME ConstantsAssumption PROVE Spec => []OrphansAreLateRequests
<1>1. Init => Typed /\ Deleted
  BY TypedInit, DeletedInit
<1>2. Typed /\ Deleted /\ [Next]_vars => (Typed /\ Deleted)'
  BY TypedStep, DeletedStep
<1>3. Deleted => OrphansAreLateRequests
  BY DEF Deleted
<1>. QED  BY <1>1, <1>2, <1>3, PTL DEF Spec

\* The purge deletes a subscription in use only if it was used again between its
\* two statements (pushSubscriptionRepository.ts, purgeStale).
THEOREM PurgesJustified == ASSUME ConstantsAssumption PROVE Spec => PurgesOnlyUnused
<1>1. Init => Typed /\ Deleted
  BY TypedInit, DeletedInit
<1>2. Typed /\ Deleted /\ [Next]_vars => (Typed /\ Deleted)'
  BY TypedStep, DeletedStep
<1>3. Deleted /\ [Next]_vars => [PurgesUnused]_vars
  BY DEF Deleted, SelectedUnused, PurgesUnused
<1>. QED  BY <1>1, <1>2, <1>3, PTL DEF Spec, PurgesOnlyUnused
=============================================================================
