----------------------------- MODULE FrontFavorites -----------------------------
(***************************************************************************)
(* Favourites in the front: FavoriteIdsNotifier shows a tap at once and    *)
(* saves the resulting set later, when no tap came for a while;            *)
(* RemoteFavoritesRepository sends the difference to the set it believes   *)
(* the server has, one request at a time; toggleFavoriteWithFeedback turns *)
(* a tap back when its save fails.  The first load, saves and taps overlap,*)
(* and a request may fail before or after the server executed it.          *)
(***************************************************************************)
EXTENDS Naturals, Sequences, FiniteSets

CONSTANTS
    Races,
    Slots,              \* saves that may be under way at once
    EarlyTaps,          \* may the user tap before the favourites are loaded?
    Overlaps,           \* may a save start before the one before has ended?
    MaxTaps,            \* bound: taps of the user
    MaxFailures,        \* bound: requests that fail
    Absent              \* not loaded, nothing pending, a free slot

\* A tap that wants to hear of its save: the race, and what it was before.
Feedback == [race : Races, wasFavorite : BOOLEAN]

\* A save under way: what it saves, the requests it still has to make, whether
\* the server has executed the first of them, and who wants to hear of it.
\* A request is the race and whether it is to be a favourite.
Save == [wanted : SUBSET Races, todo : Seq(Races \X BOOLEAN),
         executed : BOOLEAN, listeners : Seq(Feedback)]

ConstantsAssumption ==
    /\ IsFiniteSet(Races) /\ \A S \in SUBSET Races : S # Absent
    /\ Absent \notin Save
    /\ EarlyTaps \in BOOLEAN /\ Overlaps \in BOOLEAN
    /\ MaxTaps \in Nat /\ MaxFailures \in Nat

VARIABLES
    favorites,          \* the table of the api, for this user
    load, snapshot,     \* the first load: where it is, what the server read
    shown,              \* state of the notifier
    manual,             \* _hasManualUpdateSinceBuild
    pending,            \* _pendingRaceIds; the timer runs while there are some
    listeners,          \* who waits for _pendingSaveCompleter
    knownIds,           \* _knownIds of the repository
    saves,              \* saves under way
    taps, failed,       \* counters for the bounds
    lastSaved,          \* history: the last save that ended reported success
    removed             \* history: races that were turned off in the front

client == <<shown, manual, pending, listeners>>
history == <<taps, failed, lastSaved, removed>>
vars == <<favorites, load, snapshot, client, knownIds, saves, history>>

Init ==
    /\ favorites \in SUBSET Races
    /\ load = "sent" /\ snapshot = {}
    /\ shown = Absent /\ manual = FALSE
    /\ pending = Absent /\ listeners = << >>
    /\ knownIds = Absent
    /\ saves = [s \in Slots |-> Absent]
    /\ taps = 0 /\ failed = 0 /\ lastSaved = TRUE /\ removed = {}

-----------------------------------------------------------------------------
(* Loading. *)

\* GET /favorite.
ReadFavorites ==
    /\ load = "sent"
    /\ load' = "read" /\ snapshot' = favorites
    /\ UNCHANGED <<favorites, client, knownIds, saves, history>>

\* The answer: the repository takes it for what the server has; the notifier
\* shows it unless the user was faster.
Loaded ==
    /\ load = "read"
    /\ load' = "done"
    /\ knownIds' = snapshot
    /\ shown' = IF manual THEN shown ELSE snapshot
    /\ UNCHANGED <<favorites, snapshot, manual, pending, listeners, saves, history>>

\* The load fails, after the retries of DioRetryInterceptor.
LoadFails ==
    /\ load \in {"sent", "read"} /\ failed < MaxFailures
    /\ load' = "failed" /\ failed' = failed + 1
    /\ UNCHANGED <<favorites, snapshot, client, knownIds, saves, taps,
                   lastSaved, removed>>

\* Riverpod builds the notifier again, which saves what is pending before.
Rebuild ==
    /\ load = "failed" /\ pending = Absent
    /\ load' = "sent" /\ manual' = FALSE
    /\ UNCHANGED <<favorites, snapshot, shown, pending, listeners, knownIds,
                   saves, history>>

-----------------------------------------------------------------------------
(* Tapping. *)

\* state.value ?? {}
Value == IF shown = Absent THEN {} ELSE shown

\* Faulty variant: a tap forgets what else is a favourite.
ToggledAlone(value, race) == {race} \ value

\* The set after toggle(race).
Toggled(value, race) ==
    IF race \in value THEN value \ {race} ELSE value \cup {race}

\* The user taps a star; on the timeline the tap listens to its save.
Tap(race) ==
    /\ taps < MaxTaps
    /\ EarlyTaps \/ load = "done"
    /\ manual' = TRUE
    /\ shown' = Toggled(Value, race)
    /\ pending' = shown'
    /\ listeners' \in
          {listeners, Append(listeners, [race |-> race, wasFavorite |-> race \in Value])}
    /\ taps' = taps + 1
    /\ removed' = removed \cup ({race} \cap Value)
    /\ UNCHANGED <<favorites, load, snapshot, knownIds, saves, failed, lastSaved>>

\* The user deletes all favourites in the settings.
ClearAll ==
    /\ taps < MaxTaps
    /\ EarlyTaps \/ load = "done"
    /\ manual' = TRUE
    /\ shown' = {} /\ pending' = {}
    /\ taps' = taps + 1
    /\ removed' = Races
    /\ UNCHANGED <<favorites, load, snapshot, listeners, knownIds, saves,
                   failed, lastSaved>>

-----------------------------------------------------------------------------
(* Saving. *)

Known == IF knownIds = Absent THEN {} ELSE knownIds

\* The orders in which a set of requests can be made.
Orders(requests) ==
    {q \in [1..Cardinality(requests) -> requests] :
        \A i, j \in 1..Cardinality(requests) : i # j => q[i] # q[j]}

\* saveFavoriteRaceIds: additions first, then removals.
Requests(wanted) ==
    {a \o b : a \in Orders((wanted \ Known) \X {TRUE}),
              b \in Orders((Known \ wanted) \X {FALSE})}

\* Faulty variant: a save leaves _knownIds as it was.
KnownBefore(wanted) == knownIds

\* _knownIds after a save.
KnownAfter(wanted) == wanted

Free(s) == saves[s] = Absent

\* _flushPendingSave when the timer fires; without requests to make the save
\* ends at once.
FlushPendingSave(s) ==
    /\ pending # Absent /\ Free(s)
    /\ Overlaps \/ \A t \in Slots : Free(t)
    /\ pending' = Absent /\ listeners' = << >>
    /\ \E q \in Requests(pending) :
          IF q = << >>
          THEN /\ knownIds' = KnownAfter(pending) /\ lastSaved' = TRUE
               /\ UNCHANGED saves
          ELSE /\ saves' = [saves EXCEPT ![s] =
                      [wanted |-> pending, todo |-> q, executed |-> FALSE,
                       listeners |-> listeners]]
               /\ UNCHANGED <<knownIds, lastSaved>>
    /\ UNCHANGED <<favorites, load, snapshot, shown, manual, taps, failed, removed>>

\* POST or DELETE /favorite: both can be repeated.
Execute(s) ==
    /\ ~Free(s) /\ ~saves[s].executed
    /\ saves' = [saves EXCEPT ![s].executed = TRUE]
    /\ LET request == Head(saves[s].todo)
       IN favorites' = IF request[2] THEN favorites \cup {request[1]}
                       ELSE favorites \ {request[1]}
    /\ UNCHANGED <<load, snapshot, client, knownIds, history>>

\* The answer: the next request, or the save has succeeded.
Answered(s) ==
    /\ ~Free(s) /\ saves[s].executed
    /\ IF Len(saves[s].todo) > 1
       THEN /\ saves' = [saves EXCEPT ![s].todo = Tail(@), ![s].executed = FALSE]
            /\ UNCHANGED <<knownIds, lastSaved>>
       ELSE /\ saves' = [saves EXCEPT ![s] = Absent]
            /\ knownIds' = KnownAfter(saves[s].wanted) /\ lastSaved' = TRUE
    /\ UNCHANGED <<favorites, load, snapshot, client, taps, failed, removed>>

\* Who among the listeners told asked for a race.
Askers(told, race) == {i \in 1..Len(told) : told[i].race = race}

\* What is shown after the listeners of a failed save, one after the other,
\* have turned their taps back: the last one of a race decides.
TurnedBack(told) ==
    {race \in Races :
        IF Askers(told, race) = {} THEN race \in Value
        ELSE LET last == CHOOSE i \in Askers(told, race) :
                             \A j \in Askers(told, race) : j <= i
             IN told[last].wasFavorite}

\* Some listener calls toggle, even if what is shown ends as it was.
TurnsBack(told) ==
    \E i \in 1..Len(told) :
        (told[i].race \in TurnedBack(SubSeq(told, 1, i - 1))) # told[i].wasFavorite

\* A DioException: the rest of the save is given up and _knownIds stays; the
\* taps that listen are turned back, to be saved again later.
FailRequest(s) ==
    /\ ~Free(s) /\ failed < MaxFailures
    /\ failed' = failed + 1
    /\ saves' = [saves EXCEPT ![s] = Absent]
    /\ lastSaved' = FALSE
    /\ IF TurnsBack(saves[s].listeners)
       THEN /\ shown' = TurnedBack(saves[s].listeners) /\ pending' = shown'
            /\ manual' = TRUE
       ELSE UNCHANGED <<shown, pending, manual>>
    /\ removed' = removed \cup (Value \ TurnedBack(saves[s].listeners))
    /\ UNCHANGED <<favorites, load, snapshot, listeners, knownIds, taps>>

-----------------------------------------------------------------------------
Next ==
    \/ ReadFavorites \/ Loaded \/ LoadFails \/ Rebuild
    \/ \E race \in Races : Tap(race)
    \/ ClearAll
    \/ \E s \in Slots :
          FlushPendingSave(s) \/ Execute(s) \/ Answered(s) \/ FailRequest(s)

Spec == Init /\ [][Next]_vars

-----------------------------------------------------------------------------
(* Properties. *)

TypeOK ==
    /\ favorites \in SUBSET Races
    /\ load \in {"sent", "read", "done", "failed"} /\ snapshot \in SUBSET Races
    /\ shown \in (SUBSET Races) \cup {Absent} /\ manual \in BOOLEAN
    /\ pending \in (SUBSET Races) \cup {Absent}
    /\ listeners \in Seq(Feedback)
    /\ knownIds \in (SUBSET Races) \cup {Absent}
    /\ saves \in [Slots -> Save \cup {Absent}]
    /\ taps \in 0..MaxTaps /\ failed \in 0..MaxFailures
    /\ lastSaved \in BOOLEAN /\ removed \in SUBSET Races

\* A favourite leaves the server only if it was turned off in the front: a save
\* sends the difference to a set the server no longer has, or never had, and
\* must not take with it what nobody touched.
OnlyRemovedDisappears == favorites \ favorites' \subseteq removed
OnlyRemovedDisappear == [][OnlyRemovedDisappears]_vars

\* When every save has ended and the last one reported success, the server has
\* what the front shows.
SettledIsSaved ==
    (load = "done" /\ pending = Absent /\ (\A s \in Slots : Free(s)) /\ lastSaved)
        => favorites = shown
=============================================================================
