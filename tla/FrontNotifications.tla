-------------------------- MODULE FrontNotifications --------------------------
(***************************************************************************)
(* The notifications the front keeps scheduled: for the favourite races    *)
(* (app.dart) and for the graded races of the day shown                    *)
(* (timeline_screen.dart).  Each change of either list starts a            *)
(* synchronisation that schedules and cancels one race after the other,    *)
(* awaiting each, while the next change may start another.  Both go by the *)
(* id of the race, so they share a race's one notification.                *)
(*                                                                         *)
(* The listeners compare with "previous".  timelineProvider keeps its last *)
(* value while it loads again.  favoriteRacesProvider does so when the     *)
(* list is refreshed (invalidated, or the clock ticks), and not when       *)
(* something it depends on has changed, a favourite or the session: then   *)
(* it maps the list that loads with whenData, which leaves no value.       *)
(***************************************************************************)
EXTENDS Naturals, FiniteSets

CONSTANTS
    Races,              \* races of the day shown
    Graded,             \* those that notify by themselves
    Syncs,              \* bound: synchronisations at a time
    MaxEvents,          \* bound: what people and the site do, and requests that fail
    Options             \* the settings people use

ConstantsAssumption ==
    /\ Graded \subseteq Races
    /\ Options \subseteq {"notifications", "favorites", "graded", "lead"}
    /\ MaxEvents \in Nat

VARIABLES
    app,                \* closed, starting (no favourites listed yet), running,
                        \* or reloading (favoriteRacesProvider has no value)
    signedIn,
    marked,             \* races that are favourites or have a watched player
    content,            \* what the api says of each race
    past,               \* races whose notification is due no more
    listed,             \* last value of favoriteRacesProvider
    day,                \* last value of timelineProvider(date)
    settings,
    scheduled,          \* what the platform or the api holds for each race
    sync,               \* what each synchronisation still has to do
    events,             \* history: what has happened so far
    disturbed,          \* history: races whose notification was lost track of
    dropped             \* history: races that left the list while it reloaded

vars == <<app, signedIn, marked, content, past, listed, day, settings, scheduled,
          sync, events, disturbed, dropped>>

Nothing == [content |-> 2, lead |-> 0]
Settings == [notifications : BOOLEAN, favorites : BOOLEAN, graded : BOOLEAN,
             lead : 0..1]
IdleSync == [todo |-> {}, removed |-> {}, lead |-> 0]

Init ==
    /\ app = "starting" /\ signedIn = TRUE
    /\ marked = {} /\ past = {} /\ listed = {} /\ day = {}
    /\ content = [r \in Races |-> 0]
    /\ settings = [notifications |-> TRUE, favorites |-> TRUE, graded |-> TRUE,
                   lead |-> 0]
    /\ scheduled = [r \in Races |-> Nothing]
    /\ sync = [s \in Syncs |-> IdleSync]
    /\ events = 0 /\ disturbed = {} /\ dropped = {}

-----------------------------------------------------------------------------
(* Synchronisations. *)

RacesOf(list) == {e[1] : e \in list}

RacesNeedingReschedule(races, previous) == races \ previous

\* Faulty variant: nothing is cancelled.
NothingRemoved(previous, races) == {}

Removed(previous, races) == RacesOf(previous) \ RacesOf(races)

Busy(s) == sync[s] # IdleSync
Touched(s) == RacesOf(sync[s].todo) \cup sync[s].removed

\* Races for which a synchronisation under way has something else to do.
Contested(todo, removed, lead) ==
    {r \in RacesOf(todo) \cup removed : \E s \in Syncs :
        \/ r \in sync[s].removed \ removed
        \/ \E e \in sync[s].todo :
              e[1] = r /\ (e \notin todo \/ sync[s].lead # lead)}

\* A synchronisation starts, in a free slot.  The settings are read once.
Starts(todo, removed, lead) ==
    \E s \in Syncs :
        /\ ~Busy(s)
        /\ sync' = [sync EXCEPT ![s] = [todo |-> todo, removed |-> removed,
                                         lead |-> lead]]

\* What a setting keeps from being scheduled, and what another synchronisation
\* has to do otherwise, is lost track of.
SyncFavoriteNotifications(races, previous, current, lost) ==
    LET wanted == RacesNeedingReschedule(races, previous)
        removed == Removed(previous, races)
        allowed == current.notifications /\ current.favorites
    IN /\ Starts(IF allowed THEN wanted ELSE {}, removed, current.lead)
       /\ disturbed' = disturbed \cup lost
            \cup Contested(wanted, removed, current.lead)
            \cup (removed \cap Graded)
            \cup IF allowed THEN {} ELSE RacesOf(wanted)

ScheduleAutoGradeNotifications(races, previous) ==
    LET graded(list) == {e \in list : e[1] \in Graded}
        wanted == RacesNeedingReschedule(graded(races), graded(previous))
    IN IF settings.notifications /\ settings.graded
       THEN /\ Starts(wanted, {}, settings.lead)
            /\ disturbed' = disturbed \cup Contested(wanted, {}, settings.lead)
       ELSE /\ disturbed' = disturbed \cup RacesOf(wanted)
            /\ UNCHANGED sync

Entries(R) == {<<r, content[r]>> : r \in R}

\* What favoriteRacesProvider has to list: what is yet to start, for a session.
Upcoming == IF signedIn THEN Entries(marked \ past) ELSE {}

\* Races that have a notification, or are about to get one.
Notified == {r \in Races : scheduled[r] # Nothing} \cup UNION {Touched(s) : s \in Syncs}

\* favoriteRacesProvider emits.  Where it had no value, what it does not list is
\* not cancelled.
EmitFavorites ==
    LET unlisted == Notified \ RacesOf(Upcoming)
    IN /\ app \in {"starting", "reloading"} \/ (app = "running" /\ Upcoming # listed)
       /\ app' = "running"
       /\ listed' = Upcoming
       /\ SyncFavoriteNotifications(Upcoming, listed, settings,
                                    IF app = "starting" THEN unlisted ELSE {})
       /\ dropped' = (dropped \ RacesOf(Upcoming))
                       \cup IF app = "reloading" THEN unlisted ELSE {}
       /\ UNCHANGED <<signedIn, marked, content, past, day, settings, scheduled,
                      events>>

\* timelineProvider(date) emits: the races of the day.
EmitDay ==
    /\ app # "closed" /\ day # Entries(Races)
    /\ day' = Entries(Races)
    /\ ScheduleAutoGradeNotifications(day', day)
    /\ UNCHANGED <<app, signedIn, marked, content, past, listed, settings,
                   scheduled, events, dropped>>

Event == events < MaxEvents /\ events' = events + 1

\* A request to schedule or to cancel is executed or fails.
Requested(r, notification) ==
    \/ /\ scheduled' = [scheduled EXCEPT ![r] = notification]
       /\ UNCHANGED <<events, disturbed>>
    \/ /\ Event
       /\ disturbed' = disturbed \cup {r}
       /\ UNCHANGED scheduled

\* scheduleRaceNotification: what is due no more is cancelled instead.
ScheduleRaceNotification(s) ==
    /\ \E e \in sync[s].todo :
        /\ sync' = [sync EXCEPT ![s].todo = @ \ {e}]
        /\ Requested(e[1], IF e[1] \in past THEN Nothing
                           ELSE [content |-> e[2], lead |-> sync[s].lead])
    /\ UNCHANGED <<app, signedIn, marked, content, past, listed, day, settings,
                   dropped>>

\* cancelRaceNotification, once everything is scheduled.
CancelRaceNotification(s) ==
    /\ sync[s].todo = {}
    /\ \E r \in sync[s].removed :
        /\ sync' = [sync EXCEPT ![s].removed = @ \ {r}]
        /\ Requested(r, Nothing)
    /\ UNCHANGED <<app, signedIn, marked, content, past, listed, day, settings,
                   dropped>>

\* The synchronisation is done.
Done(s) ==
    /\ Busy(s) /\ sync[s].todo = {} /\ sync[s].removed = {}
    /\ sync' = [sync EXCEPT ![s] = IdleSync]
    /\ UNCHANGED <<app, signedIn, marked, content, past, listed, day, settings,
                   scheduled, events, disturbed, dropped>>

-----------------------------------------------------------------------------
(* What people, the site and time do. *)

\* favoriteRacesProvider has no value until the list is loaded again.
Reload ==
    /\ app' = IF app = "running" THEN "reloading" ELSE app
    /\ listed' = {}

\* A favourite is switched, here or, with nobody at the app, on another device.
ToggleFavorite ==
    /\ Event
    /\ \E r \in Races : marked' = (marked \ {r}) \cup ({r} \ marked)
    /\ IF signedIn THEN Reload ELSE UNCHANGED <<app, listed>>
    /\ UNCHANGED <<signedIn, content, past, day, settings, scheduled, sync,
                   disturbed, dropped>>

\* A player is watched or no longer, or a race withdrawn: the list is refreshed.
WatchPlayer ==
    /\ Event
    /\ \E r \in Races : marked' = (marked \ {r}) \cup ({r} \ marked)
    /\ UNCHANGED <<app, signedIn, content, past, listed, day, settings, scheduled,
                   sync, disturbed, dropped>>

\* The list fails to load, or loads again with what it had.
ReloadFavorites ==
    /\ Event /\ app = "running"
    /\ Reload
    /\ UNCHANGED <<signedIn, marked, content, past, day, settings, scheduled, sync,
                   disturbed, dropped>>

\* The session ends, and begins again.
LogOut ==
    /\ Event /\ app # "closed" /\ signedIn
    /\ signedIn' = FALSE
    /\ Reload
    /\ UNCHANGED <<marked, content, past, day, settings, scheduled, sync,
                   disturbed, dropped>>

LogIn ==
    /\ app # "closed" /\ ~signedIn
    /\ signedIn' = TRUE
    /\ Reload
    /\ UNCHANGED <<marked, content, past, day, settings, scheduled, sync, events,
                   disturbed, dropped>>

\* The site changes a race.
ChangeRace ==
    /\ Event
    /\ \E r \in Races : content' = [content EXCEPT ![r] = 1 - @]
    /\ UNCHANGED <<app, signedIn, marked, past, listed, day, settings, scheduled,
                   sync, disturbed, dropped>>

\* A notification is due; it is shown if it is scheduled.
Due ==
    /\ Event
    /\ \E r \in Races \ past :
        past' = past \cup {r} /\ scheduled' = [scheduled EXCEPT ![r] = Nothing]
    /\ UNCHANGED <<app, signedIn, marked, content, listed, day, settings, sync,
                   disturbed, dropped>>

\* A switch of the settings starts nothing.
Toggle(option) ==
    /\ Event /\ app # "closed"
    /\ settings' = [settings EXCEPT ![option] = ~@]
    /\ UNCHANGED <<app, signedIn, marked, content, past, listed, day, scheduled,
                   sync, disturbed, dropped>>

\* The lead time starts a synchronisation of the favourites as if all were new.
ChangeLead ==
    /\ Event /\ app # "closed"
    /\ settings' = [settings EXCEPT !.lead = 1 - @]
    /\ IF app = "running" THEN SyncFavoriteNotifications(listed, {}, settings', {})
       ELSE UNCHANGED <<sync, disturbed>>
    /\ UNCHANGED <<app, signedIn, marked, content, past, listed, day, scheduled,
                   dropped>>

\* Another day is shown and the list of this one is forgotten.
LeaveDay ==
    /\ Event /\ app # "closed" /\ day # {}
    /\ day' = {}
    /\ UNCHANGED <<app, signedIn, marked, content, past, listed, settings, scheduled,
                   sync, disturbed, dropped>>

\* The app is closed: its lists and what it still had to do are gone.
Close ==
    /\ Event /\ app # "closed"
    /\ app' = "closed"
    /\ listed' = {} /\ day' = {}
    /\ sync' = [s \in Syncs |-> IdleSync]
    /\ disturbed' = disturbed \cup UNION {Touched(s) : s \in Syncs}
    /\ UNCHANGED <<signedIn, marked, content, past, settings, scheduled, dropped>>

Open ==
    /\ app = "closed"
    /\ app' = "starting"
    /\ UNCHANGED <<signedIn, marked, content, past, listed, day, settings, scheduled,
                   sync, events, disturbed, dropped>>

Next ==
    \/ EmitFavorites \/ EmitDay
    \/ \E s \in Syncs :
        ScheduleRaceNotification(s) \/ CancelRaceNotification(s) \/ Done(s)
    \/ ToggleFavorite \/ WatchPlayer \/ ReloadFavorites \/ LogOut \/ LogIn
    \/ ChangeRace \/ Due
    \/ \E option \in Options \ {"lead"} : Toggle(option)
    \/ "lead" \in Options /\ ChangeLead
    \/ LeaveDay \/ Close \/ Open

Spec == Init /\ [][Next]_vars

-----------------------------------------------------------------------------
(* Properties. *)

TypeOK ==
    /\ app \in {"closed", "starting", "reloading", "running"}
    /\ signedIn \in BOOLEAN
    /\ {marked, past, disturbed, dropped} \subseteq SUBSET Races
    /\ content \in [Races -> 0..1]
    /\ {listed, day} \subseteq SUBSET (Races \X (0..1))
    /\ settings \in Settings
    /\ scheduled \in [Races -> [content : 0..2, lead : 0..1]]
    /\ sync \in [Syncs -> [todo : SUBSET (Races \X (0..1)), removed : SUBSET Races,
                           lead : 0..1]]
    /\ events \in 0..MaxEvents

\* Nothing is under way and the list of favourites is up to date.
Settled ==
    /\ app = "running" /\ \A s \in Syncs : ~Busy(s)
    /\ listed = Upcoming

\* The one notification of a race is what the list of favourites asks for.
Follows(r) ==
    scheduled[r] = IF r \in RacesOf(Upcoming)
                   THEN [content |-> content[r], lead |-> settings.lead]
                   ELSE Nothing

\* Once everything is done, however synchronisations overlapped, the
\* notifications are those of the favourites, with their current content and
\* lead time, and each graded race of the day has one.  Not so a race whose
\* request failed, of which two synchronisations at a time wanted different
\* things, or for which none was made because a setting forbade it, that was
\* dropped while the app was closed or the list reloaded, or whose automatic
\* notification went with the favourite.
NotificationsFollowLists ==
    Settled =>
        /\ \A r \in Races \ (Graded \cup disturbed \cup dropped \cup past) : Follows(r)
        /\ day = Entries(Races) =>
            \A r \in Graded \ (disturbed \cup past) : scheduled[r] # Nothing

\* What leaves the list of favourites is cancelled, as the comment of
\* _syncFavoriteNotifications has it, also where the favourite was switched off.
RemovedAreCancelled ==
    Settled /\ signedIn =>
        \A r \in Races \ (Graded \cup disturbed \cup past) : Follows(r)
=============================================================================
