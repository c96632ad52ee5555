---------------------------- MODULE SingleServices ----------------------------
(***************************************************************************)
(* The services that Services has once, with their variables.              *)
(***************************************************************************)
EXTENDS Naturals

CONSTANTS
    \* The constants of each service, as records.
    MonitorsBounds, RouterBounds, QualityBounds, ReleasesBounds,
    NotificationsBounds, SessionsBounds, DatesBounds,
    Absent

VARIABLES
    service,            \* the service whose behaviour this is
    broken, up, issues, check, crossedTitles, lone,
    configured, live, sent, stage, context, answer,
    clock, due, log, alarm, checked, counted,
    main, published, drafts, job, releaseNote, failures,
    app, marked, content, past, listed, day, settings, scheduled, sync, events,
    disturbed, signedIn, dropped,
    decided, used, granted, valid, screen, join, submits, polls, ceremonies,
    loggingIn, session, stored, writes, calls, hasty, belated,
    instant, batch, todo, step

issueVars == <<broken, up, issues, check, crossedTitles, lone>>
routerVars == <<configured, live, sent, stage, context, answer>>
qualityVars == <<clock, due, log, alarm, checked, counted>>
releaseVars == <<main, published, drafts, job, releaseNote, failures>>
notificationVars == <<app, signedIn, marked, content, past, listed, day, settings,
                      scheduled, sync, events, disturbed, dropped>>
sessionVars == <<decided, used, granted, valid, screen, join, submits, polls,
                 ceremonies, loggingIn, session, stored, writes, calls, hasty,
                 belated>>
dateVars == <<instant, batch, todo, step>>

-----------------------------------------------------------------------------
\* Checks of conditions, which share the list of issues.
Monitors == INSTANCE IssueSync WITH
    Checks <- MonitorsBounds.Checks, Titles <- MonitorsBounds.Titles,
    Pinged <- MonitorsBounds.Pinged, Numbers <- MonitorsBounds.Numbers,
    PerPage <- MonitorsBounds.PerPage, MaxPings <- MonitorsBounds.MaxPings,
    crossed <- crossedTitles

\* Requests in one isolate.
Router == INSTANCE ApiRouter WITH
    Requests <- RouterBounds.Requests, Users <- RouterBounds.Users,
    Sendable <- RouterBounds.Sendable

\* Warnings and the hourly look at them.
Quality == INSTANCE DataQuality WITH
    StepMinutes <- QualityBounds.StepMinutes,
    FirstStep <- QualityBounds.FirstStep, LastStep <- QualityBounds.LastStep,
    MaxWarnings <- QualityBounds.MaxWarnings

\* The release job, while main moves on.
Releases == INSTANCE AutoRelease WITH
    MaxCommits <- ReleasesBounds.MaxCommits,
    MaxFailures <- ReleasesBounds.MaxFailures

\* Synchronisations of notifications.
Notifications == INSTANCE FrontNotifications WITH
    Races <- NotificationsBounds.Races, Graded <- NotificationsBounds.Graded,
    Syncs <- NotificationsBounds.Syncs,
    MaxEvents <- NotificationsBounds.MaxEvents,
    Options <- NotificationsBounds.Options

\* A browser that joins and logs in.
Sessions == INSTANCE FrontSession WITH
    Slots <- SessionsBounds.Slots, MaxJoins <- SessionsBounds.MaxJoins,
    MaxTokens <- SessionsBounds.MaxTokens

\* Batches and the days they work on.
Dates == INSTANCE BatchDates WITH
    RaceTypes <- DatesBounds.RaceTypes, Ranges <- DatesBounds.Ranges,
    Instants <- DatesBounds.Instants, DaysPerMonth <- DatesBounds.DaysPerMonth

ASSUME SingleServicesAssumption ==
    /\ Monitors!ConstantsAssumption /\ Router!ConstantsAssumption
    /\ Quality!ConstantsAssumption /\ Releases!ConstantsAssumption
    /\ Notifications!ConstantsAssumption /\ Sessions!ConstantsAssumption
    /\ Dates!ConstantsAssumption

-----------------------------------------------------------------------------
Runs(s) == service = s
=============================================================================
