------------------------------ MODULE MCServices ------------------------------
(***************************************************************************)
(* Bounds of the services for TLC.                                         *)
(***************************************************************************)
EXTENDS Services

CONSTANTS c1, c2, t1, t2, j1, s1, s2, s3, x, y, u1, u2

\* Any request next to the registration of a favourite by another user.
Routes == INSTANCE ApiRoutes
Asked ==
    Routes!Registered \cup {<<"HEAD", route[2]>> : route \in Routes!Registered}
    \cup {<<"PUT", "/race">>, <<"GET", "/elsewhere">>}
Favorite == [method |-> "POST", path |-> "/favorite", client |-> "front",
         service |-> FALSE, session |-> u2, large |-> FALSE]

\* Registrations and logins of two users against one invite.
MCRegistration == [Calls |-> {c1, c2}, JoinRequests |-> {}, InviteTtl |-> 1,
    SessionTtl |-> 1, ChallengeTtl |-> 1, MaxNow |-> 1, MaxInvites |-> 1,
    MaxChallenges |-> 2, MaxUsers |-> 2, MaxSessions |-> 1]
\* One user whose session expires and is refreshed.
MCVisits == [Calls |-> {c1, c2}, JoinRequests |-> {}, InviteTtl |-> 1,
    SessionTtl |-> 2, ChallengeTtl |-> 1, MaxNow |-> 3, MaxInvites |-> 1,
    MaxChallenges |-> 1, MaxUsers |-> 1, MaxSessions |-> 1]
\* Decisions on one join request.
MCJoining == [Calls |-> {c1, c2}, JoinRequests |-> {j1}, InviteTtl |-> 1,
    SessionTtl |-> 1, ChallengeTtl |-> 1, MaxNow |-> 1, MaxInvites |-> 2,
    MaxChallenges |-> 1, MaxUsers |-> 1, MaxSessions |-> 0]
\* Two tabs of one browser; one tab whose endpoint changes; and both.
MCBrowser == [Tabs |-> {t1, t2}, MaxEndpoint |-> 1, Secrets |-> {s1, s2, s3},
    Retention |-> 1]
MCRenewal == [Tabs |-> {t1}, MaxEndpoint |-> 2, Secrets |-> {s1, s2},
    Retention |-> 1]
MCRenewedTabs == [Tabs |-> {t1, t2}, MaxEndpoint |-> 2,
    Secrets |-> {s1, s2, s3}, Retention |-> 1]
\* Two checks of two conditions, the second one pinged, one issue per page.
MCMonitors == [Checks |-> {c1, c2}, Titles |-> {x, y}, Pinged |-> {y},
    Numbers |-> 1..2, PerPage |-> 1, MaxPings |-> 2]
MCRouter == [Requests |-> {c1, c2}, Users |-> {u1, u2},
    Sendable |-> [c \in {c1, c2} |->
        IF c = c1 THEN Routes!Possible(Asked, {u1, Absent}) ELSE {Favorite}]]
\* Saves that overlap and fail; saves one after the other; one that fails; a
\* tap before the load.
MCFavorites == [Races |-> {x, y}, Slots |-> {c1, c2}, MaxTaps |-> 3,
    MaxFailures |-> 1]
MCCalmFavorites == [Races |-> {x, y}, Slots |-> {c1}, MaxTaps |-> 4]
MCFailingFavorites == [Races |-> {x, y}, Slots |-> {c1}, MaxTaps |-> 2,
    MaxFailures |-> 1]
MCEarlyFavorites == [Races |-> {x, y}, Slots |-> {c1}, MaxTaps |-> 1,
    MaxFailures |-> 1]
\* The hours around a midnight, in steps of ten minutes.
MCQuality == [StepMinutes |-> 10, FirstStep |-> 130, LastStep |-> 160,
    MaxWarnings |-> 2]
\* Merges while the release job runs, of which one request fails.
MCReleases == [MaxCommits |-> 3, MaxFailures |-> 1]
\* Two races, one of them graded, with two synchronisations at a time.
MCNotifications == [Races |-> {x, y}, Graded |-> {x}, Syncs |-> {c1, c2},
    MaxEvents |-> 4, Options |-> {"notifications", "favorites", "graded", "lead"}]
\* Two join requests and two sessions of one browser.
MCSessions == [Slots |-> {c1, c2}, MaxJoins |-> 2, MaxTokens |-> 2]
\* Ranges one day below, at and above each limit, and a backward one.
MCDates == [RaceTypes |-> {"nar", "overseas", "boatrace"}, DaysPerMonth |-> 30,
    Instants |-> {0, 14, 15},
    Ranges |-> {<<3, 2>>, <<28, 28>>, <<28, 38>>, <<28, 39>>, <<28, 63>>,
                <<28, 64>>, <<28, 418>>, <<28, 419>>}]
=============================================================================
