\* The services of the api, each by itself.
SPECIFICATION Spec
CONSTANTS
    c1 = c1
    c2 = c2
    t1 = t1
    t2 = t2
    j1 = j1
    s1 = s1
    s2 = s2
    s3 = s3
    x = x
    y = y
    u1 = u1
    u2 = u2
    Absent = Absent
    RegistrationBounds <- MCRegistration
    VisitsBounds <- MCVisits
    JoiningBounds <- MCJoining
    BrowserBounds <- MCBrowser
    RenewalBounds <- MCRenewal
    RenewedTabsBounds <- MCRenewedTabs
    MonitorsBounds <- MCMonitors
    RouterBounds <- MCRouter
    FavoritesBounds <- MCFavorites
    CalmFavoritesBounds <- MCCalmFavorites
    FailingFavoritesBounds <- MCFailingFavorites
    EarlyFavoritesBounds <- MCEarlyFavorites
    QualityBounds <- MCQuality
    ReleasesBounds <- MCReleases
    NotificationsBounds <- MCNotifications
    SessionsBounds <- MCSessions
    DatesBounds <- MCDates
INVARIANTS TypeOK InviteIsOneUse ChallengePassesOnce SessionsHaveOwners DecisionsMatchInvites
INVARIANTS ClientsKeepAccess OrphansAreLateRequests OneIssuePerTitle
PROPERTIES SessionsEndForGood DecisionsStand PurgesOnlyUnused
PROPERTIES LoneCheckSettles OnlyRemovedDisappear
INVARIANTS AlarmIsRecent FrontReachesItsRoutes SettledIsSaved HandlersKnowTheirCaller
INVARIANTS ReleasesInOrder NotificationsFollowLists InviteRegistersAlone WorksOnAskedDays
PROPERTIES SessionOutlivesFailures
CHECK_DEADLOCK FALSE
