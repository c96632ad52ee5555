\* Two dispatches of two requests of one subscription, in one chunk, fail again
\* and again; with the bounds of Limited they take one at a time.  One instance of
\* each other component.
SPECIFICATION MCFairSpec
CONSTANTS
    i1 = i1
    i2 = i2
    c1 = c1
    c2 = c2
    t1 = t1
    s1 = s1
    s2 = s2
    x = x
    r1 = r1
    r2 = r2
    p1 = p1
    Absent = Absent
    Subscriptions = {s1}
    Races = {r1, r2}
    Dispatchers = {i1, i2}
    FireTimes = {1}
    Limit = 2
    ChunkSize = 2
    MaxFailures = 2
    Retention = 1
    FailureCap = 3
    MaxNow = 1
    MaxRegistrations = 1
    Crashes = FALSE
INVARIANTS ClaimBudget SettledMeansSent ExceededIsBeingPurged
PROPERTIES DeliverySpec LockMovesOn LockoutEnds IssuesFollowCondition DueSettles Converges
CHECK_DEADLOCK FALSE
