\* Two instances, two steps each, one retry, every loss and death; two dispatches
\* of one request, registered up to three times, and every death.
SPECIFICATION MCSpec
CONSTANTS
    Instances = {i1, i2}
    RaceTypeCount = 1
    SkippingRace = {1}
    MaxAttempts = 2
    Stale = 2
    Losses = TRUE
    Deaths = TRUE
    Nobody = Nobody
    s1 = s1
    r1 = r1
    d1 = d1
    d2 = d2
INVARIANTS TypeOK LiveClaimHoldsLock DeathsCostNoPush
PROPERTIES LeaseSpec OwnLockNeverRefuses
