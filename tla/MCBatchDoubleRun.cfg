\* Nothing fails, yet a run of eight steps outlasts the stale period (six step
\* timeouts, as in the code).
SPECIFICATION Spec
CONSTANTS
    Instances = {i1, i2}
    RaceTypeCount = 3
    SkippingRace = {2}
    MaxAttempts = 3
    Stale = 6
    Losses = FALSE
    Deaths = FALSE
    Nobody = Nobody
SYMMETRY InstanceSymmetry
INVARIANT NoDoubleRun
