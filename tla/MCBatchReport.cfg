\* One instance with the retry limit of the code.
SPECIFICATION Spec
CONSTANTS
    Instances = {i1}
    RaceTypeCount = 1
    SkippingRace = {}
    MaxAttempts = 3
    Stale = 6
    Losses = TRUE
    Deaths = FALSE
    Nobody = Nobody
INVARIANT FailuresReported
