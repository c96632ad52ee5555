\* A registration between the claim and the read of its content.
SPECIFICATION Spec
CONSTANTS
    Subscriptions = {s1}
    Races = {r1}
    Dispatchers = {d1, d2}
    FireTimes = {0, 1}
    Limit = 1
    ChunkSize = 1
    MaxFailures = 2
    Retention = 0
    FailureCap = 3
    MaxNow = 1
    MaxRegistrations = 2
    Crashes = FALSE
    Absent = Absent
SYMMETRY DispatcherSymmetry
INVARIANT NoDoubleSend
