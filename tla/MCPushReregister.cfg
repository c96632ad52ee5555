\* A registration while the push of the one before is under way.
SPECIFICATION Spec
CONSTANTS
    Subscriptions = {s1}
    Races = {r1}
    Dispatchers = {d1}
    FireTimes = {0, 1}
    Limit = 1
    ChunkSize = 1
    MaxFailures = 2
    Retention = 0
    FailureCap = 3
    MaxNow = 1
    MaxRegistrations = 2
    Crashes = FALSE
    Absent = Absent
PROPERTY UnsentLeavesByClaim
