SPECIFICATION FairSpec
CONSTANTS
    Handler = {h1}
    Runner = {}
    Tasker = {t1}
    DryRunModes = {TRUE, FALSE}
    MaxRequests = 2
    MaxAttempts = 2
    MaxStamp = 2
    MaxCrashes = 1
    Environment = {"crash", "stop", "failing", "replica"}
INVARIANT
    DisabledMeansFlat
PROPERTY
    ClosingResolves
CHECK_DEADLOCK FALSE
