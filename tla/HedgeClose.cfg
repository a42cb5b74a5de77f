SPECIFICATION Spec
CONSTANTS
    Handler = {h1}
    Runner = {w1}
    Tasker = {t1}
    DryRunModes = {FALSE}
    MaxRequests = 2
    MaxAttempts = 2
    MaxStamp = 2
    MaxCrashes = 1
    Environment = {"auto", "resting", "reenable", "lost", "disconnect", "crash"}
INVARIANTS
    TypeOK
    ClosingHasRequest
    CloseNeverFlips
PROPERTY ImplementsLifecycle
CHECK_DEADLOCK FALSE
