SPECIFICATION ScheduledSpec
CONSTANTS
    Worker = {w1}
    Reconciler = {}
    Cfg <- MCCfg
    DryRunModes = {FALSE}
    Exposures <- MCTwoSided
    MaxPlans = 2
    MaxExposures = 2
    MaxRepeats = 0
    MaxTime = 3
    Environment = {"sync", "manual"}
PROPERTIES
    LockComesFree
    PendingResolved
    GuardReopens
CHECK_DEADLOCK FALSE
