SPECIFICATION Spec
CONSTANTS
    Worker = {w1}
    Reconciler = {r1}
    Cfg <- MCCfg
    DryRunModes = {FALSE}
    Exposures <- MCExposures
    MaxPlans = 3
    MaxExposures = 3
    MaxRepeats = 0
    MaxTime = 5
    Environment = {"task", "cancel"}
INVARIANT
    NoDuplicateIfRecorded
CHECK_DEADLOCK FALSE
