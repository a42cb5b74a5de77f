SPECIFICATION Spec
CONSTANTS
    Worker = {w1}
    Reconciler = {r1}
    Cfg <- MCCfg
    DryRunModes = {FALSE}
    Exposures <- MCTwoSided
    MaxPlans = 3
    MaxExposures = 3
    MaxRepeats = 0
    MaxTime = 5
    Environment = {"cancel", "task"}
INVARIANTS
    CapUnlessUnaccounted
    RecordsAreTrue
CHECK_DEADLOCK FALSE
