SPECIFICATION Spec
CONSTANTS
    Worker = {w1, w2}
    Reconciler = {}
    Cfg <- MCCfg
    DryRunModes = {TRUE, FALSE}
    Exposures <- MCExposures
    MaxPlans = 3
    MaxExposures = 2
    MaxRepeats = 1
    MaxTime = 5
    Environment = {"crash", "reply_lost", "cancel"}
SYMMETRY Symmetry
INVARIANTS
    TypeOK
    ExcessBounded
    CapUnlessUnaccounted
    FreshMeansReflected
    OnePendingExecution
CHECK_DEADLOCK FALSE
