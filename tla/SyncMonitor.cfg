SPECIFICATION Spec
CONSTANTS
    ExposureCaller = {x1, x2}
    PositionCaller = {p1}
    RefreshCaller = {}
    Configs = 2
    GroupOf <- MCGroups
    SymbolOf <- MCTwins
    AccountOf <- MCAccounts
    TargetOf <- MCTargets
    Terms <- MCTerms
    Nets <- MCNets
    Books <- MCShort
    Environment = {"deleted", "global"}
    PriceMaxAge = 0
    ExposureStale = 1
    PositionStale = 0
    ExposureTTL = 1
    MaxSkew = 1
    MaxTime = 2
    MaxChanges = 1
    MaxFaults = 1
    MaxBatches = 2
SYMMETRY Callers
INVARIANTS
    BatchAccounted
    CacheNotBehind
    BalancedIsSound
PROPERTIES
    NeverRegress
