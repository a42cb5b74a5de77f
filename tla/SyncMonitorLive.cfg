SPECIFICATION FairSpec
CONSTANTS
    ExposureCaller = {x1}
    PositionCaller = {p1}
    RefreshCaller = {}
    Configs = 1
    GroupOf <- MCOne
    SymbolOf <- MCOne
    AccountOf <- MCOne
    TargetOf <- MCOne
    Terms <- MCTerms
    Nets <- MCNets
    Books <- MCBooksBoth
    Environment = {"deleted", "account", "book", "execution", "runs"}
    PriceMaxAge = 1
    ExposureStale = 1
    PositionStale = 1
    ExposureTTL = 1
    MaxSkew = 0
    MaxTime = 1
    MaxChanges = 1
    MaxFaults = 1
    MaxBatches = 0
PROPERTIES
    MonitorConverges
    ExposureReachesRun
