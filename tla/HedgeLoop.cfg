SPECIFICATION Spec
CONSTANTS
    Configs <- MCConfigs
    Ratios <- MCRatios
    Exposures <- MCExposures
    Marks <- MCMarks
    MaxPosition = 12
INVARIANTS
    SettlesInTwoOrders
    ReduceOnlyIffShrinks
    MonitorAgrees
PROPERTIES
    NeverFlips
    CapRespected
