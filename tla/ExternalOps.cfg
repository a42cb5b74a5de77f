SPECIFICATION Spec
CONSTANTS
    MaxOrders = 3
    ClientIds = {"", "c"}
    Keys = {"", "k1", "k2"}
    Symbols = {"btc"}
    Handler = {h1, h2}
    Account = {1, 2}
    Stored <- const_Stored
    Refs <- const_Refs
    Quantities = {1}
    Leverages = {2}
    Attempts = 4
    Budgets <- const_Budgets
INVARIANTS
    OpenOrderFollowed
    ExhaustedAfterAll
    FollowedWithOwnKey
PROPERTIES
    CloseNeverOpens
    ChainsEnd
CHECK_DEADLOCK FALSE
