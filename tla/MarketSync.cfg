SPECIFICATION FairSpec
CONSTANTS
    Id = {1, 2, 3}
    Request = {r1, r2}
    Exchanges <- const_Exchanges
    Offers <- const_Offers
    Patches <- const_Patches
    Created <- const_Created
    Requested = {h1}
    RequestedJobs <- const_RequestedJobs
    Normal <- const_Normal
    Listings <- const_Listings
    AllowSets = {{"BTC"}, {"BTC", "ETH"}}
    Budgets <- const_Budgets
INVARIANTS
    MarketsTypeOK
    PrimaryOnlyLostToRace
PROPERTIES
    PrimaryStays
    MarketsLostForCause
    CatalogueConverges
CHECK_DEADLOCK FALSE
