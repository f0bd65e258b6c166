CONSTANTS
    Markets = {m1, m2}
    LiveFeeds = {m1}
    MaxEvents = 2
    Workers = 4
    MaxRequests = 1
    LiquidatableFrom = 2
    MaxPools = 1
    MaxErrors = 1
    None = None
SPECIFICATION Spec
INVARIANTS
    ReloadIsRecent
PROPERTIES
    CacheCatchesUp
    RequestsServed
    
    RoutesAreFound
