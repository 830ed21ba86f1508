\* Batches of keys of two caches, one of which uses the first layer only, and of an
\* unknown cache: partial writes, a failing layer, a failing external API, clients
\* that leave, fills and writers that run out of time.  Fair goroutines.  States
\* that differ in the history variables only are one state: no guard reads them.
SPECIFICATION FairSpec
VIEW NoHistory
CONSTANTS
    k1 = k1  k2 = k2  k3 = k3  v1 = v1  v2 = v2  fresh = fresh
    users = users  orders = orders  legacy = legacy  NoValue = NoValue
    Keys = {k1, k2, k3}
    Values = {fresh}
    NumLevels = 2
    Caches = {users, orders}
    CacheOf <- AndUnknown
    LevelsOf <- MixedLevels
    Source <- NothingForLegacy
    Getters = {g1}
    Writers = {w1}
    AtomicLevels = {1}
    VolatileLevels = {}
    LossyLevels = {}
    FaultyLevels = {0}
    FailingApis = {users}
    Hasty = {g1, w1}
    MayCrash = FALSE
INVARIANTS
    TypeOK
    DisabledLayersEmpty
    CascadeAccounts
PROPERTIES
    GoroutinesEnd
