\* README: a value found on a level is stored in the higher layers.  The answer of
\* the GET ends the context of the fill that should store it.
SPECIFICATION FairSpec
CONSTANTS
    k1 = k1  k2 = k2  k3 = k3  v1 = v1  v2 = v2  fresh = fresh
    users = users  orders = orders  legacy = legacy  NoValue = NoValue
    Keys = {k1}
    Values = {v1}
    NumLevels = 3
    Caches = {users}
    CacheOf <- OneCache
    LevelsOf <- AllLevels
    Source <- NothingOutside
    Getters = {g1}
    Writers = {w1}
    AtomicLevels = {2}
    VolatileLevels = {}
    LossyLevels = {0, 1}
    FaultyLevels = {}
    FailingApis = {}
    Hasty = {}
    MayCrash = FALSE
PROPERTIES
    FoundIsStored
