\* One key in three layers: a GET with its fill among two writers, with losses in
\* the upper layers, a failing second layer, timeouts, a leaving client, restarts.
SPECIFICATION Spec
CONSTANTS
    k1 = k1  k2 = k2  k3 = k3  v1 = v1  v2 = v2  fresh = fresh
    users = users  orders = orders  legacy = legacy  NoValue = NoValue
    Keys = {k1}
    Values = {v1, v2}
    NumLevels = 3
    Caches = {users}
    CacheOf <- OneCache
    LevelsOf <- AllLevels
    Source <- NothingOutside
    Getters = {g1}
    Writers = {w1, w2}
    AtomicLevels = {2}
    VolatileLevels = {0}
    LossyLevels = {0, 1}
    FaultyLevels = {1}
    FailingApis = {}
    Hasty = {g1, w1}
    MayCrash = TRUE
SYMMETRY ValueSymmetry
INVARIANTS
    MissesAreAboveHits
    LayersReflectLastWrite
    LastLayerFollowsWrites
    AnswersLastWrite
PROPERTIES
    FillLandsOnlyAbove
