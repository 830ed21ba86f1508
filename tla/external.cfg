\* Up to four groups for two slots: a group with a key that is no number, a cache
\* without an API, an API that may fail, a leaving client.  The resolver has dropped
\* the ids of unknown caches.
SPECIFICATION FairSpec
CONSTANTS
    u1 = u1  u2 = u2  i1 = i1  iX = iX  f1 = f1  l1 = l1
    users = users  items = items  files = files  legacy = legacy
    Keys = {u1, u2, i1, iX, f1, l1}
    CacheOf <- FourCaches
    Caches = {users, items, files, legacy}
    KeyType <- KeyTypes
    WithUrl = {users, items, legacy}
    Numbers = {i1}
    Source = {u1, i1, l1}
    FailingApis = {users}
    Hasty = TRUE
    MaxParallel = 2
INVARIANTS
    TypeOK
    CountsAgree
    EveryIdOnce
PROPERTIES
    IsExternalSource
    CallReturns
