\* One caller, batches of an expiring and a lasting key, restarts, gets and deletes
\* that are abandoned in their loops.
SPECIFICATION Spec
CONSTANTS
    k1 = k1  k2 = k2  v1 = v1  v2 = v2  t1 = t1  t2 = t2  t3 = t3
    NoValue = NoValue  Never = Never
    Keys = {k1, k2}
    Values = {v1, v2}
    Ttl <- OneStays
    Callers = {t1}
    CallsOf <- AllCalls
    MaxTime = 5
    MayFail = FALSE
    Abortable = {"get", "delete"}
    MaxRestarts = 1
    CollectorRuns = FALSE
SYMMETRY ValueSymmetry
PROPERTIES
    IsTtlStore
