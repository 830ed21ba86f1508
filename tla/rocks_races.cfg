\* Two callers and the collector run into each other, fail, stop half way, restart.
SPECIFICATION Spec
CONSTANTS
    k1 = k1  k2 = k2  v1 = v1  v2 = v2  t1 = t1  t2 = t2  t3 = t3
    NoValue = NoValue  Never = Never
    Keys = {k1, k2}
    Values = {v1}
    Ttl <- OneStays
    Callers = {t1, t2}
    CallsOf <- AllCalls
    MaxTime = 2
    MayFail = TRUE
    Abortable = {"get", "put", "delete"}
    MaxRestarts = 0
    CollectorRuns = TRUE
SYMMETRY CallerSymmetry
INVARIANTS
    TypeOK
    FamiliesAgree
    MapNeverProlongs
