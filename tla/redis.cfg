\* Two callers with batches of up to two chunks, one late or lost reply a request,
\* a key that expires.
SPECIFICATION Spec
CONSTANTS
    k1 = k1  k2 = k2  k3 = k3  v1 = v1  t1 = t1  t2 = t2
    NoValue = NoValue
    Keys = {k1, k2, k3}
    Values = {v1}
    Callers = {t1, t2}
    Mortal = {k1}
    MinChunk = 1
    MaxChunk = 2
    MaxAttempts = 2
    BatchesOf <- OneOrAll
    MaxWire = 1
SYMMETRY OtherKeys
INVARIANTS
    TypeOK
    FewestRequests
PROPERTIES
    IsLayerStore
