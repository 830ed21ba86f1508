\* Five requests for two tokens: a queue of up to three handlers, fair goroutines.
SPECIFICATION FairSpec
CONSTANTS
    Requests = {r1, r2, r3, r4, r5}
    Cap = 2
INVARIANTS
    TypeOK
    TokensAreHeld
    NobodyWaitsInVain
PROPERTIES
    IsWriterPool
    BlockedIsAnswered
