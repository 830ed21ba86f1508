SPECIFICATION Spec
CONSTANTS
    Handlers = {h1, h2}
    Cap = 2
    Caches <- MCCaches
    Prefix <- MCPrefix
    Chars = {"u", "l", "1", ":"}
    Sep = ":"
    Ids <- MCIds
    NoId = NoId
    v1 = v1
    v2 = v2
    w = w
    x = x
    Values <- MCValues
    ValuesOf <- MCValuesOf
    Null = Null
    Empty = Empty
    NoValue = NoValue
    GetBatches <- MCGetBatches
    PutBatches <- MCPutBatches
    DeleteBatches <- MCDeleteBatches
    Clients = {"cli"}
INVARIANTS PutsAreStored
