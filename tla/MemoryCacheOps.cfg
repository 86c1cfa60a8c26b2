SPECIFICATION FairSpec
CONSTANTS
    Clients = {c1}
    Janitor = janitor
    Keys = {k1}
    NoItem = NoItem
    Ops = {"set", "replace", "get", "incr", "decr", "load", "flush", "clean", "onevicted"}
    StoredTypes = {"int", "uint", "float", "string"}
    TTLs = {0, 1}
    DefaultTTL = 2
    MaxItems = 1
    HasJanitor = TRUE
    Handlers = {"f"}
    Half = 2
    MaxClock = 2
    MaxWrites = 2
INVARIANT TypeOK
PROPERTIES
    RefinesTTLMap
    ExpiredCollected
