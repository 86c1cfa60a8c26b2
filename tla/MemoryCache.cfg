SPECIFICATION Spec
CONSTANTS
    Clients = {c1, c2}
    Janitor = janitor
    Keys = {k1, k2}
    NoItem = NoItem
    Ops = {"set", "add", "delete", "clean", "onevicted"}
    StoredTypes = {"string"}
    TTLs = {1}
    DefaultTTL = 0
    MaxItems = 1
    HasJanitor = TRUE
    Handlers = {"f"}
    Half = 2
    MaxClock = 2
    MaxWrites = 3
INVARIANTS
    LimitOvershoot
    ReportedOnce
PROPERTY
    RefinesTTLMap
SYMMETRY Symmetry
