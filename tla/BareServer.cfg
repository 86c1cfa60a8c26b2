SPECIFICATION FairServerSpec
CONSTANTS
    Clients = {c1, c2, c3}
    NoConn = NoConn
    Unix = TRUE
    MayClose = TRUE
INVARIANTS
    OpenTracked
    MapServed
PROPERTY CloseStops
CHECK_DEADLOCK FALSE
