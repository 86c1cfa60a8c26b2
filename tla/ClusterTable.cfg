SPECIFICATION Spec
CONSTANTS
    a1 = a1
    a2 = a2
    a3 = a3
    s1 = s1
    s2 = s2
    Addrs = {a1, a2, a3}
    Slots = {s1, s2}
    NoAddr = NoAddr
    NoNode = NoNode
    InitOwner <- MCInitOwner
    InitMaster <- MCInitMaster
    Clients = {c1}
    Ops = {"mset", "mget", "slave"}
    SlaveReads = TRUE
    MayClose = TRUE
    MaxChanges = 2
    MaxFaults = 0
INVARIANTS
    SlotsServable
    NoOrphans
CHECK_DEADLOCK FALSE
