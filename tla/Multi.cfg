SPECIFICATION FairSpec
CONSTANTS
    k1 = k1
    k2 = k2
    k3 = k3
    s1 = s1
    s2 = s2
    Keys <- MCKeys
    Slots = {s1, s2}
    SlotOf <- MCSlotOf
    MaxArgs = 3
    MaxWrites = 1
    Cmds = {"MSET", "MSETNX", "MGET"}
CHECK_DEADLOCK FALSE

INVARIANTS
    SetOk
    GetAligned
PROPERTY MultiReturns
