SPECIFICATION FairSpec
CONSTANTS
    Slots = {s1}
    Masters = {m1, m2}
    Slaves = {r1}
    NoNode = NoNode
    MaxCmds = 3
    MaxUpdates = 1

CHECK_DEADLOCK FALSE
INVARIANTS
    RepliesAligned
    FailureContained
    AtMostOnce
PROPERTY BatchReturns
