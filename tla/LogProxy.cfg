SPECIFICATION FairMSPSpec
CONSTANTS
    own = own
    sclog = sclog
    app = app
    Keys <- MCKeys
    OwnKey = own
    ScLog = sclog
    Shards = {s1}
    Conns = {c1}
    Nothing = Nothing
    Enable = TRUE
    RemoteRules <- Changing
    DefaultExpire = 600
    Cmds = {"RPUSH", "LPOP", "BLPOP", "LLEN", "PING", "CLUSTERKEYNODE"}
    MaxReqs = 2
    MaxLen = 1
INVARIANT RpushJudged
PROPERTIES
    CountersKept
    KeepsRules
    RulesPublished
    UnlistedForgotten
CHECK_DEADLOCK FALSE
