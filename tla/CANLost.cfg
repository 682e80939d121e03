SPECIFICATION Spec
CONSTANTS
    Message = {"r1", "r2", "l", "o", "z"}
    TxMessage = {"s1", "s4"}
    MemMessage = {"s2", "s3", "s0"}
    Malformed = {"s0"}
    ReceiveID = 1
    Id <- MCId
    Length <- MCLength
    Traffic <- MCTraffic
    Garbage = "garbage"
    NoMessage = "none"
    LineCount = 2
    EventPool = 1
    MaxTasks = 3
    MaxPolls = 1
    MaxMisreads = 1

PROPERTIES ClearedOnlyIfRead
CHECK_DEADLOCK FALSE
