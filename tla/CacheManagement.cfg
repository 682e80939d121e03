CONSTANTS
    Cores = 2
    Pages = 28
    Entries = 4
    Component = {"A", "B", "C"}
    Start <- MCStart
    End <- MCEnd
    Tasks <- MCTasks
    CriticalStart = 2
    CriticalEnd = 3
    ColorsStart = 10
    CacheWayCount = 4
    PagesPerColor = 2
    HWWays = 2
    CATBits = 8
    SharedBits = {1, 7}
    Reached = {"C"}
    LruMax = 2
    Variants <- MCVariants
    Nil = Nil
SPECIFICATION Spec
INVARIANTS WaysHeldAndReleased WaysNotShared DataPreserved RunsCachedIfEvicted
PROPERTY AbortsOnlyIfFull
