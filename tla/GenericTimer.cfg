CONSTANTS
    OneshotEvent = {o1, o2, o3}
    PeriodicEvent = {p1}
    Trigger = {a}
    Ticks = {1, 2, 3}
    Intervals = {0, 1, 3}
    TaskLimit = 1
    Modulus = 4
    Nil = Nil
SPECIFICATION FairSpec
INVARIANTS EventsNotShared
PROPERTIES FiresOnTime FiresPeriodically OneshotEnds
