CONSTANTS
    e1 = e1
    e2 = e2
    e3 = e3
    e4 = e4
    c1 = c1
    c2 = c2
    Element = {e1, e2, e3, e4}
    Nil = Nil
    PriorityLevel = {1, 2, 3}
    Core = {c1, c2}
    All = All
    Priority <- TaskPriority
    Affinity <- TaskAffinity
    Interrupts <- InterruptTasks
    Components <- TaskComponents
SPECIFICATION QueuesSpec
INVARIANTS LinksAgree
PROPERTIES ImplementsList StartedInOrder NoneBetterLeft
