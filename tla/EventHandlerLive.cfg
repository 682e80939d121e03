CONSTANTS
    c1 = c1 c2 = c2 s1 = s1 s2 = s2 t1 = t1 t2 = t2 i1 = i1
    ev = ev irq = irq shot = shot tick = tick app = app helper = helper
    Timer = Timer A = A B = B C = C
    CPU = {c1, c2}
    SWTask = {t1, t2}
    IntTask = {i1}
    Stack = {s1, s2}
    Component = {Timer, A, B, C}
    TimerComponent = Timer
    Trigger = {tick, app, helper}
    Destination <- MCDestination
    Deps <- MCDeps
    Priority <- MCPriority
    Affinity <- MCAffinity
    InterruptEvent = {irq}
    OneshotEvent = {}
    SWEvent = {ev}
    DummyEvent = dummy
    InitSubscribers <- MCInitSubscribers
    InterruptCPU = {c1}
    TrapCPU = {c1, c2}
    X86 = FALSE
    Budget = 2
    Global = Global
    Nil = Nil
SPECIFICATION FairSpec
PROPERTIES ReadyTaskRuns ExceptionStopsDispatching
CHECK_DEADLOCK FALSE
