SPECIFICATION Spec

CONSTANTS
    Core = {0, 1}
    Script <- MCScript
    FifoSize = 3
    FifoLevel = 2
    InterruptPool <- MCInterruptPool
    TaskPool = 4
    InputSize = 3
    Commands <- MCCommands
    LineCount = 3
    LineLength = 6

CHECK_DEADLOCK FALSE

INVARIANTS KeysConserved LineMaskedOnlyWhileHandled LinesConserved DriversAsNamed
PROPERTIES EveryKeyRead EveryTickHandled
