CONSTANTS
    Thread = {0, 1, 2}
    Modulus = 4
    Nil = Nil
    WAY_COUNT = 4
    Words = 3
SPECIFICATION FairProgram
INVARIANTS Synchronised WorkSeparate
PROPERTIES ImplementsFairLock AwaitReturns
