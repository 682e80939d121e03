CONSTANTS
    NR_CPUS = 4
    mRegisteredCPUs = 3
    Modulus = 4
    DataCaches <- MCDataCaches
    LoC = 3
    Firmware <- MCFirmware
SPECIFICATION FairStartup
INVARIANTS WorkUninterrupted WaitsUnmasked NoEarlyDispatch StartsPrepared
PROPERTY AllCoresDispatch
CHECK_DEADLOCK FALSE
