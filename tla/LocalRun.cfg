SPECIFICATION LocalSpec
CONSTANTS
    MaxJobs = 1
    MaxLines = 2
    RequestSec = 2
    NotifySec = 2
    NonceCount = 2
    ThreadCount = 1
    MaxCycles = 4
    MaxReconnect = 3
    InitialSec = 1
    MaxSec = 3
    UIntMod = 16
    EmitEachCycle = TRUE
    WriteOutcomes <- Unreliable
    FailureBound = 3
INVARIANT NeverStale
PROPERTIES
    LocalRunCompletes
    PoolEnds
    OneSession
