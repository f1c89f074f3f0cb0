SPECIFICATION RuntimeSpec
CONSTANTS
    MaxJobs = 1
    MaxLines = 2
    RequestSec = 1
    NotifySec = 1
    NonceCount = 2
    ThreadCount = 1
    MaxCycles = 1
    MaxReconnect = 1
    InitialSec = 1
    MaxSec = 3
    UIntMod = 16
    EmitEachCycle = TRUE
    WriteOutcomes <- Writable
    FailureBound = 1
PROPERTY StopIsGraceful
