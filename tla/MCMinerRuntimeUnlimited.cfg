SPECIFICATION RuntimeSpec
CONSTANTS
    MaxJobs = 2
    MaxLines = 2
    RequestSec = 1
    NotifySec = 1
    NonceCount = 2
    ThreadCount = 1
    MaxCycles = 0
    MaxReconnect = 0
    InitialSec = 1
    MaxSec = 3
    UIntMod = 16
    EmitEachCycle = FALSE
    WriteOutcomes <- Unreliable
    FailureBound = 2
INVARIANTS
    SharesReconcile
    BackoffSchedule
PROPERTIES
    ImplementsLedger
    StopEndsRun
