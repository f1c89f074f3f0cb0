SPECIFICATION RuntimeSpec
CONSTANTS
    MaxJobs = 3
    MaxLines = 2
    RequestSec = 2
    NotifySec = 1
    NonceCount = 2
    ThreadCount = 1
    MaxCycles = 3
    MaxReconnect = 2
    InitialSec = 1
    MaxSec = 3
    UIntMod = 16
    EmitEachCycle = TRUE
    WriteOutcomes <- Writable
    FailureBound = 3
INVARIANTS
    RuntimeTypeOK
    CountersAgree
    ReadyIsEarned
    LimitsAndExitCode
    HealthCurrent
