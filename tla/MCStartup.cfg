SPECIFICATION MCSpec
CONSTANTS
    UIntMax = 100000
    HardwareConcurrency = 8
    ULongMax = 1000000
    Texts <- MCTexts
    FileSystems <- MCFileSystems
    CommandLines <- MCCommandLines
    Environments <- MCEnvironments
INVARIANTS
    StartupTypeOK
    EffectiveSettings
    StartedIsRunnable
