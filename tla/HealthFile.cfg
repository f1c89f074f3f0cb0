\* Three runs, so that a torn file outlives a run that writes nothing.
SPECIFICATION HealthSpec
CONSTANTS
    Pieces = 2
    MaxRuns = 3
    MaxCount = 3
INVARIANTS
    HealthTypeOK
    TornMeansInterrupted
    FileTellsState
PROPERTIES
    ReadsForward
    WritesEnd
CHECK_DEADLOCK FALSE
