SPECIFICATION Spec
CONSTANTS
    MAX_TASKS = 4
    SleepArgs <- MCSleepArgs
    Sleepers <- MCUserSlots
    StdinReaders <- MCUserSlots
INVARIANTS
    CurrentRuns
    OneRunner
    PidsKnown
PROPERTIES
    DeadIsForever
CHECK_DEADLOCK FALSE
