SPECIFICATION FairSpec
CONSTANTS
    MAX_TASKS = 2
    SleepArgs <- MCSleepArgs
    Sleepers <- MCNobody
    StdinReaders <- MCUserSlots
PROPERTY ReadyRuns
CHECK_DEADLOCK FALSE
