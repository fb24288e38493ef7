SPECIFICATION FairSpec
CONSTANTS
    MAX_TASKS = 3
    SleepArgs <- MCShortSleeps
    Sleepers <- MCAllSlots
    StdinReaders <- MCNobody
PROPERTIES
    SleepersWake
    ReadyRuns
    WaitReturns
