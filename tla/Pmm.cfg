SPECIFICATION Spec
CONSTANTS
    MAX_FRAMES = 5
    FIRST_FREE = 1
    PAGE_SIZE = 2
    WORD = 8
    MemSizes <- MCMemSizes
    Regions <- MCRegions
INVARIANTS
    Exclusive
    CountExact
    ReservedSafe
