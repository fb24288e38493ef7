SPECIFICATION SpaceSpec
CONSTANTS
    Task = {1, 2}
    Frames = 7
    Pages = 7
    MMAP_BASE = 3
    STACK_BASE = 5
    STACK_PAGES = 1
    THREAD_PAGES = 1
    Loads <- MCLoads
    Held = {1, 2}
    NONE = NONE
INVARIANTS
    FramesKept
PROPERTIES
    NoClobber
CHECK_DEADLOCK FALSE
