SPECIFICATION FairSpec
CONSTANTS
    KBD_BUF_SIZE = 3
    MOUSE_QUEUE = 2
    IrqBytes = 1
    FlushBytes = 1
    Codes <- MCCodes
    Loads <- MCLoads
    Moves = {0, 1}
    None = None
INVARIANTS
    PacketsWhole
    ShiftReleased
PROPERTIES
    RingsAreQueues
    GetkeyReturns
CHECK_DEADLOCK FALSE
