SPECIFICATION FairMsgSpec
CONSTANTS
    UNIX_SOCK_MAX = 2
    RX_CAP = 3
    ACCEPT_Q = 1
    Task = {t1, t2}
    Path = {}
    Byte = {b1, b2}
    ReadLens = {1, 2}
    WriteLens = {1, 2}
    EVENT_LEN = 1
    Flags = {TRUE, FALSE}
    NoPath = NoPath
    FDS_CAP = 3
    VFS_MAX_FDS = 2
    MaxFds = {0, 2}
    Loads <- MCLoads
INVARIANTS
    
    FilesOwned
PROPERTIES
    HangupReturns
CHECK_DEADLOCK FALSE
