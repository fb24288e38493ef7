SPECIFICATION Spec
CONSTANTS
    UNIX_SOCK_MAX = 4
    RX_CAP = 2
    ACCEPT_Q = 1
    Task = {t1, t2}
    Path = {p1}
    Byte = {b1}
    ReadLens = {1}
    WriteLens = {}
    EVENT_LEN = 1
    Flags = {}
    NoPath = NoPath
SYMMETRY Symmetry
INVARIANTS
    PeersPaired
    PathsUnique
    
CHECK_DEADLOCK FALSE
