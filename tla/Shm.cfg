SPECIFICATION Spec
CONSTANTS
    SHM_MAX_OBJECTS = 2
    SHM_MAX_PAGES = 2
    PAGE_SIZE = 2
    SIZE_T = 16
    Name = {n1, n2}
    Fd = {f1, f2}
    Frame = {x1, x2, x3}
    Lengths <- MCLengths
    Counts = {1, 3}
    NoFrame = NoFrame
    Closed = Closed
    Stale = Stale
SYMMETRY Symmetry
INVARIANTS
    PagesExact
    FramesAccounted
    NodesReachObjects
    BytesBacked
    MappedStaysShared
