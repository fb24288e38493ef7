SPECIFICATION Spec
CONSTANTS
    VFS_MAX_NODES = 3
    VFS_MAX_FDS = 2
    SLACK = 1
    PAGE = 2
    SIZE_T = 16
    MaxInode = 4
    MaxOffset = 4
    Loads <- MCLoads
    NONE = NONE
INVARIANTS
    
    SameFile
    OneOwner
    
    
CHECK_DEADLOCK FALSE
