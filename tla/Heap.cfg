SPECIFICATION Spec
CONSTANTS
    PAGE_SIZE = 8
    InitPages = 2
    MaxPages = 5
    MaxHeld = 3
    Requests <- MCRequests
INVARIANTS
    HeapInv
    
    FreeListExact
    
CONSTRAINT RaceBound
CHECK_DEADLOCK FALSE
