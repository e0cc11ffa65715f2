SPECIFICATION Spec
CONSTANTS
    p1 = p1
    p2 = p2
    f1 = f1
    NoFile = NoFile
    Pages <- TwoPages
    Hosts <- OneHost
    Files <- OneFile
    MaxFaults = 2
    MaxMounts = 3
    MaxPreviews = 2
INVARIANTS
    
    ListsFollow
    
CHECK_DEADLOCK FALSE
