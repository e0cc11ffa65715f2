SPECIFICATION Spec
CONSTANTS
    MaxStarts = 2
    MaxChunks = 1
    MaxGates = 1
INVARIANTS
    NothingCaptured
    
    
PROPERTIES
    SavedWhole
    LeaveEnds
CHECK_DEADLOCK FALSE
