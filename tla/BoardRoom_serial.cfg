SPECIFICATION BoardSpec
CONSTANTS
    c1 = c1
    c2 = c2
    Pages <- TwoPages
    Overlap = FALSE
    MaxOps = 2
    MaxUp = 1
    MaxClears = 1
INVARIANTS
    OthersAgree
PROPERTIES
    LoadingEnds
