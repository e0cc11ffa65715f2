SPECIFICATION ChatSpec
CONSTANTS
    p1 = p1
    p2 = p2
    Pages <- TwoPages
    Limit = 1
    MaxMessages = 2
INVARIANTS
    ShowsPersisted
    NothingMissed
    BadgeCounts
PROPERTIES
    SentIsAnswered
CHECK_DEADLOCK FALSE
