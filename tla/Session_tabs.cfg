SPECIFICATION Spec
CONSTANTS
    t1 = t1
    t2 = t2
    Tabs <- TwoTabs
    Slots <- OneEach
    MaxTokens = 4
INVARIANTS
    CookieLives
PROPERTIES
    CallEnds
CHECK_DEADLOCK FALSE
