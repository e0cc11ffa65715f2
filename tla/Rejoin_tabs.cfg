SPECIFICATION Spec
CONSTANTS
    t1 = t1
    t2 = t2
    h1 = h1
    Tabs <- TwoTabs
    Hosts <- OneHost
    MaxRequests = 3
    MaxKicks = 1
PROPERTIES
    
    NoHastyRejection
    PendingIsAnswered
CHECK_DEADLOCK FALSE
