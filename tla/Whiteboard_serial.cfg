SPECIFICATION Spec
CONSTANTS
    o1 = o1  o2 = o2  o3 = o3  o4 = o4
    t1 = t1  c1 = c1
    Ops = {o1, o2, o3, o4}
    Clients = {c1}
    Slots = {t1}
    Serial = TRUE
    MaxBuffer = 3
    MaxSnapshot = 3
    MayFail = {"read", "write", "wipe", "load"}
    MaxFailures = 2
    MaxRevision = 2
    None = None
INVARIANTS NothingLost NoneTwice SnapshotComplete
PROPERTIES ImplementsBoard EventuallyPersisted
CHECK_DEADLOCK FALSE
