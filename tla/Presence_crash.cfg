\* Nothing keeps the handlers of one participant apart, and the API process
\* may die at any moment.
SPECIFICATION CrashSpec
CONSTANTS
    s1 = s1 s2 = s2 s3 = s3 p1 = p1 p2 = p2
    Sockets = {s1, s2, s3}
    Participants = {p1, p2}
    Owner <- TwoTabs
    Flags = {"mic"}
    Kickable = {}
    Overlap = TRUE
    MaxPending = 2
    None = None
INVARIANTS CountBounded
\* the connections are used up
CHECK_DEADLOCK FALSE
