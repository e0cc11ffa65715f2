\* Handlers of one participant do not overlap; kicks, leaves and tabs do.
SPECIFICATION Spec
CONSTANTS
    s1 = s1 s2 = s2 s3 = s3 p1 = p1 p2 = p2
    Sockets = {s1, s2, s3}
    Participants = {p1, p2}
    Owner <- TwoTabs
    Flags = {"mic"}
    Kickable = {p1}
    Overlap = FALSE
    MaxPending = 2
    None = None
INVARIANTS TypeOK NoGhost CountExact RostersConverge
\* the connections are used up
CHECK_DEADLOCK FALSE
