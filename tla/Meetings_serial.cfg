SPECIFICATION Spec
CONSTANTS
    host = host  student = student  t1 = t1
    Users = {host, student}
    Host = host
    Admins = {}
    Gates = {"lock"}
    MaxSeats = 2
    Slots = {t1}
    Serial = TRUE
    MaxTime = 2
    MinDuration = 0
    IdleGrace = 1
    None = None
INVARIANTS OneSeatEach EndedIsClosed AttendanceBounded KickedIsOut 
PROPERTIES LockHolds  AbandonedEnds
CHECK_DEADLOCK FALSE
