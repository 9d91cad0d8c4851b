CONSTANTS
    Local = local
    Real = real
    Launches = {"fresh"}
    Callers = {c1, c2}
    Actions = {"pause", "cancel"}
    Reader = reader
    Lines <- MCLines
    Nobody = nobody
    PipeSize = 1
    MaxLines = 1
    MaxCalls = 2
SPECIFICATION Spec
INVARIANT
    PausedIsHeld
CHECK_DEADLOCK FALSE
