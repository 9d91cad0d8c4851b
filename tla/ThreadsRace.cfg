CONSTANTS
    c1 = c1
    Calls = {c1}
    FindLimit = 500
    NoCall = NoCall
    NoAlert = NoAlert
    Stale = 1
    Hung = 1
    MaxAge = 1
    Logs <- AnsweredLog
    Threads = {collector, scan}
    Reader = reader
    Serial = FALSE
    MaxTicks = 0
    MaxCrashes = 0
SPECIFICATION Spec
INVARIANT
    StatusIsReplayed
