CONSTANTS
    Local = local
    Real = real
    Launches = {"fresh", "resumed"}
    Callers = {c1, c2}
    Actions = {"pause", "continue", "cancel", "complete"}
    Reader = reader
    Lines <- MCLines
    Nobody = nobody
    PipeSize = 1
    MaxLines = 2
    MaxCalls = 2
SPECIFICATION FairSpec
INVARIANTS
    CancelIsHonoured
    PauseFlagIsTrue
    NoRowLeftRunning
PROPERTIES
    CancelEnds
    ExitIsRecorded
\* The process may block for ever on a pipe that nobody reads.
CHECK_DEADLOCK FALSE
