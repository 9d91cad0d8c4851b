CONSTANTS
    Calls = {c1}
    FindLimit = 500
    NoCall = NoCall
    NoAlert = NoAlert
    Stale = 1
    Hung = 1
    MaxAge = 1
    MaxEvents = 3
    Acknowledged <- SomeAlerts
SPECIFICATION Spec
PROPERTY
    BlockedMeansSilent
