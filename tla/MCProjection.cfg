CONSTANTS
    Calls = {c1}
    FindLimit = 500
    NoCall = NoCall
    NoAlert = NoAlert
    Stale = 1
    Hung = 1
    MaxAge = 1
    MaxEvents = 3
    Acknowledged <- SomeAlerts
SPECIFICATION FairSpec
CONSTRAINT Bounded
INVARIANTS
    TypeOK
    WaitingIsExplained
    CallAlertsMatchCommands
    TestAlertsMatchStreak
    AttentionIsCurrent
PROPERTIES
    CompletionNeedsEvidence
    EvidenceKeepsCompletion
    OverdueIsNoticed
