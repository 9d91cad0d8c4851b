CONSTANTS
    Pages = {p1}
    Writers = {collector, request}
    MaxVersion = 2
    MaxNotices = 2
    MaxFaults = 2
SPECIFICATION FairSpec
INVARIANTS
    TypeOK
    NobodySleepsOnNews
    NoUpdateLost
PROPERTIES
    PagesFollow
