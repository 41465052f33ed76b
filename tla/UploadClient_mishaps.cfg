SPECIFICATION FairSpec
CONSTANTS
    Jobs = 3
    Size <- SingleGroupSingle
    Sessions = 5
    Chunks = 3
    Attempts = 2
    MaxMishaps = 2
    None = None
INVARIANTS
    SessionsArePrefixes
    ShownIsComplete
    FinishesWhole
    NeverAhead
PROPERTY EventuallyShown
CHECK_DEADLOCK FALSE
