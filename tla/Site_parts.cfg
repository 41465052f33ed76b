SPECIFICATION Spec
CONSTANTS
    h1 = h1  h2 = h2  i1 = i1
    Chunks = 3
    Full = 3
    Tag = 1
    Last = 3
    Attempts = 2
    Files = 2
    Grants = 1
    MaxChanges = 2
    Polls = 1
    Submits = 2
    Unlocks = 2
    Ways <- MCWays
    None = None
    Raw <- MCRaw
    Clean <- MCClean
    Entries = 3
    Results = 2
    FilesOf <- PairThenSingle
    Deletions = 3
    Clicks = 4
    Page = 1
    MaxTotal = 2
    Nothing = Nothing
    Handlers = {h1, h2}
    Secrets = 3
    Invites = {i1}
    InvitesWith = {FALSE}
    MaxWindow = 2
    MaxRotations = 1
    NoToken = NoToken
    Processes = {p1}
    Threads = {t1, t2, t3}
    Clients = {a1}
    Slots = 2
    ChunkLimit = 2
    ChunkWindow = 3
    ClientLimit = 2
    RateWindow = 3
    Threshold = 1
    Lag = 1
    MaxClock = 4
    MaxArrivals = 4
INVARIANTS
    OutputIsPrefix
    WholeOrError
    IntactIsAccepted
    SavedIsWhole
    MissedOnlyIfLate
    NeverStuck
    EveryFileListed
    ZipNamesApart
    StillDeletable
    SignedIn
    OffsetCountsRows
    ShowsCurrent
    StaysAccepted
    SharedTokensDie
    AdmittedByRight
    RatesHold
    SlotsGivenBack
PROPERTIES
    NoneAfterWithdrawn
CHECK_DEADLOCK FALSE
