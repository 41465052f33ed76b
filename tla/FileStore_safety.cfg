SPECIFICATION Spec
CONSTANTS
    h1 = h1  h2 = h2  f1 = f1  Cleaner = Cleaner  None = None
    Handlers = {h1, h2}
    FileIds = {f1}
    Limits = {0, 2}
    Lifetimes = {1}
    ReportAction = "suspend"
    Grace = 2
    MaxAge = 1
    Faults = {"crash", "db"}
    MaxFaults = 1
    MaxGrants = 3
    LastRequest = 2
    MaxClock = 3
SYMMETRY Symmetry
INVARIANTS
    DownloadLimit
    AvailableUntilSpent
    TakedownIsFinal
PROPERTIES
    KeepsContract
