SPECIFICATION FairSpec
CONSTANTS
    h1 = h1  h2 = h2  f1 = f1  Cleaner = Cleaner  None = None
    Handlers = {h1, h2}
    FileIds = {f1}
    Limits = {1}
    Lifetimes = {0}
    ReportAction = "suspend"
    Grace = 2
    MaxAge = 1
    Faults = {"crash", "db"}
    MaxFaults = 1
    MaxGrants = 1
    LastRequest = 1
    MaxClock = 3
PROPERTIES
    ExpiredReclaimed
    OrphansReclaimed
