SPECIFICATION Spec
CONSTANTS
    h1 = h1  h2 = h2  f1 = f1  Cleaner = Cleaner  None = None
    Handlers = {h1}
    FileIds = {f1}
    Limits = {1}
    Lifetimes = {3}
    ReportAction = "suspend"
    Grace = 2
    MaxAge = 1
    Faults = {}
    MaxFaults = 0
    MaxGrants = 3
    LastRequest = 3
    MaxClock = 3
SYMMETRY Symmetry
INVARIANTS
    GrantIsServed
