SPECIFICATION Spec
CONSTANTS
    Jobs = 3
    Size <- AllSingle
    Sessions = 6
    Chunks = 2
    Attempts = 2
    MaxMishaps = 2
    None = None
INVARIANT ResumesFromAcked
CHECK_DEADLOCK FALSE
