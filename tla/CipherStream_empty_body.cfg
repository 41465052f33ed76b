SPECIFICATION StreamSpec
CONSTANTS
    Chunks = 3
    Full = 3
    Tag = 1
    Last = 3
INVARIANT NoSilentTruncation
CHECK_DEADLOCK FALSE
