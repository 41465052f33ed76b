SPECIFICATION FairSpec
CONSTANTS
    h1 = h1  h2 = h2  u1 = u1  f1 = f1  f2 = f2
    a = a  b = b  c = c  Zero = Zero  Cleaner = Cleaner  None = None
    Handlers = {h1, h2}
    Uploads = {u1}
    FileIds = {f1}
    Piece = {a, b, c}
    Payloads <- MCFitting
    LastChunk = 1
    Expected = 1
    Slot <- NoSlot
    MaxPending = 1
    TTL = 1
    Grace = 2
    Faults = {"crash", "db"}
    MaxFaults = 1
    MaxLate = 1
    LastRequest = 1
    MaxClock = 4
PROPERTIES
    PartialsReclaimed
    BlobsReclaimed
