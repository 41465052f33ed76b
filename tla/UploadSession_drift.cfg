SPECIFICATION Spec
CONSTANTS
    h1 = h1  h2 = h2  u1 = u1  f1 = f1  f2 = f2
    a = a  b = b  c = c  Zero = Zero  Cleaner = Cleaner  None = None
    Handlers = {h1, h2}
    Uploads = {u1}
    FileIds = {f1, f2}
    Piece = {a, b, c}
    Payloads <- MCPayloads
    LastChunk = 2
    Expected = 2
    Slot <- NoSlot
    MaxPending = 1
    TTL = 2
    Grace = 2
    Faults = {"db"}
    MaxFaults = 1
    MaxLate = 1
    LastRequest = 4
    MaxClock = 5
SYMMETRY Symmetry
INVARIANTS
    NoDrift
