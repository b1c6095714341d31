CONSTANTS
    Addresses = {a1, a2}
    Macs = {m1, m2}
    NoMac = NoMac
    Gone = Gone
    None = None
    Resolution = {"day"}
    Length <- MCLength
    Keep <- MCKeep
    MaxTime = 2
    MaxMoves = 1
    MaxFailures = 1
SPECIFICATION Spec
SYMMETRY Symmetric
INVARIANTS FlushIsAcceptable RestartFindsRegistry
PROPERTIES DevicesAreStable
