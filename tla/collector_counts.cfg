CONSTANTS
    Addresses = {a1}
    Macs = {m1}
    NoMac = NoMac
    Gone = Gone
    None = None
    Resolution = {"minute", "day"}
    Length <- MCLength
    Keep <- MCKeep
    MaxTime = 3
    MaxMoves = 0
    MaxFailures = 2
SPECIFICATION LiveSpec
INVARIANTS TypeOK StoredExactlyOnce PendingExactlyOnce
PROPERTIES EveryQueryIsStored
