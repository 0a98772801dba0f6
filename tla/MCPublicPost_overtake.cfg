SPECIFICATION Spec
CONSTANTS
    Callers = {c1, c2}
    Prices = {1, 2}
    Scout = FALSE
    ReserveStale = 1
    SendingStale = 3
    DedupeTTL = 3
    OrphanRetention = 2
    PostRetention = 4
    MaxAge = 5
    ReserveFaults = {}
    WriteFaults = {}
    ReadFails = FALSE
    SendFaults = {}
INVARIANTS OnlyLowerPrices
