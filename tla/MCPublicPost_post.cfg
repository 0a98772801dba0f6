SPECIFICATION Spec
CONSTANTS
    Callers = {c1, c2}
    Prices = {1}
    Scout = TRUE
    ReserveStale = 1
    SendingStale = 3
    DedupeTTL = 3
    OrphanRetention = 2
    PostRetention = 4
    MaxAge = 5
    ReserveFaults = {"fail", "unknown", "lost"}
    WriteFaults = {"fail", "unknown", "lost"}
    ReadFails = TRUE
    SendFaults = {"fail", "unknown"}
INVARIANTS TypeOK ExclusiveDelivery NoDuplicateMessage
SYMMETRY CallerSymmetry
