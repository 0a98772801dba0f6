SPECIFICATION OnePriceSpec
CONSTANTS
    Workers = {w1, w2}
    Passes = {d1}
    Prices = {1, 2}
    Outcomes = {"verified"}
    CandidateKinds = {"complete"}
    SnapLife = 0
    SnapRefresh = 0
    SeenRefresh = 1
    Retention = 3
    Protect = 2
    Lease = 1
    RetryDelay = 1
    PageDelay = 1
    NoPriceDelay = 1
    TerminalDelay = 1
    Recheck = 1
    Dormant = 1
    Reprobe = 0
    Never = 2
    PromptWork = 2
    PromptSearch = 1
    PromptPass = 1
    PromptClean = 1
    MaxChanges = 1
    MaxCrashes = 0
INVARIANTS TypeOK LeaseInvariant
SYMMETRY WorkerSymmetry
PROPERTIES NoStaleOverwrite DeletesSpareRevived FreshResult
