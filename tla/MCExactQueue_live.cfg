SPECIFICATION FairSpec
CONSTANTS
    Workers = {w1}
    Passes = {d1}
    Prices = {1}
    Outcomes = {"verified", "no_price", "terminal"}
    CandidateKinds = {"weak"}
    SnapLife = 0
    SnapRefresh = 0
    SeenRefresh = 0
    Retention = 2
    Protect = 2
    Lease = 1
    RetryDelay = 1
    PageDelay = 1
    NoPriceDelay = 1
    TerminalDelay = 1
    Recheck = 1
    Dormant = 1
    Reprobe = 0
    Never = 2
    PromptWork = 1
    PromptSearch = 0
    PromptPass = 0
    PromptClean = 0
    MaxChanges = 0
    MaxCrashes = 1
PROPERTIES LeasesEnd EvidenceUsed
