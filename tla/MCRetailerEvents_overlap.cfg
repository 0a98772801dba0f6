SPECIFICATION Spec
CONSTANTS
    Workers = {w1, w2}
    Events = {e1, e2}
    Guilds = {g1}
    Users = {u1}
    Batch = 1
    Cap = 1
    Lease = 1
    RetryBase = 1
    RetryMax = 1
    MaxAttempts = 2
    MaxChanges = 2
    MaxCrashes = 0
INVARIANTS RepeatsExplained CapExplained
SYMMETRY Symmetry
