SPECIFICATION FairSpec
CONSTANTS
    Workers = {w1}
    Events = {e1, e2}
    Guilds = {g1}
    Users = {u1}
    Batch = 2
    Cap = 1
    Lease = 1
    RetryBase = 1
    RetryMax = 1
    MaxAttempts = 2
    MaxChanges = 2
    MaxCrashes = 1
INVARIANTS TypeOK
PROPERTIES ImplementsOutbox EventsEnd
