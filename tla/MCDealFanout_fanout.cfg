SPECIFICATION FairSpec
CONSTANTS
    Workers = {w1, w2}
    Offers = {o1}
    PriceOf <- OnePrice
    Guilds = {g1}
    Users = {u1}
    Lease = 1
    RetryDelay = 1
    MaxWait = 1
    Retention = 1
    PromptWork = 1
    Failures = {"error", "closed", "unsure", "receipt", "late", "config"}
    MaxChanges = 2
    MaxFaults = 1
INVARIANTS TypeOK RepeatsExplained
PROPERTIES StaleAtMostOnePass ImplementsOutbox EventsClose
