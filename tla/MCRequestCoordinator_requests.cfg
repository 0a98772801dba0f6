SPECIFICATION FairSpec
CONSTANTS
    Tasks = {c1, c2}
    Inner = {h1}
    Threads = {t1, t2}
    InnerThreads = {u1}
    Capacity = 1
    Ranks = {0, 1}
    MaxRequests = 2
    Nobody = nobody
INVARIANTS TypeOK SlotsAccounted
PROPERTIES EveryCallEnds
