SPECIFICATION Behaviours
CONSTANTS
    Workers = {w1, w2}
    Guilds = {g1, g2}
    Items = {1, 2}
    Fresh = 1
    Batch = 2
    MaxReplay = 1
    MaxTime = 3
    MaxChecks = 2
    MaxChanges = 1
    MaxPasses = 2
INVARIANTS LaneTypeOK PassedIsSettledOrPending
PROPERTIES SentInOrder
SYMMETRY Symmetry
CHECK_DEADLOCK FALSE
