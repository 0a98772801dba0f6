SPECIFICATION FairSpec
CONSTANTS
    MaxSent = 3
    Sweepers = {s1, s2}
    MaxEdits = 2
    MaxFlips = 2
    MaxMishaps = 2
    Mishaps = {"torn", "unsure", "abort", "deleted", "clear", "overlap",
               "owner"}
INVARIANTS TypeOK ExpiredHadEnded OneLiveMessage GuardStandsForMessage
PROPERTIES EndedIsRetired ReturnIsAnnounced
CHECK_DEADLOCK FALSE
