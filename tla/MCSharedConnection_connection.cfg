SPECIFICATION FairSpec
CONSTANTS
    Clients = {c1, c2}
    MaxWrites = 2
    Attempts = 2
    Nobody = Nobody
INVARIANTS TypeOK CommittedIsDurable
PROPERTIES FailureIsFinal EveryoneEnds
CHECK_DEADLOCK FALSE
