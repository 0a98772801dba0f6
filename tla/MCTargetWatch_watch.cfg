SPECIFICATION FairSpec
CONSTANTS
    Workers = {w1, w2}
    Offers <- FewOffers
    MinDiscount = 40
    ErrorDiscount = 60
    BigTicket = 5
    Lease = 1
    NormalDelay = 1
    MarkdownDelay = 1
    ErrorDelay = 1
    FailureDelay = 1
    PromptWork = 2
    MaxChanges = 1
    MaxFaults = 1
INVARIANTS TypeOK
PROPERTIES NoStaleBaseline UnconfirmedOnlyIfOvertaken PolledAgain
