SPECIFICATION FairSpec
CONSTANTS
    Callers = {c1, c2}
    Nobody = Nobody
    MaxTime = 2
    MaxTokens = 3
    MaxFlows = 2
    Lifetimes = {1}
    Forever = Forever
INVARIANTS IInv RefreshAccepted
PROPERTIES RefreshOnlyExpired CallsReturn
CHECK_DEADLOCK FALSE
