SPECIFICATION FairAuthSpec
CONSTANTS
    Callers = {}
    Nobody = Nobody
    MaxTime = 0
    MaxTokens = 2
    MaxFlows = 3
    Lifetimes = {1}
    Forever = Forever
    MaxServers = 3
    MaxVisits = 2
    Listened = Listened
    Elsewhere = Elsewhere
    Unparsable = Unparsable
    DefaultUri = Elsewhere
    Responses <- RedirectUris
INVARIANTS AuthInv ExchangesCurrent
PROPERTIES PortGivenBack CallbackTaken
CHECK_DEADLOCK FALSE
