SPECIFICATION FairSpec
CONSTANTS
    MaxConns = 1
    MaxCalls = 1
    ServerRequests = {s1}
    CtxUses = {"inline", "spawned"}
    Capacity = 1
    MaxInbox = 2
PROPERTIES CtxAskReturns
CHECK_DEADLOCK FALSE
