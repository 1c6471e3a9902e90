SPECIFICATION FairSpec
CONSTANTS
    MaxConns = 1
    MaxCalls = 1
    ServerRequests = {s1}
    CtxUses = {"notify", "spawned"}
    Capacity = 1
    MaxInbox = 2
PROPERTIES ServerRequestsAnswered CallsReturn LoopEnds
CHECK_DEADLOCK FALSE
