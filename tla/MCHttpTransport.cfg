SPECIFICATION FairSpec
CONSTANTS
    Clients = {c1, c2}
    Foreign = {c2}
    ForeignTypes = {"init", "request", "stream", "get", "other"}
    Anyone = Anyone
    None = None
    Sharing = {FALSE}
    MaxMessages = 3
    MaxTraffic = 3
INVARIANTS HttpInv Routed OneResponse InOrder DirectWhenCalm
PROPERTIES MessagesTaken
CHECK_DEADLOCK FALSE
