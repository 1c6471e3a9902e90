SPECIFICATION FairPeerSpec
CONSTANTS
    Callers = {c1, c2}
    MaxCalls = 2
    MaxInbox = 2
    Absent = Absent
    Gone = Gone
    Nobody = Nobody
INVARIANTS IInv OwnReply
PROPERTIES ImplementsRpcCall CallsEnd
CHECK_DEADLOCK FALSE
