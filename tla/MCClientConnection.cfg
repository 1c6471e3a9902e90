SPECIFICATION Spec
CONSTANTS
    MaxConns = 2
    MaxCalls = 2
    ServerRequests = {s1}
    CtxUses = {}
    Capacity = 1
    MaxInbox = 1
INVARIANTS ClientInv AnswersWhereAsked ReplyFromOwnConnection
PROPERTIES HandshakeOrder
CHECK_DEADLOCK FALSE
