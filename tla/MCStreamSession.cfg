SPECIFICATION FairSessionSpec
CONSTANTS
    Capacity = 1
    MaxCalls = 2
    MaxAsks = 2
    MaxNotes <- FewNotes
INVARIANTS SessionInv QuietNeverClogs
PROPERTIES ServedUnlessClogged CloggedForGood
CHECK_DEADLOCK FALSE
