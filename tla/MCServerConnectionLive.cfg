SPECIFICATION FairSpec
CONSTANTS
    Requests = {r1}
    MaxNotes = 2
    MaxClientNotes = 1
    Capacity = 2
    WireSize = 1
    InlineAsks = FALSE
    Declared = {listed}
    Kinds = {listed}
    Hook = Hook
PROPERTIES RequestsServed NotesDelivered StopStops
CHECK_DEADLOCK FALSE
