SPECIFICATION Spec
CONSTANTS
    Requests = {r1, r2}
    MaxNotes = 3
    MaxClientNotes = 1
    Capacity = 2
    WireSize = 1
    InlineAsks = TRUE
    Declared = {listed}
    Kinds = {listed}
    Hook = Hook
SYMMETRY RequestSymmetry
INVARIANTS ServerInv ResponsesConserved CallbackOrder NotesInOrder
CHECK_DEADLOCK FALSE
