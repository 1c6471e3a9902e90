SPECIFICATION FairIntakeSpec
CONSTANTS
    Messages <- Parsed
    Garbage <- Unparsed
    Newline = Newline
    MaxLines = 2
    Heard <- ByReader
    Overridden = {"elicitation/create"}
    Attribute <- ByName
    Block <- Source
    HandlerErrors = {"ToolExecutionFailed"}
INVARIANTS IntakeInv FramesExact RequestsAnswered
PROPERTY FrameDelivered
CHECK_DEADLOCK FALSE
