SPECIFICATION FairSpec

CONSTANTS
    Limits <- TwoThenOne
    Channel = 2
    Buffer = 2
    MaxPieces = 3
    MaxUsages = 1

CHECK_DEADLOCK FALSE

INVARIANTS WellFormed AnswerIsStreamed
PROPERTIES ConnectionEnds TerminalReaches
