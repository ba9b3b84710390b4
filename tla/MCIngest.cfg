SPECIFICATION Spec
CONSTANTS
    Interaction = interaction
    Turn = turn
    Slow = {facts}
    Run = {r1, r2}
    Limit = 2
    MaxPages = 2
    Attempts = 2
    Addressed = {TRUE, FALSE}
    MaxRows <- MCFewRows
    MaxTies = 2
    MaxFaults = 1
SYMMETRY RunSymmetry
INVARIANTS
    TypeOK
    IngestInv
    RunHoldsCursors
    CursorBehindMirror
    CursorNamesArchivedRow
    ShownIsArchived
PROPERTIES
    CursorsMoveForward
    ImplementsDurableMirror
