SPECIFICATION FairSpec
CONSTANTS
    Interaction = interaction
    Turn = turn
    Slow = {facts}
    Run = {r1}
    Limit = 3
    MaxPages = 2
    Attempts = 1
    Addressed = {TRUE}
    MaxRows <- MCTiedRows
    MaxTies = 3
    MaxFaults = 1
PROPERTIES
    EveryRowMirrored
    RunEnds
