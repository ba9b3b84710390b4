SPECIFICATION Spec
CONSTANTS
    d1 = d1
    d2 = d2
    Domia = {d1, d2}
    n1 = n1
    n2 = n2
    Node = {n1, n2}
    a1 = a1
    a2 = a2
    Address = {a1, a2}
    j1 = j1
    j2 = j2
    Job = {j1, j2}
    None = None
    Threshold = 1
    Patience = 1
    Dormant = {}
    Plans <- SafetyPlans
    MaxConfig = 2
SYMMETRY Symmetry
INVARIANTS
    TypeOK
    OnlineWasHeardOf
PROPERTIES
    SettledIsKept
    LastReportKept
