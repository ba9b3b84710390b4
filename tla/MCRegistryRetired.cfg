SPECIFICATION RoundSpec
CONSTANTS
    d1 = d1
    d2 = d2
    Domia = {d1, d2}
    n1 = n1
    n2 = n2
    Node = {n1, n2}
    a1 = a1
    a2 = a2
    Address = {a1, a2}
    j1 = j1
    Job = {j1}
    None = None
    Threshold = 1
    Patience = 0
    Dormant = {}
    Plans <- RetiredPlans
    MaxConfig = 1
PROPERTIES
    RemovedIsRetired
