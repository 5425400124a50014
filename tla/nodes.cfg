SPECIFICATION LiveSpec
CONSTANTS
    Node = {n1, n2}
    NoNode = NoNode
    Hour = 1
    PruneInterval = 0
    PodsHaveIP = TRUE
    InformerLag = TRUE
    MaxChanges = 1
    MaxFaults = 1
INVARIANTS MarkMeansSent
PROPERTIES ForgottenAfterEvent CordonedIsMarked GoneLeavesCache
