SPECIFICATION Spec
CONSTANTS
    c1 = c1
    c2 = c2
    Name = {"a", "b"}
    Client = {c1, c2}
    NodeLabels <- Nodes
    Selector <- Selectors
    Modules = {"OneAgent", "ActiveGate", "KubernetesMonitoring", "Extensions", "LogMonitoring", "KSPM"}
    Specs <- LatestSpecs
    OldSpecs <- V1Beta5Specs
    Edits <- LatestEdits
    OldEdits <- V1Beta5Edits
    MaxRequests = 3
    MaxFailures = 1
    None = None
SYMMETRY Clients
INVARIANTS NothingIsShared OldClientsReadBack OldWriteBackIsAccepted
CHECK_DEADLOCK FALSE
