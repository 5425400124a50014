SPECIFICATION FairSpec
CONSTANTS
    Objects <- DKObjects
    Features = {"extensions", "kspm", "oneAgent"}
    BrokenCalls = {"kspmDaemonSet"}
    EndpointsNeedActiveGate = TRUE
    EditsWhileReconciling = TRUE
    Fragile = {"oaDaemonSet"}
    MaxEdits = 1
    MaxFaults = 1
INVARIANTS NothingIsForgotten
PROPERTIES EnabledIsDeployed DisabledIsRemoved PhaseSettles ErrorsHeal RemovedWhateverIsLost
