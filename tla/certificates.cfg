SPECIFICATION CertSpec
CONSTANTS
    RootId = {r1, r2, r3, r4, r5, r6}
    NoRoot = NoRoot
    Workers = {"operator", "certgen"}
    RequeueAfter = 1
    RenewalThreshold = 2
    ServerDuration = 3
    RootDuration = 4
    Horizon = 6
    MaxTroubles = 2
INVARIANTS ServedIsTrusted MissedIsRepaired
CHECK_DEADLOCK FALSE
