SPECIFICATION InjectionSpec
CONSTANTS
    Namespace = {n1, n2}
    DynaKube = {"a", "b"}
    NoDynaKube = NoDynaKube
    HostMonitoring = {"b"}
    InitialMatches <- FirstInjectsSecondExports
    InitiallyOff <- SecondExports
    n1 = n1
    n2 = n2
    MaxToken = 2
    MaxEdits = 1
    MaxFaults = 1
INVARIANTS LabelsAgree SecretsAgree NothingIsLeft SourcesAgree
CHECK_DEADLOCK FALSE
