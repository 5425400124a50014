SPECIFICATION Spec
CONSTANTS
    d1 = d1
    d2 = d2
    a1 = a1
    a2 = a2
    h1 = h1
    p1 = p1
    v1 = v1
    v2 = v2
    DynaKube = {d1, d2}
    Version = {v1, v2}
    NoVersion = NoVersion
    AppVolume = {a1}
    HostVolume = {}
    DynaKubeOf <- MCDynaKubeOf
    PodOf <- MCPodOf
    CSIDriverModule = TRUE
    BinaryPull = {d1}
    ImagePull = {}
    JobPull = {d2}
    NoDynaKube = NoDynaKube
    Specs <- AppSpecs
    MaxEdits = 2
    MaxFaults = 1
INVARIANTS PublishedIsMounted GoneLeavesNothing
PROPERTIES LatestSwitchedToInstalled StoreSpec
CHECK_DEADLOCK FALSE
