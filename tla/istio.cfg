CONSTANTS
    cluster1 = cluster1
    cluster2 = cluster2
    address = address
    noURL = noURL
    Host <- MCHost
    IPHost = {address}
    ServiceIP = address
    Malformed = noURL
    Specs <- MCSpecs
    Endpoints <- MCEndpoints
    MaxChanges = 1
    MaxFaults = 2

SPECIFICATION Spec

INVARIANT EntriesAgree
