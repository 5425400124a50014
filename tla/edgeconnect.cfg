SPECIFICATION FairSpec
CONSTANTS
    Token = {t1, t2, t3, t4}
    NoToken = NoToken
    MaxIds = 6
    MaxIncarnations = 2
    MaxEdits = 2
    MaxFaults = 2
INVARIANTS OneManagedObject GoneLeavesNoObject
PROPERTIES PodsGetTheCredentials TokensAgree
CHECK_DEADLOCK FALSE
