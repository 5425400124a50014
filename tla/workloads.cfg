SPECIFICATION RolloutSpec
CONSTANTS
    Specs <- All
    Disturbed <- Changing
    MaxDisturbances = 2
INVARIANTS PodsAreCurrent PodsCanStart
PROPERTIES RolloutsStop
CHECK_DEADLOCK FALSE
