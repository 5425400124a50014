SPECIFICATION Spec
CONSTANTS
    Specs <- AllSpecs
    Latest = {1, 2}
    Scopes = {"settings.write"}
    MaxChanges = 2
    MaxFaults = 1
INVARIANTS VersionsFollowSpec SettingsAreCurrent
PROPERTIES NoDowngrade
CHECK_DEADLOCK FALSE
