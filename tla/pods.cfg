SPECIFICATION MutationSpec
CONSTANTS
    Container = {"app", "side"}
    DynaKubes <- SomeDynaKubes
    Pods <- SomePods
    MaxChanges = 1
INVARIANTS MountsHaveVolumes ContainersAreConfigured NothingPartial
CHECK_DEADLOCK FALSE
