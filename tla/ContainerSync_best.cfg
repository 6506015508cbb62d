\* One pass of one daemon, with two versions to select from.
SPECIFICATION Spec
CONSTANTS
    Targets = {"app"}
    Tags = {"v1", "v2", "latest"}
    MaxIds = 3
    Configs <- PlainConfigs
    InitialCtrs <- SomeCtrs
    InitialImages <- SomeImages
    SelfTarget = NoTarget
    NoTarget = NoTarget
    Reflected = TRUE
    AllowSelfDelete = FALSE
    Faults <- NoFaults
    MaxExits = 1
    MaxChanges = 1
    MaxCrashes = 1
    QuietPasses = TRUE
INVARIANTS
    SelectsBest
\* A worker sleeps until Docker or Main wakes it.
CHECK_DEADLOCK FALSE
