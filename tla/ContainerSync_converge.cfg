\* No call fails, and Docker changes between the passes only.
SPECIFICATION FairSpec
CONSTANTS
    Targets = {"app"}
    Tags = {"v1", "v2", "latest"}
    MaxIds = 3
    Configs <- AppConfigs
    InitialCtrs <- SomeCtrs
    InitialImages <- SomeImages
    SelfTarget = NoTarget
    NoTarget = NoTarget
    Reflected = TRUE
    AllowSelfDelete = FALSE
    Faults <- NoFaults
    MaxExits = 1
    MaxChanges = 1
    MaxCrashes = 1
    QuietPasses = TRUE
PROPERTIES
    Convergence
    OneAtATime
\* A worker sleeps until Docker or Main wakes it.
CHECK_DEADLOCK FALSE
