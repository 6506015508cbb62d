\* deviced replaces its own container by a better version.
SPECIFICATION FairSpec
CONSTANTS
    Targets = {"app"}
    Tags = {"v1", "v2", "latest"}
    MaxIds = 4
    Configs <- PlainConfigs
    InitialCtrs <- SelfCtrs
    InitialImages <- BothImages
    SelfTarget = "app"
    NoTarget = NoTarget
    Reflected = TRUE
    AllowSelfDelete = FALSE
    Faults <- NoFaults
    MaxExits = 0
    MaxChanges = 0
    MaxCrashes = 0
    QuietPasses = TRUE
PROPERTIES
    NewDeletesOld
\* A worker sleeps until Docker or Main wakes it.
CHECK_DEADLOCK FALSE
