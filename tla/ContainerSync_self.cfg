\* Two daemons, the old one and its replacement, may stop each other.
SPECIFICATION Spec
CONSTANTS
    Targets = {"app"}
    Tags = {"v1", "v2", "latest"}
    MaxIds = 3
    Configs <- PlainConfigs
    InitialCtrs <- SelfCtrs
    InitialImages <- BothImages
    SelfTarget = "app"
    NoTarget = NoTarget
    Reflected = TRUE
    AllowSelfDelete = FALSE
    Faults <- NoFaults
    MaxExits = 0
    MaxChanges = 0
    MaxCrashes = 0
    QuietPasses = FALSE
INVARIANTS
    AlwaysADaemon
\* A worker sleeps until Docker or Main wakes it.
CHECK_DEADLOCK FALSE
