\* Any call of a daemon outside of a container may fail, in any pass, and
\* daemons in containers replace and stop each other.
SPECIFICATION PassSpec
CONSTANTS
    Targets = {"app", "dev"}
    Tags = {"v1", "v2", "latest"}
    MaxIds = 3
    Configs <- PassConfigs
    InitialCtrs <- PassCtrs
    InitialImages <- PassImages
    SelfTarget = "dev"
    NoTarget = NoTarget
    Reflected = TRUE
    AllowSelfDelete = FALSE
    Faults <- PassFaults
    MaxExits = 0
    MaxChanges = 0
    MaxCrashes = 0
    QuietPasses = FALSE
INVARIANTS
    TypeOK
    PassReconciles
    NoOutage
    NoDowngrade
    DiesOutOnlyCrossed
\* A worker sleeps until Docker or Main wakes it.
CHECK_DEADLOCK FALSE
