\* The recheck timer is gone when the image worker needs it.
SPECIFICATION Spec
CONSTANTS
    MaxEdits = 1
    MaxRepos = 1
    PullPrefixed = FALSE
    Rechecks = TRUE
    Disturbances <- Quiet
INVARIANTS
    TimerPresent
CHECK_DEADLOCK FALSE
