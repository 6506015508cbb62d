\* Both workers wait for each other for ever, and the system stops there.
SPECIFICATION FairSpec
CONSTANTS
    MaxEdits = 0
    MaxRepos = 1
    PullPrefixed = TRUE
    Rechecks = TRUE
    Disturbances <- Quiet
PROPERTIES
    WakeDelivered
CHECK_DEADLOCK FALSE
