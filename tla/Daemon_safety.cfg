\* Safety with every fault, a registry mirror and a signal.
SPECIFICATION Spec
CONSTANTS
    MaxEdits = 1
    MaxRepos = 2
    PullPrefixed = TRUE
    Rechecks = TRUE
    Disturbances <- Everything
INVARIANTS
    TypeOK
    PassesExclude
    NoLostWakeup
    RetryPending
PROPERTIES
    ConfigStable
\* The image worker and the container worker really can wait for each other
\* for ever: see Daemon_deadlock.cfg.
CHECK_DEADLOCK FALSE
