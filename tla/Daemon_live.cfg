\* Liveness when no repository has a PullPrefix, so that the image worker
\* never sends on the container worker's channel.  Deadlock is checked.
SPECIFICATION FairSpec
CONSTANTS
    MaxEdits = 1
    MaxRepos = 1
    PullPrefixed = FALSE
    Rechecks = TRUE
    Disturbances <- OnlySignal
PROPERTIES
    WorkersCatchUp
    SignalEnds
