\* Repositories that gain and lose tags, calls that fail, an edit.
SPECIFICATION Spec
CONSTANTS
    Hosts <- SomeHosts
    Nets <- SomeNets
    NetsOf <- NoNets
    CertFiles <- NoCerts
    Targets = {"app", "db"}
    Tags = {"v1", "v2"}
    Configs <- SomeConfigs
    InitialImages <- SomeImages
    InitialHeld <- SomeHeld
    Serves <- SomeServes
    Private = {"private"}
    NoPrefix = NoPrefix
    MaxChanges = 2
    MaxFaults = 1
INVARIANTS
    ImageTypeOK
    PassFetchesBest
PROPERTIES
    BestArrives
    ImplementsDevice
\* Without unsolved requirements the worker sleeps until the user wakes it.
CHECK_DEADLOCK FALSE
