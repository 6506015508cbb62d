\* A login or a search, calls of a session, a layer, a pipe.
SPECIFICATION ClientSpec
CONSTANTS
    Hosts <- SomeHosts
    Nets <- SomeNets
    NetsOf <- SomeNetsOf
    CertFiles <- SomeCerts
    ServiceOptions <- SomeOptions
    Callers = {"c1", "c2"}
    Calls <- SomeCalls
    LoggedIn = TRUE
    MaxRequests <- TwoAndOne
    NoOp = NoOp
    Size = 4
    PageSize = 2
    MaxFail = 3
    MaxDrops = 3
    Writers = {"w1", "w2"}
    Readers = {"r1"}
    MinCap = 1
    MaxCap = 3
    Threshold = 3
    Sizes = {1, 3}
    MaxBytes = 7
    NoOne = NoOne
INVARIANTS
    ServiceTypeOK
    NoV1AfterV2
    PlainOnlyInsecure
    EndpointsInOrder
    SessionTypeOK
    Cancellable
    NothingKept
    PullTypeOK
    LayerInOrder
    PipeTypeOK
    BufLenExact
    Bounded
    NoSleepAfterClose
PROPERTIES
    CallsEnd
    GivesUpInTime
    PullEnds
    PipeIsStream
    WritesReturn
\* A task ends.
CHECK_DEADLOCK FALSE
