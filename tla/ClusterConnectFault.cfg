\* A client cannot connect to a live peer once, in a run that reduces under two tags.
\* The run may stop: when the only accepted client is kicked, one that is joining waits for ever.
CONSTANTS
    p1 = p1  p2 = p2  p3 = p3
    Peers <- ThreePeers
    PeerGroup <- OneGroup
    Addr <- OwnAddress
    ByUuid <- MCByUuid
    Loopback = {}
    Tags = {1, 2}
    Keys <- OneKey
    SharedStates <- MCContents
    MaxRevision = 9
    Loops <- ReduceLoop
    MaxCalls = 3
    Data <- OwnContents
    Strategy <- EnforcePopular
    MaxCrashes = 0
    CrashAt = {}
    MaxConnectFaults = 1
    MaxIoFaults = 0
SPECIFICATION Spec
CHECK_DEADLOCK FALSE
INVARIANTS RingAgreement
