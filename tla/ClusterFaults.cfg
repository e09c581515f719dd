\* Clients run one of two peer loops: reducing, where a client crashes while it waits for a
\* reduce and two attempts to reduce fail, or querying pending peers and synchronizing contents
\* of their own, where a client crashes at any point.
CONSTANTS
    p1 = p1  p2 = p2  p3 = p3
    Peers <- ThreePeers
    PeerGroup <- OneGroup
    Addr <- OwnAddress
    ByUuid <- MCByUuid
    Loopback = {}
    Tags = {1}
    Keys <- OneKey
    SharedStates <- MCContents
    MaxRevision = 9
    Loops <- FaultLoops
    MaxCalls = 4
    Data <- OwnContents
    Strategy <- EnforcePopular
    MaxCrashes = 1
    CrashAt = {"await", "pending", "sync", "distribute", "synced"}
    MaxConnectFaults = 0
    MaxIoFaults = 2
SPECIFICATION Spec
CHECK_DEADLOCK FALSE
INVARIANTS ReduceAgreement OneOperation NoStaleAbort SyncAgreement WaitsInStep
PROPERTIES RunCompletes
