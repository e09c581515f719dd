\* Clients join a run that optimizes its topology and reduces; moonshots install rings
\* at any time, and nothing fails.
CONSTANTS
    p1 = p1  p2 = p2  p3 = p3
    Peers <- ThreePeers
    PeerGroup <- OneGroup
    Addr <- OwnAddress
    ByUuid <- MCByUuid
    Loopback = {}
    Tags = {1}
    Keys <- OneKey
    SharedStates <- MCContents
    MaxRevision = 9
    Loops <- TrainLoop
    MaxCalls = 6
    Data <- OwnContents
    Strategy <- EnforcePopular
    MaxCrashes = 0
    CrashAt = {}
    MaxConnectFaults = 0
    MaxIoFaults = 0
SPECIFICATION Spec
INVARIANTS NobodyFails NoStalePacket ReadyConnected RingAgreement WaitsInStep
