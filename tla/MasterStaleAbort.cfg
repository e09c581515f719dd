\* Two clients leave in the middle of an operation.
CONSTANTS
    p1 = p1  p2 = p2  p3 = p3
    Peers <- TwoPeers
    PeerGroup <- OneGroup
    Addr <- OneAddress
    ByUuid <- MCByUuid
    Loopback = {}
    Tags = {1}
    Keys <- TwoKeys
    SharedStates <- FourContents
    MaxRevision = 0
    MaxSeqNr = 2
    Used = {"establish", "reduce"}
SPECIFICATION Spec
CHECK_DEADLOCK FALSE
INVARIANTS AbortOfOngoing
