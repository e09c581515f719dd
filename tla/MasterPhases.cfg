\* Three clients, one of them over a loopback address that may be turned away, connect or fail to
\* connect, optimize the topology and run collective operations under two tags.
CONSTANTS
    p1 = p1  p2 = p2  p3 = p3
    Peers <- ThreePeers
    PeerGroup <- OneGroup
    Addr <- OneAddress
    ByUuid <- MCByUuid
    Loopback = {p3}
    Tags = {1, 2}
    Keys <- TwoKeys
    SharedStates <- FourContents
    MaxRevision = 0
    MaxSeqNr = 2
    Used = {"establish", "fail", "optimize", "reduce"}
SPECIFICATION Spec
CHECK_DEADLOCK FALSE
INVARIANTS TypeOK RegisteredOnlyConnects VotesMatchStates RunningWhileOperations PhasesInUnison OperationsInUnison NoForgottenVote
CONSTRAINT FewFailures
