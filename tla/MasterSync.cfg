\* Two clients query pending peers and synchronize shared states again and again, with
\* every strategy, contents and revision.
CONSTANTS
    p1 = p1  p2 = p2  p3 = p3
    Peers <- TwoPeers
    PeerGroup <- OneGroup
    Addr <- OneAddress
    ByUuid <- MCByUuid
    Loopback = {}
    Tags = {1}
    Keys <- TwoKeys
    SharedStates <- FourContents
    MaxRevision = 2
    MaxSeqNr = 2
    Used = {"establish", "query", "sync"}
SPECIFICATION Spec
CHECK_DEADLOCK FALSE
INVARIANTS DistributorsHoldElected SyncInUnison NoForgottenVote
PROPERTY RevisionsCountRounds
