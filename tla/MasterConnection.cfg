\* Two threads share the connection, which the master or the client closes at any moment.
CONSTANTS
    main = main  op = op
    Threads <- MCThreads
    Packets <- MCPackets
    Header = 2
    Size <- MCSize
    Rejected = {"vote"}
    Script <- MCScript
    Kind <- MCKind
    Replies <- MCReplies
SPECIFICATION Spec
CHECK_DEADLOCK FALSE
INVARIANTS NoLostWakeup HandledInOrder TakenInOrder
PROPERTIES EveryCallReturns
