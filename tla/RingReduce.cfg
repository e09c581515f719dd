\* A ring of two and of three, one crash or broken connection at any point. With fewer elements
\* than ranks a receiver can wait for ever, so the system may stop.
CONSTANTS
    Ops <- MCOps
    InPlace = {0, 1}
    MaxFaults = 1
SPECIFICATION Spec
INVARIANTS SuccessIsReduced SourceRestored FailsOnlyAfterFault
PROPERTY EveryoneReturns
CHECK_DEADLOCK FALSE
