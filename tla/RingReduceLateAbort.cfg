\* A peer crashes, or its connection breaks, when another one has already finished its part.
CONSTANTS
    Ops <- MCOps
    InPlace = {0, 1}
    MaxFaults = 1
SPECIFICATION Spec
INVARIANT FailureKeepsSource
CHECK_DEADLOCK FALSE
