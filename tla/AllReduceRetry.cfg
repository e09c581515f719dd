\* Four operations, three at a time.
SPECIFICATION Spec
CONSTANTS
  Count = 4
  MaxInFlight = 3
  MaxWorld = 3
  Tags = {1, 2, 3, 4}
INVARIANTS HandlesWithinLimit TypeOK CompletedOnce NothingPending
PROPERTY Returns
