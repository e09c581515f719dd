\* One operation at a time, of two.
SPECIFICATION Spec
CONSTANTS
  Count = 2
  MaxInFlight = 1
  MaxWorld = 2
  Tags = {1, 2}
INVARIANT SuccessMeansReduced
