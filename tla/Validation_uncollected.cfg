SPECIFICATION Spec
CONSTANTS
  Generated = {c1}
  MaxErrors = 0
  MaxLost = 0
INVARIANTS PassedMeansCollected
