SPECIFICATION Spec
CONSTANTS
  Generated = {c1, c2}
  MaxErrors = 2
  MaxLost = 1
INVARIANTS TypeOK VerdictsFollowGates OnlyScreenedStaged NothingLeaks AbortLeavesNothing NodeIsAfterValidate
