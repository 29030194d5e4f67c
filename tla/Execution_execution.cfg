SPECIFICATION FairSpec
CONSTANTS
  Candidate = {c1}
  Baseline = base
  Content = {v0, v1}
  Original = v0
  MaxEdits = 2
  MaxErrors = 1
  MaxLost = 1
INVARIANTS TypeOK IntegrityDecides NothingLeaks 
PROPERTIES EventuallyEnds
