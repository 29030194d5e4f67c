SPECIFICATION FairSpec
CONSTANTS
  Symbol = {s1, s2}
  Baseline = base
  MaxRequests = 5
  MaxRetries = 1
  MaxRepairs = 1
  MaxRestarts = 1
INVARIANTS TypeOK BudgetRespected CostBounded QuarantineHasCause DiagnosisSound
PROPERTIES EventuallyAnswered
