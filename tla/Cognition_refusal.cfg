SPECIFICATION Spec
CONSTANTS
  Symbol = {s1}
  Baseline = base
  MaxRequests = 3
  MaxRetries = 1
  MaxRepairs = 1
  MaxRestarts = 0
PROPERTIES RefusalIsTerminal
