SPECIFICATION FairSpec
CONSTANTS
  First = p1
  Proc = {p1, p2}
  Symbol = {s1}
  MaxCrashes = 1
  MaxFaults = 0
PROPERTIES SnapshotsGuaranteeRecovery
